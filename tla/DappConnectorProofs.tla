------------------------- MODULE DappConnectorProofs -------------------------
(***************************************************************************)
(* Theorems about DappConnector, for any tabs, sites, wallets, requests,   *)
(* windows and disturbances.                                               *)
(*                                                                         *)
(* DbExclusive and ConnectPromptKept are not inductive, nor is TypeOK: a   *)
(* handler takes the tail of dbQueue, which is a queue only if the handler *)
(* is at its head, and a window answers the ConnectedSite of a tab, which  *)
(* must be the one of a request that still waits.  IInv adds the shape of  *)
(* the queue (Distinct, Queued), what the windows and the PendingSigns     *)
(* refer to (Windows, Signing), and who is behind a ConnectedSite (Prompt).*)
(* Every action changes the handlers in one of three ways (one moves on,   *)
(* one arrives, one is answered): a lemma per way and per part of IInv is  *)
(* cited by the lemmas of the actions.                                     *)
(***************************************************************************)
EXTENDS DappConnector, TLAPS

\* Handlers that have not asked the user, and that are inside withDb.
Early == {"new", "queued", "checked", "selected"}
InDb  == {"checked", "selected", "asked", "answered"}

\* What a request that was received knows.
Arrived ==
    \A r \in Req :
       /\ rpc[r].pc # "new" =>
             rpc[r].tab \in Tab /\ rpc[r].site \in Site /\ rpc[r].kind \in AnyKind
       /\ rpc[r].pc = "checked" => rpc[r].kind \in ConnectKind

\* The mutex: nobody waits twice, whoever waits is waiting, only the first runs.
Distinct ==
    \A i, j \in 1..Len(dbQueue) : dbQueue[i] = dbQueue[j] => i = j

Queued ==
    /\ \A i \in 1..Len(dbQueue), r \in Req : dbQueue[i] = <<"rpc", r>> =>
          /\ rpc[r].pc \notin {"new", "done"} /\ NeedsDb(rpc[r].kind)
          /\ i # 1 => rpc[r].pc = "queued"
    /\ \A i \in 1..Len(dbQueue), w \in Window : dbQueue[i] = <<"ui", w>> =>
          job[w].what # "idle"

\* A window belongs to a request that asked; it waits for the database for one thing.
Windows ==
    /\ \A r \in Req : rpc[r].pc \in Early => win[r].st = "none" /\ job[r].what = "idle"
    /\ \A w \in Window : win[w].st \in {"loading", "fetched", "ready", "unguarded"} =>
          job[w].what = "idle"
    /\ \A w \in Window : win[w].conn # NULL => rpc[win[w].conn].pc # "new"
    /\ \A w \in Window : win[w].sign # NULL => rpc[win[w].sign].pc # "new"

\* PendingSigns are signing requests, and so is the request a confirmation is for.
Signing ==
    /\ \A c, r \in Req : r \in conn[c].pend => rpc[r].pc # "new" /\ rpc[r].kind \in SignKind
    /\ \A w \in Window : job[w].what = "sign" =>
          job[w].req \in Req /\ rpc[job[w].req].pc # "new" /\ rpc[job[w].req].kind \in SignKind

\* The ConnectedSites of the Map, and the one connect request that waits for the user
\* or was just answered.
Prompt ==
    /\ \A t \in Tab : SiteOf(t) # NULL => rpc[SiteOf(t)].pc \in {"asked", "answered", "done"}
    /\ \A t \in Tab : Pending(t) => /\ rpc[SiteOf(t)].pc = "asked"
                                    /\ rpc[SiteOf(t)].tab = t
                                    /\ rpc[SiteOf(t)].kind \in ConnectKind
    /\ \A r \in Req : rpc[r].pc = "asked" /\ rpc[r].kind \in ConnectKind
                         => Pending(rpc[r].tab) /\ SiteOf(rpc[r].tab) = r
    /\ \A r \in Req : rpc[r].pc = "answered" /\ rpc[r].kind \in ConnectKind =>
          /\ rpc[r].ok => Connected(rpc[r].tab)
          /\ ~rpc[r].ok => SiteOf(rpc[r].tab) = NULL

Mutex == Distinct /\ Queued /\ DbExclusive

IInv == TypeOK /\ Arrived /\ Mutex /\ Windows /\ Signing /\ Prompt

-----------------------------------------------------------------------------
(* What the steps have in common. *)

\* The handler of r moves on to pc.
Moves(r, pc) ==
    /\ rpc' \in [Req -> Rpc]
    /\ \A q \in Req : q # r => rpc'[q] = rpc[q]
    /\ rpc'[r].pc = pc
    /\ rpc'[r].kind = rpc[r].kind /\ rpc'[r].tab = rpc[r].tab /\ rpc'[r].site = rpc[r].site

LEMMA HolderIsFirst ==
    ASSUME TypeOK, NEW task, Holds(task)
    PROVE  /\ Len(dbQueue) \in Nat /\ 1 \in 1..Len(dbQueue) /\ dbQueue[1] = task
           /\ Tail(dbQueue) \in Seq(Task)
           /\ Len(Tail(dbQueue)) = Len(dbQueue) - 1
           /\ \A i \in 1..Len(Tail(dbQueue)) :
                 i + 1 \in 1..Len(dbQueue) /\ Tail(dbQueue)[i] = dbQueue[i + 1]
BY DEF TypeOK, Holds

LEMMA HolderIsOne ==
    ASSUME NEW r, NEW q, Holds(<<"rpc", r>>), Holds(<<"rpc", q>>)
    PROVE  r = q
BY DEF Holds

LEMMA ArrivedMoves ==
    ASSUME Arrived, NEW r \in Req, NEW pc, Moves(r, pc), rpc[r].pc # "new",
           pc = "checked" => rpc[r].kind \in ConnectKind
    PROVE  Arrived'
BY DEF Arrived, Moves

LEMMA MutexMoves ==
    ASSUME TypeOK, Mutex, NEW r \in Req, NEW pc \in InDb, Moves(r, pc),
           rpc[r].pc \notin {"new", "done"},
           NeedsDb(rpc[r].kind) => Holds(<<"rpc", r>>),
           UNCHANGED dbQueue,
           \A w \in Window : job[w].what # "idle" => job'[w].what # "idle"
    PROVE  Mutex'
<1>1. Distinct'
    BY DEF Mutex, Distinct
<1>2. Queued'
  <2>1. ASSUME NEW i \in 1..Len(dbQueue), NEW q \in Req, dbQueue[i] = <<"rpc", q>>
        PROVE  /\ rpc'[q].pc \notin {"new", "done"} /\ NeedsDb(rpc'[q].kind)
               /\ i # 1 => rpc'[q].pc = "queued"
    <3>1. CASE q # r
        BY <2>1, <3>1 DEF Mutex, Queued, Moves
    <3>2. CASE q = r
      <4>1. NeedsDb(rpc[r].kind)
          BY <2>1, <3>2 DEF Mutex, Queued
      <4>2. i = 1
          BY <2>1, <3>2, <4>1, HolderIsFirst DEF Mutex, Distinct
      <4> QED BY <3>2, <4>1, <4>2 DEF Moves, InDb
    <3> QED BY <3>1, <3>2
  <2> QED BY <2>1 DEF Mutex, Queued
<1>3. DbExclusive'
    BY DEF Mutex, DbExclusive, Moves, Holds
<1> QED BY <1>1, <1>2, <1>3 DEF Mutex

\* Some requests that waited for the user are answered.
Answers ==
    /\ rpc' \in [Req -> Rpc]
    /\ \A q \in Req :
          /\ rpc'[q].kind = rpc[q].kind /\ rpc'[q].tab = rpc[q].tab /\ rpc'[q].site = rpc[q].site
          /\ \/ rpc'[q].pc = rpc[q].pc
             \/ rpc[q].pc = "asked" /\ rpc'[q].pc = "answered"

LEMMA ArrivedAnswers ==
    ASSUME Arrived, Answers
    PROVE  Arrived'
BY DEF Arrived, Answers

LEMMA MutexRelease ==
    ASSUME TypeOK, Mutex, NEW r \in Req, Moves(r, "done"),
           rpc[r].pc \notin {"new", "done"},
           NeedsDb(rpc[r].kind) => Holds(<<"rpc", r>>),
           Release(rpc[r].kind), UNCHANGED job
    PROVE  Mutex' /\ dbQueue' \in Seq(Task)
<1>1. CASE ~NeedsDb(rpc[r].kind)
  <2>1. UNCHANGED dbQueue
      BY <1>1 DEF Release
  <2> QED BY <1>1, <2>1 DEF Mutex, Distinct, Queued, DbExclusive, Moves, Holds, TypeOK
<1>2. CASE NeedsDb(rpc[r].kind)
  <2>1. dbQueue' = Tail(dbQueue) /\ Holds(<<"rpc", r>>)
      BY <1>2 DEF Release
  <2>2. /\ Len(dbQueue) \in Nat /\ 1 \in 1..Len(dbQueue) /\ dbQueue[1] = <<"rpc", r>>
        /\ dbQueue' \in Seq(Task)
        /\ Len(dbQueue') = Len(dbQueue) - 1
        /\ \A i \in 1..Len(dbQueue') : i + 1 \in 1..Len(dbQueue) /\ dbQueue'[i] = dbQueue[i + 1]
      BY <2>1, HolderIsFirst
  <2>3. Distinct'
      BY <2>2 DEF Mutex, Distinct
  <2>4. \A i \in 1..Len(dbQueue') : dbQueue'[i] # <<"rpc", r>>
    <3>1. ASSUME NEW i \in 1..Len(dbQueue'), dbQueue[i + 1] = dbQueue[1] PROVE FALSE
      <4>1. i + 1 \in 1..Len(dbQueue) /\ 1 \in 1..Len(dbQueue) /\ i + 1 # 1
          BY <2>2
      <4> QED BY <3>1, <4>1 DEF Mutex, Distinct
    <3> QED BY <2>2, <3>1
  <2>5. Queued'
    <3>1. ASSUME NEW i \in 1..Len(dbQueue'), NEW q \in Req, dbQueue'[i] = <<"rpc", q>>
          PROVE  rpc'[q].pc \notin {"new", "done"} /\ NeedsDb(rpc'[q].kind)
                 /\ rpc'[q].pc = "queued"
      <4>1. q # r /\ i + 1 \in 1..Len(dbQueue) /\ dbQueue[i + 1] = <<"rpc", q>> /\ i + 1 # 1
          BY <2>2, <2>4, <3>1
      <4> QED BY <4>1 DEF Mutex, Queued, Moves
    <3> QED BY <2>2, <3>1 DEF Mutex, Queued
  <2>6. DbExclusive'
    <3>1. ASSUME NEW q \in Req, rpc'[q].pc \in InDb, NeedsDb(rpc'[q].kind)
          PROVE  FALSE
      <4>1. q # r
          BY <3>1 DEF Moves, InDb
      <4>2. Holds(<<"rpc", q>>)
          BY <3>1, <4>1 DEF Mutex, DbExclusive, Moves, InDb
      <4> QED BY <2>1, <4>1, <4>2, HolderIsOne
    <3> QED BY <3>1 DEF DbExclusive, InDb
  <2> QED BY <2>2, <2>3, <2>5, <2>6 DEF Mutex
<1> QED BY <1>1, <1>2

LEMMA MutexAnswers ==
    ASSUME TypeOK, Mutex, Answers, UNCHANGED dbQueue,
           \A w \in Window : job[w].what # "idle" => job'[w].what # "idle"
    PROVE  Mutex'
BY DEF Mutex, Distinct, Queued, DbExclusive, Answers, Holds

LEMMA MutexUiDone ==
    ASSUME TypeOK, Mutex, Answers, NEW w \in Window, Holds(<<"ui", w>>),
           dbQueue' = Tail(dbQueue), \A v \in Window : v # w => job'[v] = job[v]
    PROVE  Mutex' /\ dbQueue' \in Seq(Task)
<1>1. /\ Len(dbQueue) \in Nat /\ 1 \in 1..Len(dbQueue) /\ dbQueue[1] = <<"ui", w>>
      /\ dbQueue' \in Seq(Task)
      /\ Len(dbQueue') = Len(dbQueue) - 1
      /\ \A i \in 1..Len(dbQueue') : i + 1 \in 1..Len(dbQueue) /\ dbQueue'[i] = dbQueue[i + 1]
    BY HolderIsFirst
<1>2. Distinct'
    BY <1>1 DEF Mutex, Distinct
<1>3. \A i \in 1..Len(dbQueue') : dbQueue'[i] # <<"ui", w>>
  <2>1. ASSUME NEW i \in 1..Len(dbQueue'), dbQueue[i + 1] = dbQueue[1] PROVE FALSE
    <3>1. i + 1 \in 1..Len(dbQueue) /\ 1 \in 1..Len(dbQueue) /\ i + 1 # 1
        BY <1>1
    <3> QED BY <2>1, <3>1 DEF Mutex, Distinct
  <2> QED BY <1>1, <2>1
<1>4. ASSUME NEW i \in 1..Len(dbQueue'), NEW q \in Req, dbQueue'[i] = <<"rpc", q>>
      PROVE  rpc'[q].pc = "queued" /\ NeedsDb(rpc'[q].kind)
  <2>1. i + 1 \in 1..Len(dbQueue) /\ dbQueue[i + 1] = <<"rpc", q>> /\ i + 1 # 1
      BY <1>1, <1>4
  <2> QED BY <2>1 DEF Mutex, Queued, Answers
<1>5. ASSUME NEW i \in 1..Len(dbQueue'), NEW v \in Window, dbQueue'[i] = <<"ui", v>>
      PROVE  job'[v].what # "idle"
  <2>1. v # w /\ i + 1 \in 1..Len(dbQueue) /\ dbQueue[i + 1] = <<"ui", v>>
      BY <1>1, <1>3, <1>5
  <2> QED BY <2>1 DEF Mutex, Queued
<1>6. Queued'
    BY <1>4, <1>5 DEF Queued
<1>7. DbExclusive'
  <2>1. \A q \in Req : rpc[q].pc \in InDb /\ NeedsDb(rpc[q].kind) => FALSE
      BY DEF Mutex, DbExclusive, Holds, InDb
  <2> QED BY <2>1 DEF DbExclusive, Answers, InDb
<1> QED BY <1>1, <1>2, <1>6, <1>7 DEF Mutex

LEMMA NoneInDb ==
    ASSUME Mutex, NEW w, Holds(<<"ui", w>>), NEW q \in Req, NeedsDb(rpc[q].kind)
    PROVE  rpc[q].pc \notin InDb
BY DEF Mutex, DbExclusive, Holds, InDb

LEMMA MutexUiWaits ==
    ASSUME TypeOK, Mutex, UNCHANGED rpc, NEW w \in Window, job[w].what = "idle",
           dbQueue' = Append(dbQueue, <<"ui", w>>), job'[w].what # "idle",
           \A v \in Window : v # w => job'[v] = job[v]
    PROVE  Mutex' /\ dbQueue' \in Seq(Task)
<1>1. <<"ui", w>> \in Task
    BY DEF Task
<1>2. /\ Len(dbQueue) \in Nat /\ dbQueue' \in Seq(Task) /\ Len(dbQueue') = Len(dbQueue) + 1
      /\ \A i \in 1..Len(dbQueue) : dbQueue'[i] = dbQueue[i]
      /\ dbQueue'[Len(dbQueue')] = <<"ui", w>>
    BY <1>1 DEF TypeOK
<1>3. \A i \in 1..Len(dbQueue) : dbQueue[i] # <<"ui", w>>
    BY DEF Mutex, Queued
<1>4. Distinct'
    BY <1>2, <1>3 DEF Mutex, Distinct
<1>5. \A i \in 1..Len(dbQueue'), r \in Req : dbQueue'[i] = <<"rpc", r>> =>
         i \in 1..Len(dbQueue) /\ dbQueue[i] = <<"rpc", r>>
    BY <1>2
<1>6. Queued'
  <2>1. ASSUME NEW i \in 1..Len(dbQueue'), NEW v \in Window, dbQueue'[i] = <<"ui", v>>
        PROVE  job'[v].what # "idle"
    <3>1. CASE v = w
        BY <3>1
    <3>2. CASE v # w
      <4>1. i \in 1..Len(dbQueue) /\ dbQueue[i] = <<"ui", v>>
          BY <1>2, <2>1, <3>2
      <4> QED BY <3>2, <4>1 DEF Mutex, Queued
    <3> QED BY <3>1, <3>2
  <2> QED BY <1>5, <2>1 DEF Mutex, Queued
<1>7. ASSUME NEW task, Holds(task) PROVE Holds(task)'
    BY <1>2, <1>7, HolderIsFirst DEF Holds, TypeOK
<1>8. DbExclusive'
    BY <1>7 DEF Mutex, DbExclusive
<1> QED BY <1>2, <1>4, <1>6, <1>8 DEF Mutex

LEMMA WindowsMoves ==
    ASSUME TypeOK, Windows, NEW r \in Req, NEW pc, Moves(r, pc), rpc[r].pc \in Early \/ pc \notin Early,
           pc # "new", UNCHANGED <<win, job>>
    PROVE  Windows'
<1>1. \A q \in Req : rpc'[q].pc \in Early => rpc[q].pc \in Early
    BY DEF Moves
<1>2. \A q \in Req : rpc[q].pc # "new" => rpc'[q].pc # "new"
    BY DEF Moves
<1> QED BY <1>1, <1>2 DEF Windows, TypeOK, Win

LEMMA WindowsUser ==
    ASSUME TypeOK, Windows, Answers, NEW w \in Window,
           w \in Req => win[w].st # "none" \/ job[w].what # "idle",
           \A v \in Window : v # w => win'[v] = win[v] /\ job'[v] = job[v],
           win'[w].st \in {"loading", "fetched", "ready", "unguarded"} => job'[w].what = "idle",
           win'[w].conn \in {NULL, win[w].conn},
           \/ win'[w].sign \in {NULL, win[w].sign}
           \/ win'[w].sign \in Req /\ rpc[win'[w].sign].pc # "new"
    PROVE  Windows'
<1>1. w \in Req => rpc[w].pc \notin Early /\ rpc'[w].pc \notin Early
    BY DEF Windows, Answers, Early, Window
<1>2. \A q \in Req : rpc'[q].pc \in Early => win'[q].st = "none" /\ job'[q].what = "idle"
    BY <1>1 DEF Windows, Answers, Early, Window
<1>3. \A v \in Window : win[v].conn \in Req \cup {NULL} /\ win[v].sign \in Req \cup {NULL}
    BY DEF TypeOK, Win
<1>4. \A v \in Window : win'[v].conn # NULL => rpc'[win'[v].conn].pc # "new"
  <2>1. \A v \in Window : win'[v].conn # NULL => win[v].conn = win'[v].conn /\ win'[v].conn \in Req
      BY <1>3
  <2> QED BY <2>1 DEF Windows, Answers
<1>5. \A v \in Window : win'[v].sign # NULL => rpc'[win'[v].sign].pc # "new"
  <2>1. \A v \in Window : win'[v].sign # NULL =>
           win'[v].sign \in Req /\ (win[v].sign = win'[v].sign \/ rpc[win'[v].sign].pc # "new")
    <3>1. \A v \in Window \ {w} : win'[v].sign # NULL =>
             win'[v].sign \in Req /\ win[v].sign = win'[v].sign
        BY <1>3
    <3>2. win'[w].sign # NULL =>
             win'[w].sign \in Req /\ (win[w].sign = win'[w].sign \/ rpc[win'[w].sign].pc # "new")
        BY <1>3
    <3> QED BY <3>1, <3>2
  <2> QED BY <2>1 DEF Windows, Answers
<1> QED BY <1>2, <1>4, <1>5 DEF Windows

LEMMA SigningStep ==
    ASSUME TypeOK, Signing,
           \A q \in Req : rpc[q].pc # "new" => rpc'[q].pc # "new" /\ rpc'[q].kind = rpc[q].kind,
           \A c \in Req : \A q \in Req : q \in conn'[c].pend =>
              q \in conn[c].pend \/ (rpc'[q].pc # "new" /\ rpc'[q].kind \in SignKind),
           \A w \in Window : \/ job'[w] = job[w] \/ job'[w].what # "sign"
                             \/ /\ job'[w].req \in Req /\ rpc'[job'[w].req].pc # "new"
                                /\ rpc'[job'[w].req].kind \in SignKind
    PROVE  Signing'
BY DEF Signing

\* No ConnectedSite is accepted, refused or created.
Status == \A c \in Req : conn'[c].status = conn[c].status

LEMMA StatusKept ==
    ASSUME TypeOK, UNCHANGED connectedSites, Status, NEW t \in Tab
    PROVE  Pending(t)' = Pending(t) /\ Connected(t)' = Connected(t) /\ SiteOf(t)' = SiteOf(t)
BY DEF Pending, Connected, SiteOf, Status, TypeOK

LEMMA PromptMoves ==
    ASSUME TypeOK, Arrived, Prompt, NEW r \in Req, NEW pc, Moves(r, pc),
           rpc[r].pc \notin {"new", "asked"},
           rpc[r].pc \in {"answered", "done"} => pc \in {"asked", "answered", "done"},
           rpc[r].kind \in ConnectKind => pc \notin {"asked", "answered"},
           UNCHANGED connectedSites, Status
    PROVE  Prompt'
<1>1. \A t \in Tab : SiteOf(t)' # NULL => SiteOf(t)' \in Req /\ SiteOf(t)' = SiteOf(t)
    BY StatusKept DEF TypeOK, SiteOf
<1>2. \A t \in Tab : SiteOf(t)' # NULL => rpc'[SiteOf(t)'].pc \in {"asked", "answered", "done"}
    BY <1>1 DEF Prompt, Moves
<1>3. ASSUME NEW t \in Tab, Pending(t)'
      PROVE  /\ rpc'[SiteOf(t)'].pc = "asked" /\ rpc'[SiteOf(t)'].tab = t
             /\ rpc'[SiteOf(t)'].kind \in ConnectKind
  <2>1. Pending(t) /\ SiteOf(t)' = SiteOf(t) /\ SiteOf(t) \in Req
      BY <1>3, StatusKept DEF Pending, SiteOf, TypeOK
  <2> QED BY <2>1 DEF Prompt, Moves
<1>4. ASSUME NEW q \in Req, rpc'[q].pc \in {"asked", "answered"}, rpc'[q].kind \in ConnectKind
      PROVE  rpc'[q] = rpc[q] /\ rpc[q].tab \in Tab
    BY <1>4 DEF Moves, Arrived
<1> QED BY <1>2, <1>3, <1>4, StatusKept DEF Prompt

LEMMA PromptAnswers ==
    ASSUME TypeOK, Arrived, Prompt, Answers,
           \A q \in Req : rpc'[q] = rpc[q] \/ rpc[q].kind \notin ConnectKind,
           UNCHANGED connectedSites, Status
    PROVE  Prompt'
<1>1. \A t \in Tab : SiteOf(t)' # NULL => SiteOf(t)' \in Req /\ SiteOf(t)' = SiteOf(t)
    BY StatusKept DEF TypeOK, SiteOf
<1>2. \A t \in Tab : SiteOf(t)' # NULL => rpc'[SiteOf(t)'].pc \in {"asked", "answered", "done"}
    BY <1>1 DEF Prompt, Answers
<1>3. ASSUME NEW t \in Tab, Pending(t)'
      PROVE  /\ rpc'[SiteOf(t)'].pc = "asked" /\ rpc'[SiteOf(t)'].tab = t
             /\ rpc'[SiteOf(t)'].kind \in ConnectKind
  <2>1. Pending(t) /\ SiteOf(t)' = SiteOf(t) /\ SiteOf(t) \in Req
      BY <1>3, StatusKept DEF Pending, SiteOf, TypeOK
  <2> QED BY <2>1 DEF Prompt
<1>4. ASSUME NEW q \in Req, rpc'[q].pc \in {"asked", "answered"}, rpc'[q].kind \in ConnectKind
      PROVE  rpc'[q] = rpc[q] /\ rpc[q].tab \in Tab
    BY <1>4 DEF Answers, Arrived
<1> QED BY <1>2, <1>3, <1>4, StatusKept DEF Prompt

LEMMA PromptDrop ==
    ASSUME TypeOK, Arrived, Prompt, NEW t, DropMissing(t), Status,
           \A q \in Req : rpc[q].kind \in ConnectKind => rpc[q].pc \notin {"asked", "answered"},
           \A q \in Req : rpc'[q].kind = rpc[q].kind,
           \A q \in Req : rpc[q].kind \in ConnectKind => rpc'[q].pc \notin {"asked", "answered"},
           \A q \in Req : rpc[q].pc \in {"asked", "answered", "done"} =>
                          rpc'[q].pc \in {"asked", "answered", "done"}
    PROVE  Prompt'
<1>1. \A u \in Tab : connectedSites'[u] # NULL => connectedSites'[u] = SiteOf(u)
    BY DEF DropMissing, TypeOK, SiteOf
<1>2. \A u \in Tab : ~Pending(u)
    BY DEF Prompt, Pending, SiteOf, TypeOK
<1>3. \A u \in Tab : ~Pending(u)'
    BY <1>1, <1>2 DEF Pending, SiteOf, Status, TypeOK
<1> QED BY <1>1, <1>3 DEF Prompt, SiteOf, TypeOK

LEMMA RespondMoves ==
    ASSUME TypeOK, NEW r \in Req, NEW ok \in BOOLEAN, NEW x \in Wallet \cup {NULL},
           NEW q \in Req \cup {NULL}, Respond(r, ok, x, q)
    PROVE  Moves(r, "done") /\ rpc'[r].ok = ok
<1> DEFINE rec == [rpc[r] EXCEPT !.pc = "done", !.found = NoEntry, !.conn = NULL,
                                  !.ok = ok, !.wallet = x, !.signed = q]
<1>1. rpc[r] \in Rpc /\ rpc \in [Req -> Rpc] /\ NoEntry \in Entry
    BY DEF TypeOK, Entry
<1>2. rpc' = [rpc EXCEPT ![r] = rec]
    BY DEF Respond
<1>3. rec \in Rpc
    BY <1>1 DEF Rpc
<1>4. /\ rec.pc = "done" /\ rec.ok = ok
      /\ rec.kind = rpc[r].kind /\ rec.tab = rpc[r].tab /\ rec.site = rpc[r].site
    BY <1>1 DEF Rpc
<1> HIDE DEF rec
<1> QED BY <1>1, <1>2, <1>3, <1>4 DEF Moves

LEMMA ResolveAnswers ==
    ASSUME TypeOK, NEW r \in Req, NEW ok \in BOOLEAN, NEW q \in Req \cup {NULL},
           rpc' = Resolve(r, ok, q)
    PROVE  Answers /\ \A p \in Req : p # r => rpc'[p] = rpc[p]
<1> DEFINE rec == [rpc[r] EXCEPT !.pc = "answered", !.ok = ok, !.signed = q]
<1>1. rpc[r] \in Rpc /\ rpc \in [Req -> Rpc]
    BY DEF TypeOK
<1>2. rpc' = IF rpc[r].pc = "asked" THEN [rpc EXCEPT ![r] = rec] ELSE rpc
    BY DEF Resolve
<1>3. rec \in Rpc
    BY <1>1 DEF Rpc
<1>4. /\ rec.pc = "answered"
      /\ rec.kind = rpc[r].kind /\ rec.tab = rpc[r].tab /\ rec.site = rpc[r].site
    BY <1>1 DEF Rpc
<1> HIDE DEF rec
<1> QED BY <1>1, <1>2, <1>3, <1>4 DEF Answers

LEMMA StillAnswers ==
    ASSUME TypeOK, UNCHANGED rpc
    PROVE  Answers
<1>1. rpc \in [Req -> Rpc]
    BY DEF TypeOK
<1> QED BY <1>1 DEF Answers

LEMMA DropTyped ==
    ASSUME TypeOK, NEW t, DropMissing(t)
    PROVE  /\ connectedSites' \in [Tab -> Req \cup {NULL}] /\ whitelist' \in [Site -> Entry]
BY DEF TypeOK, DropMissing, Entry

-----------------------------------------------------------------------------
(* One lemma per action. *)

LEMMA ReceiveKeeps ==
    ASSUME IInv, NEW r \in Req, NEW t \in Tab, NEW k \in Kind, Receive(r, t, k)
    PROVE  IInv'
<1>1. k \in AnyKind /\ k # "new"
    BY ConstantsAssumption DEF AnyKind, ConnectKind, SignKind, DbSignKind
<1>2. page' \in [Tab -> Page]
  <2>1. page \in [Tab -> Page] /\ page[t] \in Page
      BY DEF IInv, TypeOK
  <2> DEFINE n == IF k \in ConnectKind THEN page[t].uid ELSE page[t].uid + 1
  <2>2. n \in Nat
      BY <2>1 DEF Page
  <2>3. page' = [page EXCEPT ![t].uid = n]
      BY <2>1 DEF Receive
  <2> HIDE DEF n
  <2>4. [page[t] EXCEPT !.uid = n] \in Page
      BY <2>1, <2>2 DEF Page
  <2> QED BY <2>1, <2>3, <2>4
<1>3. PICK rec \in Rpc : /\ rpc' = [rpc EXCEPT ![r] = rec]
                         /\ rec.pc \in {"queued", "done", "selected"}
                         /\ rec.kind = k /\ rec.tab = t /\ rec.site = page[t].site
                         /\ IF NeedsDb(k) THEN rec.pc = "queued"
                                               /\ dbQueue' = Append(dbQueue, <<"rpc", r>>)
                            ELSE rec.pc # "queued" /\ dbQueue' = dbQueue
  <2> DEFINE arrived == [NewRpc EXCEPT !.pc = "queued", !.kind = k, !.tab = t,
                              !.site = page[t].site, !.load = page[t].load,
                              !.uid = IF k \in ConnectKind THEN 0 ELSE page[t].uid]
  <2>1. page[t] \in Page /\ SiteOf(t) \in Req \cup {NULL}
      BY DEF IInv, TypeOK, SiteOf
  <2>2. arrived \in Rpc /\ arrived.pc = "queued" /\ arrived.kind = k /\ arrived.tab = t
        /\ arrived.site = page[t].site
      BY <1>1, <2>1 DEF Rpc, Page, NewRpc, Entry
  <2> HIDE DEF arrived
  <2>3. [arrived EXCEPT !.pc = "done"] \in Rpc
        /\ [arrived EXCEPT !.pc = "selected", !.conn = SiteOf(t)] \in Rpc
      BY <2>1, <2>2 DEF Rpc
  <2>4. CASE NeedsDb(k)
      BY <2>2, <2>4 DEF Receive, arrived
  <2>5. CASE ~NeedsDb(k) /\ SiteOf(t) = NULL
    <3>1. rpc' = [rpc EXCEPT ![r] = [arrived EXCEPT !.pc = "done"]] /\ dbQueue' = dbQueue
        BY <2>5 DEF Receive, arrived
    <3>2. /\ [arrived EXCEPT !.pc = "done"].pc = "done"
          /\ [arrived EXCEPT !.pc = "done"].kind = k /\ [arrived EXCEPT !.pc = "done"].tab = t
          /\ [arrived EXCEPT !.pc = "done"].site = page[t].site
        BY <2>2 DEF Rpc
    <3> QED BY <2>3, <2>5, <3>1, <3>2
  <2>6. CASE ~NeedsDb(k) /\ SiteOf(t) # NULL
    <3>1. /\ rpc' = [rpc EXCEPT ![r] = [arrived EXCEPT !.pc = "selected", !.conn = SiteOf(t)]]
          /\ dbQueue' = dbQueue
        BY <2>6 DEF Receive, arrived
    <3> QED BY <2>2, <2>3, <2>6, <3>1 DEF Rpc
  <2> QED BY <2>4, <2>5, <2>6
<1>4. /\ rpc[r].pc = "new" /\ rpc' \in [Req -> Rpc] /\ rpc'[r] = rec
      /\ \A q \in Req : q # r => rpc'[q] = rpc[q]
      /\ UNCHANGED <<connectedSites, conn, opened, whitelist, wallets, win, job>>
    BY <1>3 DEF IInv, TypeOK, Receive
<1>5. Arrived'
    BY <1>1, <1>3, <1>4 DEF IInv, Arrived, TypeOK, Page
<1>6. Mutex' /\ dbQueue' \in Seq(Task)
  <2>1. CASE ~NeedsDb(k)
    <3>1. \A i \in 1..Len(dbQueue) : dbQueue[i] # <<"rpc", r>>
        BY <1>4 DEF IInv, Mutex, Queued
    <3> QED BY <1>3, <1>4, <2>1, <3>1
            DEF IInv, TypeOK, Mutex, Distinct, Queued, DbExclusive, Holds
  <2>2. CASE NeedsDb(k)
    <3>1. <<"rpc", r>> \in Task
        BY DEF Task
    <3>2. /\ Len(dbQueue) \in Nat /\ dbQueue' \in Seq(Task) /\ Len(dbQueue') = Len(dbQueue) + 1
          /\ \A i \in 1..Len(dbQueue) : dbQueue'[i] = dbQueue[i]
          /\ dbQueue'[Len(dbQueue')] = <<"rpc", r>>
      <4>1. dbQueue \in Seq(Task) /\ dbQueue' = Append(dbQueue, <<"rpc", r>>)
          BY <1>3, <2>2 DEF IInv, TypeOK
      <4> QED BY <3>1, <4>1
    <3>3. \A i \in 1..Len(dbQueue) : dbQueue[i] # <<"rpc", r>>
        BY <1>4 DEF IInv, Mutex, Queued
    <3>4. Distinct'
        BY <3>2, <3>3 DEF IInv, Mutex, Distinct
    <3>5. ASSUME NEW i \in 1..Len(dbQueue'), NEW q \in Req, dbQueue'[i] = <<"rpc", q>>
          PROVE  /\ rpc'[q].pc \notin {"new", "done"} /\ NeedsDb(rpc'[q].kind)
                 /\ i # 1 => rpc'[q].pc = "queued"
      <4>1. CASE q = r
          BY <1>3, <1>4, <2>2, <4>1
      <4>2. CASE q # r
        <5>1. i \in 1..Len(dbQueue) /\ dbQueue[i] = <<"rpc", q>>
            BY <3>2, <3>5, <4>2
        <5> QED BY <1>4, <4>2, <5>1 DEF IInv, Mutex, Queued
      <4> QED BY <4>1, <4>2
    <3>6. \A i \in 1..Len(dbQueue'), w \in Window : dbQueue'[i] = <<"ui", w>> =>
             i \in 1..Len(dbQueue) /\ dbQueue[i] = <<"ui", w>>
        BY <3>2
    <3>7. Queued'
        BY <1>4, <3>5, <3>6 DEF IInv, Mutex, Queued
    <3>8. ASSUME NEW task, Holds(task) PROVE Holds(task)'
        BY <3>2, <3>8, HolderIsFirst DEF IInv, Holds, TypeOK
    <3>9. DbExclusive'
        BY <1>3, <1>4, <2>2, <3>8 DEF IInv, Mutex, DbExclusive
    <3> QED BY <3>2, <3>4, <3>7, <3>9 DEF Mutex
  <2> QED BY <2>1, <2>2
<1>7. TypeOK'
    BY <1>2, <1>4, <1>6 DEF IInv, TypeOK
<1>8. Windows'
  <2>1. \A w \in Window : /\ win[w].conn # NULL => win[w].conn \in Req /\ win[w].conn # r
                          /\ win[w].sign # NULL => win[w].sign \in Req /\ win[w].sign # r
      BY <1>4 DEF IInv, TypeOK, Win, Windows
  <2> QED BY <1>4, <2>1 DEF IInv, Windows, Early
<1>9. Signing'
    BY <1>4 DEF IInv, Signing
<1>10. Prompt'
  <2>1. \A u \in Tab : SiteOf(u) # NULL => SiteOf(u) \in Req /\ SiteOf(u) # r
      BY <1>4 DEF IInv, TypeOK, SiteOf, Prompt
  <2>2. \A u \in Tab : /\ SiteOf(u)' = SiteOf(u) /\ Pending(u)' = Pending(u)
                       /\ Connected(u)' = Connected(u)
      BY <1>4 DEF SiteOf, Pending, Connected
  <2>3. \A u \in Tab : Pending(u) => SiteOf(u) # NULL
      BY DEF Pending
  <2> QED BY <1>3, <1>4, <2>1, <2>2, <2>3 DEF IInv, Prompt, Arrived
<1> QED BY <1>5, <1>6, <1>7, <1>8, <1>9, <1>10 DEF IInv

LEMMA ReadWhitelistKeeps ==
    ASSUME IInv, NEW r \in Req, ReadWhitelist(r)
    PROVE  IInv'
<1>1. Moves(r, "checked") /\ rpc[r].pc = "queued" /\ rpc[r].kind \in ConnectKind
  <2>1. rpc[r] \in Rpc /\ rpc[r].site \in Site
      BY DEF IInv, TypeOK, ReadWhitelist, Arrived
  <2>2. Whitelisted(rpc[r].site, AuthRequested(rpc[r].kind)) \in Entry
      BY <2>1 DEF IInv, TypeOK, Whitelisted, Entry
  <2> QED BY <2>1, <2>2 DEF IInv, TypeOK, ReadWhitelist, Moves, Rpc
<1>2. /\ Holds(<<"rpc", r>>)
      /\ UNCHANGED <<page, connectedSites, conn, opened, whitelist, wallets, dbQueue, win, job>>
    BY DEF ReadWhitelist
<1>3. TypeOK'
    BY <1>1, <1>2 DEF IInv, TypeOK, Moves
<1>4. Arrived'
    BY <1>1, ArrivedMoves DEF IInv
<1>5. Mutex'
    BY <1>1, <1>2, MutexMoves DEF IInv, InDb
<1>6. Windows'
    BY <1>1, <1>2, WindowsMoves DEF IInv, Early
<1>7. Signing'
  <2>1. \A q \in Req : rpc[q].pc # "new" => rpc'[q].pc # "new" /\ rpc'[q].kind = rpc[q].kind
      BY <1>1 DEF Moves
  <2> QED BY <1>2, <2>1, SigningStep DEF IInv
<1>8. Prompt'
    BY <1>1, <1>2, PromptMoves DEF IInv, Status
<1> QED BY <1>3, <1>4, <1>5, <1>6, <1>7, <1>8 DEF IInv

LEMMA SigningMoves ==
    ASSUME TypeOK, Signing, NEW r \in Req, NEW pc, Moves(r, pc), pc # "new", rpc[r].pc # "new",
           UNCHANGED job,
           \A c, q \in Req : q \in conn'[c].pend =>
              q \in conn[c].pend \/ (q = r /\ rpc[r].kind \in SignKind)
    PROVE  Signing'
<1>1. \A q \in Req : rpc[q].pc # "new" => rpc'[q].pc # "new" /\ rpc'[q].kind = rpc[q].kind
    BY DEF Moves
<1>2. \A c \in Req : \A q \in Req : q \in conn'[c].pend =>
         q \in conn[c].pend \/ (rpc'[q].pc # "new" /\ rpc'[q].kind \in SignKind)
    BY DEF Moves
<1> QED BY <1>1, <1>2, SigningStep

LEMMA SigningAnswers ==
    ASSUME TypeOK, Signing, Answers, \A c, q \in Req : q \in conn'[c].pend => q \in conn[c].pend,
           \A w \in Window : \/ job'[w] = job[w] \/ job'[w].what # "sign"
                             \/ /\ job'[w].req \in Req /\ rpc[job'[w].req].pc # "new"
                                /\ rpc[job'[w].req].kind \in SignKind
    PROVE  Signing'
<1>1. \A q \in Req : rpc[q].pc # "new" => rpc'[q].pc # "new" /\ rpc'[q].kind = rpc[q].kind
    BY DEF Answers
<1> QED BY <1>1, SigningStep

\* A handler that ends: its answer is posted and the mutex released.
LEMMA EndKeeps ==
    ASSUME IInv, NEW r \in Req, Moves(r, "done"), rpc[r].pc \notin {"new", "done", "asked"},
           NeedsDb(rpc[r].kind) => Holds(<<"rpc", r>>), Release(rpc[r].kind),
           UNCHANGED <<page, connectedSites, conn, opened, whitelist, wallets, win, job>>
    PROVE  IInv'
<1>1. Mutex' /\ dbQueue' \in Seq(Task)
    BY MutexRelease DEF IInv
<1>2. TypeOK'
    BY <1>1 DEF IInv, TypeOK, Moves
<1>3. Arrived'
    BY ArrivedMoves DEF IInv
<1>4. Windows'
    BY WindowsMoves DEF IInv, Early
<1>5. Signing'
    BY SigningMoves DEF IInv
<1>6. Prompt'
    BY PromptMoves DEF IInv, Status
<1> QED BY <1>1, <1>2, <1>3, <1>4, <1>5, <1>6 DEF IInv

LEMMA ConnectSilentFailsKeeps ==
    ASSUME IInv, NEW r \in Req, ConnectSilentFails(r)
    PROVE  IInv'
<1>1. Moves(r, "done")
    BY RespondMoves DEF ConnectSilentFails, IInv
<1>2. NeedsDb(rpc[r].kind) => Holds(<<"rpc", r>>)
    BY DEF ConnectSilentFails, IInv, Mutex, DbExclusive
<1> QED BY <1>1, <1>2, EndKeeps DEF ConnectSilentFails

LEMMA RespondAtOnceKeeps ==
    ASSUME IInv, NEW r \in Req, RespondAtOnce(r)
    PROVE  IInv'
<1>1. rpc[r].wallet \in Wallet \cup {NULL}
    BY DEF IInv, TypeOK, Rpc
<1>2. Moves(r, "done")
    BY <1>1, RespondMoves DEF RespondAtOnce, IInv
<1>3. NeedsDb(rpc[r].kind) => Holds(<<"rpc", r>>)
    BY DEF RespondAtOnce, IInv, Mutex, DbExclusive
<1> QED BY <1>2, <1>3, EndKeeps DEF RespondAtOnce

LEMMA FinishKeeps ==
    ASSUME IInv, NEW r \in Req, Finish(r)
    PROVE  IInv'
<1>1. /\ rpc[r].wallet \in Wallet \cup {NULL} /\ rpc[r].ok \in BOOLEAN
      /\ rpc[r].signed \in Req \cup {NULL}
    BY DEF IInv, TypeOK, Rpc
<1>2. PICK ok \in BOOLEAN : Respond(r, ok, rpc[r].wallet, IF ok THEN rpc[r].signed ELSE NULL)
    BY <1>1 DEF Finish
<1>3. Moves(r, "done")
    BY <1>1, <1>2, RespondMoves DEF IInv
<1>4. NeedsDb(rpc[r].kind) => Holds(<<"rpc", r>>)
    BY DEF Finish, IInv, Mutex, DbExclusive
<1> QED BY <1>3, <1>4, EndKeeps DEF Finish

\* A connect request that holds the database is the only one past its start.
LEMMA AloneInDb ==
    ASSUME Mutex, NEW r \in Req, Holds(<<"rpc", r>>), NEW q \in Req, NeedsDb(rpc[q].kind), q # r
    PROVE  rpc[q].pc \notin InDb
BY DEF Mutex, DbExclusive, Holds, InDb

LEMMA ConnectNeedsDb ==
    ASSUME NEW k \in ConnectKind
    PROVE  NeedsDb(k)
BY DEF ConnectKind, NeedsDb

LEMMA WindowsAsks ==
    ASSUME TypeOK, Windows, NEW r \in Req, NEW pc, Moves(r, pc), rpc[r].pc \in Early,
           pc \notin Early, UNCHANGED job,
           \A w \in Window : w # r => win'[w] = win[w],
           r \in Window, win'[r].st = "loading", win'[r].conn = win[r].conn,
           win'[r].sign = win[r].sign
    PROVE  Windows'
<1>1. job[r].what = "idle"
    BY DEF Windows
<1>2. \A q \in Req : rpc'[q].pc \in Early => q # r /\ rpc[q].pc \in Early /\ q \in Window
    BY DEF Moves, Window
<1>3. \A w \in Window : /\ win'[w].conn = win[w].conn /\ (win[w].conn # NULL => win[w].conn \in Req)
                        /\ win'[w].sign = win[w].sign /\ (win[w].sign # NULL => win[w].sign \in Req)
    BY DEF TypeOK, Win
<1>4. \A q \in Req : rpc[q].pc # "new" => rpc'[q].pc # "new"
    BY DEF Moves, Early
<1>5. \A w \in Window : /\ win'[w].conn # NULL => rpc'[win'[w].conn].pc # "new"
                        /\ win'[w].sign # NULL => rpc'[win'[w].sign].pc # "new"
    BY <1>3, <1>4 DEF Windows
<1> QED BY <1>1, <1>2, <1>5 DEF Windows

LEMMA ConnectWhitelistedKeeps ==
    ASSUME IInv, NEW r \in Req, ConnectWhitelisted(r)
    PROVE  IInv'
<1> DEFINE t == rpc[r].tab
           x == rpc[r].found.wallet
<1>1. /\ rpc[r].pc = "checked" /\ rpc[r].found # NoEntry /\ Respond(r, TRUE, x, NULL)
      /\ Release(rpc[r].kind)
      /\ UNCHANGED <<page, opened, whitelist, wallets, win, job>>
    BY DEF ConnectWhitelisted
<1>2. x \in Wallet
  <2>1. rpc[r].found \in Entry
      BY DEF IInv, TypeOK, Rpc
  <2> QED BY <1>1, <2>1 DEF Entry
<1>3. t \in Tab /\ rpc[r].kind \in ConnectKind
    BY <1>1 DEF IInv, Arrived
<1>4. NeedsDb(rpc[r].kind) /\ Holds(<<"rpc", r>>)
    BY <1>1, <1>3, ConnectNeedsDb DEF IInv, Mutex, DbExclusive
<1>5. Moves(r, "done")
    BY <1>1, <1>2, RespondMoves DEF IInv
<1>6. Mutex' /\ dbQueue' \in Seq(Task)
    BY <1>1, <1>4, <1>5, MutexRelease DEF IInv
<1> DEFINE new == [status |-> "connected", wallet |-> x, pend |-> {}]
<1>7. /\ connectedSites' = IF SiteOf(t) = NULL THEN [connectedSites EXCEPT ![t] = r] ELSE connectedSites
      /\ conn' = IF SiteOf(t) = NULL THEN [conn EXCEPT ![r] = new] ELSE conn
    BY DEF ConnectWhitelisted
<1>8. new \in ConnectedSite /\ new.status = "connected" /\ new.pend = {}
    BY <1>2 DEF ConnectedSite
<1> HIDE DEF x, t, new
<1>9. TypeOK'
  <2>1. connectedSites' \in [Tab -> Req \cup {NULL}] /\ conn' \in [Req -> ConnectedSite]
      BY <1>7, <1>8 DEF IInv, TypeOK
  <2> QED BY <1>1, <1>5, <1>6, <2>1 DEF IInv, TypeOK, Moves
<1>10. Arrived'
    BY <1>1, <1>5, ArrivedMoves DEF IInv
<1>11. Windows'
    BY <1>1, <1>5, WindowsMoves DEF IInv, Early
<1>12. Signing'
  <2>1. \A c, q \in Req : q \in conn'[c].pend => q \in conn[c].pend
      BY <1>7, <1>8 DEF IInv, TypeOK
  <2> QED BY <1>1, <1>5, <2>1, SigningMoves DEF IInv
<1>13. Prompt'
  <2>1. ASSUME NEW q \in Req, rpc'[q].pc \in {"asked", "answered"}, rpc'[q].kind \in ConnectKind
        PROVE  FALSE
    <3>1. q # r /\ rpc[q].pc \in InDb /\ rpc[q].kind \in ConnectKind
        BY <1>5, <2>1 DEF Moves, InDb
    <3> QED BY <1>4, <3>1, AloneInDb, ConnectNeedsDb DEF IInv
  <2>2. ASSUME NEW u \in Tab, connectedSites'[u] # NULL
        PROVE  rpc'[connectedSites'[u]].pc \in {"asked", "answered", "done"}
    <3>1. connectedSites'[u] = r \/ (connectedSites'[u] = SiteOf(u) /\ SiteOf(u) \in Req)
        BY <1>3, <1>7, <2>2 DEF IInv, TypeOK, SiteOf
    <3> QED BY <1>5, <2>2, <3>1 DEF IInv, Prompt, Moves
  <2>3. \A u \in Tab : ~Pending(u)
    <3>1. ASSUME NEW u \in Tab, Pending(u) PROVE FALSE
      <4>1. SiteOf(u) \in Req /\ rpc[SiteOf(u)].pc = "asked" /\ rpc[SiteOf(u)].kind \in ConnectKind
          BY <3>1 DEF IInv, TypeOK, Pending, SiteOf, Prompt
      <4>2. SiteOf(u) # r
          BY <1>1, <4>1
      <4> QED BY <1>4, <4>1, <4>2, AloneInDb, ConnectNeedsDb DEF IInv, InDb
    <3> QED BY <3>1
  <2>4. \A u \in Tab : ~Pending(u)'
    <3>1. ASSUME NEW u \in Tab, Pending(u)' PROVE FALSE
      <4>1. connectedSites'[u] \in Req /\ conn'[connectedSites'[u]].status = "pending"
          BY <1>9, <3>1 DEF Pending, SiteOf, TypeOK
      <4>2. connectedSites'[u] = connectedSites[u] /\ conn'[connectedSites'[u]] = conn[connectedSites'[u]]
          BY <1>3, <1>7, <1>8, <4>1 DEF IInv, TypeOK
      <4> QED BY <2>3, <4>1, <4>2, ConstantsAssumption DEF Pending, SiteOf
    <3> QED BY <3>1
  <2> QED BY <2>1, <2>2, <2>4 DEF Prompt, SiteOf
<1> QED BY <1>6, <1>9, <1>10, <1>11, <1>12, <1>13 DEF IInv

LEMMA ConnectAsksKeeps ==
    ASSUME IInv, NEW r \in Req, ConnectAsks(r)
    PROVE  IInv'
<1> DEFINE t == rpc[r].tab
           new == [status |-> "pending", wallet |-> NULL, pend |-> {}]
<1>1. /\ rpc[r].pc = "checked"
      /\ connectedSites' = [connectedSites EXCEPT ![t] = r]
      /\ conn' = [conn EXCEPT ![r] = new]
      /\ rpc' = [rpc EXCEPT ![r].pc = "asked"]
      /\ win' = [win EXCEPT ![r].st = "loading"]
      /\ UNCHANGED <<page, opened, whitelist, wallets, dbQueue, job>>
    BY DEF ConnectAsks
<1>2. t \in Tab /\ rpc[r].kind \in ConnectKind
    BY <1>1 DEF IInv, Arrived
<1>3. NeedsDb(rpc[r].kind) /\ Holds(<<"rpc", r>>)
    BY <1>1, <1>2, ConnectNeedsDb DEF IInv, Mutex, DbExclusive
<1>4. new \in ConnectedSite /\ new.status = "pending" /\ new.pend = {}
    BY DEF ConnectedSite
<1> HIDE DEF new, t
<1>5. Moves(r, "asked")
  <2>1. rpc[r] \in Rpc /\ rpc \in [Req -> Rpc]
      BY DEF IInv, TypeOK
  <2> QED BY <1>1, <2>1 DEF Moves, Rpc
<1>6. Mutex'
    BY <1>1, <1>3, <1>5, MutexMoves DEF IInv, InDb
<1>7. /\ win' \in [Window -> Win] /\ \A w \in Window : w # r => win'[w] = win[w]
      /\ r \in Window /\ win'[r].st = "loading" /\ win'[r].conn = win[r].conn
      /\ win'[r].sign = win[r].sign
  <2>1. r \in Window /\ win \in [Window -> Win] /\ win[r] \in Win
      BY DEF IInv, TypeOK, Window
  <2> QED BY <1>1, <2>1 DEF Win
<1>8. TypeOK'
  <2>1. connectedSites' \in [Tab -> Req \cup {NULL}] /\ conn' \in [Req -> ConnectedSite]
      BY <1>1, <1>4 DEF IInv, TypeOK
  <2> QED BY <1>1, <1>5, <1>7, <2>1 DEF IInv, TypeOK, Moves
<1>9. Arrived'
    BY <1>1, <1>5, ArrivedMoves DEF IInv
<1>10. Windows'
    BY <1>1, <1>5, <1>7, WindowsAsks DEF IInv, Early
<1>11. Signing'
  <2>1. \A c, q \in Req : q \in conn'[c].pend => q \in conn[c].pend
      BY <1>1, <1>4 DEF IInv, TypeOK
  <2> QED BY <1>1, <1>5, <2>1, SigningMoves DEF IInv
<1>12. Prompt'
  <2>1. \A q \in Req : rpc'[q].pc \in {"asked", "answered"} /\ rpc'[q].kind \in ConnectKind => q = r
    <3>1. ASSUME NEW q \in Req, rpc'[q].pc \in {"asked", "answered"}, rpc'[q].kind \in ConnectKind, q # r
          PROVE  FALSE
      <4>1. rpc[q].pc \in InDb /\ rpc[q].kind \in ConnectKind
          BY <1>5, <3>1 DEF Moves, InDb
      <4> QED BY <1>3, <3>1, <4>1, AloneInDb, ConnectNeedsDb DEF IInv
    <3> QED BY <3>1
  <2>2. connectedSites'[t] = r /\ conn'[r].status = "pending" /\ r # NULL
      BY <1>1, <1>2, <1>4, ConstantsAssumption DEF IInv, TypeOK
  <2>3. ASSUME NEW u \in Tab, u # t
        PROVE  /\ connectedSites'[u] = SiteOf(u) /\ ~Pending(u)'
               /\ connectedSites'[u] # NULL =>
                     rpc'[connectedSites'[u]].pc \in {"asked", "answered", "done"}
    <3>1. connectedSites'[u] = SiteOf(u) /\ (SiteOf(u) # NULL => SiteOf(u) \in Req)
        BY <1>1, <2>3 DEF IInv, TypeOK, SiteOf
    <3>2. SiteOf(u) # NULL => SiteOf(u) # r /\ rpc'[SiteOf(u)].pc \in {"asked", "answered", "done"}
        BY <1>1, <1>5, <3>1 DEF IInv, Prompt, Moves
    <3>3. ~Pending(u)'
      <4>1. ASSUME Pending(u)' PROVE FALSE
        <5>1. SiteOf(u) \in Req /\ SiteOf(u) # r /\ Pending(u)
            BY <1>1, <3>1, <3>2, <4>1 DEF Pending, SiteOf, IInv, TypeOK
        <5>2. rpc[SiteOf(u)].pc = "asked" /\ rpc[SiteOf(u)].kind \in ConnectKind
            BY <5>1 DEF IInv, Prompt
        <5> QED BY <1>3, <5>1, <5>2, AloneInDb, ConnectNeedsDb DEF IInv, InDb
      <4> QED BY <4>1
    <3> QED BY <3>1, <3>2, <3>3
  <2>4. rpc'[r].pc = "asked" /\ rpc'[r].tab = t /\ rpc'[r].kind \in ConnectKind
      BY <1>2, <1>5 DEF Moves, t
  <2>5. \A u \in Tab : u = t => Pending(u)' /\ connectedSites'[u] = r
      BY <2>2 DEF Pending, SiteOf
  <2>6. \A u \in Tab : connectedSites'[u] # NULL =>
           rpc'[connectedSites'[u]].pc \in {"asked", "answered", "done"}
      BY <2>3, <2>4, <2>5
  <2>7. \A u \in Tab : Pending(u)' => u = t /\ connectedSites'[u] = r
      BY <2>3, <2>5
  <2> QED BY <1>2, <2>1, <2>4, <2>5, <2>6, <2>7 DEF Prompt, SiteOf
<1> QED BY <1>6, <1>8, <1>9, <1>10, <1>11, <1>12 DEF IInv

LEMMA UsableIsTyped ==
    ASSUME TypeOK, NEW t \in Tab, Usable(t)
    PROVE  SiteOf(t) \in Req /\ conn[SiteOf(t)].wallet \in Wallet
BY DEF TypeOK, Usable, Connected, SiteOf

LEMMA SelectWalletKeeps ==
    ASSUME IInv, NEW r \in Req, SelectWallet(r)
    PROVE  IInv'
<1> DEFINE t == rpc[r].tab
<1>1. /\ Holds(<<"rpc", r>>) /\ rpc[r].pc = "queued" /\ rpc[r].kind \notin ConnectKind
      /\ DropMissing(t)
      /\ UNCHANGED <<page, conn, opened, wallets, win, job>>
    BY DEF SelectWallet
<1>2. t \in Tab /\ rpc[r].kind \in AnyKind /\ r \in Req
    BY <1>1 DEF IInv, Arrived
<1>3. /\ connectedSites' \in [Tab -> Req \cup {NULL}] /\ whitelist' \in [Site -> Entry]
    BY <1>1, DropTyped DEF IInv
<1>4. PICK pc \in {"selected", "done"} :
         /\ Moves(r, pc)
         /\ IF pc = "selected" THEN dbQueue' = dbQueue ELSE Release(rpc[r].kind)
  <2>1. CASE Usable(t)
    <3>1. SiteOf(t) \in Req /\ conn[SiteOf(t)].wallet \in Wallet
        BY <1>2, <2>1, UsableIsTyped DEF IInv
    <3>2. rpc' = [rpc EXCEPT ![r].pc = "selected", ![r].conn = SiteOf(t),
                             ![r].wallet = conn[SiteOf(t)].wallet]
          /\ dbQueue' = dbQueue
        BY <2>1 DEF SelectWallet
    <3>3. rpc[r] \in Rpc /\ rpc \in [Req -> Rpc]
        BY DEF IInv, TypeOK
    <3>4. Moves(r, "selected")
        BY <3>1, <3>2, <3>3 DEF Moves, Rpc
    <3> QED BY <3>2, <3>4
  <2>2. CASE ~Usable(t)
    <3>1. Respond(r, FALSE, NULL, NULL) /\ Release(rpc[r].kind)
        BY <2>2 DEF SelectWallet
    <3> QED BY <3>1, RespondMoves DEF IInv
  <2> QED BY <2>1, <2>2
<1> HIDE DEF t
<1>5. Mutex' /\ dbQueue' \in Seq(Task)
  <2>1. CASE pc = "selected"
    <3>1. dbQueue \in Seq(Task)
        BY DEF IInv, TypeOK
    <3> QED BY <1>1, <1>4, <2>1, <3>1, MutexMoves DEF IInv, InDb
  <2>2. CASE pc = "done"
      BY <1>1, <1>4, <2>2, MutexRelease DEF IInv
  <2> QED BY <2>1, <2>2
<1>6. TypeOK'
    BY <1>1, <1>3, <1>4, <1>5 DEF IInv, TypeOK, Moves
<1>7. Arrived'
    BY <1>1, <1>4, ArrivedMoves DEF IInv
<1>8. Windows'
    BY <1>1, <1>4, WindowsMoves DEF IInv, Early
<1>9. Signing'
    BY <1>1, <1>4, SigningMoves DEF IInv
<1>10. Prompt'
  <2>1. \A q \in Req : rpc[q].kind \in ConnectKind => rpc[q].pc \notin {"asked", "answered"}
    <3>1. ASSUME NEW q \in Req, rpc[q].kind \in ConnectKind, rpc[q].pc \in {"asked", "answered"}
          PROVE  FALSE
        BY <1>1, <3>1, AloneInDb, ConnectNeedsDb DEF IInv, InDb
    <3> QED BY <3>1
  <2>2. /\ \A q \in Req : rpc'[q].kind = rpc[q].kind
        /\ \A q \in Req : rpc[q].kind \in ConnectKind => rpc'[q].pc \notin {"asked", "answered"}
        /\ \A q \in Req : rpc[q].pc \in {"asked", "answered", "done"} =>
                          rpc'[q].pc \in {"asked", "answered", "done"}
      BY <1>1, <1>4, <2>1 DEF Moves
  <2>3. Status
      BY <1>1 DEF Status
  <2> QED BY <1>1, <2>1, <2>2, <2>3, PromptDrop DEF IInv
<1> QED BY <1>5, <1>6, <1>7, <1>8, <1>9, <1>10 DEF IInv

LEMMA AskKeeps ==
    ASSUME IInv, NEW r \in Req, Ask(r)
    PROVE  IInv'
<1> DEFINE c == IF rpc[r].kind \in {"data", "tx-reorg/cardano"} THEN SiteOf(rpc[r].tab)
                ELSE rpc[r].conn
<1>1. /\ rpc[r].pc = "selected" /\ rpc[r].kind \in SignKind
      /\ UNCHANGED <<page, connectedSites, opened, whitelist, wallets, job>>
    BY DEF Ask
<1>2. rpc[r].tab \in Tab /\ rpc[r] \in Rpc /\ rpc \in [Req -> Rpc]
    BY <1>1 DEF IInv, Arrived, TypeOK
<1>3. c \in Req \cup {NULL}
    BY <1>2 DEF IInv, TypeOK, SiteOf, Rpc
<1>4. NeedsDb(rpc[r].kind) => Holds(<<"rpc", r>>)
    BY <1>1 DEF IInv, Mutex, DbExclusive
<1>5. CASE c = NULL
  <2>1. /\ Respond(r, FALSE, NULL, NULL) /\ Release(rpc[r].kind) /\ UNCHANGED <<conn, win>>
      BY <1>5 DEF Ask
  <2>2. Moves(r, "done")
      BY <2>1, RespondMoves DEF IInv
  <2> QED BY <1>1, <1>4, <2>1, <2>2, EndKeeps
<1>6. CASE c # NULL
  <2>1. /\ rpc' = [rpc EXCEPT ![r].pc = "asked", ![r].conn = c]
        /\ conn' = [conn EXCEPT ![c].pend = {q \in @ : rpc[q].uid # rpc[r].uid} \cup {r}]
        /\ win' = [win EXCEPT ![r].st = "loading"]
        /\ UNCHANGED dbQueue
      BY <1>6 DEF Ask
  <2> HIDE DEF c
  <2>2. Moves(r, "asked")
      BY <1>2, <1>3, <1>6, <2>1 DEF Moves, Rpc
  <2>3. Mutex'
      BY <1>1, <1>4, <2>1, <2>2, MutexMoves DEF IInv, InDb
  <2>4. /\ win' \in [Window -> Win] /\ \A w \in Window : w # r => win'[w] = win[w]
        /\ r \in Window /\ win'[r].st = "loading" /\ win'[r].conn = win[r].conn
        /\ win'[r].sign = win[r].sign
    <3>1. r \in Window /\ win \in [Window -> Win] /\ win[r] \in Win
        BY DEF IInv, TypeOK, Window
    <3> QED BY <2>1, <3>1 DEF Win
  <2>5. /\ conn' \in [Req -> ConnectedSite] /\ Status
        /\ \A d, q \in Req : q \in conn'[d].pend => q \in conn[d].pend \/ q = r
    <3> DEFINE p == {q \in conn[c].pend : rpc[q].uid # rpc[r].uid} \cup {r}
    <3>1. conn \in [Req -> ConnectedSite] /\ c \in Req /\ conn[c] \in ConnectedSite
        BY <1>3, <1>6 DEF IInv, TypeOK
    <3>2. conn' = [conn EXCEPT ![c].pend = p]
        BY <2>1
    <3>3. p \in SUBSET Req /\ \A q \in p : q \in conn[c].pend \/ q = r
        BY <3>1 DEF ConnectedSite
    <3> HIDE DEF p
    <3> QED BY <3>1, <3>2, <3>3 DEF ConnectedSite, Status
  <2>6. TypeOK'
      BY <1>1, <2>1, <2>2, <2>4, <2>5 DEF IInv, TypeOK, Moves
  <2>7. Arrived'
      BY <1>1, <2>2, ArrivedMoves DEF IInv
  <2>8. Windows'
      BY <1>1, <2>2, <2>4, WindowsAsks DEF IInv, Early
  <2>9. Signing'
      BY <1>1, <2>2, <2>5, SigningMoves DEF IInv
  <2>10. Prompt'
    <3>1. rpc[r].kind \notin ConnectKind
        BY <1>1 DEF SignKind, DbSignKind, ConnectKind
    <3> QED BY <1>1, <2>2, <2>5, <3>1, PromptMoves DEF IInv
  <2> QED BY <2>3, <2>6, <2>7, <2>8, <2>9, <2>10 DEF IInv
<1> QED BY <1>5, <1>6

\* A step that moves no handler but those it answers, and at most the window w.
LEMMA UserKeeps ==
    ASSUME IInv, NEW w \in Window, NEW new \in Win, win' = [win EXCEPT ![w] = new],
           w \in Req => win[w].st # "none",
           new.st \in {"loading", "fetched", "ready", "unguarded"} => job[w].what = "idle",
           new.conn \in {NULL, win[w].conn},
           new.sign \in {NULL, win[w].sign} \/ (new.sign \in Req /\ rpc[new.sign].pc # "new"),
           Answers, opened' \in SUBSET Req, whitelist' \in [Site -> Entry],
           connectedSites' \in [Tab -> Req \cup {NULL}], conn' \in [Req -> ConnectedSite],
           \A c, q \in Req : q \in conn'[c].pend => q \in conn[c].pend,
           UNCHANGED <<page, wallets, dbQueue, job>>, Prompt'
    PROVE  IInv'
<1>1. \A v \in Window : v # w => win'[v] = win[v]
    BY DEF IInv, TypeOK
<1>2. win'[w] = new
    BY DEF IInv, TypeOK
<1>3. TypeOK'
    BY DEF IInv, TypeOK, Answers
<1>4. Arrived'
    BY ArrivedAnswers DEF IInv
<1>5. Mutex'
    BY MutexAnswers DEF IInv
<1>6. Windows'
    BY <1>1, <1>2, WindowsUser DEF IInv
<1>7. Signing'
    BY SigningAnswers DEF IInv
<1> QED BY <1>3, <1>4, <1>5, <1>6, <1>7 DEF IInv

\* ... and changes nothing else.
LEMMA WindowKeeps ==
    ASSUME IInv, NEW w \in Window, NEW new \in Win, win' = [win EXCEPT ![w] = new],
           w \in Req => win[w].st # "none",
           new.st \in {"loading", "fetched", "ready", "unguarded"} => job[w].what = "idle",
           new.conn \in {NULL, win[w].conn},
           new.sign \in {NULL, win[w].sign} \/ (new.sign \in Req /\ rpc[new.sign].pc # "new"),
           opened' \in SUBSET Req, whitelist' \in [Site -> Entry],
           UNCHANGED <<page, connectedSites, conn, wallets, rpc, dbQueue, job>>
    PROVE  IInv'
<1>1. Answers
    BY StillAnswers DEF IInv
<1>2. Prompt'
    BY <1>1, PromptAnswers DEF IInv, Status
<1>3. /\ connectedSites' \in [Tab -> Req \cup {NULL}] /\ conn' \in [Req -> ConnectedSite]
    BY DEF IInv, TypeOK
<1> QED BY <1>1, <1>2, <1>3, UserKeeps

LEMMA OpenMenuKeeps ==
    ASSUME IInv, NEW m \in Menu, OpenMenu(m)
    PROVE  IInv'
<1> DEFINE new == [NoWin EXCEPT !.st = "loading"]
<1>1. new \in Win /\ new.st = "loading" /\ new.conn = NULL /\ new.sign = NULL
    BY DEF Win, NoWin
<1>2. m \in Window /\ m \notin Req
    BY ConstantsAssumption DEF Window
<1>3. /\ win' = [win EXCEPT ![m] = new] /\ job[m].what = "idle"
      /\ UNCHANGED <<page, connectedSites, conn, opened, whitelist, wallets, rpc, dbQueue, job>>
    BY DEF OpenMenu, NoJob
<1> HIDE DEF new
<1>4. opened' \in SUBSET Req /\ whitelist' \in [Site -> Entry]
    BY <1>3 DEF IInv, TypeOK
<1> QED BY <1>1, <1>2, <1>3, <1>4, WindowKeeps

LEMMA PendingIsAsked ==
    ASSUME IInv, NEW t \in Tab, Pending(t)
    PROVE  /\ SiteOf(t) \in Req /\ SiteOf(t) # NULL /\ connectedSites[t] = SiteOf(t)
           /\ rpc[SiteOf(t)].pc = "asked" /\ rpc[SiteOf(t)].tab = t
           /\ rpc[SiteOf(t)].kind \in ConnectKind
           /\ Holds(<<"rpc", SiteOf(t)>>)
<1>1. SiteOf(t) \in Req /\ SiteOf(t) # NULL /\ connectedSites[t] = SiteOf(t)
    BY DEF IInv, TypeOK, Pending, SiteOf
<1>2. /\ rpc[SiteOf(t)].pc = "asked" /\ rpc[SiteOf(t)].tab = t
      /\ rpc[SiteOf(t)].kind \in ConnectKind
    BY DEF IInv, Prompt
<1>3. Holds(<<"rpc", SiteOf(t)>>)
    BY <1>1, <1>2, ConnectNeedsDb DEF IInv, Mutex, DbExclusive
<1> QED BY <1>1, <1>2, <1>3

LEMMA FetchConnectKeeps ==
    ASSUME IInv, NEW w \in Window, FetchConnect(w)
    PROVE  IInv'
<1>1. /\ win[w].st = "loading" /\ job[w].what = "idle" /\ win[w] \in Win /\ win \in [Window -> Win]
      /\ UNCHANGED <<page, connectedSites, conn, opened, whitelist, wallets, rpc, dbQueue, job>>
    BY DEF FetchConnect, IInv, TypeOK, Windows
<1>2. opened' \in SUBSET Req /\ whitelist' \in [Site -> Entry]
    BY <1>1 DEF IInv, TypeOK
<1>3. CASE win' = [win EXCEPT ![w].st = "fetched"]
  <2> DEFINE new == [win[w] EXCEPT !.st = "fetched"]
  <2>1. new \in Win /\ new.st = "fetched" /\ new.conn = win[w].conn /\ new.sign = win[w].sign
      BY <1>1 DEF Win
  <2>2. win' = [win EXCEPT ![w] = new]
      BY <1>3
  <2> HIDE DEF new
  <2> QED BY <1>1, <1>2, <2>1, <2>2, WindowKeeps
<1>4. ASSUME NEW t \in Tab, Pending(t),
             win' = [win EXCEPT ![w].st = "fetched", ![w].conn = SiteOf(t)]
      PROVE  IInv'
  <2>1. SiteOf(t) \in Req /\ rpc[SiteOf(t)].pc = "asked"
      BY <1>4, PendingIsAsked
  <2>2. /\ win' \in [Window -> Win] /\ \A v \in Window : v # w => win'[v] = win[v]
        /\ win'[w].st = "fetched" /\ win'[w].conn = SiteOf(t) /\ win'[w].sign = win[w].sign
    <3> DEFINE new == [win[w] EXCEPT !.st = "fetched", !.conn = SiteOf(t)]
    <3>1. new \in Win /\ new.st = "fetched" /\ new.conn = SiteOf(t) /\ new.sign = win[w].sign
        BY <1>1, <2>1 DEF Win
    <3>2. win' = [win EXCEPT ![w] = new]
        BY <1>1, <1>4
    <3> HIDE DEF new
    <3> QED BY <1>1, <3>1, <3>2
  <2>3. Answers
      BY <1>1, StillAnswers DEF IInv
  <2>4. TypeOK' /\ Arrived' /\ Signing'
      BY <1>1, <2>2 DEF IInv, TypeOK, Arrived, Signing
  <2>5. Mutex'
      BY <1>1, <2>3, MutexAnswers DEF IInv
  <2>6. Windows'
    <3>1. w \in Req => rpc[w].pc \notin Early
        BY <1>1 DEF IInv, Windows
    <3>2. \A q \in Req : q \in Window /\ rpc'[q] = rpc[q]
        BY <1>1 DEF Window
    <3> QED BY <1>1, <2>1, <2>2, <3>1, <3>2 DEF IInv, Windows
  <2>7. Prompt'
      BY <1>1, <2>3, PromptAnswers DEF IInv, Status
  <2> QED BY <2>4, <2>5, <2>6, <2>7 DEF IInv
<1> QED BY <1>3, <1>4 DEF FetchConnect

LEMMA FetchNoSignKeeps ==
    ASSUME IInv, NEW w \in Window, FetchNoSign(w)
    PROVE  IInv'
<1> DEFINE new == [win[w] EXCEPT !.st = "open"]
<1>1. /\ win[w].st = "fetched" /\ win[w] \in Win /\ win' = [win EXCEPT ![w] = new]
      /\ UNCHANGED <<page, connectedSites, conn, opened, whitelist, wallets, rpc, dbQueue, job>>
    BY DEF FetchNoSign, IInv, TypeOK
<1>2. new \in Win /\ new.st = "open" /\ new.conn = win[w].conn /\ new.sign = win[w].sign
    BY <1>1 DEF Win
<1> HIDE DEF new
<1>3. opened' \in SUBSET Req /\ whitelist' \in [Site -> Entry]
    BY <1>1 DEF IInv, TypeOK
<1> QED BY <1>1, <1>2, <1>3, WindowKeeps

\* A step that makes window w wait for the database.
LEMMA WaitKeeps ==
    ASSUME IInv, NEW w \in Window, NEW new \in Win, NEW j \in Job,
           win' = [win EXCEPT ![w] = new], job' = [job EXCEPT ![w] = j],
           dbQueue' = Append(dbQueue, <<"ui", w>>),
           win[w].st # "none", job[w].what = "idle", j.what # "idle",
           new.st \notin {"loading", "fetched", "ready", "unguarded"},
           new.conn \in {NULL, win[w].conn},
           new.sign \in {NULL, win[w].sign} \/ (new.sign \in Req /\ rpc[new.sign].pc # "new"),
           j.what = "sign" => j.req \in Req /\ rpc[j.req].pc # "new" /\ rpc[j.req].kind \in SignKind,
           opened' \in SUBSET Req,
           UNCHANGED <<page, connectedSites, conn, whitelist, wallets, rpc>>
    PROVE  IInv'
<1>1. /\ \A v \in Window : v # w => win'[v] = win[v] /\ job'[v] = job[v]
      /\ win'[w] = new /\ job'[w] = j
      /\ win' \in [Window -> Win] /\ job' \in [Window -> Job]
    BY DEF IInv, TypeOK
<1>2. Answers
    BY StillAnswers DEF IInv
<1>3. Mutex' /\ dbQueue' \in Seq(Task)
    BY <1>1, MutexUiWaits DEF IInv
<1>4. TypeOK'
    BY <1>1, <1>3 DEF IInv, TypeOK
<1>5. Arrived'
    BY DEF IInv, Arrived
<1>6. Windows'
    BY <1>1, <1>2, WindowsUser DEF IInv
<1>7. Signing'
    BY <1>1, <1>2, SigningAnswers DEF IInv
<1>8. Prompt'
    BY <1>2, PromptAnswers DEF IInv, Status
<1> QED BY <1>3, <1>4, <1>5, <1>6, <1>7, <1>8 DEF IInv

LEMMA FetchSignKeeps ==
    ASSUME IInv, NEW w \in Window, FetchSign(w)
    PROVE  IInv'
<1>1. /\ win[w].st = "fetched" /\ win[w] \in Win /\ win \in [Window -> Win]
      /\ job \in [Window -> Job] /\ job[w].what = "idle"
      /\ UNCHANGED <<page, connectedSites, conn, whitelist, wallets, rpc>>
    BY DEF FetchSign, IInv, TypeOK, Windows
<1>2. PICK q \in Unopened :
       /\ opened' = opened \cup {q}
       /\ IF ~Connected(rpc[q].tab)
          THEN /\ win' = [win EXCEPT ![w].st = "open"]
               /\ UNCHANGED <<job, dbQueue>>
          ELSE IF rpc[q].kind = "tx/cardano"
          THEN /\ win' = [win EXCEPT ![w].st = "open", ![w].sign = q]
               /\ job' = [job EXCEPT ![w] = [NoJob EXCEPT !.what = "utxos", !.shows = q]]
               /\ dbQueue' = Append(dbQueue, <<"ui", w>>)
          ELSE /\ win' = [win EXCEPT ![w].st = IF IsSignWin(w) THEN "ready" ELSE "open",
                                     ![w].sign = q]
               /\ UNCHANGED <<job, dbQueue>>
    BY DEF FetchSign
<1>3. q \in Req /\ opened' \in SUBSET Req /\ whitelist' \in [Site -> Entry]
    BY <1>1, <1>2 DEF Unopened, IInv, TypeOK
<1>4. rpc[q].pc # "new"
  <2>1. PICK t \in Tab : SiteOf(t) # NULL /\ q \in conn[SiteOf(t)].pend
      BY <1>2 DEF Unopened
  <2>2. SiteOf(t) \in Req
      BY <2>1 DEF IInv, TypeOK, SiteOf
  <2> QED BY <1>3, <2>1, <2>2 DEF IInv, Signing
<1>5. CASE ~Connected(rpc[q].tab)
  <2> DEFINE new == [win[w] EXCEPT !.st = "open"]
  <2>1. new \in Win /\ new.st = "open" /\ new.conn = win[w].conn /\ new.sign = win[w].sign
      BY <1>1 DEF Win
  <2>2. win' = [win EXCEPT ![w] = new] /\ UNCHANGED <<job, dbQueue>>
      BY <1>2, <1>5
  <2> HIDE DEF new
  <2> QED BY <1>1, <1>3, <2>1, <2>2, WindowKeeps
<1>6. CASE Connected(rpc[q].tab) /\ rpc[q].kind = "tx/cardano"
  <2> DEFINE new == [win[w] EXCEPT !.st = "open", !.sign = q]
             j == [NoJob EXCEPT !.what = "utxos", !.shows = q]
  <2>1. new \in Win /\ new.st = "open" /\ new.conn = win[w].conn /\ new.sign = q
      BY <1>1, <1>3 DEF Win
  <2>2. j \in Job /\ j.what = "utxos"
      BY <1>3 DEF NoJob, Job
  <2>3. /\ win' = [win EXCEPT ![w] = new] /\ job' = [job EXCEPT ![w] = j]
        /\ dbQueue' = Append(dbQueue, <<"ui", w>>)
      BY <1>2, <1>6
  <2> HIDE DEF new, j
  <2> QED BY <1>1, <1>3, <1>4, <2>1, <2>2, <2>3, WaitKeeps
<1>7. CASE Connected(rpc[q].tab) /\ rpc[q].kind # "tx/cardano"
  <2> DEFINE new == [win[w] EXCEPT !.st = IF IsSignWin(w) THEN "ready" ELSE "open", !.sign = q]
  <2>1. new \in Win /\ new.conn = win[w].conn /\ new.sign = q
      BY <1>1, <1>3 DEF Win
  <2>2. win' = [win EXCEPT ![w] = new] /\ UNCHANGED <<job, dbQueue>>
      BY <1>2, <1>7
  <2> HIDE DEF new
  <2> QED BY <1>1, <1>3, <1>4, <2>1, <2>2, WindowKeeps
<1> QED BY <1>5, <1>6, <1>7

\* A step that ends the work of window w that held the database.
LEMMA DoneKeeps ==
    ASSUME IInv, NEW w \in Window, NEW t, Holds(<<"ui", w>>), DropMissing(t), Answers,
           job' = [job EXCEPT ![w] = NoJob], dbQueue' = Tail(dbQueue), job[w].what # "idle",
           conn' \in [Req -> ConnectedSite], Status,
           \A c, q \in Req : q \in conn'[c].pend => q \in conn[c].pend,
           NEW new \in Win, win' = [win EXCEPT ![w] = new], new.conn = win[w].conn,
           new.sign = win[w].sign,
           UNCHANGED <<page, opened, wallets>>
    PROVE  IInv'
<1>1. /\ \A v \in Window : v # w => win'[v] = win[v] /\ job'[v] = job[v]
      /\ win'[w] = new /\ job'[w].what = "idle"
      /\ win' \in [Window -> Win] /\ job' \in [Window -> Job]
  <2>1. NoJob \in Job /\ NoJob.what = "idle"
      BY DEF NoJob, Job
  <2> QED BY <2>1 DEF IInv, TypeOK
<1>2. Mutex' /\ dbQueue' \in Seq(Task)
    BY <1>1, MutexUiDone DEF IInv
<1>3. TypeOK'
    BY <1>1, <1>2, DropTyped DEF IInv, TypeOK, Answers
<1>4. Arrived'
    BY ArrivedAnswers DEF IInv
<1>5. Windows'
    BY <1>1, WindowsUser DEF IInv
<1>6. Signing'
    BY <1>1, SigningAnswers DEF IInv
<1>7. Prompt'
  <2>1. \A q \in Req : rpc[q].kind \in ConnectKind => rpc[q].pc \notin {"asked", "answered"}
      BY NoneInDb, ConnectNeedsDb DEF IInv, InDb
  <2>2. /\ \A q \in Req : rpc'[q].kind = rpc[q].kind
        /\ \A q \in Req : rpc[q].kind \in ConnectKind => rpc'[q].pc \notin {"asked", "answered"}
        /\ \A q \in Req : rpc[q].pc \in {"asked", "answered", "done"} =>
                          rpc'[q].pc \in {"asked", "answered", "done"}
      BY <2>1 DEF Answers
  <2> QED BY <2>1, <2>2, PromptDrop DEF IInv
<1> QED BY <1>2, <1>3, <1>4, <1>5, <1>6, <1>7 DEF IInv

LEMMA UtxosJobKeeps ==
    ASSUME IInv, NEW w \in Window, UtxosJob(w)
    PROVE  IInv'
<1> DEFINE t == rpc[job[w].shows].tab
<1>1. /\ Holds(<<"ui", w>>) /\ job[w].what = "utxos" /\ DropMissing(t)
      /\ job' = [job EXCEPT ![w] = NoJob] /\ dbQueue' = Tail(dbQueue)
      /\ UNCHANGED <<page, conn, opened, wallets, rpc>>
    BY DEF UtxosJob
<1> HIDE DEF t
<1>2. win[w] \in Win /\ win \in [Window -> Win] /\ conn' \in [Req -> ConnectedSite]
    BY <1>1 DEF IInv, TypeOK
<1>3. PICK new \in Win : /\ win' = [win EXCEPT ![w] = new]
                        /\ new.conn = win[w].conn /\ new.sign = win[w].sign
  <2>1. CASE win' = win
    <3>1. win' = [win EXCEPT ![w] = win[w]]
        BY <1>2, <2>1
    <3> QED BY <1>2, <3>1
  <2>2. CASE win' = [win EXCEPT ![w].st = "ready"]
    <3> DEFINE new == [win[w] EXCEPT !.st = "ready"]
    <3>1. new \in Win /\ new.conn = win[w].conn /\ new.sign = win[w].sign
        BY <1>2 DEF Win
    <3>2. win' = [win EXCEPT ![w] = new]
        BY <2>2
    <3> HIDE DEF new
    <3> QED BY <3>1, <3>2
  <2> QED BY <2>1, <2>2 DEF UtxosJob
<1>4. Answers
    BY <1>1, StillAnswers DEF IInv
<1>5. Status /\ \A c, q \in Req : q \in conn'[c].pend => q \in conn[c].pend
    BY <1>1 DEF Status
<1>6. job[w].what # "idle"
    BY <1>1
<1> QED BY <1>1, <1>2, <1>3, <1>4, <1>5, <1>6, DoneKeeps

\* What connect_response does.
LEMMA ConnectResponseEffect ==
    ASSUME IInv, NEW w \in Window, NEW accepted \in BOOLEAN, NEW x \in Wallet \cup {NULL},
           ConnectResponse(win[w].conn, accepted, x)
    PROVE  /\ Answers /\ Prompt'
           /\ connectedSites' \in [Tab -> Req \cup {NULL}] /\ conn' \in [Req -> ConnectedSite]
           /\ \A c, q \in Req : q \in conn'[c].pend => q \in conn[c].pend
<1> DEFINE c == win[w].conn
           t == rpc[c].tab
           d == SiteOf(t)
<1>1. rpc \in [Req -> Rpc] /\ conn \in [Req -> ConnectedSite] /\ NULL \notin Req
      /\ connectedSites \in [Tab -> Req \cup {NULL}]
    BY ConstantsAssumption DEF IInv, TypeOK
<1>2. CASE UNCHANGED <<connectedSites, conn, rpc>>
  <2>1. Answers
      BY <1>2, StillAnswers DEF IInv
  <2> QED BY <1>1, <1>2, <2>1, PromptAnswers DEF IInv, Status
<1>3. CASE c # NULL /\ Pending(t)
  <2>1. c \in Req /\ t \in Tab
      BY <1>3 DEF IInv, TypeOK, Win, Windows, Arrived
  <2> HIDE DEF c, t
  <2>2. /\ d \in Req /\ d # NULL /\ connectedSites[t] = d /\ rpc[d].pc = "asked"
        /\ rpc[d].tab = t /\ rpc[d].kind \in ConnectKind /\ Holds(<<"rpc", d>>)
      BY <1>3, <2>1, PendingIsAsked
  <2>3. /\ rpc[d] \in Rpc /\ conn[d] \in ConnectedSite
      BY <1>1, <2>2
  <2>4. \A q \in Req : rpc[q].pc \in {"asked", "answered"} /\ rpc[q].kind \in ConnectKind => q = d
      BY <2>2, AloneInDb, ConnectNeedsDb DEF IInv, InDb
  <2>5. \A u \in Tab : Pending(u) => u = t
      BY <2>2, <2>4, PendingIsAsked
  <2>6. CASE accepted
    <3>1. /\ conn' = [conn EXCEPT ![d].status = "connected", ![d].wallet = x]
          /\ rpc' = [rpc EXCEPT ![d].pc = "answered", ![d].ok = TRUE, ![d].wallet = x]
          /\ UNCHANGED connectedSites
        BY <1>3, <2>6 DEF ConnectResponse, c, t
    <3> HIDE DEF d
    <3>2. /\ rpc' \in [Req -> Rpc] /\ \A q \in Req : q # d => rpc'[q] = rpc[q]
          /\ rpc'[d].pc = "answered" /\ rpc'[d].kind = rpc[d].kind
          /\ rpc'[d].tab = rpc[d].tab /\ rpc'[d].site = rpc[d].site
      <4> DEFINE rec == [rpc[d] EXCEPT !.pc = "answered", !.ok = TRUE, !.wallet = x]
      <4>1. /\ rec \in Rpc /\ rec.pc = "answered" /\ rec.kind = rpc[d].kind
            /\ rec.tab = rpc[d].tab /\ rec.site = rpc[d].site
          BY <2>3 DEF Rpc
      <4>2. rpc' = [rpc EXCEPT ![d] = rec]
          BY <1>1, <2>2, <3>1
      <4> HIDE DEF rec
      <4> QED BY <1>1, <2>2, <4>1, <4>2
    <3>3. /\ conn' \in [Req -> ConnectedSite] /\ \A q \in Req : q # d => conn'[q] = conn[q]
          /\ conn'[d].status = "connected" /\ conn'[d].pend = conn[d].pend
      <4> DEFINE rec == [conn[d] EXCEPT !.status = "connected", !.wallet = x]
      <4>1. rec \in ConnectedSite /\ rec.status = "connected" /\ rec.pend = conn[d].pend
          BY <2>3 DEF ConnectedSite
      <4>2. conn' = [conn EXCEPT ![d] = rec]
          BY <1>1, <2>2, <3>1
      <4> HIDE DEF rec
      <4> QED BY <1>1, <2>2, <4>1, <4>2
    <3>4. Answers
        BY <2>2, <3>2 DEF Answers
    <3>5. Prompt'
      <4>1. \A u \in Tab : ~Pending(u)'
        <5>1. ASSUME NEW u \in Tab, Pending(u)' PROVE FALSE
          <6>1. connectedSites[u] \in Req /\ conn'[connectedSites[u]].status = "pending"
              BY <1>1, <3>1, <5>1 DEF Pending, SiteOf
          <6>2. connectedSites[u] # d
              BY <3>3, <6>1
          <6>3. Pending(u)
              BY <1>1, <3>3, <6>1, <6>2 DEF Pending, SiteOf
          <6> QED BY <2>2, <2>5, <6>2, <6>3
        <5> QED BY <5>1
      <4>2. \A u \in Tab : connectedSites'[u] # NULL =>
               rpc'[connectedSites'[u]].pc \in {"asked", "answered", "done"}
        <5>1. ASSUME NEW u \in Tab, connectedSites[u] # NULL
              PROVE  connectedSites[u] \in Req /\ rpc[connectedSites[u]].pc \in {"asked", "answered", "done"}
            BY <1>1, <5>1 DEF IInv, Prompt, SiteOf
        <5> QED BY <3>1, <3>2, <5>1
      <4>3. \A q \in Req : rpc'[q].pc \in {"asked", "answered"} /\ rpc'[q].kind \in ConnectKind
               => q = d
          BY <2>4, <3>2
      <4>4. rpc'[d].ok /\ connectedSites'[rpc'[d].tab] = d /\ conn'[d].status = "connected"
        <5>1. rpc'[d].ok
            BY <1>1, <2>2, <2>3, <3>1 DEF Rpc
        <5>2. connectedSites'[t] = d /\ d # NULL /\ rpc'[d].tab = t
            BY <2>2, <3>1, <3>2
        <5> QED BY <3>3, <5>1, <5>2
      <4>5. \A q \in Req : rpc'[q].pc = "asked" => rpc'[q].kind \notin ConnectKind
          BY <3>2, <4>3
      <4>6. \A q \in Req : rpc'[q].pc = "answered" /\ rpc'[q].kind \in ConnectKind =>
               rpc'[q].ok /\ Connected(rpc[q].tab)'
          BY <2>2, <4>3, <4>4 DEF Connected, SiteOf
      <4> QED BY <4>1, <4>2, <4>5, <4>6 DEF Prompt, SiteOf
    <3> QED BY <1>1, <3>1, <3>3, <3>4, <3>5
  <2>7. CASE ~accepted
    <3>1. /\ connectedSites' = [connectedSites EXCEPT ![t] = NULL]
          /\ rpc' = [rpc EXCEPT ![d].pc = "answered", ![d].ok = FALSE]
          /\ UNCHANGED conn
        BY <1>3, <2>7 DEF ConnectResponse, c, t
    <3> HIDE DEF d
    <3>2. /\ rpc' \in [Req -> Rpc] /\ \A q \in Req : q # d => rpc'[q] = rpc[q]
          /\ rpc'[d].pc = "answered" /\ rpc'[d].kind = rpc[d].kind /\ ~rpc'[d].ok
          /\ rpc'[d].tab = rpc[d].tab /\ rpc'[d].site = rpc[d].site
      <4> DEFINE rec == [rpc[d] EXCEPT !.pc = "answered", !.ok = FALSE]
      <4>1. /\ rec \in Rpc /\ rec.pc = "answered" /\ rec.kind = rpc[d].kind
            /\ rec.tab = rpc[d].tab /\ rec.site = rpc[d].site /\ ~rec.ok
          BY <2>3 DEF Rpc
      <4>2. rpc' = [rpc EXCEPT ![d] = rec]
          BY <1>1, <2>2, <3>1
      <4> HIDE DEF rec
      <4> QED BY <1>1, <2>2, <4>1, <4>2
    <3>3. Answers
        BY <2>2, <3>2 DEF Answers
    <3>4. \A u \in Tab : connectedSites'[u] = IF u = t THEN NULL ELSE connectedSites[u]
        BY <1>1, <3>1
    <3>5. Prompt'
      <4>1. \A u \in Tab : ~Pending(u)'
        <5>1. ASSUME NEW u \in Tab, Pending(u)' PROVE FALSE
          <6>1. u # t /\ Pending(u)
              BY <3>1, <3>4, <5>1 DEF Pending, SiteOf
          <6> QED BY <2>5, <6>1
        <5> QED BY <5>1
      <4>2. \A u \in Tab : connectedSites'[u] # NULL =>
               rpc'[connectedSites'[u]].pc \in {"asked", "answered", "done"}
        <5>1. ASSUME NEW u \in Tab, connectedSites[u] # NULL
              PROVE  connectedSites[u] \in Req /\ rpc[connectedSites[u]].pc \in {"asked", "answered", "done"}
            BY <1>1, <5>1 DEF IInv, Prompt, SiteOf
        <5> QED BY <3>2, <3>4, <5>1
      <4>3. \A q \in Req : rpc'[q].pc \in {"asked", "answered"} /\ rpc'[q].kind \in ConnectKind
               => q = d
          BY <2>4, <3>2
      <4>4. connectedSites'[rpc'[d].tab] = NULL
          BY <2>1, <2>2, <3>2, <3>4
      <4>5. \A q \in Req : rpc'[q].pc = "asked" => rpc'[q].kind \notin ConnectKind
          BY <3>2, <4>3
      <4> QED BY <3>2, <4>1, <4>2, <4>3, <4>4, <4>5 DEF Prompt, SiteOf
    <3> QED BY <1>1, <3>1, <3>3, <3>5
  <2> QED BY <2>6, <2>7
<1> QED BY <1>2, <1>3 DEF ConnectResponse

LEMMA DeletePendEffect ==
    ASSUME TypeOK, NEW c, NEW q, conn' = DeletePend(c, q)
    PROVE  /\ conn' \in [Req -> ConnectedSite] /\ Status
           /\ \A e, r \in Req : r \in conn'[e].pend => r \in conn[e].pend
<1>1. conn \in [Req -> ConnectedSite]
    BY DEF TypeOK
<1>2. CASE c \in Req
  <2> DEFINE p == {r \in conn[c].pend : rpc[r].uid # rpc[q].uid}
  <2>1. conn' = [conn EXCEPT ![c].pend = p]
      BY DEF DeletePend
  <2>2. conn[c] \in ConnectedSite /\ p \in SUBSET Req /\ \A r \in p : r \in conn[c].pend
      BY <1>1, <1>2 DEF ConnectedSite
  <2> HIDE DEF p
  <2> DEFINE rec == [conn[c] EXCEPT !.pend = p]
  <2>3. rec \in ConnectedSite /\ rec.status = conn[c].status /\ rec.pend = p
      BY <2>2 DEF ConnectedSite
  <2>4. conn' = [conn EXCEPT ![c] = rec]
      BY <2>1
  <2> HIDE DEF rec
  <2> QED BY <1>1, <1>2, <2>2, <2>3, <2>4 DEF Status
<1>3. CASE c \notin Req
  <2>1. conn' = conn
      BY <1>1, <1>3 DEF DeletePend
  <2> QED BY <1>1, <2>1 DEF Status
<1> QED BY <1>2, <1>3

LEMMA PendingForSign ==
    ASSUME IInv, NEW q \in Req \cup {NULL}, q # NULL => rpc[q].pc # "new", NEW r \in PendingFor(q)
    PROVE  r \in Req /\ rpc[r].pc # "new" /\ rpc[r].kind \in SignKind /\ rpc[r].kind \notin ConnectKind
<1> DEFINE c == SiteOf(rpc[q].tab)
<1>1. q # NULL /\ r \in conn[c].pend /\ c # NULL
    BY DEF PendingFor
<1>2. rpc[q].tab \in Tab
    BY <1>1 DEF IInv, Arrived
<1>3. c \in Req /\ conn[c] \in ConnectedSite
    BY <1>1, <1>2 DEF IInv, TypeOK, SiteOf
<1>4. r \in Req
    BY <1>1, <1>3 DEF ConnectedSite
<1> QED BY <1>1, <1>3, <1>4 DEF IInv, Signing, SignKind, DbSignKind, ConnectKind

\* What sign_rejected does.
LEMMA SignRejectedEffect ==
    ASSUME IInv, NEW q \in Req \cup {NULL}, q # NULL => rpc[q].pc # "new", SignRejected(q)
    PROVE  /\ Answers /\ conn' \in [Req -> ConnectedSite] /\ Status
           /\ \A e, r \in Req : r \in conn'[e].pend => r \in conn[e].pend
           /\ \A r \in Req : rpc'[r] = rpc[r] \/ rpc[r].kind \notin ConnectKind
<1>1. CASE PendingFor(q) = {}
  <2>1. UNCHANGED <<conn, rpc>>
      BY <1>1 DEF SignRejected
  <2> QED BY <2>1, StillAnswers DEF IInv, TypeOK, Status
<1>2. CASE PendingFor(q) # {}
  <2>1. PICK r \in PendingFor(q) : rpc' = Resolve(r, FALSE, NULL)
      BY <1>2 DEF SignRejected
  <2>2. r \in Req /\ rpc[r].kind \notin ConnectKind
      BY PendingForSign
  <2>3. Answers /\ \A p \in Req : p # r => rpc'[p] = rpc[p]
      BY <2>1, <2>2, ResolveAnswers DEF IInv
  <2>4. conn' = DeletePend(SiteOf(rpc[q].tab), q)
      BY <1>2 DEF SignRejected
  <2> QED BY <2>2, <2>3, <2>4, DeletePendEffect DEF IInv
<1> QED BY <1>1, <1>2

LEMMA ClosedWin ==
    /\ Closed \in Win /\ Closed.st = "closed" /\ Closed.conn = NULL /\ Closed.sign = NULL
BY DEF Closed, NoWin, Win

LEMMA WinSt ==
    ASSUME TypeOK, NEW w \in Window,
           NEW st \in {"none", "loading", "fetched", "open", "ready", "saved", "unguarded",
                       "closing", "closed"}
    PROVE  /\ [win EXCEPT ![w].st = st] = [win EXCEPT ![w] = [win[w] EXCEPT !.st = st]]
           /\ [win[w] EXCEPT !.st = st] \in Win /\ [win[w] EXCEPT !.st = st].st = st
           /\ [win[w] EXCEPT !.st = st].conn = win[w].conn
           /\ [win[w] EXCEPT !.st = st].sign = win[w].sign
<1>1. win \in [Window -> Win] /\ win[w] \in Win
    BY DEF TypeOK
<1> QED BY <1>1 DEF Win

LEMMA SaveWhitelistKeeps ==
    ASSUME IInv, NEW w \in Window, NEW x \in wallets, SaveWhitelist(w, x)
    PROVE  IInv'
<1> DEFINE new == [win[w] EXCEPT !.st = "saved", !.wallet = x]
           e == [wallet |-> x, auth |-> AuthRequested(rpc[win[w].conn].kind)]
<1>1. /\ win[w].st = "open" /\ win' = [win EXCEPT ![w] = new]
      /\ whitelist' = [whitelist EXCEPT ![rpc[win[w].conn].site] = e]
      /\ UNCHANGED <<page, connectedSites, conn, opened, wallets, rpc, dbQueue, job>>
    BY DEF SaveWhitelist
<1>2. x \in Wallet /\ win[w] \in Win
    BY DEF IInv, TypeOK
<1>3. new \in Win /\ new.st = "saved" /\ new.conn = win[w].conn /\ new.sign = win[w].sign
    BY <1>2 DEF Win
<1>4. e \in Entry
    BY <1>2 DEF Entry, AuthRequested
<1> HIDE DEF new, e
<1>5. opened' \in SUBSET Req /\ whitelist' \in [Site -> Entry]
    BY <1>1, <1>4 DEF IInv, TypeOK
<1> QED BY <1>1, <1>3, <1>5, WindowKeeps

LEMMA AcceptConnectKeeps ==
    ASSUME IInv, NEW w \in Window, AcceptConnect(w)
    PROVE  IInv'
<1>1. /\ win[w].st = "saved" /\ ConnectResponse(win[w].conn, TRUE, win[w].wallet)
      /\ win' = [win EXCEPT ![w] = [win[w] EXCEPT !.st = "closing"]]
      /\ UNCHANGED <<page, opened, whitelist, wallets, dbQueue, job>>
    BY WinSt DEF AcceptConnect, IInv
<1>2. win[w].wallet \in Wallet \cup {NULL} /\ opened' \in SUBSET Req /\ whitelist' \in [Site -> Entry]
    BY <1>1 DEF IInv, TypeOK, Win
<1> QED BY <1>1, <1>2, ConnectResponseEffect, WinSt, UserKeeps DEF IInv

LEMMA CancelConnectKeeps ==
    ASSUME IInv, NEW w \in Window, CancelConnect(w)
    PROVE  IInv'
<1>1. /\ win[w].st = "open" /\ ConnectResponse(win[w].conn, FALSE, NULL)
      /\ win' = [win EXCEPT ![w] = [win[w] EXCEPT !.st = "closing"]]
      /\ UNCHANGED <<page, opened, whitelist, wallets, dbQueue, job>>
    BY WinSt DEF CancelConnect, IInv
<1>2. opened' \in SUBSET Req /\ whitelist' \in [Site -> Entry]
    BY <1>1 DEF IInv, TypeOK
<1> QED BY <1>1, <1>2, ConnectResponseEffect, WinSt, UserKeeps DEF IInv

LEMMA ShownIsSent ==
    ASSUME IInv, NEW w \in Window
    PROVE  win[w].sign \in Req \cup {NULL} /\ (win[w].sign # NULL => rpc[win[w].sign].pc # "new")
BY DEF IInv, TypeOK, Win, Windows

LEMMA RejectSignKeeps ==
    ASSUME IInv, NEW w \in Window, RejectSign(w)
    PROVE  IInv'
<1>1. /\ win[w].st \in {"ready", "unguarded"} /\ SignRejected(win[w].sign)
      /\ win' = [win EXCEPT ![w] = IF win[w].st = "ready" THEN [win[w] EXCEPT !.st = "closing"]
                                   ELSE Closed]
      /\ UNCHANGED <<page, connectedSites, opened, whitelist, wallets, dbQueue, job>>
    BY DEF RejectSign, IInv, TypeOK
<1>2. PICK new \in Win : /\ win' = [win EXCEPT ![w] = new] /\ new.st \in {"closing", "closed"}
                         /\ new.conn \in {NULL, win[w].conn} /\ new.sign \in {NULL, win[w].sign}
    BY <1>1, ClosedWin, WinSt DEF IInv
<1>3. /\ Answers /\ conn' \in [Req -> ConnectedSite] /\ Status
      /\ \A e, r \in Req : r \in conn'[e].pend => r \in conn[e].pend
      /\ \A r \in Req : rpc'[r] = rpc[r] \/ rpc[r].kind \notin ConnectKind
    BY <1>1, ShownIsSent, SignRejectedEffect
<1>4. Prompt'
    BY <1>1, <1>3, PromptAnswers DEF IInv
<1>5. /\ connectedSites' \in [Tab -> Req \cup {NULL}]
      /\ opened' \in SUBSET Req /\ whitelist' \in [Site -> Entry]
    BY <1>1 DEF IInv, TypeOK
<1> QED BY <1>1, <1>2, <1>3, <1>4, <1>5, UserKeeps

LEMMA UnloadKeeps ==
    ASSUME IInv, NEW w \in Window, Unload(w)
    PROVE  IInv'
<1>1. /\ win[w].st \in {"open", "ready", "saved", "closing", "unguarded"}
      /\ win' = [win EXCEPT ![w] = Closed]
      /\ UNCHANGED <<page, opened, whitelist, wallets, dbQueue, job>>
    BY DEF Unload
<1>2. opened' \in SUBSET Req /\ whitelist' \in [Site -> Entry]
    BY <1>1 DEF IInv, TypeOK
<1>3. CASE ConnectResponse(win[w].conn, FALSE, NULL)
    BY <1>1, <1>2, <1>3, ConnectResponseEffect, ClosedWin, UserKeeps
<1>4. CASE SignRejected(win[w].sign) /\ UNCHANGED connectedSites
  <2>1. /\ Answers /\ conn' \in [Req -> ConnectedSite] /\ Status
        /\ \A e, r \in Req : r \in conn'[e].pend => r \in conn[e].pend
        /\ \A r \in Req : rpc'[r] = rpc[r] \/ rpc[r].kind \notin ConnectKind
      BY <1>4, ShownIsSent, SignRejectedEffect
  <2>2. Prompt'
      BY <1>4, <2>1, PromptAnswers DEF IInv
  <2>3. connectedSites' \in [Tab -> Req \cup {NULL}]
      BY <1>4 DEF IInv, TypeOK
  <2> QED BY <1>1, <1>2, <2>1, <2>2, <2>3, ClosedWin, UserKeeps
<1>5. CASE UNCHANGED <<connectedSites, conn, rpc>>
    BY <1>1, <1>2, <1>5, ClosedWin, WindowKeeps
<1> QED BY <1>3, <1>4, <1>5 DEF Unload

LEMMA CloseEarlyKeeps ==
    ASSUME IInv, NEW w \in Window, CloseEarly(w)
    PROVE  IInv'
<1>1. /\ win[w].st \in {"loading", "fetched"} /\ win' = [win EXCEPT ![w] = Closed]
      /\ UNCHANGED <<page, connectedSites, conn, opened, whitelist, wallets, rpc, dbQueue, job>>
    BY DEF CloseEarly
<1>2. opened' \in SUBSET Req /\ whitelist' \in [Site -> Entry]
    BY <1>1 DEF IInv, TypeOK
<1> QED BY <1>1, <1>2, ClosedWin, WindowKeeps

LEMMA ReorgFailsKeeps ==
    ASSUME IInv, NEW w \in Window, ReorgFails(w)
    PROVE  IInv'
<1>1. /\ win[w].st = "ready" /\ win' = [win EXCEPT ![w] = [win[w] EXCEPT !.st = "unguarded"]]
      /\ UNCHANGED <<page, connectedSites, conn, opened, whitelist, wallets, rpc, dbQueue, job>>
    BY WinSt DEF ReorgFails, IInv
<1>2. opened' \in SUBSET Req /\ whitelist' \in [Site -> Entry] /\ job[w].what = "idle"
    BY <1>1 DEF IInv, TypeOK, Windows
<1> QED BY <1>1, <1>2, WinSt, WindowKeeps DEF IInv

LEMMA ConfirmSignKeeps ==
    ASSUME IInv, NEW w \in Window, ConfirmSign(w)
    PROVE  IInv'
<1> DEFINE q == win[w].sign
           c == SiteOf(rpc[q].tab)
<1>1. /\ win[w].st \in {"ready", "unguarded"} /\ win' = [win EXCEPT ![w] = Closed]
      /\ UNCHANGED <<page, connectedSites, opened, whitelist, wallets>>
    BY DEF ConfirmSign
<1>2. /\ opened' \in SUBSET Req /\ whitelist' \in [Site -> Entry] /\ job[w].what = "idle"
      /\ connectedSites' \in [Tab -> Req \cup {NULL}] /\ q \in Req \cup {NULL}
    BY <1>1 DEF IInv, TypeOK, Windows, Win
<1>3. CASE UNCHANGED <<conn, rpc, dbQueue, job>>
    BY <1>1, <1>2, <1>3, ClosedWin, WindowKeeps
<1>4. ASSUME NEW r \in PendingFor(q), rpc' = Resolve(r, TRUE, q), conn' = DeletePend(c, q),
             UNCHANGED <<dbQueue, job>>
      PROVE  IInv'
  <2>1. r \in Req /\ rpc[r].kind \notin ConnectKind
      BY ShownIsSent, PendingForSign
  <2>2. Answers /\ \A p \in Req : p # r => rpc'[p] = rpc[p]
      BY <1>2, <1>4, <2>1, ResolveAnswers DEF IInv
  <2>3. /\ conn' \in [Req -> ConnectedSite] /\ Status
        /\ \A e, p \in Req : p \in conn'[e].pend => p \in conn[e].pend
      BY <1>4, DeletePendEffect DEF IInv
  <2>4. Prompt'
      BY <1>1, <2>1, <2>2, <2>3, PromptAnswers DEF IInv
  <2> QED BY <1>1, <1>2, <1>4, <2>2, <2>3, <2>4, ClosedWin, UserKeeps
<1>5. ASSUME NEW r \in PendingFor(q),
             job' = [job EXCEPT ![w] = [what |-> "sign", shows |-> q, conn |-> c, req |-> r]],
             dbQueue' = Append(dbQueue, <<"ui", w>>), UNCHANGED <<conn, rpc>>
      PROVE  IInv'
  <2> DEFINE j == [what |-> "sign", shows |-> q, conn |-> c, req |-> r]
  <2>1. r \in Req /\ rpc[r].pc # "new" /\ rpc[r].kind \in SignKind
      BY ShownIsSent, PendingForSign
  <2>2. q # NULL /\ rpc[q].tab \in Tab
      BY <1>2, ShownIsSent DEF PendingFor, IInv, Arrived
  <2>3. c \in Req \cup {NULL}
      BY <2>2 DEF IInv, TypeOK, SiteOf
  <2>4. j \in Job /\ j.what = "sign" /\ j.req = r
      BY <1>2, <2>1, <2>3 DEF Job
  <2>5. job' = [job EXCEPT ![w] = j]
      BY <1>5
  <2> HIDE DEF j, q, c
  <2> QED BY <1>1, <1>2, <1>5, <2>1, <2>4, <2>5, ClosedWin, WaitKeeps
<1> QED BY <1>3, <1>4, <1>5 DEF ConfirmSign

LEMMA SignJobKeeps ==
    ASSUME IInv, NEW w \in Window, SignJob(w)
    PROVE  IInv'
<1> DEFINE q == job[w].shows
           r == job[w].req
           t == rpc[q].tab
<1>1. /\ Holds(<<"ui", w>>) /\ job[w].what = "sign" /\ DropMissing(t)
      /\ conn' = DeletePend(job[w].conn, q)
      /\ job' = [job EXCEPT ![w] = NoJob] /\ dbQueue' = Tail(dbQueue)
      /\ UNCHANGED <<page, opened, wallets, win>>
    BY DEF SignJob
<1>2. PICK ok \in BOOLEAN : rpc' = Resolve(r, ok, IF ok THEN q ELSE NULL)
    BY DEF SignJob
<1>3. r \in Req /\ q \in Req \cup {NULL} /\ win[w] \in Win /\ win \in [Window -> Win]
    BY <1>1 DEF IInv, Signing, TypeOK, Job
<1>4. Answers
    BY <1>2, <1>3, ResolveAnswers DEF IInv
<1>5. /\ conn' \in [Req -> ConnectedSite] /\ Status
      /\ \A e, p \in Req : p \in conn'[e].pend => p \in conn[e].pend
    BY <1>1, DeletePendEffect DEF IInv
<1>6. win' = [win EXCEPT ![w] = win[w]] /\ job[w].what # "idle"
    BY <1>1, <1>3
<1> HIDE DEF q, r, t
<1> QED BY <1>1, <1>3, <1>4, <1>5, <1>6, DoneKeeps

\* Steps of the surroundings.
LEMMA SurroundingsKeep ==
    ASSUME IInv, page' \in [Tab -> Page], whitelist' \in [Site -> Entry], wallets' \in SUBSET Wallet,
           UNCHANGED <<connectedSites, conn, opened, rpc, dbQueue, win, job>>
    PROVE  IInv'
<1>1. TypeOK'
    BY DEF IInv, TypeOK
<1>2. Arrived' /\ Windows' /\ Signing'
    BY DEF IInv, Arrived, Windows, Signing
<1>3. Mutex'
    BY DEF IInv, Mutex, Distinct, Queued, DbExclusive, Holds
<1>4. Prompt'
    BY DEF IInv, Prompt, Pending, Connected, SiteOf
<1> QED BY <1>1, <1>2, <1>3, <1>4 DEF IInv

LEMMA EnvironmentKeeps ==
    ASSUME IInv,
           \/ \E t \in Tab, s \in Site : Navigate(t, s)
           \/ \E x \in Wallet : DeleteWallet(x)
           \/ \E s \in Site : RemoveSite(s)
    PROVE  IInv'
<1>1. ASSUME NEW t \in Tab, NEW s \in Site, Navigate(t, s) PROVE IInv'
  <2> DEFINE p == [site |-> s, load |-> page[t].load + 1, uid |-> 0]
  <2>1. page \in [Tab -> Page] /\ page[t].load \in Nat /\ whitelist \in [Site -> Entry]
        /\ wallets \in SUBSET Wallet
      BY DEF IInv, TypeOK, Page
  <2>2. p \in Page
      BY <2>1 DEF Page
  <2>3. page' = [page EXCEPT ![t] = p]
      BY <1>1 DEF Navigate
  <2> HIDE DEF p
  <2>4. page' \in [Tab -> Page]
      BY <2>1, <2>2, <2>3
  <2> QED BY <1>1, <2>1, <2>4, SurroundingsKeep DEF Navigate
<1>2. ASSUME NEW x \in Wallet, DeleteWallet(x) PROVE IInv'
  <2>1. page' \in [Tab -> Page] /\ whitelist' \in [Site -> Entry] /\ wallets' \in SUBSET Wallet
      BY <1>2 DEF IInv, TypeOK, DeleteWallet
  <2> QED BY <1>2, <2>1, SurroundingsKeep DEF DeleteWallet
<1>3. ASSUME NEW s \in Site, RemoveSite(s) PROVE IInv'
  <2>1. page' \in [Tab -> Page] /\ whitelist' \in [Site -> Entry] /\ wallets' \in SUBSET Wallet
      BY <1>3 DEF IInv, TypeOK, RemoveSite, Entry
  <2> QED BY <1>3, <2>1, SurroundingsKeep DEF RemoveSite
<1> QED BY <1>1, <1>2, <1>3

-----------------------------------------------------------------------------
(* The theorems. *)

LEMMA InitHolds ==
    ASSUME Init
    PROVE  IInv
<1>1. NULL \notin Req
    BY ConstantsAssumption
<1>2. TypeOK
  <2>1. page \in [Tab -> Page]
      BY DEF Init, Page
  <2>2. NoConn \in ConnectedSite /\ NewRpc \in Rpc /\ NoWin \in Win /\ NoJob \in Job
      BY DEF NoConn, ConnectedSite, NewRpc, Rpc, Entry, NoWin, Win, NoJob, Job
  <2>3. whitelist \in [Site -> Entry]
      BY DEF Init, Entry
  <2>4. dbQueue \in Seq(Task)
      BY DEF Init
  <2> QED BY <2>1, <2>2, <2>3, <2>4 DEF Init, TypeOK
<1>3. Arrived
    BY DEF Init, Arrived, NewRpc
<1>4. Mutex
    BY DEF Init, Mutex, Distinct, Queued, DbExclusive, NewRpc
<1>5. Windows
    BY DEF Init, Windows, Window, NoWin, NoJob
<1>6. Signing
    BY DEF Init, Signing, NoConn, NoJob
<1>7. Prompt
    BY DEF Init, Prompt, NewRpc, Pending, SiteOf
<1> QED BY <1>2, <1>3, <1>4, <1>5, <1>6, <1>7 DEF IInv

LEMMA NextKeeps ==
    ASSUME IInv, [Next]_vars
    PROVE  IInv'
<1>1. CASE UNCHANGED vars
  <2>1. page' \in [Tab -> Page] /\ whitelist' \in [Site -> Entry] /\ wallets' \in SUBSET Wallet
      BY <1>1 DEF vars, IInv, TypeOK
  <2> QED BY <1>1, <2>1, SurroundingsKeep DEF vars
<1>2. ASSUME NEW r \in Req, NEW t \in Tab, NEW k \in Kind, Receive(r, t, k) PROVE IInv'
    BY <1>2, ReceiveKeeps
<1>3. ASSUME NEW r \in Req, Handler(r) PROVE IInv'
    BY <1>3, ReadWhitelistKeeps, ConnectWhitelistedKeeps, ConnectSilentFailsKeeps,
       ConnectAsksKeeps, SelectWalletKeeps, RespondAtOnceKeeps, AskKeeps, FinishKeeps DEF Handler
<1>4. ASSUME NEW w \in Window, Load(w) \/ UiJob(w) PROVE IInv'
    BY <1>4, FetchConnectKeeps, FetchNoSignKeeps, FetchSignKeeps, UtxosJobKeeps, SignJobKeeps
    DEF Load, UiJob
<1>5. ASSUME NEW w \in Window, User(w) \/ CloseEarly(w) \/ ReorgFails(w) PROVE IInv'
    BY <1>5, SaveWhitelistKeeps, AcceptConnectKeeps, CancelConnectKeeps, ConfirmSignKeeps,
       RejectSignKeeps, UnloadKeeps, CloseEarlyKeeps, ReorgFailsKeeps DEF User
<1>6. ASSUME NEW m \in Menu, OpenMenu(m) PROVE IInv'
    BY <1>6, OpenMenuKeeps
<1> QED BY <1>1, <1>2, <1>3, <1>4, <1>5, <1>6, EnvironmentKeeps DEF Next

\* IInv is an inductive invariant of the background page.
THEOREM Inductive == Spec => []IInv
<1>1. Init => IInv
    BY InitHolds
<1>2. IInv /\ [Next]_vars => IInv'
    BY NextKeeps
<1> QED BY <1>1, <1>2, PTL DEF Spec

\* Type correctness (the state of background.js never leaves its types).
THEOREM TypeCorrect == Spec => []TypeOK
<1>1. IInv => TypeOK
    BY DEF IInv
<1> QED BY <1>1, Inductive, PTL

\* dbAccessMutex: at most one handler is past the start of withDb.
THEOREM MutualExclusion == Spec => []DbExclusive
<1>1. IInv => DbExclusive
    BY DEF IInv, Mutex
<1> QED BY <1>1, Inductive, PTL

\* confirmConnect: the ConnectedSite that waits for the user is the one of the request
\* that holds the database.
THEOREM PromptKept == Spec => []ConnectPromptKept
<1>1. IInv => ConnectPromptKept
  <2> SUFFICES ASSUME IInv PROVE ConnectPromptKept
      OBVIOUS
  <2>1. \A t \in Tab : Pending(t) => /\ Holds(<<"rpc", SiteOf(t)>>)
                                     /\ rpc[SiteOf(t)].pc = "asked"
                                     /\ rpc[SiteOf(t)].tab = t
      BY PendingIsAsked
  <2> QED BY <2>1 DEF ConnectPromptKept, IInv, Prompt
<1> QED BY <1>1, Inductive, PTL
==============================================================================
