--------------------------- MODULE DappSigningProofs ---------------------------
(***************************************************************************)
(* More theorems about DappConnector: what signing relies on, and what     *)
(* pages are told about their connection.                                  *)
(*                                                                         *)
(* A window answers with a tab and a uid, and the background page looks    *)
(* the request up again.  That it finds the one the window showed needs    *)
(* that uids are new in every load of a page (Uids), that a window, its    *)
(* messages and an answer carry the tab and uid of what was shown          *)
(* (Confirmed), that the PendingSigns of a ConnectedSite are those of one  *)
(* tab (Sites), that a handler in withDb has the ConnectedSite of its tab  *)
(* as long as it waits (Captured), and that its PendingSign stays there    *)
(* (Findable).  SignInv is the conjunction; it is inductive on top of IInv.*)
(*                                                                         *)
(* That every request finds a window needs a count besides: a window is    *)
(* not told which request to fetch, but there are as many windows that are *)
(* still to fetch one as requests that were not fetched (Counted).         *)
(***************************************************************************)
EXTENDS DappConnectorProofs, FiniteSetTheorems

\* A signing request or a query: a message that carries a uid.
Sent(r) == rpc[r].pc # "new" /\ rpc[r].kind \notin ConnectKind

\* Uids count up in every page load: no two messages of one load have the same.
Uids ==
    /\ \A r \in Req : rpc[r].pc # "new" => rpc[r].kind \in Kind
    /\ \A r \in Req : Sent(r) =>
          /\ rpc[r].load <= page[rpc[r].tab].load
          /\ rpc[r].load = page[rpc[r].tab].load => rpc[r].uid < page[rpc[r].tab].uid
    /\ \A q, r \in Req : Sent(q) /\ Sent(r) /\ SameKey(q, r) /\ rpc[q].load = rpc[r].load => q = r

\* Request r is answered by a window that shows q.
Answering(q, r) == q \in Req /\ r \in Req /\ Sent(q) /\ Sent(r) /\ SameKey(q, r)

\* What windows show, and the jobs and answers that come of it.
Confirmed ==
    /\ \A w \in Window : win[w].sign # NULL => Sent(win[w].sign)
    /\ \A w \in Window : job[w].what = "utxos" =>
          job[w].shows \in Req /\ rpc[job[w].shows].pc # "new" /\ rpc[job[w].shows].kind = "tx/cardano"
    /\ \A w \in Window : job[w].what = "sign" =>
          Answering(job[w].shows, job[w].req) /\ rpc[job[w].req].kind \notin {"data", "tx-reorg/cardano"}
    /\ \A r \in Req : rpc[r].signed # NULL => Answering(rpc[r].signed, r)

\* The connect request c created the ConnectedSite request r deals with.
Late == {"asked", "answered", "done"}
Behind(c, r) == rpc[c].pc \in Late /\ rpc[c].tab = rpc[r].tab

\* ConnectedSites belong to one tab, and their PendingSigns are told apart by uid.
Sites ==
    /\ \A t \in Tab : SiteOf(t) # NULL =>
          rpc[SiteOf(t)].tab = t /\ conn[SiteOf(t)].status # "none"
    /\ \A r \in Req : rpc[r].conn # NULL => Behind(rpc[r].conn, r)
    /\ \A c, r \in Req : r \in conn[c].pend => Behind(c, r)
    /\ \A c, q, r \in Req :
          q \in conn[c].pend /\ r \in conn[c].pend /\ rpc[q].uid = rpc[r].uid => q = r

\* The ConnectedSite a handler captured in withDb is the one of its tab.
Captures(r) ==
    rpc[r].pc \in {"selected", "asked"} /\ NeedsDb(rpc[r].kind) /\ rpc[r].kind \notin ConnectKind
Captured ==
    /\ \A r \in Req : rpc[r].pc = "selected" => rpc[r].kind \notin ConnectKind
    /\ \A r \in Req : Captures(r) => rpc[r].conn # NULL /\ SiteOf(rpc[r].tab) = rpc[r].conn

\* Its PendingSign is in the Map, unless a later load of the page took its uid.
Reused(r) == \E q \in Req : Sent(q) /\ SameKey(q, r) /\ rpc[q].load # rpc[r].load
Findable ==
    \A r \in Req : rpc[r].pc = "asked" /\ rpc[r].kind \in DbSignKind =>
       r \in conn[rpc[r].conn].pend \/ Reused(r)

SignInv == Uids /\ Confirmed /\ Sites /\ Captured /\ Findable

-----------------------------------------------------------------------------
(* What keeps each part. *)

\* No request arrives.
Known ==
    /\ rpc' \in [Req -> Rpc]
    /\ \A q \in Req : /\ rpc'[q].kind = rpc[q].kind /\ rpc'[q].tab = rpc[q].tab
                      /\ rpc'[q].load = rpc[q].load /\ rpc'[q].uid = rpc[q].uid
                      /\ rpc'[q].pc = "new" <=> rpc[q].pc = "new"
                      /\ rpc[q].pc \in Late => rpc'[q].pc \in Late

LEMMA UidsKept ==
    ASSUME IInv, Uids, Known,
           \A t \in Tab : page'[t] = page[t] \/ page'[t].load > page[t].load,
           page' \in [Tab -> Page]
    PROVE  Uids'
<1>1. \A r \in Req : /\ Sent(r)' = Sent(r) /\ rpc[r] \in Rpc
                     /\ Sent(r) => rpc[r].tab \in Tab
    BY DEF IInv, TypeOK, Arrived, Known, Sent
<1>2. \A r \in Req : rpc[r].load \in Nat /\ rpc[r].uid \in Nat
    BY <1>1 DEF Rpc
<1>3. \A t \in Tab : page[t].load \in Nat /\ page'[t].load \in Nat
    BY DEF IInv, TypeOK, Page
<1>4. \A r \in Req : rpc'[r].pc # "new" => rpc'[r].kind \in Kind
    BY DEF Uids, Known
<1>5. ASSUME NEW r \in Req, Sent(r)
      PROVE  /\ rpc'[r].load <= page'[rpc'[r].tab].load
             /\ rpc'[r].load = page'[rpc'[r].tab].load => rpc'[r].uid < page'[rpc'[r].tab].uid
  <2>1. rpc[r].tab \in Tab /\ rpc'[r].tab = rpc[r].tab /\ rpc'[r].load = rpc[r].load
        /\ rpc'[r].uid = rpc[r].uid
      BY <1>1, <1>5 DEF Known
  <2>2. /\ rpc[r].load <= page[rpc[r].tab].load
        /\ rpc[r].load = page[rpc[r].tab].load => rpc[r].uid < page[rpc[r].tab].uid
      BY <1>5 DEF Uids
  <2> QED BY <1>2, <1>3, <2>1, <2>2
<1>6. ASSUME NEW q \in Req, NEW r \in Req, Sent(q), Sent(r), SameKey(q, r)',
             rpc'[q].load = rpc'[r].load
      PROVE  q = r
    BY <1>6 DEF Uids, Known, SameKey
<1> QED BY <1>1, <1>4, <1>5, <1>6 DEF Uids

LEMMA SentKept ==
    ASSUME Known, NEW q \in Req, NEW r \in Req
    PROVE  /\ Sent(q)' = Sent(q) /\ SameKey(q, r)' = SameKey(q, r)
           /\ Answering(q, r)' = Answering(q, r)
           /\ Behind(q, r) => Behind(q, r)'
           /\ Reused(q) => Reused(q)'
<1>1. Sent(q)' = Sent(q) /\ Sent(r)' = Sent(r)
    BY DEF Known, Sent
<1>2. SameKey(q, r)' = SameKey(q, r)
    BY DEF Known, SameKey
<1>3. Behind(q, r) => Behind(q, r)'
    BY DEF Known, Behind
<1>4. Reused(q) => Reused(q)'
    BY DEF Known, Reused, SameKey, Sent
<1> QED BY <1>1, <1>2, <1>3, <1>4 DEF Answering

LEMMA ConfirmedKept ==
    ASSUME IInv, Confirmed, Known,
           \A w \in Window : \/ win'[w].sign \in {NULL, win[w].sign}
                             \/ win'[w].sign \in Req /\ Sent(win'[w].sign),
           \A w \in Window :
              \/ job'[w] = job[w] \/ job'[w].what = "idle"
              \/ /\ job'[w].what = "utxos" /\ job'[w].shows \in Req
                 /\ rpc[job'[w].shows].pc # "new" /\ rpc[job'[w].shows].kind = "tx/cardano"
              \/ /\ job'[w].what = "sign" /\ Answering(job'[w].shows, job'[w].req)
                 /\ rpc[job'[w].req].kind \notin {"data", "tx-reorg/cardano"},
           \A r \in Req : \/ rpc'[r].signed \in {NULL, rpc[r].signed}
                          \/ Answering(rpc'[r].signed, r)
    PROVE  Confirmed'
<1>1. \A w \in Window : win[w].sign \in Req \cup {NULL}
    BY DEF IInv, TypeOK, Win
<1>2. ASSUME NEW w \in Window, win'[w].sign # NULL PROVE Sent(win[w].sign)'
  <2>1. win'[w].sign \in Req /\ Sent(win'[w].sign)
      BY <1>1, <1>2 DEF Confirmed
  <2> QED BY <2>1 DEF Known, Sent
<1>3. ASSUME NEW w \in Window, job'[w].what = "utxos"
      PROVE  /\ job'[w].shows \in Req /\ rpc'[job'[w].shows].pc # "new"
             /\ rpc'[job'[w].shows].kind = "tx/cardano"
  <2>1. /\ job'[w].shows \in Req /\ rpc[job'[w].shows].pc # "new"
        /\ rpc[job'[w].shows].kind = "tx/cardano"
      BY <1>3 DEF Confirmed
  <2> QED BY <2>1 DEF Known
<1>4. ASSUME NEW w \in Window, job'[w].what = "sign"
      PROVE  /\ Answering(job[w].shows, job[w].req)'
             /\ rpc'[job'[w].req].kind \notin {"data", "tx-reorg/cardano"}
  <2>1. /\ Answering(job'[w].shows, job'[w].req)
        /\ rpc[job'[w].req].kind \notin {"data", "tx-reorg/cardano"}
      BY <1>4 DEF Confirmed
  <2>2. job'[w].shows \in Req /\ job'[w].req \in Req
      BY <2>1 DEF Answering
  <2> QED BY <2>1, <2>2 DEF Known, Answering, Sent, SameKey
<1>5. ASSUME NEW r \in Req, rpc'[r].signed # NULL PROVE Answering(rpc[r].signed, r)'
  <2>1. PICK q \in Req : q = rpc'[r].signed /\ Answering(q, r)
      BY <1>5 DEF Confirmed, Answering
  <2>2. Answering(q, r)'
      BY <2>1, SentKept
  <2> QED BY <2>1, <2>2
<1> QED BY <1>2, <1>3, <1>4, <1>5 DEF Confirmed

LEMMA SitesKept ==
    ASSUME IInv, Sites, Known,
           \A t \in Tab : \/ connectedSites'[t] \in {NULL, connectedSites[t]}
                          \/ /\ connectedSites'[t] \in Req /\ rpc[connectedSites'[t]].tab = t
                             /\ conn'[connectedSites'[t]].status # "none",
           \A c \in Req : conn[c].status # "none" => conn'[c].status # "none",
           \A r \in Req : \/ rpc'[r].conn \in {NULL, rpc[r].conn}
                          \/ rpc[r].tab \in Tab /\ rpc'[r].conn = SiteOf(rpc[r].tab),
           \A c \in Req :
              \/ conn'[c].pend \subseteq conn[c].pend
              \/ \E r \in Req : /\ Behind(c, r)
                                /\ conn'[c].pend = {q \in conn[c].pend : rpc[q].uid # rpc[r].uid} \cup {r}
    PROVE  Sites'
<1>1. conn \in [Req -> ConnectedSite] /\ connectedSites \in [Tab -> Req \cup {NULL}] /\ rpc \in [Req -> Rpc]
    BY DEF IInv, TypeOK
<1>2. ASSUME NEW t \in Tab, connectedSites'[t] # NULL
      PROVE  rpc'[connectedSites'[t]].tab = t /\ conn'[connectedSites'[t]].status # "none"
    BY <1>1, <1>2 DEF Sites, SiteOf, Known
<1>3. ASSUME NEW r \in Req, rpc'[r].conn # NULL PROVE Behind(rpc[r].conn, r)'
  <2>1. CASE rpc'[r].conn = rpc[r].conn
    <3>1. rpc[r].conn \in Req /\ Behind(rpc[r].conn, r)
        BY <1>1, <1>3, <2>1 DEF Sites, Rpc
    <3> QED BY <2>1, <3>1 DEF Known, Behind
  <2>2. CASE rpc[r].tab \in Tab /\ rpc'[r].conn = SiteOf(rpc[r].tab)
    <3> DEFINE c == SiteOf(rpc[r].tab)
    <3>1. c \in Req /\ rpc[c].tab = rpc[r].tab /\ rpc[c].pc \in Late
        BY <1>1, <1>3, <2>2 DEF Sites, SiteOf, IInv, Prompt, Late
    <3> QED BY <2>2, <3>1 DEF Known, Behind
  <2> QED BY <1>3, <2>1, <2>2
<1>4. \A c \in Req : conn[c].pend \subseteq Req
    BY <1>1 DEF ConnectedSite
<1>5. ASSUME NEW c \in Req
      PROVE  /\ \A r \in Req : r \in conn'[c].pend => Behind(c, r)'
             /\ \A q, r \in Req : q \in conn'[c].pend /\ r \in conn'[c].pend /\ rpc'[q].uid = rpc'[r].uid
                   => q = r
  <2>1. CASE conn'[c].pend \subseteq conn[c].pend
      BY <2>1, SentKept DEF Sites, Known
  <2>2. ASSUME NEW p \in Req, Behind(c, p),
               conn'[c].pend = {q \in conn[c].pend : rpc[q].uid # rpc[p].uid} \cup {p}
        PROVE  /\ \A r \in Req : r \in conn'[c].pend => Behind(c, r)'
               /\ \A q, r \in Req : q \in conn'[c].pend /\ r \in conn'[c].pend /\ rpc'[q].uid = rpc'[r].uid
                     => q = r
    <3>1. \A r \in Req : r \in conn'[c].pend => Behind(c, r)
        BY <2>2 DEF Sites
    <3>2. \A q, r \in Req : q \in conn'[c].pend /\ r \in conn'[c].pend /\ rpc[q].uid = rpc[r].uid
             => q = r
        BY <2>2 DEF Sites
    <3> QED BY <3>1, <3>2, SentKept DEF Known
  <2> QED BY <2>1, <2>2
<1> QED BY <1>2, <1>3, <1>5 DEF Sites, SiteOf

LEMMA CapturedKept ==
    ASSUME Captured, Known,
           \A r \in Req : \/ rpc'[r].pc = rpc[r].pc /\ rpc'[r].conn = rpc[r].conn
                          \/ rpc'[r].pc \notin {"selected", "asked"}
                          \/ rpc[r].kind \in ConnectKind /\ rpc'[r].pc = "asked"
                          \/ /\ rpc[r].kind \notin ConnectKind
                             /\ NeedsDb(rpc[r].kind) => /\ rpc'[r].conn # NULL
                                                        /\ connectedSites'[rpc[r].tab] = rpc'[r].conn,
           \A r \in Req : Captures(r) /\ Captures(r)' =>
              \/ connectedSites'[rpc[r].tab] = connectedSites[rpc[r].tab]
              \/ rpc'[r].conn # NULL /\ connectedSites'[rpc[r].tab] = rpc'[r].conn
    PROVE  Captured'
<1>1. ASSUME NEW r \in Req, rpc'[r].pc = "selected" PROVE rpc'[r].kind \notin ConnectKind
    BY <1>1 DEF Captured, Known
<1>2. ASSUME NEW r \in Req, Captures(r)'
      PROVE  rpc'[r].conn # NULL /\ connectedSites'[rpc'[r].tab] = rpc'[r].conn
  <2>1. rpc'[r].kind = rpc[r].kind /\ rpc'[r].tab = rpc[r].tab
      BY DEF Known
  <2>2. CASE rpc'[r].pc = rpc[r].pc /\ rpc'[r].conn = rpc[r].conn
    <3>1. Captures(r)
        BY <1>2, <2>1, <2>2 DEF Captures
    <3> QED BY <1>2, <2>1, <2>2, <3>1 DEF Captured, SiteOf
  <2> QED BY <1>2, <2>1, <2>2 DEF Captures
<1> QED BY <1>1, <1>2 DEF Captured, SiteOf

LEMMA FindableKept ==
    ASSUME Findable, Known,
           \A r \in Req : rpc'[r].pc = "asked" /\ rpc[r].kind \in DbSignKind =>
              \/ /\ rpc[r].pc = "asked" /\ rpc'[r].conn = rpc[r].conn
                 /\ \/ r \in conn[rpc[r].conn].pend => r \in conn'[rpc[r].conn].pend
                    \/ Reused(r)
              \/ r \in conn'[rpc'[r].conn].pend
    PROVE  Findable'
BY SentKept DEF Findable, Known

-----------------------------------------------------------------------------
(* Handlers. *)

LEMMA OneKnown ==
    ASSUME IInv, NEW r \in Req, NEW rec \in Rpc, rpc' = [rpc EXCEPT ![r] = rec],
           rec.kind = rpc[r].kind, rec.tab = rpc[r].tab, rec.load = rpc[r].load,
           rec.uid = rpc[r].uid, rpc[r].pc # "new", rec.pc # "new",
           rpc[r].pc \in Late => rec.pc \in Late
    PROVE  Known /\ rpc'[r] = rec /\ \A q \in Req : q # r => rpc'[q] = rpc[q]
<1>1. rpc \in [Req -> Rpc]
    BY DEF IInv, TypeOK
<1> QED BY <1>1 DEF Known

LEMMA RespondIs ==
    ASSUME IInv, NEW r \in Req, NEW ok \in BOOLEAN, NEW x \in Wallet \cup {NULL},
           NEW s \in Req \cup {NULL}, Respond(r, ok, x, s), rpc[r].pc # "new"
    PROVE  /\ Known /\ \A q \in Req : q # r => rpc'[q] = rpc[q]
           /\ rpc'[r].pc = "done" /\ rpc'[r].conn = NULL /\ rpc'[r].signed = s /\ rpc'[r].ok = ok
<1> DEFINE rec == [rpc[r] EXCEPT !.pc = "done", !.found = NoEntry, !.conn = NULL,
                                  !.ok = ok, !.wallet = x, !.signed = s]
<1>1. rpc[r] \in Rpc /\ NoEntry \in Entry
    BY DEF IInv, TypeOK, Entry
<1>2. rpc' = [rpc EXCEPT ![r] = rec]
    BY DEF Respond
<1>3. rec \in Rpc
    BY <1>1 DEF Rpc
<1>4. /\ rec.kind = rpc[r].kind /\ rec.tab = rpc[r].tab /\ rec.load = rpc[r].load
      /\ rec.uid = rpc[r].uid /\ rec.pc = "done"
      /\ rec.conn = NULL /\ rec.signed = s /\ rec.ok = ok
    BY <1>1 DEF Rpc
<1> HIDE DEF rec
<1> QED BY <1>2, <1>3, <1>4, OneKnown DEF Late

LEMMA SamePage ==
    ASSUME IInv, UNCHANGED page
    PROVE  (\A t \in Tab : page'[t] = page[t] \/ page'[t].load > page[t].load) /\ page' \in [Tab -> Page]
BY DEF IInv, TypeOK

LEMMA HandlerKeeps ==
    ASSUME IInv, SignInv, Known, NEW r \in Req, \A q \in Req : q # r => rpc'[q] = rpc[q],
           rpc'[r].conn \in {NULL, rpc[r].conn}, rpc'[r].signed \in {NULL, rpc[r].signed},
           rpc'[r].pc \notin {"selected", "asked"},
           UNCHANGED <<page, connectedSites, conn, win, job>>
    PROVE  SignInv'
<1>1. Uids'
    BY UidsKept, SamePage DEF SignInv
<1>2. Confirmed'
    BY ConfirmedKept DEF SignInv
<1>3. Sites'
    BY SitesKept DEF SignInv
<1>4. Captured'
    BY CapturedKept DEF SignInv
<1>5. Findable'
    BY FindableKept DEF SignInv
<1> QED BY <1>1, <1>2, <1>3, <1>4, <1>5 DEF SignInv

LEMMA SignReadWhitelist ==
    ASSUME IInv, SignInv, NEW r \in Req, ReadWhitelist(r)
    PROVE  SignInv'
<1>1. /\ rpc[r] \in Rpc /\ rpc[r].site \in Site /\ rpc[r].pc = "queued"
      /\ UNCHANGED <<page, connectedSites, conn, win, job>>
    BY DEF IInv, TypeOK, ReadWhitelist, Arrived
<1> DEFINE found == Whitelisted(rpc[r].site, AuthRequested(rpc[r].kind))
           rec == [rpc[r] EXCEPT !.pc = "checked", !.found = found]
<1>2. found \in Entry
    BY <1>1 DEF IInv, TypeOK, Whitelisted, Entry
<1>3. rpc' = [rpc EXCEPT ![r] = rec]
    BY DEF ReadWhitelist
<1> HIDE DEF found
<1>4. rec \in Rpc
    BY <1>1, <1>2 DEF Rpc
<1>5. /\ rec.kind = rpc[r].kind /\ rec.tab = rpc[r].tab /\ rec.load = rpc[r].load
      /\ rec.uid = rpc[r].uid /\ rec.pc = "checked"
      /\ rec.conn = rpc[r].conn /\ rec.signed = rpc[r].signed
    BY <1>1 DEF Rpc
<1> HIDE DEF rec
<1> QED BY <1>1, <1>3, <1>4, <1>5, OneKnown, HandlerKeeps DEF Late

LEMMA SignConnectSilentFails ==
    ASSUME IInv, SignInv, NEW r \in Req, ConnectSilentFails(r)
    PROVE  SignInv'
<1>1. /\ Respond(r, FALSE, NULL, NULL) /\ rpc[r].pc = "checked"
      /\ UNCHANGED <<page, connectedSites, conn, win, job>>
    BY DEF ConnectSilentFails
<1>2. /\ Known /\ \A q \in Req : q # r => rpc'[q] = rpc[q]
      /\ rpc'[r].pc = "done" /\ rpc'[r].conn = NULL /\ rpc'[r].signed = NULL
    BY <1>1, RespondIs
<1> QED BY <1>1, <1>2, HandlerKeeps

LEMMA SignRespondAtOnce ==
    ASSUME IInv, SignInv, NEW r \in Req, RespondAtOnce(r)
    PROVE  SignInv'
<1>1. rpc[r].wallet \in Wallet \cup {NULL}
    BY DEF IInv, TypeOK, Rpc
<1>2. PICK ok \in BOOLEAN : Respond(r, ok, rpc[r].wallet, NULL)
    BY DEF RespondAtOnce
<1> QED BY <1>1, <1>2, RespondIs, HandlerKeeps DEF RespondAtOnce

LEMMA SignFinish ==
    ASSUME IInv, SignInv, NEW r \in Req, Finish(r)
    PROVE  SignInv'
<1>1. /\ rpc[r].wallet \in Wallet \cup {NULL} /\ rpc[r].ok \in BOOLEAN
      /\ rpc[r].signed \in Req \cup {NULL}
    BY DEF IInv, TypeOK, Rpc
<1>2. PICK ok \in BOOLEAN : Respond(r, ok, rpc[r].wallet, IF ok THEN rpc[r].signed ELSE NULL)
    BY <1>1 DEF Finish
<1> QED BY <1>1, <1>2, RespondIs, HandlerKeeps DEF Finish

\* Whoever holds the database is the only handler that waits in it.
LEMMA OthersWait ==
    ASSUME IInv, NEW r \in Req, Holds(<<"rpc", r>>), NEW q \in Req, q # r
    PROVE  ~Captures(q) /\ ~(rpc[q].pc = "asked" /\ rpc[q].kind \in DbSignKind)
<1>1. NeedsDb(rpc[q].kind) => rpc[q].pc \notin InDb
    BY AloneInDb DEF IInv
<1> QED BY <1>1 DEF Captures, InDb, NeedsDb, DbSignKind

LEMMA WindowWaits ==
    ASSUME IInv, NEW w, Holds(<<"ui", w>>), NEW q \in Req
    PROVE  ~Captures(q) /\ ~(rpc[q].pc = "asked" /\ rpc[q].kind \in DbSignKind)
<1>1. NeedsDb(rpc[q].kind) => rpc[q].pc \notin InDb
    BY NoneInDb DEF IInv
<1> QED BY <1>1 DEF Captures, InDb, NeedsDb, DbSignKind

LEMMA SignConnectWhitelisted ==
    ASSUME IInv, SignInv, NEW r \in Req, ConnectWhitelisted(r)
    PROVE  SignInv'
<1> DEFINE t == rpc[r].tab
           x == rpc[r].found.wallet
           new == [status |-> "connected", wallet |-> x, pend |-> {}]
<1>1. /\ rpc[r].pc = "checked" /\ rpc[r].found # NoEntry /\ Respond(r, TRUE, x, NULL)
      /\ connectedSites' = IF SiteOf(t) = NULL THEN [connectedSites EXCEPT ![t] = r] ELSE connectedSites
      /\ conn' = IF SiteOf(t) = NULL THEN [conn EXCEPT ![r] = new] ELSE conn
      /\ UNCHANGED <<page, win, job>>
    BY DEF ConnectWhitelisted
<1>2. /\ t \in Tab /\ rpc[r].kind \in ConnectKind /\ x \in Wallet
      /\ connectedSites \in [Tab -> Req \cup {NULL}] /\ conn \in [Req -> ConnectedSite]
    BY <1>1 DEF IInv, Arrived, TypeOK, Rpc, Entry
<1>3. Holds(<<"rpc", r>>)
    BY <1>1, <1>2, ConnectNeedsDb DEF IInv, Mutex, DbExclusive
<1>4. /\ Known /\ \A q \in Req : q # r => rpc'[q] = rpc[q]
      /\ rpc'[r].pc = "done" /\ rpc'[r].conn = NULL /\ rpc'[r].signed = NULL
    BY <1>1, <1>2, RespondIs
<1>5. new.status = "connected" /\ new.pend = {}
    OBVIOUS
<1> HIDE DEF t, x, new
<1>6. Uids'
    BY <1>1, <1>4, UidsKept, SamePage DEF SignInv
<1>7. Confirmed'
    BY <1>1, <1>4, ConfirmedKept DEF SignInv
<1>8. Sites'
  <2>1. \A u \in Tab : \/ connectedSites'[u] \in {NULL, connectedSites[u]}
                       \/ /\ connectedSites'[u] \in Req /\ rpc[connectedSites'[u]].tab = u
                          /\ conn'[connectedSites'[u]].status # "none"
      BY <1>1, <1>2, <1>5 DEF t
  <2>2. \A c \in Req : /\ conn[c].status # "none" => conn'[c].status # "none"
                       /\ conn'[c].pend \subseteq conn[c].pend
      BY <1>1, <1>2, <1>5
  <2>3. \A q \in Req : rpc'[q].conn \in {NULL, rpc[q].conn}
      BY <1>4
  <2> QED BY <1>4, <2>1, <2>2, <2>3, SitesKept DEF SignInv
<1>9. Captured'
    BY <1>3, <1>4, OthersWait, CapturedKept DEF SignInv, Captures
<1>10. Findable'
    BY <1>3, <1>4, OthersWait, FindableKept DEF SignInv
<1> QED BY <1>6, <1>7, <1>8, <1>9, <1>10 DEF SignInv

LEMMA SignConnectAsks ==
    ASSUME IInv, SignInv, NEW r \in Req, ConnectAsks(r)
    PROVE  SignInv'
<1> DEFINE t == rpc[r].tab
           new == [status |-> "pending", wallet |-> NULL, pend |-> {}]
           rec == [rpc[r] EXCEPT !.pc = "asked"]
<1>1. /\ rpc[r].pc = "checked"
      /\ connectedSites' = [connectedSites EXCEPT ![t] = r]
      /\ conn' = [conn EXCEPT ![r] = new]
      /\ rpc' = [rpc EXCEPT ![r] = rec]
      /\ win' = [win EXCEPT ![r].st = "loading"]
      /\ UNCHANGED <<page, job>>
    BY DEF ConnectAsks
<1>2. /\ t \in Tab /\ rpc[r].kind \in ConnectKind /\ rpc[r] \in Rpc
      /\ connectedSites \in [Tab -> Req \cup {NULL}] /\ conn \in [Req -> ConnectedSite]
      /\ win \in [Window -> Win]
    BY <1>1 DEF IInv, Arrived, TypeOK
<1>3. Holds(<<"rpc", r>>)
    BY <1>1, <1>2, ConnectNeedsDb DEF IInv, Mutex, DbExclusive
<1>4. rec \in Rpc /\ rec.pc = "asked" /\ rec.kind = rpc[r].kind /\ rec.tab = rpc[r].tab
      /\ rec.load = rpc[r].load /\ rec.uid = rpc[r].uid /\ rec.conn = rpc[r].conn
      /\ rec.signed = rpc[r].signed
    BY <1>2 DEF Rpc
<1> HIDE DEF rec
<1>5. /\ Known /\ \A q \in Req : q # r => rpc'[q] = rpc[q]
      /\ rpc'[r] = rec
    BY <1>1, <1>4, OneKnown DEF Late
<1>6. new.status = "pending" /\ new.pend = {}
    OBVIOUS
<1> HIDE DEF t, new
<1>7. Uids'
    BY <1>1, <1>5, UidsKept, SamePage DEF SignInv
<1>8. Confirmed'
  <2>1. \A w \in Window : win'[w].sign = win[w].sign
      BY <1>1, <1>2 DEF Win
  <2> QED BY <1>1, <1>4, <1>5, <2>1, ConfirmedKept DEF SignInv
<1>9. Sites'
  <2>1. \A u \in Tab : \/ connectedSites'[u] \in {NULL, connectedSites[u]}
                       \/ /\ connectedSites'[u] \in Req /\ rpc[connectedSites'[u]].tab = u
                          /\ conn'[connectedSites'[u]].status # "none"
      BY <1>1, <1>2, <1>6 DEF t
  <2>2. \A c \in Req : /\ conn[c].status # "none" => conn'[c].status # "none"
                       /\ conn'[c].pend \subseteq conn[c].pend
      BY <1>1, <1>2, <1>6
  <2>3. \A q \in Req : rpc'[q].conn \in {NULL, rpc[q].conn}
      BY <1>4, <1>5
  <2> QED BY <1>5, <2>1, <2>2, <2>3, SitesKept DEF SignInv
<1>10. Captured'
    BY <1>2, <1>3, <1>4, <1>5, OthersWait, CapturedKept DEF SignInv, Captures
<1>11. Findable'
  <2>1. rpc[r].kind \notin DbSignKind
      BY <1>2 DEF ConnectKind, DbSignKind
  <2> QED BY <1>3, <1>5, <2>1, OthersWait, FindableKept DEF SignInv
<1> QED BY <1>7, <1>8, <1>9, <1>10, <1>11 DEF SignInv

LEMMA DropSites ==
    ASSUME IInv, NEW t, DropMissing(t), NEW u \in Tab
    PROVE  connectedSites'[u] \in {NULL, connectedSites[u]}
BY DEF DropMissing, IInv, TypeOK

LEMMA SignSelectWallet ==
    ASSUME IInv, SignInv, NEW r \in Req, SelectWallet(r)
    PROVE  SignInv'
<1> DEFINE t == rpc[r].tab
<1>1. /\ Holds(<<"rpc", r>>) /\ rpc[r].pc = "queued" /\ rpc[r].kind \notin ConnectKind
      /\ DropMissing(t) /\ t \in Tab /\ rpc[r] \in Rpc
      /\ UNCHANGED <<page, conn, win, job>>
    BY DEF SelectWallet, IInv, Arrived, TypeOK
<1>2. CASE Usable(t)
  <2>1. SiteOf(t) \in Req /\ SiteOf(t) # NULL /\ conn[SiteOf(t)].wallet \in Wallet
      BY <1>1, <1>2, UsableIsTyped DEF IInv, Usable, Connected
  <2>2. UNCHANGED connectedSites
      BY <1>1, <1>2 DEF DropMissing, Missing, Usable
  <2> DEFINE rec == [rpc[r] EXCEPT !.pc = "selected", !.conn = SiteOf(t),
                                   !.wallet = conn[SiteOf(t)].wallet]
  <2>3. rpc' = [rpc EXCEPT ![r] = rec]
      BY <1>2 DEF SelectWallet
  <2>4. rec \in Rpc /\ rec.pc = "selected" /\ rec.kind = rpc[r].kind /\ rec.tab = t
        /\ rec.load = rpc[r].load /\ rec.uid = rpc[r].uid /\ rec.conn = SiteOf(t)
        /\ rec.signed = rpc[r].signed
      BY <1>1, <2>1 DEF Rpc
  <2> HIDE DEF rec
  <2>5. Known /\ rpc'[r] = rec /\ \A q \in Req : q # r => rpc'[q] = rpc[q]
      BY <1>1, <2>3, <2>4, OneKnown DEF Late
  <2>6. Uids'
      BY <1>1, <2>5, UidsKept, SamePage DEF SignInv
  <2>7. Confirmed'
      BY <1>1, <2>4, <2>5, ConfirmedKept DEF SignInv
  <2>8. Sites'
    <3>1. \A q \in Req : \/ rpc'[q].conn \in {NULL, rpc[q].conn}
                         \/ rpc[q].tab \in Tab /\ rpc'[q].conn = SiteOf(rpc[q].tab)
        BY <1>1, <2>4, <2>5
    <3> QED BY <1>1, <2>2, <2>5, <3>1, SitesKept DEF SignInv
  <2>9. Captured'
    <3>1. connectedSites'[rpc[r].tab] = rpc'[r].conn /\ rpc'[r].conn # NULL
        BY <2>1, <2>2, <2>4, <2>5 DEF SiteOf
    <3> QED BY <1>1, <2>2, <2>5, <3>1, CapturedKept DEF SignInv
  <2>10. Findable'
      BY <1>1, <2>4, <2>5, OthersWait, FindableKept DEF SignInv
  <2> QED BY <2>6, <2>7, <2>8, <2>9, <2>10 DEF SignInv
<1>3. CASE ~Usable(t)
  <2>1. Respond(r, FALSE, NULL, NULL)
      BY <1>3 DEF SelectWallet
  <2>2. /\ Known /\ \A q \in Req : q # r => rpc'[q] = rpc[q]
        /\ rpc'[r].pc = "done" /\ rpc'[r].conn = NULL /\ rpc'[r].signed = NULL
      BY <1>1, <2>1, RespondIs
  <2>3. Uids'
      BY <1>1, <2>2, UidsKept, SamePage DEF SignInv
  <2>4. Confirmed'
      BY <1>1, <2>2, ConfirmedKept DEF SignInv
  <2>5. Sites'
    <3>1. \A q \in Req : rpc'[q].conn \in {NULL, rpc[q].conn}
        BY <2>2
    <3> QED BY <1>1, <2>2, <3>1, DropSites, SitesKept DEF SignInv
  <2>6. Captured'
      BY <1>1, <2>2, OthersWait, CapturedKept DEF SignInv, Captures
  <2>7. Findable'
      BY <1>1, <2>2, OthersWait, FindableKept DEF SignInv
  <2> QED BY <2>3, <2>4, <2>5, <2>6, <2>7 DEF SignInv
<1> QED BY <1>2, <1>3

LEMMA SignAsk ==
    ASSUME IInv, SignInv, NEW r \in Req, Ask(r)
    PROVE  SignInv'
<1> DEFINE c == IF rpc[r].kind \in {"data", "tx-reorg/cardano"} THEN SiteOf(rpc[r].tab)
                ELSE rpc[r].conn
<1>1. /\ rpc[r].pc = "selected" /\ rpc[r].kind \in SignKind /\ rpc[r].tab \in Tab
      /\ rpc[r] \in Rpc
      /\ UNCHANGED <<page, connectedSites, job>>
    BY DEF Ask, IInv, Arrived, TypeOK
<1>2. c \in Req \cup {NULL}
    BY <1>1 DEF IInv, TypeOK, SiteOf, Rpc
<1>3. CASE c = NULL
  <2>1. Respond(r, FALSE, NULL, NULL) /\ UNCHANGED <<conn, win>>
      BY <1>3 DEF Ask
  <2> QED BY <1>1, <2>1, RespondIs, HandlerKeeps
<1>4. CASE c # NULL
  <2> DEFINE rec == [rpc[r] EXCEPT !.pc = "asked", !.conn = c]
             p == {q \in conn[c].pend : rpc[q].uid # rpc[r].uid} \cup {r}
  <2>1. /\ rpc' = [rpc EXCEPT ![r] = rec]
        /\ conn' = [conn EXCEPT ![c].pend = p]
        /\ win' = [win EXCEPT ![r].st = "loading"]
      BY <1>4 DEF Ask
  <2>r. rec \in Rpc
    <3> HIDE DEF c
    <3> QED BY <1>1, <1>2 DEF Rpc
  <2>f. rec.pc = "asked" /\ rec.conn = c
      BY <1>1 DEF Rpc
  <2>g. /\ rec.kind = rpc[r].kind /\ rec.tab = rpc[r].tab /\ rec.load = rpc[r].load
        /\ rec.uid = rpc[r].uid /\ rec.signed = rpc[r].signed
      BY <1>1 DEF Rpc
  <2>2. rec \in Rpc /\ rec.pc = "asked" /\ rec.kind = rpc[r].kind /\ rec.tab = rpc[r].tab
        /\ rec.load = rpc[r].load /\ rec.uid = rpc[r].uid /\ rec.conn = c
        /\ rec.signed = rpc[r].signed
      BY <2>f, <2>g, <2>r
  <2> HIDE DEF rec
  <2>l. rpc[r].pc # "new" /\ rec.pc # "new" /\ rec.pc \in Late
      BY <1>1, <2>2 DEF Late
  <2>u. rpc' = [rpc EXCEPT ![r] = rec]
      BY <2>1
  <2>3. Known /\ rpc'[r] = rec /\ \A q \in Req : q # r => rpc'[q] = rpc[q]
      BY <2>l, <2>u, <2>2, OneKnown
  <2>4. c = SiteOf(rpc[r].tab) \/ c = rpc[r].conn
      OBVIOUS
  <2>5. NeedsDb(rpc[r].kind) => c = SiteOf(rpc[r].tab)
    <3>1. rpc[r].kind \notin ConnectKind
        BY <1>1 DEF SignKind, DbSignKind, ConnectKind
    <3>2. NeedsDb(rpc[r].kind) => SiteOf(rpc[r].tab) = rpc[r].conn
        BY <1>1, <3>1 DEF SignInv, Captured, Captures
    <3> QED BY <2>4, <3>2
  <2> HIDE DEF c
  <2>6. c \in Req /\ Behind(c, r)
    <3>1. connectedSites \in [Tab -> Req \cup {NULL}]
        BY DEF IInv, TypeOK
    <3>2. CASE c = SiteOf(rpc[r].tab)
        BY <1>1, <1>2, <1>4, <3>1, <3>2 DEF SignInv, Sites, IInv, Prompt, Late, Behind
    <3>3. CASE c = rpc[r].conn
        BY <1>2, <1>4, <3>3 DEF SignInv, Sites
    <3> QED BY <1>2, <1>4, <2>4, <3>2, <3>3
  <2>7. /\ conn' \in [Req -> ConnectedSite] /\ conn'[c].pend = p
        /\ \A d \in Req : conn'[d].status = conn[d].status /\ (d # c => conn'[d].pend = conn[d].pend)
    <3>1. conn \in [Req -> ConnectedSite] /\ conn[c] \in ConnectedSite
        BY <2>6 DEF IInv, TypeOK
    <3>2. p \in SUBSET Req
        BY <3>1 DEF ConnectedSite
    <3> HIDE DEF p
    <3> QED BY <2>1, <2>6, <3>1, <3>2 DEF ConnectedSite
  <2>8. Uids'
      BY <1>1, <2>3, UidsKept, SamePage DEF SignInv
  <2>9. Confirmed'
    <3>1. win \in [Window -> Win]
        BY DEF IInv, TypeOK
    <3>2. \A w \in Window : win'[w].sign = win[w].sign
        BY <2>1, <3>1 DEF Win
    <3> QED BY <1>1, <2>2, <2>3, <3>2, ConfirmedKept DEF SignInv
  <2>10. Sites'
    <3>1. \A q \in Req : \/ rpc'[q].conn \in {NULL, rpc[q].conn}
                         \/ rpc[q].tab \in Tab /\ rpc'[q].conn = SiteOf(rpc[q].tab)
        BY <1>1, <2>2, <2>3, <2>4
    <3>2. \A d \in Req :
              \/ conn'[d].pend \subseteq conn[d].pend
              \/ \E s \in Req : /\ Behind(d, s)
                                /\ conn'[d].pend = {q \in conn[d].pend : rpc[q].uid # rpc[s].uid} \cup {s}
        BY <2>6, <2>7
    <3> HIDE DEF p
    <3> QED BY <1>1, <2>3, <2>7, <3>1, <3>2, SitesKept DEF SignInv
  <2>11. Captured'
    <3>1. rpc[r].kind \notin ConnectKind
        BY <1>1 DEF SignKind, DbSignKind, ConnectKind
    <3>2. NeedsDb(rpc[r].kind) => rpc'[r].conn # NULL /\ connectedSites'[rpc[r].tab] = rpc'[r].conn
        BY <1>1, <1>4, <2>2, <2>3, <2>5 DEF SiteOf
    <3> QED BY <1>1, <2>3, <3>1, <3>2, CapturedKept DEF SignInv
  <2>12. Findable'
    <3>1. r \in conn'[rpc'[r].conn].pend
        BY <2>2, <2>3, <2>7
    <3>2. ASSUME NEW q \in Req, q # r, rpc[q].pc = "asked", rpc[q].kind \in DbSignKind,
                 q \in conn[rpc[q].conn].pend
          PROVE  q \in conn'[rpc[q].conn].pend \/ Reused(q)
      <4> DEFINE d == rpc[q].conn
      <4>1. d # NULL /\ d \in Req /\ Behind(d, q)
        <5>1. Captures(q)
            BY <3>2 DEF Captures, DbSignKind, ConnectKind, NeedsDb
        <5>2. rpc[q] \in Rpc
            BY DEF IInv, TypeOK
        <5> QED BY <5>1, <5>2 DEF SignInv, Captured, Sites, Rpc
      <4>2. CASE d # c
          BY <2>7, <3>2, <4>1, <4>2
      <4>3. CASE d = c /\ rpc[q].uid # rpc[r].uid
          BY <2>7, <3>2, <4>3
      <4>4. CASE d = c /\ rpc[q].uid = rpc[r].uid
        <5>1. SameKey(r, q)
            BY <2>6, <4>1, <4>4 DEF SameKey, Behind
        <5>2. Sent(q) /\ Sent(r)
            BY <1>1, <3>2 DEF Sent, SignKind, DbSignKind, ConnectKind
        <5>3. rpc[r].load # rpc[q].load
            BY <3>2, <5>1, <5>2 DEF SignInv, Uids
        <5> QED BY <5>1, <5>2, <5>3 DEF Reused
      <4> QED BY <4>2, <4>3, <4>4
    <3> HIDE DEF p
    <3> QED BY <2>3, <3>1, <3>2, FindableKept DEF SignInv
  <2> QED BY <2>8, <2>9, <2>10, <2>11, <2>12 DEF SignInv
<1> QED BY <1>3, <1>4

-----------------------------------------------------------------------------
(* Windows. *)

LEMMA StillKnown ==
    ASSUME IInv, UNCHANGED rpc
    PROVE  Known
<1>1. rpc \in [Req -> Rpc]
    BY DEF IInv, TypeOK
<1> QED BY <1>1 DEF Known

\* A step that changes at most what windows show and do.
LEMMA ViewKeeps ==
    ASSUME IInv, SignInv, UNCHANGED <<page, connectedSites, conn, rpc>>,
           \A w \in Window : \/ win'[w].sign \in {NULL, win[w].sign}
                             \/ win'[w].sign \in Req /\ Sent(win'[w].sign),
           \A w \in Window :
              \/ job'[w] = job[w] \/ job'[w].what = "idle"
              \/ /\ job'[w].what = "utxos" /\ job'[w].shows \in Req
                 /\ rpc[job'[w].shows].pc # "new" /\ rpc[job'[w].shows].kind = "tx/cardano"
              \/ /\ job'[w].what = "sign" /\ Answering(job'[w].shows, job'[w].req)
                 /\ rpc[job'[w].req].kind \notin {"data", "tx-reorg/cardano"}
    PROVE  SignInv'
<1>1. Known
    BY StillKnown
<1>2. Uids'
    BY <1>1, UidsKept, SamePage DEF SignInv
<1>3. Confirmed'
    BY <1>1, ConfirmedKept DEF SignInv
<1>4. Sites'
    BY <1>1, SitesKept DEF SignInv
<1>5. Captured'
    BY <1>1, CapturedKept DEF SignInv
<1>6. Findable'
    BY <1>1, FindableKept DEF SignInv
<1> QED BY <1>2, <1>3, <1>4, <1>5, <1>6 DEF SignInv

\* The sign request of a window, when the window changes to new.
LEMMA OneWindow ==
    ASSUME IInv, NEW w \in Window, NEW new, win' = [win EXCEPT ![w] = new],
           \/ new.sign \in {NULL, win[w].sign}
           \/ new.sign \in Req /\ Sent(new.sign)
    PROVE  \A v \in Window : \/ win'[v].sign \in {NULL, win[v].sign}
                             \/ win'[v].sign \in Req /\ Sent(win'[v].sign)
BY DEF IInv, TypeOK

\* A window's state changes: it still shows what it showed.
LEMMA StateOnly ==
    ASSUME IInv, NEW w \in Window, NEW st, win' = [win EXCEPT ![w].st = st]
    PROVE  \A v \in Window : win'[v].sign \in {NULL, win[v].sign}
<1>1. win \in [Window -> Win] /\ win[w] \in Win
    BY DEF IInv, TypeOK
<1> QED BY <1>1 DEF Win

LEMMA SignFetchConnect ==
    ASSUME IInv, SignInv, NEW w \in Window, FetchConnect(w)
    PROVE  SignInv'
<1>1. UNCHANGED <<page, connectedSites, conn, rpc, job>> /\ win[w] \in Win /\ win \in [Window -> Win]
    BY DEF FetchConnect, IInv, TypeOK
<1>2. \A v \in Window : win'[v].sign \in {NULL, win[v].sign}
  <2>1. CASE win' = [win EXCEPT ![w].st = "fetched"]
      BY <2>1, StateOnly
  <2>2. ASSUME NEW t \in Tab, win' = [win EXCEPT ![w].st = "fetched", ![w].conn = SiteOf(t)]
        PROVE  \A v \in Window : win'[v].sign \in {NULL, win[v].sign}
      BY <1>1, <2>2 DEF Win
  <2> QED BY <2>1, <2>2 DEF FetchConnect
<1> QED BY <1>1, <1>2, ViewKeeps

LEMMA SignFetchNoSign ==
    ASSUME IInv, SignInv, NEW w \in Window, FetchNoSign(w)
    PROVE  SignInv'
BY StateOnly, ViewKeeps DEF FetchNoSign

LEMMA SignOpenMenu ==
    ASSUME IInv, SignInv, NEW m \in Menu, OpenMenu(m)
    PROVE  SignInv'
<1> DEFINE new == [NoWin EXCEPT !.st = "loading"]
<1>1. new.sign = NULL /\ m \in Window
    BY DEF NoWin, Window
<1>2. win' = [win EXCEPT ![m] = new] /\ UNCHANGED <<page, connectedSites, conn, rpc, job>>
    BY DEF OpenMenu
<1> HIDE DEF new
<1> QED BY <1>1, <1>2, OneWindow, ViewKeeps

LEMMA SignFetchSign ==
    ASSUME IInv, SignInv, NEW w \in Window, FetchSign(w)
    PROVE  SignInv'
<1>1. /\ win[w] \in Win /\ win \in [Window -> Win] /\ job \in [Window -> Job]
      /\ UNCHANGED <<page, connectedSites, conn, rpc>>
    BY DEF FetchSign, IInv, TypeOK
<1>2. PICK q \in Unopened :
       IF ~Connected(rpc[q].tab)
       THEN /\ win' = [win EXCEPT ![w].st = "open"]
            /\ UNCHANGED <<job, dbQueue>>
       ELSE IF rpc[q].kind = "tx/cardano"
       THEN /\ win' = [win EXCEPT ![w].st = "open", ![w].sign = q]
            /\ job' = [job EXCEPT ![w] = [NoJob EXCEPT !.what = "utxos", !.shows = q]]
            /\ dbQueue' = Append(dbQueue, <<"ui", w>>)
       ELSE /\ win' = [win EXCEPT ![w].st = IF IsSignWin(w) THEN "ready" ELSE "open",
                                  ![w].sign = q]
            /\ UNCHANGED <<job, dbQueue>>
    BY DEF FetchSign
<1>3. q \in Req /\ rpc[q].pc # "new" /\ Sent(q)
  <2>1. PICK t \in Tab : SiteOf(t) # NULL /\ q \in conn[SiteOf(t)].pend
      BY <1>2 DEF Unopened
  <2>2. SiteOf(t) \in Req /\ q \in Req
      BY <1>2, <2>1 DEF IInv, TypeOK, SiteOf, Unopened
  <2> QED BY <2>1, <2>2 DEF IInv, Signing, Sent, SignKind, DbSignKind, ConnectKind
<1>4. CASE ~Connected(rpc[q].tab)
    BY <1>1, <1>2, <1>4, StateOnly, ViewKeeps
<1>5. CASE Connected(rpc[q].tab) /\ rpc[q].kind = "tx/cardano"
  <2> DEFINE new == [win[w] EXCEPT !.st = "open", !.sign = q]
             j == [NoJob EXCEPT !.what = "utxos", !.shows = q]
  <2>1. new.sign = q /\ j.what = "utxos" /\ j.shows = q
      BY <1>1 DEF Win, NoJob
  <2>2. win' = [win EXCEPT ![w] = new] /\ job' = [job EXCEPT ![w] = j]
      BY <1>2, <1>5
  <2> HIDE DEF new, j
  <2>3. \A v \in Window :
              \/ job'[v] = job[v] \/ job'[v].what = "idle"
              \/ /\ job'[v].what = "utxos" /\ job'[v].shows \in Req
                 /\ rpc[job'[v].shows].pc # "new" /\ rpc[job'[v].shows].kind = "tx/cardano"
      BY <1>1, <1>3, <1>5, <2>1, <2>2
  <2> QED BY <1>1, <1>3, <2>1, <2>2, <2>3, OneWindow, ViewKeeps
<1>6. CASE Connected(rpc[q].tab) /\ rpc[q].kind # "tx/cardano"
  <2> DEFINE new == [win[w] EXCEPT !.st = IF IsSignWin(w) THEN "ready" ELSE "open", !.sign = q]
  <2>1. new.sign = q
      BY <1>1 DEF Win
  <2>2. win' = [win EXCEPT ![w] = new] /\ UNCHANGED job
      BY <1>2, <1>6
  <2> HIDE DEF new
  <2> QED BY <1>1, <1>3, <2>1, <2>2, OneWindow, ViewKeeps
<1> QED BY <1>4, <1>5, <1>6

LEMMA SignSaveWhitelist ==
    ASSUME IInv, SignInv, NEW w \in Window, NEW x, SaveWhitelist(w, x)
    PROVE  SignInv'
<1>1. /\ win[w] \in Win /\ win \in [Window -> Win]
      /\ win' = [win EXCEPT ![w].st = "saved", ![w].wallet = x]
      /\ UNCHANGED <<page, connectedSites, conn, rpc, job>>
    BY DEF SaveWhitelist, IInv, TypeOK
<1>2. \A v \in Window : win'[v].sign \in {NULL, win[v].sign}
    BY <1>1 DEF Win
<1> QED BY <1>1, <1>2, ViewKeeps

LEMMA ClosedWindow ==
    ASSUME IInv, NEW w \in Window, win' = [win EXCEPT ![w] = Closed]
    PROVE  \A v \in Window : win'[v].sign \in {NULL, win[v].sign}
<1>1. Closed.sign = NULL
    BY ClosedWin
<1> QED BY <1>1 DEF IInv, TypeOK

LEMMA SignCloseEarly ==
    ASSUME IInv, SignInv, NEW w \in Window, CloseEarly(w)
    PROVE  SignInv'
BY ClosedWindow, ViewKeeps DEF CloseEarly

LEMMA SignReorgFails ==
    ASSUME IInv, SignInv, NEW w \in Window, ReorgFails(w)
    PROVE  SignInv'
BY StateOnly, ViewKeeps DEF ReorgFails

-----------------------------------------------------------------------------
(* Answers. *)

LEMMA ConnectResponseIs ==
    ASSUME IInv, NEW w \in Window, NEW accepted \in BOOLEAN, NEW x \in Wallet \cup {NULL},
           ConnectResponse(win[w].conn, accepted, x)
    PROVE  \/ UNCHANGED <<connectedSites, conn, rpc>>
           \/ \E d \in Req :
                 /\ Holds(<<"rpc", d>>) /\ rpc[d].kind \in ConnectKind
                 /\ Known /\ rpc'[d].pc = "answered" /\ \A q \in Req : q # d => rpc'[q] = rpc[q]
                 /\ rpc'[d].conn = rpc[d].conn /\ rpc'[d].signed = rpc[d].signed
                 /\ \A t \in Tab : connectedSites'[t] \in {NULL, connectedSites[t]}
                 /\ \A c \in Req : /\ conn[c].status # "none" => conn'[c].status # "none"
                                   /\ conn'[c].pend = conn[c].pend
<1> DEFINE c == win[w].conn
           t == rpc[c].tab
           d == SiteOf(t)
<1>1. /\ rpc \in [Req -> Rpc] /\ conn \in [Req -> ConnectedSite]
      /\ connectedSites \in [Tab -> Req \cup {NULL}]
    BY DEF IInv, TypeOK
<1>2. CASE c # NULL /\ Pending(t)
  <2>1. c \in Req /\ t \in Tab
      BY <1>2 DEF IInv, TypeOK, Win, Windows, Arrived
  <2> HIDE DEF c, t
  <2>2. /\ d \in Req /\ rpc[d].pc = "asked" /\ rpc[d].kind \in ConnectKind /\ Holds(<<"rpc", d>>)
      BY <1>2, <2>1, PendingIsAsked
  <2>3. rpc[d] \in Rpc /\ conn[d] \in ConnectedSite
      BY <1>1, <2>2
  <2>4. CASE accepted
    <3> DEFINE rec == [rpc[d] EXCEPT !.pc = "answered", !.ok = TRUE, !.wallet = x]
               new == [conn[d] EXCEPT !.status = "connected", !.wallet = x]
    <3>1. /\ conn' = [conn EXCEPT ![d] = new]
          /\ rpc' = [rpc EXCEPT ![d] = rec]
          /\ UNCHANGED connectedSites
        BY <1>2, <2>4 DEF ConnectResponse, c, t
    <3>p. /\ rec.pc = "answered" /\ rec.kind = rpc[d].kind /\ rec.tab = rpc[d].tab
          /\ rec.load = rpc[d].load /\ rec.uid = rpc[d].uid
        BY <2>3 DEF Rpc
    <3>q. rec.conn = rpc[d].conn /\ rec.signed = rpc[d].signed
        BY <2>3 DEF Rpc
    <3>r. rec \in Rpc
        BY <2>3 DEF Rpc
    <3>2. /\ rec \in Rpc /\ rec.pc = "answered" /\ rec.kind = rpc[d].kind /\ rec.tab = rpc[d].tab
          /\ rec.load = rpc[d].load /\ rec.uid = rpc[d].uid
          /\ rec.conn = rpc[d].conn /\ rec.signed = rpc[d].signed
        BY <3>p, <3>q, <3>r
    <3>3. new.status = "connected" /\ new.pend = conn[d].pend
        BY <2>3 DEF ConnectedSite
    <3> HIDE DEF rec, new, d
    <3>4. Known /\ rpc'[d] = rec /\ \A q \in Req : q # d => rpc'[q] = rpc[q]
        BY <2>2, <3>1, <3>2, OneKnown DEF Late
    <3>5. \A e \in Req : /\ conn[e].status # "none" => conn'[e].status # "none"
                         /\ conn'[e].pend = conn[e].pend
        BY <1>1, <2>2, <3>1, <3>3
    <3> QED BY <2>2, <3>1, <3>2, <3>4, <3>5
  <2>5. CASE ~accepted
    <3> DEFINE rec == [rpc[d] EXCEPT !.pc = "answered", !.ok = FALSE]
    <3>1. /\ connectedSites' = [connectedSites EXCEPT ![t] = NULL]
          /\ rpc' = [rpc EXCEPT ![d] = rec]
          /\ UNCHANGED conn
        BY <1>2, <2>5 DEF ConnectResponse, c, t
    <3>p. /\ rec.pc = "answered" /\ rec.kind = rpc[d].kind /\ rec.tab = rpc[d].tab
          /\ rec.load = rpc[d].load /\ rec.uid = rpc[d].uid
        BY <2>3 DEF Rpc
    <3>q. rec.conn = rpc[d].conn /\ rec.signed = rpc[d].signed
        BY <2>3 DEF Rpc
    <3>r. rec \in Rpc
        BY <2>3 DEF Rpc
    <3>2. /\ rec \in Rpc /\ rec.pc = "answered" /\ rec.kind = rpc[d].kind /\ rec.tab = rpc[d].tab
          /\ rec.load = rpc[d].load /\ rec.uid = rpc[d].uid
          /\ rec.conn = rpc[d].conn /\ rec.signed = rpc[d].signed
        BY <3>p, <3>q, <3>r
    <3> HIDE DEF rec, d
    <3>3. Known /\ rpc'[d] = rec /\ \A q \in Req : q # d => rpc'[q] = rpc[q]
        BY <2>2, <3>1, <3>2, OneKnown DEF Late
    <3>4. \A u \in Tab : connectedSites'[u] \in {NULL, connectedSites[u]}
        BY <1>1, <3>1
    <3> QED BY <2>2, <3>1, <3>2, <3>3, <3>4
  <2> QED BY <2>4, <2>5
<1>3. CASE ~(c # NULL /\ Pending(t))
    BY <1>3 DEF ConnectResponse
<1> QED BY <1>2, <1>3

LEMMA SignConnectResponse ==
    ASSUME IInv, SignInv, NEW w \in Window, NEW accepted \in BOOLEAN, NEW x \in Wallet \cup {NULL},
           ConnectResponse(win[w].conn, accepted, x), UNCHANGED <<page, job>>,
           \A v \in Window : win'[v].sign \in {NULL, win[v].sign}
    PROVE  SignInv'
<1>1. CASE UNCHANGED <<connectedSites, conn, rpc>>
    BY <1>1, ViewKeeps
<1>2. ASSUME NEW d \in Req,
             Holds(<<"rpc", d>>), rpc[d].kind \in ConnectKind,
             Known, rpc'[d].pc = "answered", \A q \in Req : q # d => rpc'[q] = rpc[q],
             rpc'[d].conn = rpc[d].conn, rpc'[d].signed = rpc[d].signed,
             \A t \in Tab : connectedSites'[t] \in {NULL, connectedSites[t]},
             \A c \in Req : /\ conn[c].status # "none" => conn'[c].status # "none"
                            /\ conn'[c].pend = conn[c].pend
      PROVE  SignInv'
  <2>1. Uids'
      BY <1>2, UidsKept, SamePage DEF SignInv
  <2>2. Confirmed'
      BY <1>2, ConfirmedKept DEF SignInv
  <2>3. Sites'
    <3>1. \A r \in Req : rpc'[r].conn \in {NULL, rpc[r].conn}
        BY <1>2
    <3> QED BY <1>2, <3>1, SitesKept DEF SignInv
  <2>4. Captured'
      BY <1>2, OthersWait, CapturedKept DEF SignInv, Captures
  <2>5. Findable'
      BY <1>2, OthersWait, FindableKept DEF SignInv
  <2> QED BY <2>1, <2>2, <2>3, <2>4, <2>5 DEF SignInv
<1> QED BY <1>1, <1>2, ConnectResponseIs

LEMMA SignAcceptConnect ==
    ASSUME IInv, SignInv, NEW w \in Window, AcceptConnect(w)
    PROVE  SignInv'
<1>1. win[w].wallet \in Wallet \cup {NULL}
    BY DEF IInv, TypeOK, Win
<1> QED BY <1>1, StateOnly, SignConnectResponse DEF AcceptConnect

LEMMA SignCancelConnect ==
    ASSUME IInv, SignInv, NEW w \in Window, CancelConnect(w)
    PROVE  SignInv'
BY StateOnly, SignConnectResponse DEF CancelConnect

LEMMA ResolveIs ==
    ASSUME IInv, NEW r \in Req, NEW ok \in BOOLEAN, NEW s \in Req \cup {NULL},
           rpc' = Resolve(r, ok, s)
    PROVE  /\ Known /\ \A q \in Req : q # r => rpc'[q] = rpc[q]
           /\ rpc'[r].conn = rpc[r].conn /\ rpc'[r].signed \in {rpc[r].signed, s}
           /\ rpc'[r].pc # "asked" /\ rpc'[r].pc \in {rpc[r].pc, "answered"}
<1> DEFINE rec == [rpc[r] EXCEPT !.pc = "answered", !.ok = ok, !.signed = s]
<1>1. CASE rpc[r].pc = "asked"
  <2>1. rpc[r] \in Rpc
      BY DEF IInv, TypeOK
  <2>2. rpc' = [rpc EXCEPT ![r] = rec]
      BY <1>1 DEF Resolve
  <2>r. rec \in Rpc
      BY <2>1 DEF Rpc
  <2>f. rec.pc = "answered" /\ rec.signed = s
      BY <2>1 DEF Rpc
  <2>g. /\ rec.kind = rpc[r].kind /\ rec.tab = rpc[r].tab
        /\ rec.load = rpc[r].load /\ rec.uid = rpc[r].uid /\ rec.conn = rpc[r].conn
      BY <2>1 DEF Rpc
  <2>3. rec \in Rpc /\ rec.pc = "answered" /\ rec.kind = rpc[r].kind /\ rec.tab = rpc[r].tab
        /\ rec.load = rpc[r].load /\ rec.uid = rpc[r].uid /\ rec.conn = rpc[r].conn
        /\ rec.signed = s
      BY <2>f, <2>g, <2>r
  <2> HIDE DEF rec
  <2>4. rpc[r].pc # "new" /\ rec.pc # "new" /\ rec.pc \in Late
      BY <1>1, <2>3 DEF Late
  <2>5. Known /\ rpc'[r] = rec /\ \A q \in Req : q # r => rpc'[q] = rpc[q]
      BY <2>2, <2>3, <2>4, OneKnown
  <2> QED BY <1>1, <2>3, <2>5
<1>2. CASE rpc[r].pc # "asked"
    BY <1>2, StillKnown DEF Resolve
<1> QED BY <1>1, <1>2

LEMMA DeleteIs ==
    ASSUME IInv, NEW c, NEW q, conn' = DeletePend(c, q), NEW e \in Req
    PROVE  /\ conn'[e].status = conn[e].status
           /\ \A r \in conn[e].pend : e # c \/ rpc[r].uid # rpc[q].uid => r \in conn'[e].pend
           /\ conn'[e].pend \subseteq conn[e].pend
<1>1. conn \in [Req -> ConnectedSite] /\ conn[e] \in ConnectedSite
    BY DEF IInv, TypeOK
<1> DEFINE p == {r \in conn[c].pend : rpc[r].uid # rpc[q].uid}
<1>2. conn' = [conn EXCEPT ![c] = [conn[c] EXCEPT !.pend = p]]
    BY DEF DeletePend
<1>3. CASE e # c
    BY <1>1, <1>2, <1>3
<1>4. CASE e = c
  <2>1. conn'[e] = [conn[e] EXCEPT !.pend = p] /\ p \subseteq conn[e].pend
      BY <1>1, <1>2, <1>4
  <2> HIDE DEF p
  <2>2. conn'[e].pend = p /\ conn'[e].status = conn[e].status
      BY <1>1, <2>1 DEF ConnectedSite
  <2> QED BY <1>4, <2>1, <2>2 DEF p
<1> QED BY <1>3, <1>4

\* The window that shows q answers r: the PendingSign it deletes is the one it resolves.
LEMMA AnswerKeeps ==
    ASSUME IInv, SignInv, NEW q \in Req, Sent(q), NEW r \in PendingFor(q), NEW ok \in BOOLEAN,
           NEW s \in {NULL, q}, rpc' = Resolve(r, ok, s),
           conn' = DeletePend(SiteOf(rpc[q].tab), q),
           UNCHANGED <<page, connectedSites, job>>,
           \A v \in Window : win'[v].sign \in {NULL, win[v].sign}
    PROVE  SignInv'
<1> DEFINE c == SiteOf(rpc[q].tab)
<1>1. /\ r \in Req /\ Sent(r) /\ r \in conn[c].pend /\ SameKey(q, r) /\ c \in Req
  <2>1. q # NULL /\ rpc[q].pc # "new" /\ rpc[q].tab \in Tab
      BY ConstantsAssumption DEF Sent, IInv, Arrived
  <2>2. r \in Req /\ rpc[r].pc # "new" /\ rpc[r].kind \notin ConnectKind
      BY <2>1, PendingForSign
  <2>3. r \in conn[c].pend /\ SameKey(q, r) /\ c # NULL
      BY DEF PendingFor
  <2>4. c \in Req
      BY <2>1, <2>3 DEF IInv, TypeOK, SiteOf
  <2> QED BY <2>2, <2>3, <2>4 DEF Sent
<1> HIDE DEF c
<1>2. /\ Known /\ \A p \in Req : p # r => rpc'[p] = rpc[p]
      /\ rpc'[r].conn = rpc[r].conn /\ rpc'[r].signed \in {rpc[r].signed, s}
      /\ rpc'[r].pc # "asked" /\ rpc'[r].pc \in {rpc[r].pc, "answered"}
    BY <1>1, ResolveIs
<1>3. \A e \in Req : /\ conn'[e].status = conn[e].status
                     /\ \A p \in conn[e].pend : e # c \/ rpc[p].uid # rpc[q].uid => p \in conn'[e].pend
                     /\ conn'[e].pend \subseteq conn[e].pend
    BY DeleteIs DEF c
<1>4. Uids'
    BY <1>2, UidsKept, SamePage DEF SignInv
<1>5. Confirmed'
  <2>1. \A p \in Req : rpc'[p].signed \in {NULL, rpc[p].signed} \/ Answering(rpc'[p].signed, p)
    <3>1. Answering(q, r)
        BY <1>1 DEF Answering
    <3>2. rpc'[r].signed \in {NULL, rpc[r].signed} \/ Answering(rpc'[r].signed, r)
        BY <1>2, <3>1
    <3> QED BY <1>2, <3>2
  <2> QED BY <1>2, <2>1, ConfirmedKept DEF SignInv
<1>6. Sites'
  <2>1. \A p \in Req : rpc'[p].conn \in {NULL, rpc[p].conn}
      BY <1>2
  <2> QED BY <1>2, <1>3, <2>1, SitesKept DEF SignInv
<1>7. Captured'
    BY <1>1, <1>2, CapturedKept DEF SignInv, Captures
<1>8. Findable'
  <2>1. ASSUME NEW p \in Req, rpc'[p].pc = "asked", rpc[p].kind \in DbSignKind
        PROVE  /\ rpc[p].pc = "asked" /\ rpc'[p].conn = rpc[p].conn
               /\ p \in conn[rpc[p].conn].pend => p \in conn'[rpc[p].conn].pend
    <3>1. p # r /\ rpc'[p] = rpc[p]
        BY <1>2, <2>1
    <3>2. rpc[p].conn \in Req
      <4>1. Captures(p) /\ rpc[p] \in Rpc
          BY <2>1, <3>1 DEF Captures, DbSignKind, ConnectKind, NeedsDb, IInv, TypeOK
      <4> QED BY <4>1 DEF SignInv, Captured, Rpc
    <3>3. ASSUME p \in conn[c].pend, rpc[p].uid = rpc[q].uid PROVE FALSE
        BY <1>1, <3>1, <3>3 DEF SignInv, Sites, SameKey
    <3> QED BY <1>3, <2>1, <3>1, <3>2, <3>3
  <2> QED BY <1>2, <2>1, FindableKept DEF SignInv
<1> QED BY <1>4, <1>5, <1>6, <1>7, <1>8 DEF SignInv

LEMMA ShownWasSent ==
    ASSUME IInv, SignInv, NEW w \in Window, win[w].sign # NULL
    PROVE  win[w].sign \in Req /\ Sent(win[w].sign)
BY DEF IInv, TypeOK, Win, SignInv, Confirmed

LEMMA SignRejectedKeeps ==
    ASSUME IInv, SignInv, NEW w \in Window, SignRejected(win[w].sign),
           UNCHANGED <<page, connectedSites, job>>,
           \A v \in Window : win'[v].sign \in {NULL, win[v].sign}
    PROVE  SignInv'
<1> DEFINE q == win[w].sign
<1>1. CASE PendingFor(q) = {}
    BY <1>1, ViewKeeps DEF SignRejected
<1>2. CASE PendingFor(q) # {}
  <2>1. q \in Req /\ Sent(q)
      BY <1>2, ShownWasSent DEF PendingFor
  <2>2. PICK r \in PendingFor(q) : rpc' = Resolve(r, FALSE, NULL)
      BY <1>2 DEF SignRejected
  <2>3. conn' = DeletePend(SiteOf(rpc[q].tab), q)
      BY <1>2 DEF SignRejected
  <2> QED BY <2>1, <2>2, <2>3, AnswerKeeps
<1> QED BY <1>1, <1>2

LEMMA SignRejectSign ==
    ASSUME IInv, SignInv, NEW w \in Window, RejectSign(w)
    PROVE  SignInv'
<1>1. \A v \in Window : win'[v].sign \in {NULL, win[v].sign}
  <2>1. CASE win[w].st = "ready"
    <3>1. win' = [win EXCEPT ![w].st = "closing"]
        BY <2>1 DEF RejectSign, IInv, TypeOK
    <3> QED BY <3>1, StateOnly
  <2>2. CASE win[w].st # "ready"
    <3>1. win' = [win EXCEPT ![w] = Closed]
        BY <2>2 DEF RejectSign, IInv, TypeOK
    <3> QED BY <3>1, ClosedWindow
  <2> QED BY <2>1, <2>2
<1> QED BY <1>1, SignRejectedKeeps DEF RejectSign

LEMMA SignUnload ==
    ASSUME IInv, SignInv, NEW w \in Window, Unload(w)
    PROVE  SignInv'
<1>1. \A v \in Window : win'[v].sign \in {NULL, win[v].sign}
    BY ClosedWindow DEF Unload
<1>2. CASE ConnectResponse(win[w].conn, FALSE, NULL)
    BY <1>1, <1>2, SignConnectResponse DEF Unload
<1>3. CASE SignRejected(win[w].sign) /\ UNCHANGED connectedSites
    BY <1>1, <1>3, SignRejectedKeeps DEF Unload
<1>4. CASE UNCHANGED <<connectedSites, conn, rpc>>
    BY <1>1, <1>4, ViewKeeps DEF Unload
<1> QED BY <1>2, <1>3, <1>4 DEF Unload

LEMMA SignConfirmSign ==
    ASSUME IInv, SignInv, NEW w \in Window, ConfirmSign(w)
    PROVE  SignInv'
<1> DEFINE q == win[w].sign
           c == SiteOf(rpc[q].tab)
<1>1. /\ win' = [win EXCEPT ![w] = Closed]
      /\ UNCHANGED <<page, connectedSites>>
    BY DEF ConfirmSign
<1>2. \A v \in Window : win'[v].sign \in {NULL, win[v].sign}
    BY <1>1, ClosedWindow
<1>3. CASE UNCHANGED <<conn, rpc, job>>
    BY <1>1, <1>2, <1>3, ViewKeeps
<1>4. ASSUME NEW r \in PendingFor(q), rpc' = Resolve(r, TRUE, q), conn' = DeletePend(c, q),
             UNCHANGED job
      PROVE  SignInv'
  <2>1. q \in Req /\ Sent(q)
      BY <1>4, ShownWasSent DEF PendingFor
  <2> QED BY <1>1, <1>2, <1>4, <2>1, AnswerKeeps
<1>5. ASSUME NEW r \in PendingFor(q), rpc[r].kind \notin {"data", "tx-reorg/cardano"},
             job' = [job EXCEPT ![w] = [what |-> "sign", shows |-> q, conn |-> c, req |-> r]],
             UNCHANGED <<conn, rpc>>
      PROVE  SignInv'
  <2> DEFINE j == [what |-> "sign", shows |-> q, conn |-> c, req |-> r]
  <2>1. q \in Req /\ Sent(q) /\ SameKey(q, r)
      BY <1>5, ShownWasSent DEF PendingFor
  <2>2. r \in Req /\ Sent(r)
      BY <2>1, PendingForSign DEF Sent
  <2>3. job' = [job EXCEPT ![w] = j]
      BY <1>5
  <2>4. j.what = "sign" /\ j.shows = q /\ j.req = r
      OBVIOUS
  <2> HIDE DEF j, q, c
  <2>5. Answering(j.shows, j.req) /\ rpc[j.req].kind \notin {"data", "tx-reorg/cardano"}
      BY <1>5, <2>1, <2>2, <2>4 DEF Answering
  <2>6. \A v \in Window :
              \/ job'[v] = job[v] \/ job'[v].what = "idle"
              \/ /\ job'[v].what = "sign" /\ Answering(job'[v].shows, job'[v].req)
                 /\ rpc[job'[v].req].kind \notin {"data", "tx-reorg/cardano"}
    <3>1. \A v \in Window : v # w => job'[v] = job[v]
        BY <2>3 DEF IInv, TypeOK
    <3>2. job'[w] = j
        BY <2>3 DEF IInv, TypeOK
    <3> QED BY <2>4, <2>5, <3>1, <3>2
  <2> QED BY <1>1, <1>2, <1>5, <2>6, ViewKeeps
<1> QED BY <1>3, <1>4, <1>5 DEF ConfirmSign

LEMMA SignUtxosJob ==
    ASSUME IInv, SignInv, NEW w \in Window, UtxosJob(w)
    PROVE  SignInv'
<1> DEFINE t == rpc[job[w].shows].tab
<1>1. /\ Holds(<<"ui", w>>) /\ DropMissing(t)
      /\ job' = [job EXCEPT ![w] = NoJob]
      /\ UNCHANGED <<page, conn, rpc>>
    BY DEF UtxosJob
<1> HIDE DEF t
<1>2. Known
    BY <1>1, StillKnown
<1>3. \A v \in Window : win'[v].sign \in {NULL, win[v].sign}
  <2>1. CASE win' = win
      BY <2>1
  <2>2. CASE win' = [win EXCEPT ![w].st = "ready"]
      BY <2>2, StateOnly
  <2> QED BY <2>1, <2>2 DEF UtxosJob
<1>4. \A v \in Window : job'[v] = job[v] \/ job'[v].what = "idle"
    BY <1>1 DEF IInv, TypeOK, NoJob
<1>5. Uids'
    BY <1>1, <1>2, UidsKept, SamePage DEF SignInv
<1>6. Confirmed'
    BY <1>1, <1>2, <1>3, <1>4, ConfirmedKept DEF SignInv
<1>7. Sites'
    BY <1>1, <1>2, DropSites, SitesKept DEF SignInv
<1>8. Captured'
    BY <1>1, <1>2, WindowWaits, CapturedKept DEF SignInv
<1>9. Findable'
    BY <1>1, <1>2, FindableKept DEF SignInv
<1> QED BY <1>5, <1>6, <1>7, <1>8, <1>9 DEF SignInv

LEMMA SignSignJob ==
    ASSUME IInv, SignInv, NEW w \in Window, SignJob(w)
    PROVE  SignInv'
<1> DEFINE q == job[w].shows
           r == job[w].req
           t == rpc[q].tab
<1>1. /\ Holds(<<"ui", w>>) /\ job[w].what = "sign" /\ DropMissing(t)
      /\ conn' = DeletePend(job[w].conn, q)
      /\ job' = [job EXCEPT ![w] = NoJob]
      /\ UNCHANGED <<page, win>>
    BY DEF SignJob
<1>2. PICK ok \in BOOLEAN : rpc' = Resolve(r, ok, IF ok THEN q ELSE NULL)
    BY DEF SignJob
<1>3. Answering(q, r) /\ q \in Req /\ r \in Req
    BY <1>1 DEF SignInv, Confirmed, Answering
<1> HIDE DEF q, r, t
<1> DEFINE s == IF ok THEN q ELSE NULL
<1>4. s \in Req \cup {NULL} /\ (s # NULL => s = q) /\ rpc' = Resolve(r, ok, s)
    BY <1>2, <1>3
<1> HIDE DEF s
<1>5. /\ Known /\ \A p \in Req : p # r => rpc'[p] = rpc[p]
      /\ rpc'[r].conn = rpc[r].conn /\ rpc'[r].signed \in {rpc[r].signed, s}
      /\ rpc'[r].pc # "asked" /\ rpc'[r].pc \in {rpc[r].pc, "answered"}
    BY <1>3, <1>4, ResolveIs
<1>6. \A e \in Req : conn'[e].status = conn[e].status /\ conn'[e].pend \subseteq conn[e].pend
    BY <1>1, DeleteIs
<1>7. \A v \in Window : job'[v] = job[v] \/ job'[v].what = "idle"
    BY <1>1 DEF IInv, TypeOK, NoJob
<1>8. Uids'
    BY <1>1, <1>5, UidsKept, SamePage DEF SignInv
<1>9. Confirmed'
  <2>1. \A p \in Req : rpc'[p].signed \in {NULL, rpc[p].signed} \/ Answering(rpc'[p].signed, p)
      BY <1>3, <1>4, <1>5
  <2> QED BY <1>1, <1>5, <1>7, <2>1, ConfirmedKept DEF SignInv
<1>10. Sites'
  <2>1. \A p \in Req : rpc'[p].conn \in {NULL, rpc[p].conn}
      BY <1>5
  <2> QED BY <1>1, <1>5, <1>6, <2>1, DropSites, SitesKept DEF SignInv
<1>11. Captured'
    BY <1>1, <1>5, WindowWaits, CapturedKept DEF SignInv
<1>12. Findable'
    BY <1>1, <1>5, WindowWaits, FindableKept DEF SignInv
<1> QED BY <1>8, <1>9, <1>10, <1>11, <1>12 DEF SignInv

-----------------------------------------------------------------------------
(* Arrivals and surroundings. *)

LEMMA SurroundingsKeepSign ==
    ASSUME IInv, SignInv, UNCHANGED <<connectedSites, conn, rpc, win, job>>,
           \A t \in Tab : page'[t] = page[t] \/ page'[t].load > page[t].load,
           page' \in [Tab -> Page]
    PROVE  SignInv'
<1>1. Known
    BY StillKnown
<1>2. Uids'
    BY <1>1, UidsKept DEF SignInv
<1>3. Confirmed'
    BY <1>1, ConfirmedKept DEF SignInv
<1>4. Sites'
    BY <1>1, SitesKept DEF SignInv
<1>5. Captured'
    BY <1>1, CapturedKept DEF SignInv
<1>6. Findable'
    BY <1>1, FindableKept DEF SignInv
<1> QED BY <1>2, <1>3, <1>4, <1>5, <1>6 DEF SignInv

LEMMA SignNavigate ==
    ASSUME IInv, SignInv, NEW t \in Tab, NEW s \in Site, Navigate(t, s)
    PROVE  SignInv'
<1> DEFINE p == [site |-> s, load |-> page[t].load + 1, uid |-> 0]
<1>1. page \in [Tab -> Page] /\ page[t] \in Page /\ page[t].load \in Nat
    BY DEF IInv, TypeOK, Page
<1>2. p \in Page /\ p.load > page[t].load
    BY <1>1 DEF Page
<1>3. page' = [page EXCEPT ![t] = p] /\ UNCHANGED <<connectedSites, conn, rpc, win, job>>
    BY DEF Navigate
<1> HIDE DEF p
<1>4. page' \in [Tab -> Page] /\ \A u \in Tab : page'[u] = page[u] \/ page'[u].load > page[u].load
    BY <1>1, <1>2, <1>3
<1> QED BY <1>3, <1>4, SurroundingsKeepSign

LEMMA SignReceive ==
    ASSUME IInv, SignInv, NEW r \in Req, NEW t \in Tab, NEW k \in Kind, Receive(r, t, k)
    PROVE  SignInv'
<1>1. /\ k \in AnyKind /\ rpc[r].pc = "new" /\ rpc \in [Req -> Rpc] /\ page \in [Tab -> Page]
      /\ page[t] \in Page /\ SiteOf(t) \in Req \cup {NULL}
      /\ UNCHANGED <<connectedSites, conn, win, job>>
    BY ConstantsAssumption DEF Receive, IInv, TypeOK, SiteOf
<1> DEFINE u == IF k \in ConnectKind THEN 0 ELSE page[t].uid
           n == IF k \in ConnectKind THEN page[t].uid ELSE page[t].uid + 1
<1>2. /\ page[t].site \in Site /\ page[t].load \in Nat /\ page[t].uid \in Nat
      /\ u \in Nat /\ n \in Nat /\ n >= page[t].uid
      /\ k \notin ConnectKind => u = page[t].uid /\ n = u + 1
    BY <1>1 DEF Page
<1>3. PICK rec \in Rpc : /\ rpc' = [rpc EXCEPT ![r] = rec]
                         /\ rec.pc \in {"queued", "done", "selected"}
                         /\ rec.kind = k /\ rec.tab = t /\ rec.load = page[t].load /\ rec.uid = u
                         /\ rec.signed = NULL /\ rec.conn \in {NULL, SiteOf(t)}
                         /\ rec.pc = "selected" => ~NeedsDb(k)
  <2> DEFINE arrived == [NewRpc EXCEPT !.pc = "queued", !.kind = k, !.tab = t,
                              !.site = page[t].site, !.load = page[t].load, !.uid = u]
  <2> HIDE DEF u
  <2>1. /\ arrived \in Rpc /\ arrived.pc = "queued" /\ arrived.kind = k /\ arrived.tab = t
        /\ arrived.load = page[t].load /\ arrived.uid = u /\ arrived.signed = NULL
        /\ arrived.conn = NULL
      BY <1>1, <1>2 DEF Rpc, NewRpc, Entry
  <2>2. rpc' = [rpc EXCEPT ![r] = IF NeedsDb(k) THEN arrived
                                  ELSE IF SiteOf(t) = NULL THEN [arrived EXCEPT !.pc = "done"]
                                  ELSE [arrived EXCEPT !.pc = "selected", !.conn = SiteOf(t)]]
      BY DEF Receive, u
  <2> HIDE DEF arrived
  <2>3. CASE NeedsDb(k)
      BY <2>1, <2>2, <2>3
  <2>4. CASE ~NeedsDb(k) /\ SiteOf(t) = NULL
    <3> DEFINE rec == [arrived EXCEPT !.pc = "done"]
    <3>1. /\ rec \in Rpc /\ rec.pc = "done" /\ rec.kind = k /\ rec.tab = t
          /\ rec.load = page[t].load /\ rec.uid = u /\ rec.signed = NULL /\ rec.conn = NULL
        BY <2>1 DEF Rpc
    <3>2. rpc' = [rpc EXCEPT ![r] = rec]
        BY <2>2, <2>4
    <3> HIDE DEF rec
    <3> QED BY <3>1, <3>2
  <2>5. CASE ~NeedsDb(k) /\ SiteOf(t) # NULL
    <3> DEFINE rec == [arrived EXCEPT !.pc = "selected", !.conn = SiteOf(t)]
    <3>1. /\ rec \in Rpc /\ rec.pc = "selected" /\ rec.kind = k /\ rec.tab = t
          /\ rec.load = page[t].load /\ rec.uid = u /\ rec.signed = NULL /\ rec.conn = SiteOf(t)
        BY <1>1, <2>1 DEF Rpc
    <3>2. rpc' = [rpc EXCEPT ![r] = rec]
        BY <2>2, <2>5
    <3> HIDE DEF rec
    <3> QED BY <2>5, <3>1, <3>2
  <2> QED BY <2>3, <2>4, <2>5
<1>4. page' = [page EXCEPT ![t].uid = n]
    BY <1>1 DEF Receive
<1> HIDE DEF u, n
<1>5. /\ rpc'[r] = rec /\ \A q \in Req : q # r => rpc'[q] = rpc[q]
    BY <1>1, <1>3
<1>6. /\ \A v \in Tab : page'[v].load = page[v].load /\ (v # t => page'[v].uid = page[v].uid)
      /\ page'[t].uid = n
    BY <1>1, <1>2, <1>4 DEF Page
<1>7. \A q \in Req : rpc[q].load \in Nat /\ rpc[q].uid \in Nat /\ (Sent(q) => rpc[q].tab \in Tab)
    BY <1>1 DEF Rpc, Sent, IInv, Arrived
<1>8. \A v \in Tab : page[v].uid \in Nat
    BY <1>1 DEF Page
<1>9. Uids'
  <2>1. \A q \in Req : rpc'[q].pc # "new" => rpc'[q].kind \in Kind
      BY <1>3, <1>5 DEF SignInv, Uids
  <2>2. ASSUME NEW q \in Req, Sent(q)'
        PROVE  /\ rpc'[q].load <= page'[rpc'[q].tab].load
               /\ rpc'[q].load = page'[rpc'[q].tab].load => rpc'[q].uid < page'[rpc'[q].tab].uid
    <3>1. CASE q = r
      <4>1. k \notin ConnectKind
          BY <1>3, <1>5, <2>2, <3>1 DEF Sent
      <4> QED BY <1>2, <1>3, <1>5, <1>6, <3>1, <4>1
    <3>2. CASE q # r
      <4>1. /\ Sent(q) /\ rpc'[q] = rpc[q] /\ rpc[q].tab \in Tab
          BY <1>5, <1>7, <2>2, <3>2 DEF Sent
      <4>2. /\ rpc[q].load <= page[rpc[q].tab].load
            /\ rpc[q].load = page[rpc[q].tab].load => rpc[q].uid < page[rpc[q].tab].uid
          BY <4>1 DEF SignInv, Uids
      <4> QED BY <1>2, <1>6, <1>7, <1>8, <4>1, <4>2
    <3> QED BY <3>1, <3>2
  <2>3. ASSUME NEW q \in Req, Sent(q), q # r, k \notin ConnectKind, rpc[q].tab = t, rpc[q].uid = u,
               rpc[q].load = page[t].load
        PROVE  FALSE
      BY <1>2, <1>7, <2>3 DEF SignInv, Uids
  <2>4. ASSUME NEW q \in Req, NEW p \in Req, Sent(q)', Sent(p)', SameKey(q, p)',
               rpc'[q].load = rpc'[p].load, q # p
        PROVE  FALSE
    <3>1. CASE q = r
        BY <1>3, <1>5, <2>3, <2>4, <3>1 DEF Sent, SameKey
    <3>2. CASE p = r
        BY <1>3, <1>5, <2>3, <2>4, <3>2 DEF Sent, SameKey
    <3>3. CASE q # r /\ p # r
        BY <1>5, <2>4, <3>3 DEF Sent, SameKey, SignInv, Uids
    <3> QED BY <3>1, <3>2, <3>3
  <2> QED BY <2>1, <2>2, <2>4 DEF Uids
<1>10. \A q \in Req : Sent(q) => q # r /\ Sent(q)' /\ rpc'[q] = rpc[q]
    BY <1>1, <1>5 DEF Sent
<1>11. \A q, p \in Req : Answering(q, p) => Answering(q, p)'
    BY <1>10 DEF Answering, SameKey
<1>12. Confirmed'
  <2>1. \A w \in Window : win[w].sign # NULL => win[w].sign \in Req /\ Sent(win[w].sign)
      BY ShownWasSent
  <2>2. \A w \in Window : win'[w].sign # NULL => Sent(win[w].sign)'
    <3>1. ASSUME NEW w \in Window, win[w].sign # NULL PROVE Sent(win[w].sign)'
      <4>1. PICK q \in Req : q = win[w].sign /\ Sent(q)
          BY <2>1, <3>1
      <4>2. win'[w].sign = q
          BY <1>1, <4>1
      <4> QED BY <1>10, <4>1, <4>2 DEF Sent
    <3> QED BY <1>1, <3>1
  <2>3. \A w \in Window : job[w].what = "utxos" =>
           /\ job[w].shows \in Req /\ rpc'[job[w].shows].pc # "new"
           /\ rpc'[job[w].shows].kind = "tx/cardano"
      BY <1>1, <1>5 DEF SignInv, Confirmed
  <2>4. ASSUME NEW w \in Window, job[w].what = "sign"
        PROVE  /\ Answering(job[w].shows, job[w].req)'
               /\ rpc'[job[w].req].kind \notin {"data", "tx-reorg/cardano"}
    <3>1. PICK q \in Req, p \in Req :
             /\ q = job[w].shows /\ p = job[w].req /\ Answering(q, p)
             /\ rpc[p].kind \notin {"data", "tx-reorg/cardano"}
        BY <2>4 DEF SignInv, Confirmed, Answering
    <3>2. Answering(q, p)' /\ rpc'[p] = rpc[p]
        BY <1>10, <1>11, <3>1 DEF Answering
    <3> QED BY <1>1, <3>1, <3>2
  <2>5. ASSUME NEW p \in Req, rpc'[p].signed # NULL PROVE Answering(rpc[p].signed, p)'
    <3>1. p # r /\ rpc'[p] = rpc[p]
        BY <1>3, <1>5, <2>5
    <3>2. PICK q \in Req : q = rpc[p].signed /\ Answering(q, p)
        BY <2>5, <3>1 DEF SignInv, Confirmed, Answering
    <3> QED BY <1>11, <3>1, <3>2
  <2> QED BY <1>1, <2>2, <2>3, <2>4, <2>5 DEF Confirmed
<1>13. \A c, p \in Req : p # r /\ Behind(c, p) => Behind(c, p)'
    BY <1>1, <1>5 DEF Behind, Late
<1>14. Sites'
  <2>1. \A v \in Tab : SiteOf(v) # NULL =>
           /\ SiteOf(v) \in Req /\ SiteOf(v) # r /\ rpc'[SiteOf(v)] = rpc[SiteOf(v)]
           /\ rpc[SiteOf(v)].pc \in Late /\ rpc[SiteOf(v)].tab = v
           /\ conn[SiteOf(v)].status # "none"
      BY <1>1, <1>5 DEF IInv, TypeOK, SiteOf, Prompt, Late, SignInv, Sites
  <2>2. ASSUME NEW p \in Req, rpc'[p].conn # NULL PROVE Behind(rpc[p].conn, p)'
    <3>1. CASE p = r
      <4>1. rpc'[p].conn = SiteOf(t) /\ SiteOf(t) # NULL /\ rpc'[p].tab = t
          BY <1>3, <1>5, <2>2, <3>1
      <4> QED BY <2>1, <4>1 DEF Behind
    <3>2. CASE p # r
      <4>1. rpc'[p] = rpc[p] /\ rpc[p].conn \in Req /\ Behind(rpc[p].conn, p)
          BY <1>1, <1>5, <2>2, <3>2 DEF SignInv, Sites, Rpc
      <4>2. PICK c \in Req : c = rpc[p].conn /\ c = rpc'[p].conn /\ Behind(c, p)
          BY <4>1
      <4> QED BY <1>13, <3>2, <4>2 DEF Behind
    <3> QED BY <3>1, <3>2
  <2>3. \A c, p \in Req : p \in conn[c].pend => p # r /\ Behind(c, p)
      BY <1>1 DEF IInv, Signing, SignInv, Sites
  <2>4. \A c, p \in Req : p \in conn'[c].pend => Behind(c, p)'
      BY <1>1, <1>13, <2>3
  <2>5. \A c, q, p \in Req : q \in conn'[c].pend /\ p \in conn'[c].pend /\ rpc'[q].uid = rpc'[p].uid
           => q = p
      BY <1>1, <1>5, <2>3 DEF SignInv, Sites
  <2>6. \A v \in Tab : SiteOf(v)' # NULL =>
           rpc'[connectedSites'[v]].tab = v /\ conn'[connectedSites'[v]].status # "none"
      BY <1>1, <2>1 DEF SiteOf
  <2> QED BY <2>2, <2>4, <2>5, <2>6 DEF Sites, SiteOf
<1>15. Captured'
  <2>1. k = "tx/cardano" => k \notin ConnectKind
      BY DEF ConnectKind
  <2> QED BY <1>1, <1>3, <1>5, <2>1 DEF SignInv, Captured, Captures, SiteOf, NeedsDb
<1>16. Findable'
  <2>1. ASSUME NEW p \in Req, rpc'[p].pc = "asked", rpc'[p].kind \in DbSignKind
        PROVE  p \in conn'[rpc'[p].conn].pend \/ Reused(p)'
    <3>1. p # r /\ rpc'[p] = rpc[p]
        BY <1>3, <1>5, <2>1
    <3>2. Reused(p) => Reused(p)'
        BY <1>10, <3>1 DEF Reused, SameKey
    <3> QED BY <1>1, <2>1, <3>1, <3>2 DEF SignInv, Findable
  <2> QED BY <2>1 DEF Findable
<1> QED BY <1>9, <1>12, <1>14, <1>15, <1>16 DEF SignInv

-----------------------------------------------------------------------------
(* The theorems. *)

LEMMA SignInit ==
    ASSUME Init
    PROVE  SignInv
<1>1. Uids
    BY DEF Init, Uids, Sent, NewRpc
<1>2. Confirmed
    BY DEF Init, Confirmed, NoWin, NoJob, NewRpc
<1>3. Sites
    BY DEF Init, Sites, SiteOf, NewRpc, NoConn
<1>4. Captured
    BY DEF Init, Captured, Captures, NewRpc
<1>5. Findable
    BY DEF Init, Findable, NewRpc
<1> QED BY <1>1, <1>2, <1>3, <1>4, <1>5 DEF SignInv

LEMMA SignNext ==
    ASSUME IInv, SignInv, [Next]_vars
    PROVE  SignInv'
<1>1. CASE UNCHANGED vars
    BY <1>1, SamePage, SurroundingsKeepSign DEF vars
<1>2. ASSUME NEW r \in Req, NEW t \in Tab, NEW k \in Kind, Receive(r, t, k) PROVE SignInv'
    BY <1>2, SignReceive
<1>3. ASSUME NEW r \in Req, Handler(r) PROVE SignInv'
    BY <1>3, SignReadWhitelist, SignConnectWhitelisted, SignConnectSilentFails,
       SignConnectAsks, SignSelectWallet, SignRespondAtOnce, SignAsk, SignFinish DEF Handler
<1>4. ASSUME NEW w \in Window, Load(w) \/ UiJob(w) PROVE SignInv'
    BY <1>4, SignFetchConnect, SignFetchNoSign, SignFetchSign, SignUtxosJob, SignSignJob
    DEF Load, UiJob
<1>5. ASSUME NEW w \in Window, User(w) \/ CloseEarly(w) \/ ReorgFails(w) PROVE SignInv'
    BY <1>5, SignSaveWhitelist, SignAcceptConnect, SignCancelConnect, SignConfirmSign,
       SignRejectSign, SignUnload, SignCloseEarly, SignReorgFails DEF User
<1>6. ASSUME NEW m \in Menu, OpenMenu(m) PROVE SignInv'
    BY <1>6, SignOpenMenu
<1>7. ASSUME NEW t \in Tab, NEW s \in Site, Navigate(t, s) PROVE SignInv'
    BY <1>7, SignNavigate
<1>8. ASSUME NEW x \in Wallet, DeleteWallet(x) PROVE SignInv'
    BY <1>8, SamePage, SurroundingsKeepSign DEF DeleteWallet
<1>9. ASSUME NEW s \in Site, RemoveSite(s) PROVE SignInv'
    BY <1>9, SamePage, SurroundingsKeepSign DEF RemoveSite
<1> QED BY <1>1, <1>2, <1>3, <1>4, <1>5, <1>6, <1>7, <1>8, <1>9 DEF Next

\* SignInv is an invariant, inductive on top of IInv.
THEOREM SigningInductive == Spec => [](IInv /\ SignInv)
<1>1. Init => IInv /\ SignInv
    BY InitHolds, SignInit
<1>2. IInv /\ SignInv /\ [Next]_vars => IInv' /\ SignInv'
    BY NextKeeps, SignNext
<1> QED BY <1>1, <1>2, PTL DEF Spec

\* sign_confirmed, pendingSigns: what a page gets signed is what the window showed,
\* unless the page was reloaded and counted its uids anew.
THEOREM SignsWhatIsShown == Spec => []SignedAsShown
<1>1. SignInv => SignedAsShown
    BY DEF SignInv, Uids, Confirmed, Answering, SignedAsShown
<1> QED BY <1>1, SigningInductive, PTL

\* A handler that waits for the user in withDb can be found by the answer: neither a
\* later message nor another window's answer removes its PendingSign, unless the page
\* was reloaded and counted its uids anew.
THEOREM DbSignFindable == Spec => []DbSignPromptKept
<1>1. SignInv => DbSignPromptKept
  <2> SUFFICES ASSUME SignInv, NEW r \in Req, rpc[r].pc = "asked", rpc[r].kind \in DbSignKind
               PROVE  \/ /\ SiteOf(rpc[r].tab) = rpc[r].conn
                         /\ r \in conn[rpc[r].conn].pend
                      \/ \E q \in Req : SameKey(q, r) /\ rpc[q].load # rpc[r].load
      BY DEF DbSignPromptKept
  <2>1. Captures(r)
      BY DEF Captures, DbSignKind, ConnectKind, NeedsDb
  <2>2. SiteOf(rpc[r].tab) = rpc[r].conn
      BY <2>1 DEF SignInv, Captured
  <2>3. r \in conn[rpc[r].conn].pend \/ Reused(r)
      BY DEF SignInv, Findable
  <2> QED BY <2>2, <2>3 DEF Reused
<1> QED BY <1>1, SigningInductive, PTL

\* Without Ergo transactions, no window waits for the mutex its own request holds.
THEOREM WindowsDoNotBlock ==
    ASSUME Kind \cap {"tx", "tx_input"} = {}
    PROVE  Spec => []NoSelfWait
<1>1. IInv /\ SignInv => NoSelfWait
  <2> DEFINE waited(w) == IF job[w].what = "sign" THEN job[w].req ELSE job[w].shows
  <2> SUFFICES ASSUME IInv, SignInv, NEW w \in Window, job[w].what # "idle",
                      Holds(<<"rpc", waited(w)>>)
               PROVE  FALSE
      BY DEF NoSelfWait
  <2> DEFINE r == waited(w)
  <2>1. r \in Req /\ Holds(<<"rpc", r>>)
      BY DEF IInv, TypeOK, Job, Signing, SignInv, Confirmed
  <2>2. job[w].what = "sign" =>
           rpc[r].kind \in SignKind /\ rpc[r].kind \notin {"data", "tx-reorg/cardano"}
      BY DEF IInv, Signing, SignInv, Confirmed
  <2>3. job[w].what # "sign" => rpc[r].kind = "tx/cardano"
      BY DEF IInv, TypeOK, Job, SignInv, Confirmed
  <2> HIDE DEF r
  <2>4. rpc[r].pc # "new" /\ NeedsDb(rpc[r].kind)
      BY <2>1, HolderIsFirst DEF IInv, Mutex, Queued
  <2>5. rpc[r].kind \in Kind
      BY <2>1, <2>4 DEF SignInv, Uids
  <2> QED BY <2>2, <2>3, <2>4, <2>5 DEF SignKind, DbSignKind, NeedsDb
<1> QED BY <1>1, SigningInductive, PTL

-----------------------------------------------------------------------------
(* What a page is told about its connection. *)

AnswerTrue ==
    \A r \in Req : rpc[r].pc # "done" /\ rpc'[r].pc = "done"
                         /\ rpc'[r].kind \in ConnectKind =>
          LET d == connectedSites'[rpc[r].tab]
          IN  /\ rpc'[r].ok => d # NULL /\ conn'[d].status = "connected"
              /\ rpc[r].pc = "answered" /\ ~rpc'[r].ok => d = NULL

\* No connect request is answered in this step.
Unanswered ==
    \A r \in Req : rpc'[r].pc = "done" => rpc[r].pc = "done" \/ rpc'[r].kind \notin ConnectKind

LEMMA UnansweredTrue ==
    ASSUME Unanswered
    PROVE  AnswerTrue
BY DEF Unanswered, AnswerTrue

\* A step that moves no connect request to its end, or that moves r only.
LEMMA OneAnswered ==
    ASSUME NEW r \in Req, \A q \in Req : q # r => rpc'[q] = rpc[q], rpc[r].kind \notin ConnectKind,
           rpc'[r].kind = rpc[r].kind
    PROVE  AnswerTrue
BY UnansweredTrue DEF Unanswered

LEMMA NoneAnswered ==
    ASSUME Answers
    PROVE  AnswerTrue
<1>1. Unanswered
    BY DEF Answers, Unanswered
<1> QED BY <1>1, UnansweredTrue

LEMMA TrueConnectWhitelisted ==
    ASSUME IInv, SignInv, NEW r \in Req, ConnectWhitelisted(r)
    PROVE  AnswerTrue
<1> DEFINE t == rpc[r].tab
           x == rpc[r].found.wallet
           new == [status |-> "connected", wallet |-> x, pend |-> {}]
<1>1. /\ rpc[r].pc = "checked" /\ rpc[r].found # NoEntry /\ Respond(r, TRUE, x, NULL)
      /\ connectedSites' = IF SiteOf(t) = NULL THEN [connectedSites EXCEPT ![t] = r] ELSE connectedSites
      /\ conn' = IF SiteOf(t) = NULL THEN [conn EXCEPT ![r] = new] ELSE conn
    BY DEF ConnectWhitelisted
<1>2. /\ t \in Tab /\ rpc[r].kind \in ConnectKind /\ x \in Wallet
      /\ connectedSites \in [Tab -> Req \cup {NULL}] /\ conn \in [Req -> ConnectedSite]
    BY <1>1 DEF IInv, Arrived, TypeOK, Rpc, Entry
<1>3. Holds(<<"rpc", r>>)
    BY <1>1, <1>2, ConnectNeedsDb DEF IInv, Mutex, DbExclusive
<1>4. /\ Known /\ \A q \in Req : q # r => rpc'[q] = rpc[q]
      /\ rpc'[r].pc = "done"
    BY <1>1, <1>2, RespondIs
<1>5. new.status = "connected"
    OBVIOUS
<1> HIDE DEF t, x, new
<1>6. connectedSites'[t] # NULL /\ conn'[connectedSites'[t]].status = "connected"
  <2>1. CASE SiteOf(t) = NULL
      BY <1>1, <1>2, <1>5, <2>1, ConstantsAssumption
  <2>2. CASE SiteOf(t) # NULL
    <3>1. SiteOf(t) \in Req /\ conn[SiteOf(t)] \in ConnectedSite
        BY <1>2, <2>2 DEF SiteOf
    <3>2. conn[SiteOf(t)].status # "pending"
      <4>1. ASSUME Pending(t) PROVE FALSE
          BY <1>1, <1>2, <1>3, <4>1, PendingIsAsked, HolderIsOne
      <4> QED BY <2>2, <4>1 DEF Pending
    <3>3. conn[SiteOf(t)].status # "none"
        BY <1>2, <2>2 DEF SignInv, Sites
    <3>4. conn[SiteOf(t)].status = "connected"
        BY <3>1, <3>2, <3>3 DEF ConnectedSite
    <3> QED BY <1>1, <2>2, <3>4 DEF SiteOf
  <2> QED BY <2>1, <2>2
<1>7. rpc[r].pc # "answered"
    BY <1>1
<1> QED BY <1>4, <1>6, <1>7 DEF AnswerTrue, t

LEMMA TrueConnectSilentFails ==
    ASSUME IInv, SignInv, NEW r \in Req, ConnectSilentFails(r)
    PROVE  AnswerTrue
<1>1. /\ \A q \in Req : q # r => rpc'[q] = rpc[q]
      /\ ~rpc'[r].ok /\ rpc[r].pc = "checked"
    BY RespondIs DEF ConnectSilentFails
<1> QED BY <1>1 DEF AnswerTrue

LEMMA TrueFinish ==
    ASSUME IInv, SignInv, NEW r \in Req, Finish(r)
    PROVE  AnswerTrue
<1>1. /\ rpc[r].wallet \in Wallet \cup {NULL} /\ rpc[r].ok \in BOOLEAN
      /\ rpc[r].signed \in Req \cup {NULL}
      /\ rpc[r].pc = "answered" /\ UNCHANGED <<connectedSites, conn>>
    BY DEF IInv, TypeOK, Rpc, Finish
<1>2. CASE rpc[r].kind \notin ConnectKind
  <2>1. PICK ok \in BOOLEAN : Respond(r, ok, rpc[r].wallet, IF ok THEN rpc[r].signed ELSE NULL)
      BY <1>1 DEF Finish
  <2>2. Known /\ \A q \in Req : q # r => rpc'[q] = rpc[q]
      BY <1>1, <2>1, RespondIs
  <2> QED BY <1>2, <2>2, OneAnswered DEF Known
<1>3. CASE rpc[r].kind \in ConnectKind
  <2>1. \E ok \in {rpc[r].ok} : Respond(r, ok, rpc[r].wallet, IF ok THEN rpc[r].signed ELSE NULL)
      BY <1>3 DEF Finish, ConnectKind
  <2>2. rpc'[r].ok = rpc[r].ok /\ \A q \in Req : q # r => rpc'[q] = rpc[q]
      BY <1>1, <2>1, RespondIs
  <2>3. /\ rpc[r].ok => Connected(rpc[r].tab)
        /\ ~rpc[r].ok => SiteOf(rpc[r].tab) = NULL
      BY <1>1, <1>3 DEF IInv, Prompt
  <2> QED BY <1>1, <2>2, <2>3 DEF AnswerTrue, Connected, SiteOf
<1> QED BY <1>2, <1>3

LEMMA TrueHandler ==
    ASSUME IInv, SignInv, NEW r \in Req, Handler(r)
    PROVE  AnswerTrue
<1>1. CASE ReadWhitelist(r) \/ ConnectAsks(r)
  <2>1. rpc \in [Req -> Rpc] /\ \A q \in Req : q # r => rpc'[q] = rpc[q]
      BY <1>1 DEF ReadWhitelist, ConnectAsks, IInv, TypeOK
  <2>2. rpc'[r].pc # "done"
    <3>1. rpc[r] \in Rpc
        BY <2>1
    <3>2. CASE ReadWhitelist(r)
        BY <2>1, <3>1, <3>2 DEF ReadWhitelist, Rpc
    <3>3. CASE ConnectAsks(r)
        BY <2>1, <3>1, <3>3 DEF ConnectAsks, Rpc
    <3> QED BY <1>1, <3>2, <3>3
  <2> QED BY <2>1, <2>2 DEF AnswerTrue
<1>2. CASE SelectWallet(r) \/ RespondAtOnce(r) \/ Ask(r)
  <2>1. rpc[r].kind \notin ConnectKind /\ rpc[r].pc # "new"
      BY <1>2 DEF SelectWallet, RespondAtOnce, Ask, SignInv, Captured, SignKind, DbSignKind, ConnectKind
  <2>2. /\ \A q \in Req : q # r => rpc'[q] = rpc[q]
      BY <1>2 DEF SelectWallet, RespondAtOnce, Ask, Respond, IInv, TypeOK
  <2>3. rpc'[r].kind = rpc[r].kind
    <3>1. rpc \in [Req -> Rpc] /\ rpc[r] \in Rpc
        BY DEF IInv, TypeOK
    <3>2. ASSUME NEW ok, NEW x, Respond(r, ok, x, NULL) PROVE rpc'[r].kind = rpc[r].kind
        BY <3>1, <3>2 DEF Respond, Rpc
    <3>3. ASSUME NEW c, rpc' = [rpc EXCEPT ![r].pc = "asked", ![r].conn = c]
          PROVE  rpc'[r].kind = rpc[r].kind
        BY <3>1, <3>3 DEF Rpc
    <3>4. ASSUME NEW c, NEW x, rpc' = [rpc EXCEPT ![r].pc = "selected", ![r].conn = c, ![r].wallet = x]
          PROVE  rpc'[r].kind = rpc[r].kind
        BY <3>1, <3>4 DEF Rpc
    <3>5. CASE SelectWallet(r)
        BY <3>2, <3>4, <3>5 DEF SelectWallet
    <3>6. CASE RespondAtOnce(r)
        BY <3>2, <3>6 DEF RespondAtOnce
    <3>7. CASE Ask(r)
        BY <3>2, <3>3, <3>7 DEF Ask
    <3> QED BY <1>2, <3>5, <3>6, <3>7
  <2> QED BY <2>1, <2>2, <2>3, OneAnswered
<1> QED BY <1>1, <1>2, TrueConnectWhitelisted, TrueConnectSilentFails, TrueFinish DEF Handler

LEMMA TrueWindow ==
    ASSUME IInv, SignInv, NEW w \in Window,
           Load(w) \/ UiJob(w) \/ User(w) \/ CloseEarly(w) \/ ReorgFails(w)
    PROVE  AnswerTrue
<1>1. CASE UNCHANGED rpc
    BY <1>1, StillAnswers, NoneAnswered DEF IInv
<1>2. CASE SignJob(w)
  <2> DEFINE q == job[w].shows
             r == job[w].req
  <2>1. PICK ok \in BOOLEAN : rpc' = Resolve(r, ok, IF ok THEN q ELSE NULL)
      BY <1>2 DEF SignJob
  <2>2. q \in Req /\ r \in Req
      BY <1>2 DEF SignJob, SignInv, Confirmed, Answering
  <2> QED BY <2>1, <2>2, ResolveAnswers, NoneAnswered DEF IInv
<1>3. ASSUME NEW accepted \in BOOLEAN, NEW x \in Wallet \cup {NULL},
             ConnectResponse(win[w].conn, accepted, x)
      PROVE  AnswerTrue
    BY <1>3, ConnectResponseEffect, NoneAnswered
<1>4. CASE SignRejected(win[w].sign)
    BY <1>4, ShownIsSent, SignRejectedEffect, NoneAnswered
<1>5. CASE ConfirmSign(w)
  <2>1. ASSUME NEW r \in PendingFor(win[w].sign), rpc' = Resolve(r, TRUE, win[w].sign)
        PROVE  AnswerTrue
    <3>1. r \in Req /\ win[w].sign \in Req \cup {NULL}
        BY ShownIsSent, PendingForSign
    <3> QED BY <2>1, <3>1, ResolveAnswers, NoneAnswered DEF IInv
  <2> QED BY <1>1, <1>5, <2>1 DEF ConfirmSign
<1>6. win[w].wallet \in Wallet \cup {NULL}
    BY DEF IInv, TypeOK, Win
<1>7. CASE User(w)
  <2>1. CASE \E x \in wallets : SaveWhitelist(w, x)
      BY <1>1, <2>1 DEF SaveWhitelist
  <2>2. CASE AcceptConnect(w)
      BY <1>3, <1>6, <2>2 DEF AcceptConnect
  <2>3. CASE CancelConnect(w)
      BY <1>3, <2>3 DEF CancelConnect
  <2>4. CASE RejectSign(w)
      BY <1>4, <2>4 DEF RejectSign
  <2>5. CASE Unload(w)
      BY <1>1, <1>3, <1>4, <2>5 DEF Unload
  <2> QED BY <1>5, <1>7, <2>1, <2>2, <2>3, <2>4, <2>5 DEF User
<1> QED BY <1>1, <1>2, <1>7
        DEF Load, FetchConnect, FetchNoSign, FetchSign, UiJob, UtxosJob, CloseEarly, ReorgFails

LEMMA TrueNext ==
    ASSUME IInv, SignInv, [Next]_vars
    PROVE  AnswerTrue
<1>1. CASE UNCHANGED rpc
    BY <1>1, StillAnswers, NoneAnswered DEF IInv
<1>2. ASSUME NEW r \in Req, NEW t \in Tab, NEW k \in Kind, Receive(r, t, k) PROVE AnswerTrue
  <2>1. rpc \in [Req -> Rpc] /\ rpc[r].pc = "new" /\ \A q \in Req : q # r => rpc'[q] = rpc[q]
      BY <1>2 DEF Receive, IInv, TypeOK
  <2>2. rpc'[r].pc = "done" => rpc'[r].kind = k /\ ~NeedsDb(k)
    <3> DEFINE arrived == [NewRpc EXCEPT !.pc = "queued", !.kind = k, !.tab = t,
                             !.site = page[t].site, !.load = page[t].load,
                             !.uid = IF k \in ConnectKind THEN 0 ELSE page[t].uid]
    <3>1. arrived.pc = "queued" /\ arrived.kind = k
        BY DEF NewRpc
    <3>2. CASE NeedsDb(k)
      <4>1. rpc' = [rpc EXCEPT ![r] = arrived]
          BY <1>2, <3>2 DEF Receive
      <4> HIDE DEF arrived
      <4> QED BY <2>1, <3>1, <4>1
    <3>3. CASE ~NeedsDb(k)
      <4> DEFINE q == IF SiteOf(t) = NULL THEN [arrived EXCEPT !.pc = "done"]
                      ELSE [arrived EXCEPT !.pc = "selected", !.conn = SiteOf(t)]
      <4>1. rpc' = [rpc EXCEPT ![r] = q]
          BY <1>2, <3>3 DEF Receive
      <4>2. q.kind = k
          BY DEF NewRpc
      <4> HIDE DEF q
      <4> QED BY <2>1, <3>3, <4>1, <4>2
    <3> QED BY <3>2, <3>3
  <2>3. rpc'[r].pc = "done" => rpc'[r].kind \notin ConnectKind
      BY <2>2 DEF NeedsDb, ConnectKind
  <2> QED BY <2>1, <2>3 DEF AnswerTrue
<1> QED BY <1>1, <1>2, TrueHandler, TrueWindow
        DEF Next, OpenMenu, Navigate, DeleteWallet, RemoveSite, vars

\* confirmConnect, connect_response: a page told that it is connected has a ConnectedSite
\* that is, and one whose user refused has none, whoever connected in between.
THEOREM ConnectAnswersTrue == Spec => ConnectAnswerTrue
<1>1. IInv /\ SignInv /\ [Next]_vars => [AnswerTrue]_vars
    BY TrueNext
<1>2. Spec => [][AnswerTrue]_vars
    BY <1>1, SigningInductive, PTL DEF Spec
<1> QED BY <1>2 DEF ConnectAnswerTrue, AnswerTrue

-----------------------------------------------------------------------------
(* Windows and the requests that wait for them, when nothing interferes. *)

\* No disturbances, no windows but sign windows, finitely many requests.
Alone == Env = {} /\ Menu = {} /\ Kind \cap {"connect", "connect_auth"} = {} /\ IsFiniteSet(Req)

\* Then the ConnectedSite of a tab stays, and is the one every handler captured.
Undisturbed ==
    /\ wallets = Wallet
    /\ \A t \in Tab : page[t].load = 0
    /\ \A r \in Req : rpc[r].load = 0
    /\ \A t \in Tab : SiteOf(t) # NULL => Usable(t)
    /\ \A r \in Req : rpc[r].pc \in {"selected", "asked"} =>
          /\ rpc[r].kind \notin ConnectKind
          /\ rpc[r].conn # NULL /\ SiteOf(rpc[r].tab) = rpc[r].conn

\* The PendingSigns are the requests that wait.
Prompts ==
    /\ \A c, r \in Req : r \in conn[c].pend => rpc[r].pc = "asked" /\ SiteOf(rpc[r].tab) = c
    /\ \A r \in Req : rpc[r].pc = "asked" => r \in conn[rpc[r].conn].pend
    /\ \A r \in opened : rpc[r].pc \in Late

\* Windows of signing requests, and their confirmations under way.
Shows(w) ==
    /\ win[w].st # "none" => rpc[w].pc \in Late /\ rpc[w].kind \in SignKind
    /\ win[w].st \notin {"saved", "unguarded"}
    /\ win[w].st \in {"none", "loading", "fetched"} => win[w].sign = NULL
    /\ win[w].st \in {"open", "ready", "closing"} => win[w].sign \in opened
    /\ job[w].what = "sign" =>
          /\ win[w].st = "closed" /\ job[w].req \in opened
          /\ job[w].conn # NULL /\ job[w].conn = SiteOf(rpc[job[w].req].tab)

\* A window w is about to answer request r.
Serves(w, r) ==
    \/ win[w].sign = r /\ win[w].st \in {"open", "ready"}
    \/ job[w].what = "sign" /\ job[w].req = r
Attended == \A r \in opened : rpc[r].pc = "asked" => \E w \in Req : Serves(w, r)

\* There are as many windows still to fetch a request as requests not fetched.
Waiting == {r \in Req \ opened : rpc[r].pc = "asked"}
Coming  == {w \in Req : win[w].st \in {"loading", "fetched"}}
Counted == Cardinality(Waiting) = Cardinality(Coming)

Served == Undisturbed /\ Prompts /\ (\A w \in Req : Shows(w)) /\ Attended /\ Counted
AllInv == IInv /\ SignInv /\ Served

LEMMA AloneWindows ==
    ASSUME Alone
    PROVE  Window = Req /\ \A k \in Kind : k \notin {"connect", "connect_auth"}
BY DEF Alone, Window

LEMMA UsableOne ==
    ASSUME AllInv, NEW t \in Tab, SiteOf(t) # NULL
    PROVE  /\ SiteOf(t) \in Req /\ conn[SiteOf(t)].status = "connected"
           /\ conn[SiteOf(t)].wallet \in Wallet /\ ~Pending(t) /\ Connected(t) /\ ~Missing(t)
<1>1. Usable(t) /\ wallets = Wallet
    BY DEF AllInv, Served, Undisturbed
<1> QED BY <1>1, UsableIsTyped DEF AllInv, IInv, Usable, Connected, Pending, Missing

LEMMA NothingDropped ==
    ASSUME AllInv, NEW t \in Tab, DropMissing(t)
    PROVE  UNCHANGED connectedSites
<1>1. ~Missing(t)
    BY UsableOne DEF Missing, Connected
<1> QED BY <1>1 DEF DropMissing

LEMMA UndisturbedKept ==
    ASSUME AllInv, UNCHANGED wallets, \A t \in Tab : page'[t].load = page[t].load,
           \A q \in Req : rpc'[q].load = 0,
           \A t \in Tab : connectedSites[t] # NULL =>
              /\ connectedSites'[t] = connectedSites[t]
              /\ conn'[connectedSites[t]].status = conn[connectedSites[t]].status
              /\ conn'[connectedSites[t]].wallet = conn[connectedSites[t]].wallet,
           \A t \in Tab : connectedSites'[t] # connectedSites[t] =>
              /\ connectedSites'[t] # NULL /\ conn'[connectedSites'[t]].status = "connected"
              /\ conn'[connectedSites'[t]].wallet \in Wallet,
           \A q \in Req : rpc'[q].pc \in {"selected", "asked"} =>
              /\ rpc'[q].tab \in Tab /\ rpc'[q].kind \notin ConnectKind
              /\ \/ /\ rpc[q].pc \in {"selected", "asked"}
                    /\ rpc'[q].conn = rpc[q].conn /\ rpc'[q].tab = rpc[q].tab
                 \/ rpc'[q].conn # NULL /\ connectedSites'[rpc'[q].tab] = rpc'[q].conn
    PROVE  Undisturbed'
<1>1. \A t \in Tab : connectedSites[t] # NULL =>
         /\ connectedSites[t] \in Req /\ conn[connectedSites[t]].status = "connected"
         /\ conn[connectedSites[t]].wallet \in Wallet
    BY UsableOne DEF SiteOf
<1>2. wallets = Wallet
    BY DEF AllInv, Served, Undisturbed
<1>3. ASSUME NEW t \in Tab, connectedSites'[t] # NULL
      PROVE  /\ conn'[connectedSites'[t]].status = "connected"
             /\ conn'[connectedSites'[t]].wallet \in Wallet
    BY <1>1, <1>3
<1>4. \A t \in Tab : SiteOf(t)' # NULL => Usable(t)'
    BY <1>2, <1>3 DEF SiteOf, Usable, Connected
<1>5. ASSUME NEW q \in Req, rpc'[q].pc \in {"selected", "asked"}
      PROVE  rpc'[q].conn # NULL /\ connectedSites'[rpc'[q].tab] = rpc'[q].conn
    BY <1>5 DEF AllInv, Served, Undisturbed, SiteOf
<1> QED BY <1>4, <1>5 DEF AllInv, Served, Undisturbed, SiteOf

\* Requests are told apart by tab and uid.
LEMMA OneKey ==
    ASSUME AllInv, NEW q \in Req, NEW r \in Req, Sent(q), Sent(r), SameKey(q, r)
    PROVE  q = r
BY DEF AllInv, SignInv, Uids, Served, Undisturbed

\* The types these proofs need.
LEMMA AllTypes ==
    ASSUME AllInv
    PROVE  /\ rpc \in [Req -> Rpc] /\ conn \in [Req -> ConnectedSite] /\ opened \subseteq Req
           /\ connectedSites \in [Tab -> Req \cup {NULL}]
           /\ \A r \in Req : rpc[r] \in Rpc /\ rpc[r].conn \in Req \cup {NULL}
           /\ \A r \in Req : rpc[r].pc # "new" => rpc[r].tab \in Tab
           /\ \A r \in opened : r \in Req /\ rpc[r].pc \in Late /\ rpc[r].tab \in Tab
           /\ \A c \in Req : conn[c].pend \subseteq Req
           /\ NULL \notin Req
<1>1. TypeOK /\ Arrived /\ Prompts
    BY DEF AllInv, IInv, Served
<1>2. rpc \in [Req -> Rpc] /\ conn \in [Req -> ConnectedSite] /\ opened \subseteq Req
      /\ connectedSites \in [Tab -> Req \cup {NULL}]
    BY <1>1 DEF TypeOK
<1>3. \A r \in Req : rpc[r] \in Rpc /\ rpc[r].conn \in Req \cup {NULL}
    BY <1>2 DEF Rpc
<1>4. \A r \in Req : rpc[r].pc # "new" => rpc[r].tab \in Tab
    BY <1>1 DEF Arrived
<1>5. \A r \in opened : r \in Req /\ rpc[r].pc \in Late /\ rpc[r].tab \in Tab
    BY <1>1, <1>2, <1>4 DEF Prompts, Late
<1>6. \A c \in Req : conn[c].pend \subseteq Req
    BY <1>2 DEF ConnectedSite
<1> QED BY <1>2, <1>3, <1>4, <1>5, <1>6, ConstantsAssumption

\* What waits for the user has its ConnectedSite, and its PendingSign there.
LEMMA AskedIs ==
    ASSUME AllInv, NEW r \in Req, rpc[r].pc = "asked"
    PROVE  /\ Sent(r) /\ rpc[r].tab \in Tab /\ rpc[r].kind \in SignKind
           /\ rpc[r].conn \in Req /\ SiteOf(rpc[r].tab) = rpc[r].conn
           /\ r \in conn[rpc[r].conn].pend
<1>1. rpc[r].kind \notin ConnectKind /\ rpc[r].conn # NULL /\ SiteOf(rpc[r].tab) = rpc[r].conn
    BY DEF AllInv, Served, Undisturbed
<1>2. rpc[r].conn \in Req /\ rpc[r].tab \in Tab
    BY <1>1, AllTypes
<1>3. r \in conn[rpc[r].conn].pend
    BY DEF AllInv, Served, Prompts
<1>4. rpc[r].kind \in SignKind
    BY <1>2, <1>3 DEF AllInv, IInv, Signing
<1> QED BY <1>1, <1>2, <1>3, <1>4 DEF Sent

LEMMA CountedKept ==
    ASSUME Counted, UNCHANGED opened,
           \A q \in Req \ opened : rpc'[q].pc = "asked" <=> rpc[q].pc = "asked",
           \A w \in Req : win'[w].st \in {"loading", "fetched"} <=> win[w].st \in {"loading", "fetched"}
    PROVE  Counted'
<1>1. Waiting' = Waiting /\ Coming' = Coming
    BY DEF Waiting, Coming
<1> QED BY <1>1 DEF Counted

\* Nothing changes for windows and the requests that wait for them.
LEMMA PromptsKept ==
    ASSUME AllInv, UNCHANGED <<win, job, opened>>,
           \A q \in Req : rpc[q].pc # "new" => rpc'[q].kind = rpc[q].kind /\ rpc'[q].tab = rpc[q].tab,
           \A q \in Req : rpc[q].pc \in Late => rpc'[q].pc \in Late,
           \A q \in Req : rpc'[q].pc = "asked" <=> rpc[q].pc = "asked",
           \A q \in Req : rpc'[q].pc = "asked" => rpc'[q].conn = rpc[q].conn,
           \A t \in Tab : connectedSites[t] # NULL => connectedSites'[t] = connectedSites[t],
           \A c \in Req : conn'[c].pend = conn[c].pend
    PROVE  Prompts' /\ (\A w \in Req : Shows(w))' /\ Attended' /\ Counted'
<1>1. Prompts /\ (\A w \in Req : Shows(w)) /\ Attended /\ Counted
    BY DEF AllInv, Served
<1>2. ASSUME NEW r \in Req, rpc[r].pc = "asked"
      PROVE  SiteOf(rpc[r].tab)' = SiteOf(rpc[r].tab)
    BY <1>2, AskedIs, AllTypes DEF SiteOf
<1>3. \A c, r \in Req : r \in conn'[c].pend => rpc'[r].pc = "asked" /\ SiteOf(rpc[r].tab)' = c
    BY <1>1, <1>2 DEF Prompts
<1>4. \A r \in Req : rpc'[r].pc = "asked" => r \in conn'[rpc'[r].conn].pend
    BY AskedIs
<1>5. Prompts'
    BY <1>1, <1>3, <1>4, AllTypes DEF Prompts
<1>6. ASSUME NEW w \in Req PROVE Shows(w)'
  <2>1. rpc[w].pc \in Late => rpc'[w].kind = rpc[w].kind
      BY DEF Late
  <2>2. ASSUME job[w].what = "sign" PROVE job[w].conn = SiteOf(rpc[job[w].req].tab)'
    <3>1. /\ job[w].req \in opened /\ job[w].conn # NULL
          /\ job[w].conn = SiteOf(rpc[job[w].req].tab)
        BY <1>1, <2>2 DEF Shows
    <3>2. job[w].req \in Req /\ rpc[job[w].req].tab \in Tab
          /\ rpc'[job[w].req].tab = rpc[job[w].req].tab
        BY <3>1, AllTypes DEF Late
    <3> QED BY <3>1, <3>2 DEF SiteOf
  <2> QED BY <1>1, <2>1, <2>2 DEF Shows
<1>7. Attended'
    BY <1>1, AllTypes DEF Attended, Serves
<1>8. Counted'
    BY <1>1, CountedKept
<1> QED BY <1>5, <1>6, <1>7, <1>8

\* A handler that neither asks nor is asked: it moves on, or ends.
LEMMA PassesBy ==
    ASSUME AllInv, NEW r \in Req, NEW rec \in Rpc, rpc' = [rpc EXCEPT ![r] = rec],
           rpc[r].pc # "asked", rec.pc # "asked", rpc[r].pc \in Late => rec.pc \in Late,
           rpc[r].pc # "new" => rec.kind = rpc[r].kind /\ rec.tab = rpc[r].tab,
           rec.load = 0,
           rec.pc = "selected" => /\ rec.tab \in Tab /\ rec.kind \notin ConnectKind
                                  /\ rec.conn # NULL /\ SiteOf(rec.tab) = rec.conn,
           UNCHANGED <<connectedSites, conn, opened, wallets, win, job>>,
           \A t \in Tab : page'[t].load = page[t].load
    PROVE  Served'
<1>1. rpc'[r] = rec /\ \A q \in Req : q # r => rpc'[q] = rpc[q]
    BY AllTypes
<1>2. ASSUME NEW q \in Req, rpc'[q].pc \in {"selected", "asked"}
      PROVE  /\ rpc'[q].tab \in Tab /\ rpc'[q].kind \notin ConnectKind
             /\ \/ /\ rpc[q].pc \in {"selected", "asked"}
                   /\ rpc'[q].conn = rpc[q].conn /\ rpc'[q].tab = rpc[q].tab
                \/ rpc'[q].conn # NULL /\ connectedSites'[rpc'[q].tab] = rpc'[q].conn
  <2>1. CASE q = r
      BY <1>1, <1>2, <2>1 DEF SiteOf
  <2>2. CASE q # r
      BY <1>1, <1>2, <2>2, AllTypes DEF AllInv, Served, Undisturbed
  <2> QED BY <2>1, <2>2
<1>3. \A q \in Req : rpc'[q].load = 0
    BY <1>1 DEF AllInv, Served, Undisturbed
<1>4. Undisturbed'
    BY <1>2, <1>3, UndisturbedKept
<1>5. Prompts' /\ (\A w \in Req : Shows(w))' /\ Attended' /\ Counted'
    BY <1>1, PromptsKept
<1> QED BY <1>4, <1>5 DEF Served

LEMMA ServedReceive ==
    ASSUME AllInv, NEW r \in Req, NEW t \in Tab, NEW k \in Kind, Receive(r, t, k)
    PROVE  Served'
<1> DEFINE arrived == [NewRpc EXCEPT !.pc = "queued", !.kind = k, !.tab = t,
                           !.site = page[t].site, !.load = page[t].load,
                           !.uid = IF k \in ConnectKind THEN 0 ELSE page[t].uid]
           rec == IF NeedsDb(k) THEN arrived
                  ELSE IF SiteOf(t) = NULL THEN [arrived EXCEPT !.pc = "done"]
                  ELSE [arrived EXCEPT !.pc = "selected", !.conn = SiteOf(t)]
<1>1. rpc' = [rpc EXCEPT ![r] = rec] /\ rpc[r].pc = "new"
      /\ UNCHANGED <<connectedSites, conn, opened, wallets, win, job>>
    BY DEF Receive
<1>2. page[t] \in Page /\ k \in AnyKind /\ SiteOf(t) \in Req \cup {NULL} /\ page[t].load = 0
    BY AllTypes, ConstantsAssumption DEF AllInv, IInv, TypeOK, SiteOf, Served, Undisturbed
<1>3. arrived \in Rpc /\ arrived.kind = k /\ arrived.tab = t /\ arrived.load = page[t].load
      /\ arrived.pc = "queued"
    BY <1>2 DEF NewRpc, Rpc, Page, NoEntry, Entry
<1>4. /\ rec \in Rpc /\ rec.pc \in {"queued", "done", "selected"} /\ rec.load = 0
      /\ rec.pc = "selected" => /\ rec.tab = t /\ rec.kind = k /\ k \notin ConnectKind
                                /\ rec.conn # NULL /\ SiteOf(t) = rec.conn
  <2>1. CASE NeedsDb(k)
      BY <1>2, <1>3, <2>1
  <2>2. CASE ~NeedsDb(k) /\ SiteOf(t) = NULL
    <3> HIDE DEF arrived
    <3>1. [arrived EXCEPT !.pc = "done"] \in Rpc
        BY <1>3 DEF Rpc
    <3> QED BY <1>2, <1>3, <2>2, <3>1 DEF Rpc
  <2>3. CASE ~NeedsDb(k) /\ SiteOf(t) # NULL
    <3>1. k \notin ConnectKind
        BY <2>3 DEF NeedsDb, ConnectKind
    <3> HIDE DEF arrived
    <3>2. [arrived EXCEPT !.pc = "selected", !.conn = SiteOf(t)] \in Rpc
        BY <1>2, <1>3 DEF Rpc
    <3> QED BY <1>2, <1>3, <2>3, <3>1, <3>2 DEF Rpc
  <2> QED BY <2>1, <2>2, <2>3
<1>5. \A s \in Tab : page'[s].load = page[s].load
  <2>1. page \in [Tab -> Page] /\ page[t] \in Page
      BY DEF AllInv, IInv, TypeOK
  <2>2. page' = [page EXCEPT ![t].uid = IF k \in ConnectKind THEN @ ELSE @ + 1]
      BY DEF Receive
  <2> QED BY <2>1, <2>2 DEF Page
<1> HIDE DEF arrived, rec
<1> QED BY <1>1, <1>4, <1>5, PassesBy DEF Late

LEMMA ServedReadWhitelist ==
    ASSUME AllInv, NEW r \in Req, ReadWhitelist(r)
    PROVE  Served'
<1> DEFINE found == Whitelisted(rpc[r].site, AuthRequested(rpc[r].kind))
           rec == [rpc[r] EXCEPT !.pc = "checked", !.found = found]
<1>1. rpc[r].pc = "queued" /\ UNCHANGED <<page, connectedSites, conn, opened, wallets, win, job>>
    BY DEF ReadWhitelist
<1>2. rpc[r] \in Rpc /\ rpc[r].site \in Site /\ rpc[r].load = 0
    BY <1>1, AllTypes DEF AllInv, IInv, Arrived, Served, Undisturbed
<1>3. found \in Entry
    BY <1>2 DEF AllInv, IInv, TypeOK, Whitelisted, Entry
<1>4. rpc' = [rpc EXCEPT ![r] = rec]
    BY AllTypes DEF ReadWhitelist
<1> HIDE DEF found
<1>5. rec \in Rpc /\ rec.pc = "checked" /\ rec.kind = rpc[r].kind /\ rec.tab = rpc[r].tab
      /\ rec.load = rpc[r].load
    BY <1>2, <1>3 DEF Rpc
<1> HIDE DEF rec
<1> QED BY <1>1, <1>2, <1>4, <1>5, PassesBy DEF Late

LEMMA RespondPasses ==
    ASSUME AllInv, NEW r \in Req, NEW ok \in BOOLEAN, NEW x \in Wallet \cup {NULL},
           NEW s \in Req \cup {NULL}, Respond(r, ok, x, s), rpc[r].pc \notin {"new", "asked"},
           UNCHANGED <<page, connectedSites, conn, opened, wallets, win, job>>
    PROVE  Served'
<1> DEFINE rec == [rpc[r] EXCEPT !.pc = "done", !.found = NoEntry, !.conn = NULL,
                                 !.ok = ok, !.wallet = x, !.signed = s]
<1>1. rpc[r] \in Rpc /\ rpc[r].load = 0
    BY AllTypes DEF AllInv, Served, Undisturbed
<1>2. rpc' = [rpc EXCEPT ![r] = rec]
    BY DEF Respond
<1>3. NoEntry \in Entry
    BY DEF Entry
<1>r. rec \in Rpc
    BY <1>1, <1>3 DEF Rpc
<1>4. /\ rec.pc = "done" /\ rec.kind = rpc[r].kind /\ rec.tab = rpc[r].tab
      /\ rec.load = rpc[r].load
    BY <1>1 DEF Rpc
<1> HIDE DEF rec
<1>5. /\ rec.pc \in Late /\ rec.pc \notin {"asked", "selected"} /\ rec.load = 0
      /\ rec.kind = rpc[r].kind /\ rec.tab = rpc[r].tab
    BY <1>1, <1>4 DEF Late
<1> QED BY <1>2, <1>4, <1>5, <1>r, PassesBy

LEMMA ServedResponds ==
    ASSUME AllInv, NEW r \in Req, ConnectSilentFails(r) \/ RespondAtOnce(r) \/ Finish(r)
    PROVE  Served'
<1>1. rpc[r].wallet \in Wallet \cup {NULL} /\ rpc[r].signed \in Req \cup {NULL}
      /\ rpc[r].ok \in BOOLEAN
    BY AllTypes DEF Rpc
<1>2. CASE ConnectSilentFails(r)
    BY <1>2, RespondPasses DEF ConnectSilentFails
<1>3. CASE RespondAtOnce(r)
  <2>1. PICK ok \in BOOLEAN : Respond(r, ok, rpc[r].wallet, NULL)
      BY <1>3 DEF RespondAtOnce
  <2> QED BY <1>1, <1>3, <2>1, RespondPasses DEF RespondAtOnce
<1>4. CASE Finish(r)
  <2>1. PICK ok \in BOOLEAN : Respond(r, ok, rpc[r].wallet, IF ok THEN rpc[r].signed ELSE NULL)
      BY <1>1, <1>4 DEF Finish
  <2> QED BY <1>1, <1>4, <2>1, RespondPasses DEF Finish
<1> QED BY <1>2, <1>3, <1>4

LEMMA ServedSelectWallet ==
    ASSUME AllInv, NEW r \in Req, SelectWallet(r)
    PROVE  Served'
<1> DEFINE t == rpc[r].tab
           rec == [rpc[r] EXCEPT !.pc = "selected", !.conn = SiteOf(t), !.wallet = conn[SiteOf(t)].wallet]
<1>1. rpc[r].pc = "queued" /\ rpc[r].kind \notin ConnectKind /\ DropMissing(t)
      /\ UNCHANGED <<page, conn, opened, wallets, win, job>>
    BY DEF SelectWallet
<1>2. t \in Tab /\ rpc[r] \in Rpc /\ rpc[r].load = 0
    BY <1>1, AllTypes DEF AllInv, Served, Undisturbed
<1>3. UNCHANGED connectedSites
    BY <1>1, <1>2, NothingDropped
<1>4. CASE Usable(t)
  <2>1. SiteOf(t) \in Req /\ conn[SiteOf(t)].wallet \in Wallet /\ SiteOf(t) # NULL
      BY <1>2, <1>4, UsableIsTyped, AllTypes DEF AllInv, IInv
  <2>2. rpc' = [rpc EXCEPT ![r] = rec]
      BY <1>4, AllTypes DEF SelectWallet
  <2>3. rec \in Rpc /\ rec.pc = "selected" /\ rec.kind = rpc[r].kind /\ rec.tab = t
        /\ rec.load = rpc[r].load /\ rec.conn = SiteOf(t)
      BY <1>2, <2>1 DEF Rpc
  <2> HIDE DEF rec
  <2> QED BY <1>1, <1>2, <1>3, <2>1, <2>2, <2>3, PassesBy DEF Late
<1>5. CASE ~Usable(t)
  <2>1. Respond(r, FALSE, NULL, NULL)
      BY <1>5 DEF SelectWallet
  <2> QED BY <1>1, <1>3, <2>1, RespondPasses
<1> QED BY <1>4, <1>5

LEMMA ServedConnectWhitelisted ==
    ASSUME AllInv, NEW r \in Req, ConnectWhitelisted(r)
    PROVE  Served'
<1> DEFINE t == rpc[r].tab
           x == rpc[r].found.wallet
<1>1. /\ rpc[r].pc = "checked" /\ Respond(r, TRUE, x, NULL)
      /\ UNCHANGED <<page, opened, wallets, win, job>>
    BY DEF ConnectWhitelisted
<1>2. x \in Wallet /\ t \in Tab /\ rpc[r].load = 0
  <2>1. rpc[r].found \in Entry /\ rpc[r].found # NoEntry
      BY AllTypes DEF Rpc, ConnectWhitelisted
  <2> QED BY <1>1, <2>1, AllTypes DEF Entry, NoEntry, AllInv, Served, Undisturbed
<1>3. /\ Known /\ \A q \in Req : q # r => rpc'[q] = rpc[q]
      /\ rpc'[r].pc = "done"
    BY <1>1, <1>2, RespondIs DEF AllInv
<1>4. \A s \in Tab : SiteOf(s) # r
    BY <1>1, AllTypes DEF AllInv, IInv, Prompt
<1>5. conn[r].pend = {}
  <2>1. \A q \in conn[r].pend : q \in Req /\ SiteOf(rpc[q].tab) = r /\ rpc[q].tab \in Tab
    <3>1. \A q \in conn[r].pend : q \in Req /\ rpc[q].pc = "asked" /\ SiteOf(rpc[q].tab) = r
        BY AllTypes DEF AllInv, Served, Prompts
    <3> QED BY <3>1, AllTypes
  <2> QED BY <1>4, <2>1
<1>6. CASE SiteOf(t) = NULL
  <2>1. /\ connectedSites' = [connectedSites EXCEPT ![t] = r]
        /\ conn' = [conn EXCEPT ![r] = [status |-> "connected", wallet |-> x, pend |-> {}]]
      BY <1>6 DEF ConnectWhitelisted
  <2>2. /\ \A s \in Tab : s # t => connectedSites'[s] = connectedSites[s]
        /\ connectedSites'[t] = r /\ r # NULL
        /\ \A c \in Req : c # r => conn'[c] = conn[c]
        /\ conn'[r].status = "connected" /\ conn'[r].wallet = x /\ conn'[r].pend = {}
      BY <1>2, <2>1, AllTypes
  <2>3. ASSUME NEW s \in Tab, connectedSites[s] # NULL
        PROVE  /\ connectedSites'[s] = connectedSites[s]
               /\ conn'[connectedSites[s]] = conn[connectedSites[s]]
      BY <1>4, <1>6, <2>2, <2>3, AllTypes DEF SiteOf
  <2>4. \A q \in Req : rpc'[q].load = 0
      BY <1>3 DEF Known, AllInv, Served, Undisturbed
  <2>5. ASSUME NEW q \in Req, rpc'[q].pc \in {"selected", "asked"}
        PROVE  /\ rpc'[q].tab \in Tab /\ rpc'[q].kind \notin ConnectKind
               /\ rpc[q].pc \in {"selected", "asked"}
               /\ rpc'[q].conn = rpc[q].conn /\ rpc'[q].tab = rpc[q].tab
      BY <1>3, <2>5, AllTypes DEF AllInv, Served, Undisturbed
  <2>6. Undisturbed'
      BY <1>1, <1>2, <2>2, <2>3, <2>4, <2>5, UndisturbedKept
  <2>7. Prompts' /\ (\A w \in Req : Shows(w))' /\ Attended' /\ Counted'
    <3>1. \A c \in Req : conn'[c].pend = conn[c].pend
        BY <1>5, <2>2
    <3> QED BY <1>1, <1>3, <2>3, <3>1, PromptsKept DEF Known
  <2> QED BY <2>6, <2>7 DEF Served
<1>7. CASE SiteOf(t) # NULL
  <2>1. UNCHANGED <<connectedSites, conn>>
      BY <1>7 DEF ConnectWhitelisted
  <2> QED BY <1>1, <1>2, <2>1, RespondPasses
<1> QED BY <1>6, <1>7

LEMMA NoConnectPrompt ==
    ASSUME AllInv, Alone, NEW r \in Req
    PROVE  ~ConnectAsks(r)
<1>1. SUFFICES ASSUME ConnectAsks(r) PROVE FALSE
    OBVIOUS
<1>2. rpc[r].pc = "checked" /\ rpc[r].kind # "connect_silent"
    BY <1>1 DEF ConnectAsks
<1>3. rpc[r].kind \in ConnectKind /\ rpc[r].kind \in Kind
    BY <1>2 DEF AllInv, IInv, Arrived, SignInv, Uids
<1> QED BY <1>2, <1>3, AloneWindows DEF ConnectKind

LEMMA WaitingFinite ==
    ASSUME AllInv, Alone
    PROVE  IsFiniteSet(Waiting) /\ IsFiniteSet(Coming)
<1>1. Waiting \subseteq Req /\ Coming \subseteq Req
    BY DEF Waiting, Coming
<1> QED BY <1>1, FS_Subset DEF Alone

LEMMA ServedAsk ==
    ASSUME AllInv, Alone, NEW r \in Req, Ask(r)
    PROVE  Served'
<1> DEFINE c == rpc[r].conn
<1>1. rpc[r].pc = "selected" /\ rpc[r].kind \in SignKind
      /\ UNCHANGED <<page, connectedSites, opened, wallets, job>>
    BY DEF Ask
<1>2. /\ c \in Req /\ SiteOf(rpc[r].tab) = c /\ rpc[r].tab \in Tab /\ rpc[r].kind \notin ConnectKind
      /\ c # NULL
    BY <1>1, AllTypes DEF AllInv, Served, Undisturbed
<1>3. /\ rpc' = [rpc EXCEPT ![r].pc = "asked", ![r].conn = c]
      /\ conn' = [conn EXCEPT ![c].pend = {q \in @ : rpc[q].uid # rpc[r].uid} \cup {r}]
      /\ win' = [win EXCEPT ![r].st = "loading"]
    BY <1>2 DEF Ask
<1>4. {q \in conn[c].pend : rpc[q].uid # rpc[r].uid} = conn[c].pend
  <2>1. ASSUME NEW q \in conn[c].pend, rpc[q].uid = rpc[r].uid PROVE FALSE
    <3>1. q \in Req /\ rpc[q].pc = "asked" /\ SiteOf(rpc[q].tab) = c
        BY <1>2, <2>1, AllTypes DEF AllInv, Served, Prompts
    <3>2. Sent(q) /\ Sent(r) /\ rpc[q].tab \in Tab
        BY <1>1, <1>2, <3>1, AskedIs DEF Sent
    <3>3. rpc[q].tab = rpc[r].tab
        BY <1>2, <3>1, <3>2 DEF AllInv, SignInv, Sites
    <3> QED BY <1>1, <2>1, <3>1, <3>2, <3>3, OneKey DEF SameKey
  <2> QED BY <2>1
<1>5. /\ \A q \in Req : q # r => rpc'[q] = rpc[q]
      /\ rpc'[r].pc = "asked" /\ rpc'[r].conn = c /\ rpc'[r].kind = rpc[r].kind
      /\ rpc'[r].tab = rpc[r].tab /\ rpc'[r].load = rpc[r].load
  <2>1. rpc[r] \in Rpc /\ rpc \in [Req -> Rpc]
      BY AllTypes
  <2> QED BY <1>3, <2>1 DEF Rpc
<1>6. /\ \A d \in Req : d # c => conn'[d] = conn[d]
      /\ conn'[c].status = conn[c].status /\ conn'[c].wallet = conn[c].wallet
      /\ conn'[c].pend = conn[c].pend \cup {r}
  <2>1. conn[c] \in ConnectedSite /\ conn \in [Req -> ConnectedSite]
      BY <1>2, AllTypes
  <2> QED BY <1>2, <1>3, <1>4, <2>1 DEF ConnectedSite
<1>7. /\ Window = Req /\ win[r].st = "none" /\ win[r] \in Win /\ win \in [Req -> Win]
      /\ job[r].what = "idle" /\ win[r].sign = NULL
  <2>1. Window = Req /\ win[r].st = "none" /\ win[r] \in Win /\ win \in [Req -> Win]
        /\ job[r].what = "idle"
      BY <1>1, AloneWindows DEF AllInv, IInv, TypeOK, Windows, Early
  <2> QED BY <2>1 DEF AllInv, Served, Shows
<1>8. /\ \A w \in Req : w # r => win'[w] = win[w]
      /\ win'[r].st = "loading" /\ win'[r].sign = win[r].sign
    BY <1>3, <1>7 DEF Win
<1>9. r \notin opened
    BY <1>1, AllTypes DEF Late
<1>10. Undisturbed'
  <2>1. \A q \in Req : rpc'[q].load = 0
      BY <1>5 DEF AllInv, Served, Undisturbed
  <2>2. ASSUME NEW q \in Req, rpc'[q].pc \in {"selected", "asked"}
        PROVE  /\ rpc'[q].tab \in Tab /\ rpc'[q].kind \notin ConnectKind
               /\ rpc[q].pc \in {"selected", "asked"}
               /\ rpc'[q].conn = rpc[q].conn /\ rpc'[q].tab = rpc[q].tab
      BY <1>1, <1>2, <1>5, <2>2, AllTypes DEF AllInv, Served, Undisturbed
  <2>3. \A d \in Req : conn'[d].status = conn[d].status /\ conn'[d].wallet = conn[d].wallet
      BY <1>6
  <2> QED BY <1>1, <2>1, <2>2, <2>3, UndisturbedKept, AllTypes
<1>11. Prompts'
  <2>1. ASSUME NEW d \in Req, NEW q \in Req, q \in conn'[d].pend
        PROVE  rpc'[q].pc = "asked" /\ SiteOf(rpc[q].tab)' = d
      BY <1>1, <1>2, <1>5, <1>6, <2>1 DEF AllInv, Served, Prompts, SiteOf
  <2>2. ASSUME NEW q \in Req, rpc'[q].pc = "asked" PROVE q \in conn'[rpc'[q].conn].pend
      BY <1>2, <1>5, <1>6, <2>2, AskedIs
  <2> QED BY <1>1, <1>5, <2>1, <2>2, AllTypes DEF Prompts, Late
<1>12. ASSUME NEW w \in Req PROVE Shows(w)'
  <2>1. Shows(w)
      BY DEF AllInv, Served
  <2>2. CASE w = r
      BY <1>1, <1>5, <1>7, <1>8, <2>2 DEF Shows, Late
  <2>3. CASE w # r
    <3>1. job[w].what = "sign" => job[w].req \in Req /\ rpc'[job[w].req].tab = rpc[job[w].req].tab
        BY <1>5, <2>1, AllTypes DEF Shows
    <3> QED BY <1>1, <1>5, <1>8, <2>1, <2>3, <3>1 DEF Shows, SiteOf
  <2> QED BY <2>2, <2>3
<1>13. Attended'
  <2>1. ASSUME NEW q \in opened, rpc'[q].pc = "asked" PROVE \E w \in Req : Serves(w, q)'
    <3>1. q # r /\ q \in Req /\ rpc[q].pc = "asked"
        BY <1>5, <1>9, <2>1, AllTypes
    <3>2. PICK w \in Req : Serves(w, q)
        BY <2>1, <3>1 DEF AllInv, Served, Attended
    <3>3. w # r
        BY <1>7, <3>2 DEF Serves
    <3> QED BY <1>1, <1>8, <3>2, <3>3 DEF Serves
  <2> QED BY <1>1, <2>1 DEF Attended
<1>14. Counted'
  <2>1. Waiting' = Waiting \cup {r} /\ r \notin Waiting
      BY <1>1, <1>5, <1>9 DEF Waiting
  <2>2. Coming' = Coming \cup {r} /\ r \notin Coming
      BY <1>7, <1>8 DEF Coming
  <2>3. IsFiniteSet(Waiting) /\ IsFiniteSet(Coming) /\ Counted
      BY WaitingFinite DEF AllInv, Served
  <2>4. Cardinality(Waiting \cup {r}) = Cardinality(Waiting) + 1
      BY <2>1, <2>3, FS_AddElement
  <2>5. Cardinality(Coming \cup {r}) = Cardinality(Coming) + 1
      BY <2>2, <2>3, FS_AddElement
  <2> QED BY <2>1, <2>2, <2>3, <2>4, <2>5 DEF Counted
<1> QED BY <1>10, <1>11, <1>12, <1>13, <1>14 DEF Served

\* Only windows change.
LEMMA OnlyWindows ==
    ASSUME AllInv, page' = page, connectedSites' = connectedSites, conn' = conn,
           wallets' = wallets, rpc' = rpc,
           \A q \in opened' : q \in opened \/ (q \in Req /\ rpc[q].pc = "asked")
    PROVE  Undisturbed' /\ Prompts'
<1>1. Undisturbed'
    BY DEF AllInv, Served, Undisturbed, SiteOf, Usable, Connected
<1>2. Prompts'
    BY DEF AllInv, Served, Prompts, SiteOf, Late
<1> QED BY <1>1, <1>2

LEMMA ServedFetchConnect ==
    ASSUME AllInv, Alone, NEW w \in Req, FetchConnect(w)
    PROVE  Served'
<1>1. /\ win[w].st = "loading"
      /\ UNCHANGED <<page, connectedSites, conn, opened, wallets, rpc, job>>
    BY DEF FetchConnect
<1>2. Window = Req /\ win \in [Req -> Win] /\ win[w] \in Win
    BY AloneWindows DEF AllInv, IInv, TypeOK
<1>3. /\ \A v \in Req : v # w => win'[v] = win[v]
      /\ win'[w].st = "fetched" /\ win'[w].sign = win[w].sign
  <2>1. CASE win' = [win EXCEPT ![w].st = "fetched"]
      BY <1>2, <2>1 DEF Win
  <2>2. ASSUME NEW t \in Tab, win' = [win EXCEPT ![w].st = "fetched", ![w].conn = SiteOf(t)]
        PROVE  /\ \A v \in Req : v # w => win'[v] = win[v]
               /\ win'[w].st = "fetched" /\ win'[w].sign = win[w].sign
      BY <1>2, <2>2 DEF Win
  <2> QED BY <2>1, <2>2 DEF FetchConnect
<1>4. \A v \in Req : Shows(v)'
    BY <1>1, <1>3 DEF AllInv, Served, Shows, SiteOf
<1>5. Attended'
  <2>1. \A v, q \in Req : Serves(v, q) => Serves(v, q)'
      BY <1>1, <1>3 DEF Serves
  <2> QED BY <1>1, <2>1, AllTypes DEF AllInv, Served, Attended
<1>6. Counted'
    BY <1>1, <1>3, CountedKept DEF AllInv, Served
<1> QED BY <1>1, <1>4, <1>5, <1>6, OnlyWindows DEF Served

\* The requests that wait are those a window may fetch.
LEMMA UnopenedIs ==
    ASSUME AllInv, NEW q \in Req
    PROVE  q \in Unopened <=> q \in Waiting
<1>1. q \in Unopened => q \in Waiting
    BY AllTypes DEF Unopened, Waiting, AllInv, Served, Prompts, SiteOf
<1>2. q \in Waiting => q \in Unopened
    BY AskedIs, AllTypes DEF Unopened, Waiting
<1> QED BY <1>1, <1>2

LEMMA SomeoneWaits ==
    ASSUME AllInv, Alone
    PROVE  Waiting = {} <=> Coming = {}
BY WaitingFinite, FS_EmptySet DEF AllInv, Served, Counted

LEMMA NoFetchInVain ==
    ASSUME AllInv, Alone, NEW w \in Req
    PROVE  ~FetchNoSign(w)
<1>1. SUFFICES ASSUME FetchNoSign(w) PROVE FALSE
    OBVIOUS
<1>2. w \in Coming /\ Unopened = {}
    BY <1>1 DEF FetchNoSign, Coming
<1>3. Waiting = {}
    BY <1>2, UnopenedIs DEF Waiting
<1> QED BY <1>2, <1>3, SomeoneWaits

LEMMA ServedFetchSign ==
    ASSUME AllInv, Alone, NEW w \in Req, FetchSign(w)
    PROVE  Served'
<1>1. win[w].st = "fetched" /\ UNCHANGED <<page, connectedSites, conn, wallets, rpc>>
    BY DEF FetchSign
<1>2. PICK q \in Unopened :
       /\ opened' = opened \cup {q}
       /\ IF ~Connected(rpc[q].tab)
          THEN /\ win' = [win EXCEPT ![w].st = "open"]
               /\ UNCHANGED <<job, dbQueue>>
          ELSE IF rpc[q].kind = "tx/cardano"
          THEN /\ win' = [win EXCEPT ![w].st = "open", ![w].sign = q]
               /\ job' = [job EXCEPT ![w] = [NoJob EXCEPT !.what = "utxos", !.shows = q]]
               /\ dbQueue' = Append(dbQueue, <<"ui", w>>)
          ELSE /\ win' = [win EXCEPT ![w].st = IF IsSignWin(w) THEN "ready" ELSE "open",
                                     ![w].sign = q]
               /\ UNCHANGED <<job, dbQueue>>
    BY DEF FetchSign
<1>3. q \in Req /\ q \in Waiting /\ q \notin opened /\ rpc[q].pc = "asked"
    BY <1>2, UnopenedIs DEF Unopened, Waiting
<1>4. Connected(rpc[q].tab)
    BY <1>3, AskedIs, UsableOne, AllTypes
<1>5. Window = Req /\ win \in [Req -> Win] /\ win[w] \in Win /\ job \in [Req -> Job]
      /\ job[w].what = "idle"
    BY <1>1, AloneWindows DEF AllInv, IInv, TypeOK, Windows
<1>6. /\ \A v \in Req : v # w => win'[v] = win[v] /\ job'[v] = job[v]
      /\ win'[w].st \in {"open", "ready"} /\ win'[w].sign = q
      /\ job'[w].what \in {"idle", "utxos"}
  <2>1. CASE rpc[q].kind = "tx/cardano"
    <3> DEFINE j == [NoJob EXCEPT !.what = "utxos", !.shows = q]
    <3>1. j.what = "utxos"
        BY DEF NoJob
    <3>2. win' = [win EXCEPT ![w].st = "open", ![w].sign = q] /\ job' = [job EXCEPT ![w] = j]
        BY <1>2, <1>4, <2>1
    <3> HIDE DEF j
    <3> QED BY <1>5, <3>1, <3>2 DEF Win
  <2>2. CASE rpc[q].kind # "tx/cardano"
      BY <1>2, <1>4, <1>5, <2>2 DEF Win
  <2> QED BY <2>1, <2>2
<1>7. Undisturbed' /\ Prompts'
    BY <1>1, <1>2, <1>3, OnlyWindows
<1>8. \A v \in Req : Shows(v)'
    BY <1>1, <1>2, <1>6 DEF AllInv, Served, Shows, SiteOf
<1>9. Attended'
  <2>1. Serves(w, q)'
      BY <1>6 DEF Serves
  <2>2. \A v, r \in Req : Serves(v, r) => v # w
      BY <1>1, <1>5 DEF Serves
  <2>3. \A v, r \in Req : Serves(v, r) => Serves(v, r)'
      BY <1>6, <2>2 DEF Serves
  <2> QED BY <1>1, <1>2, <2>1, <2>3, AllTypes DEF AllInv, Served, Attended
<1>10. Counted'
  <2>1. Waiting' = Waiting \ {q} /\ q \in Waiting
      BY <1>1, <1>2, <1>3 DEF Waiting
  <2>2. Coming' = Coming \ {w} /\ w \in Coming
      BY <1>1, <1>6 DEF Coming
  <2>3. IsFiniteSet(Waiting) /\ IsFiniteSet(Coming) /\ Counted
      BY WaitingFinite DEF AllInv, Served
  <2>4. Cardinality(Waiting \ {q}) = Cardinality(Waiting) - 1
      BY <2>1, <2>3, FS_RemoveElement
  <2>5. Cardinality(Coming \ {w}) = Cardinality(Coming) - 1
      BY <2>2, <2>3, FS_RemoveElement
  <2> QED BY <2>1, <2>2, <2>3, <2>4, <2>5 DEF Counted
<1> QED BY <1>7, <1>8, <1>9, <1>10 DEF Served

LEMMA ServedUtxosJob ==
    ASSUME AllInv, Alone, NEW w \in Req, UtxosJob(w)
    PROVE  Served'
<1>1. /\ job[w].what = "utxos" /\ job' = [job EXCEPT ![w] = NoJob]
      /\ DropMissing(rpc[job[w].shows].tab)
      /\ win' = win \/ (win[w].st = "open" /\ win' = [win EXCEPT ![w].st = "ready"])
      /\ UNCHANGED <<page, conn, opened, wallets, rpc>>
    BY DEF UtxosJob
<1>2. UNCHANGED connectedSites
  <2>1. job[w].shows \in Req /\ rpc[job[w].shows].pc # "new"
      BY <1>1, AloneWindows DEF AllInv, SignInv, Confirmed
  <2> QED BY <1>1, <2>1, NothingDropped, AllTypes
<1>3. Window = Req /\ win \in [Req -> Win] /\ win[w] \in Win /\ job \in [Req -> Job]
    BY AloneWindows DEF AllInv, IInv, TypeOK
<1>4. /\ \A v \in Req : v # w => win'[v] = win[v] /\ job'[v] = job[v]
      /\ win'[w].sign = win[w].sign
      /\ win'[w].st = win[w].st \/ (win[w].st = "open" /\ win'[w].st = "ready")
      /\ job'[w].what = "idle"
  <2>1. NoJob.what = "idle"
      BY DEF NoJob
  <2>2. job'[w] = NoJob /\ \A v \in Req : v # w => job'[v] = job[v]
      BY <1>1, <1>3
  <2>3. CASE win' = win
      BY <2>1, <2>2, <2>3
  <2>4. CASE win[w].st = "open" /\ win' = [win EXCEPT ![w].st = "ready"]
      BY <1>3, <2>1, <2>2, <2>4 DEF Win
  <2> QED BY <1>1, <2>3, <2>4
<1>5. Undisturbed' /\ Prompts'
    BY <1>1, <1>2, OnlyWindows
<1>6. \A v \in Req : Shows(v)'
    BY <1>1, <1>2, <1>4 DEF AllInv, Served, Shows, SiteOf
<1>7. Attended'
  <2>1. \A v, r \in Req : Serves(v, r) => Serves(v, r)'
      BY <1>1, <1>4 DEF Serves
  <2> QED BY <1>1, <2>1, AllTypes DEF AllInv, Served, Attended
<1>8. Counted'
    BY <1>1, <1>4, CountedKept DEF AllInv, Served
<1> QED BY <1>5, <1>6, <1>7, <1>8 DEF Served

LEMMA PendGone ==
    ASSUME AllInv, NEW c \in Req, NEW r \in Req, Sent(r), SiteOf(rpc[r].tab) = c,
           conn' = DeletePend(c, r)
    PROVE  \A e \in Req : /\ conn'[e].status = conn[e].status /\ conn'[e].wallet = conn[e].wallet
                          /\ conn'[e].pend = conn[e].pend \ {r}
<1>1. conn \in [Req -> ConnectedSite] /\ conn[c] \in ConnectedSite /\ rpc[r].tab \in Tab
    BY AllTypes DEF Sent
<1>2. \A e, q \in Req : q \in conn[e].pend => Sent(q) /\ SiteOf(rpc[q].tab) = e /\ rpc[q].tab \in Tab
    BY AskedIs DEF AllInv, Served, Prompts
<1>3. {q \in conn[c].pend : rpc[q].uid # rpc[r].uid} = conn[c].pend \ {r}
  <2>1. ASSUME NEW q \in conn[c].pend, rpc[q].uid = rpc[r].uid PROVE q = r
    <3>1. q \in Req /\ Sent(q) /\ SiteOf(rpc[q].tab) = c /\ rpc[q].tab \in Tab
        BY <1>2, <2>1, AllTypes
    <3>2. rpc[q].tab = rpc[r].tab
        BY <1>1, <3>1, AllTypes DEF AllInv, SignInv, Sites
    <3> QED BY <2>1, <3>1, <3>2, OneKey DEF SameKey
  <2> QED BY <2>1
<1>4. conn'[c].status = conn[c].status /\ conn'[c].wallet = conn[c].wallet
      /\ conn'[c].pend = {q \in conn[c].pend : rpc[q].uid # rpc[r].uid}
    BY <1>1 DEF DeletePend, ConnectedSite
<1>5. ASSUME NEW e \in Req, e # c PROVE conn'[e] = conn[e] /\ r \notin conn[e].pend
    BY <1>1, <1>2, <1>5 DEF DeletePend
<1> QED BY <1>3, <1>4, <1>5

\* Window w answers the request r it serves, or hands it on to a job.
LEMMA ServedAnswers ==
    ASSUME AllInv, Alone, NEW w \in Req, NEW r \in opened,
           UNCHANGED <<connectedSites, opened, wallets>>,
           \A t \in Tab : page'[t].load = page[t].load,
           \A v \in Req : v # w => win'[v] = win[v] /\ job'[v] = job[v],
           \A q \in Req : Serves(w, q) => q = r,
           win[w].st \in {"open", "ready", "closing", "closed"},
           win'[w].st = "closed" \/ (win'[w].st = "closing" /\ win'[w].sign \in opened),
           job'[w].what = "sign" => /\ win'[w].st = "closed" /\ job'[w].req = r
                                    /\ job'[w].conn # NULL /\ job'[w].conn = SiteOf(rpc[r].tab),
           Known, \A q \in Req : q # r => rpc'[q] = rpc[q],
           rpc'[r].conn = rpc[r].conn, rpc'[r].pc \in {rpc[r].pc, "answered"},
           \A c \in Req : /\ conn'[c].status = conn[c].status /\ conn'[c].wallet = conn[c].wallet
                          /\ conn[c].pend \ {r} \subseteq conn'[c].pend
                          /\ conn'[c].pend \subseteq conn[c].pend
                          /\ r \in conn'[c].pend => rpc'[r].pc = "asked"
                          /\ rpc'[r].pc = "asked" => conn'[c].pend = conn[c].pend,
           rpc'[r].pc = "asked" => job'[w].what = "sign"
    PROVE  Served'
<1>1. /\ r \in Req /\ rpc[r].pc \in Late /\ rpc[r].tab \in Tab
      /\ rpc'[r].kind = rpc[r].kind /\ rpc'[r].tab = rpc[r].tab /\ rpc'[r].load = rpc[r].load
      /\ rpc'[r].pc \in Late /\ (rpc'[r].pc = "asked" => rpc[r].pc = "asked")
    BY AllTypes DEF Known, Late
<1>2. \A q \in Req : rpc'[q].tab = rpc[q].tab /\ rpc'[q].kind = rpc[q].kind
                     /\ (rpc[q].pc \in Late => rpc'[q].pc \in Late)
                     /\ (rpc'[q].pc = "asked" => rpc[q].pc = "asked")
    BY <1>1
<1>3. Undisturbed'
  <2>1. \A q \in Req : rpc'[q].load = 0
      BY DEF Known, AllInv, Served, Undisturbed
  <2>2. ASSUME NEW q \in Req, rpc'[q].pc \in {"selected", "asked"}
        PROVE  /\ rpc'[q].tab \in Tab /\ rpc'[q].kind \notin ConnectKind
               /\ rpc[q].pc \in {"selected", "asked"}
               /\ rpc'[q].conn = rpc[q].conn /\ rpc'[q].tab = rpc[q].tab
    <3>1. rpc[q].pc \in {"selected", "asked"} /\ rpc'[q].conn = rpc[q].conn
        BY <1>1, <2>2 DEF Late
    <3> QED BY <1>2, <3>1, AllTypes DEF AllInv, Served, Undisturbed
  <2> QED BY <2>1, <2>2, UndisturbedKept, AllTypes
<1>4. Prompts'
  <2>1. ASSUME NEW c \in Req, NEW q \in Req, q \in conn'[c].pend
        PROVE  rpc'[q].pc = "asked" /\ SiteOf(rpc[q].tab)' = c
    <3>1. rpc[q].pc = "asked" /\ SiteOf(rpc[q].tab) = c
        BY <2>1 DEF AllInv, Served, Prompts
    <3>2. rpc'[q].pc = "asked"
        BY <2>1, <3>1
    <3> QED BY <1>2, <3>1, <3>2 DEF SiteOf
  <2>2. ASSUME NEW q \in Req, rpc'[q].pc = "asked" PROVE q \in conn'[rpc'[q].conn].pend
    <3>1. rpc[q].pc = "asked" /\ rpc[q].conn \in Req /\ q \in conn[rpc[q].conn].pend
        BY <1>2, <2>2, AskedIs
    <3>2. rpc'[q].conn = rpc[q].conn
        OBVIOUS
    <3>3. q \in conn'[rpc[q].conn].pend
        BY <2>2, <3>1
    <3> QED BY <3>2, <3>3
  <2> QED BY <1>2, <2>1, <2>2, AllTypes DEF Prompts
<1>5. ASSUME NEW v \in Req PROVE Shows(v)'
  <2>1. Shows(v) /\ rpc'[v].kind = rpc[v].kind /\ (rpc[v].pc \in Late => rpc'[v].pc \in Late)
      BY <1>2 DEF AllInv, Served
  <2>2. CASE v = w
      BY <1>1, <2>1, <2>2 DEF Shows, SiteOf
  <2>3. CASE v # w
    <3>1. job[v].what = "sign" => job[v].req \in Req /\ rpc'[job[v].req].tab = rpc[job[v].req].tab
        BY <1>2, <2>1, AllTypes DEF Shows
    <3> QED BY <2>1, <2>3, <3>1 DEF Shows, SiteOf
  <2> QED BY <2>2, <2>3
<1>6. Attended'
  <2>1. ASSUME NEW q \in opened, rpc'[q].pc = "asked" PROVE \E v \in Req : Serves(v, q)'
    <3>1. q \in Req /\ rpc[q].pc = "asked"
        BY <1>2, <2>1, AllTypes
    <3>2. CASE q = r
      <4>1. job'[w].what = "sign" /\ job'[w].req = r
          BY <2>1, <3>2
      <4> QED BY <3>2, <4>1 DEF Serves
    <3>3. CASE q # r
      <4>1. PICK v \in Req : Serves(v, q)
          BY <2>1, <3>1 DEF AllInv, Served, Attended
      <4>2. v # w
          BY <3>1, <3>3, <4>1
      <4> QED BY <4>1, <4>2 DEF Serves
    <3> QED BY <3>2, <3>3
  <2> QED BY <2>1 DEF Attended
<1>7. Counted'
  <2>1. \A q \in Req \ opened : rpc'[q].pc = "asked" <=> rpc[q].pc = "asked"
      OBVIOUS
  <2>2. \A v \in Req : win'[v].st \in {"loading", "fetched"} <=> win[v].st \in {"loading", "fetched"}
      OBVIOUS
  <2> QED BY <2>1, <2>2, CountedKept DEF AllInv, Served
<1> QED BY <1>3, <1>4, <1>5, <1>6, <1>7 DEF Served

\* What a window shows, and the PendingSign its answer finds.
LEMMA ShownIs ==
    ASSUME AllInv, Alone, NEW w \in Req, win[w].st \in {"open", "ready", "closing"}
    PROVE  /\ win[w].sign \in opened /\ win[w].sign \in Req /\ Sent(win[w].sign)
           /\ job[w].what # "sign" /\ rpc[w].kind \in SignKind
           /\ \A p \in Req : Serves(w, p) => p = win[w].sign
<1>1. Shows(w) /\ Window = Req
    BY AloneWindows DEF AllInv, Served
<1>2. win[w].sign \in opened /\ win[w].sign \in Req /\ win[w].sign # NULL
    BY <1>1, AllTypes DEF Shows
<1>3. Sent(win[w].sign)
    BY <1>1, <1>2 DEF AllInv, SignInv, Confirmed
<1> QED BY <1>1, <1>2, <1>3 DEF Shows, Serves

LEMMA PendingIs ==
    ASSUME AllInv, NEW q \in Req, Sent(q)
    PROVE  /\ PendingFor(q) = IF rpc[q].pc = "asked" THEN {q} ELSE {}
           /\ rpc[q].pc = "asked" => SiteOf(rpc[q].tab) \in Req
<1>1. q # NULL /\ rpc[q].tab \in Tab
    BY AllTypes DEF Sent
<1>2. ASSUME NEW r \in PendingFor(q) PROVE r = q /\ rpc[q].pc = "asked"
  <2>1. SiteOf(rpc[q].tab) # NULL /\ r \in conn[SiteOf(rpc[q].tab)].pend /\ SameKey(q, r)
      BY <1>1, <1>2 DEF PendingFor
  <2>2. SiteOf(rpc[q].tab) \in Req
      BY <1>1, <2>1, AllTypes DEF SiteOf
  <2>3. r \in Req /\ rpc[r].pc = "asked"
      BY <2>1, <2>2, AllTypes DEF AllInv, Served, Prompts
  <2> QED BY <2>1, <2>3, AskedIs, OneKey
<1>3. ASSUME rpc[q].pc = "asked" PROVE q \in PendingFor(q) /\ SiteOf(rpc[q].tab) \in Req
  <2>1. SiteOf(rpc[q].tab) \in Req /\ q \in conn[SiteOf(rpc[q].tab)].pend
      BY <1>3, AskedIs
  <2> QED BY <1>1, <2>1, AllTypes DEF PendingFor, SameKey
<1> QED BY <1>2, <1>3

\* The effect of an answer on the request r and on the PendingSigns.
Ended(r) ==
    /\ Known /\ \A q \in Req : q # r => rpc'[q] = rpc[q]
    /\ rpc'[r].conn = rpc[r].conn /\ rpc'[r].pc \in {rpc[r].pc, "answered"} /\ rpc'[r].pc # "asked"
    /\ \A c \in Req : /\ conn'[c].status = conn[c].status /\ conn'[c].wallet = conn[c].wallet
                      /\ conn'[c].pend = conn[c].pend \ {r}

LEMMA ResolveEnds ==
    ASSUME AllInv, NEW r \in Req, Sent(r), NEW ok \in BOOLEAN, NEW s \in Req \cup {NULL},
           rpc' = Resolve(r, ok, s), SiteOf(rpc[r].tab) \in Req,
           conn' = DeletePend(SiteOf(rpc[r].tab), r)
    PROVE  Ended(r)
BY ResolveIs, PendGone DEF AllInv, Ended

LEMMA UnchangedEnds ==
    ASSUME AllInv, NEW r \in Req, rpc[r].pc # "asked", UNCHANGED <<rpc, conn>>
    PROVE  Ended(r)
<1>1. \A c \in Req : r \notin conn[c].pend
    BY DEF AllInv, Served, Prompts
<1> QED BY <1>1, StillKnown DEF AllInv, Ended

LEMMA RejectEnds ==
    ASSUME AllInv, NEW q \in Req, Sent(q), SignRejected(q)
    PROVE  Ended(q)
<1>1. CASE rpc[q].pc = "asked"
  <2>1. PendingFor(q) = {q} /\ SiteOf(rpc[q].tab) \in Req
      BY <1>1, PendingIs
  <2>2. rpc' = Resolve(q, FALSE, NULL) /\ conn' = DeletePend(SiteOf(rpc[q].tab), q)
      BY <2>1 DEF SignRejected
  <2> QED BY <2>1, <2>2, ResolveEnds
<1>2. CASE rpc[q].pc # "asked"
  <2>1. PendingFor(q) = {}
      BY <1>2, PendingIs
  <2> QED BY <1>2, <2>1, UnchangedEnds DEF SignRejected
<1> QED BY <1>1, <1>2

LEMMA ServedEnded ==
    ASSUME AllInv, Alone, NEW w \in Req, NEW r \in opened, Ended(r),
           page' = page, connectedSites' = connectedSites, opened' = opened, wallets' = wallets,
           \A v \in Req : v # w => win'[v] = win[v] /\ job'[v] = job[v],
           \A q \in Req : Serves(w, q) => q = r,
           win[w].st \in {"open", "ready", "closing", "closed"},
           win'[w].st = "closed" \/ (win'[w].st = "closing" /\ win'[w].sign \in opened),
           job'[w].what # "sign"
    PROVE  Served'
BY ServedAnswers DEF Ended

LEMMA ServedRejectSign ==
    ASSUME AllInv, Alone, NEW w \in Req, RejectSign(w)
    PROVE  Served'
<1> DEFINE q == win[w].sign
<1>1. /\ win[w].st \in {"ready", "unguarded"} /\ SignRejected(q)
      /\ win' = [win EXCEPT ![w] = IF @.st = "ready" THEN [@ EXCEPT !.st = "closing"] ELSE Closed]
      /\ page' = page /\ connectedSites' = connectedSites /\ opened' = opened
      /\ wallets' = wallets /\ job' = job
    BY DEF RejectSign
<1>2. win[w].st = "ready"
    BY <1>1 DEF AllInv, Served, Shows
<1>3. Window = Req /\ win \in [Req -> Win] /\ win[w] \in Win
    BY AloneWindows DEF AllInv, IInv, TypeOK
<1>4. /\ \A v \in Req : v # w => win'[v] = win[v]
      /\ win'[w].st = "closing" /\ win'[w].sign = q
    BY <1>1, <1>2, <1>3 DEF Win
<1>5. /\ q \in opened /\ q \in Req /\ Sent(q) /\ job[w].what # "sign"
      /\ \A p \in Req : Serves(w, p) => p = q
    BY <1>2, ShownIs
<1>6. Ended(q)
    BY <1>1, <1>5, RejectEnds
<1> HIDE DEF q
<1> QED BY <1>1, <1>2, <1>4, <1>5, <1>6, ServedEnded

LEMMA ServedUnload ==
    ASSUME AllInv, Alone, NEW w \in Req, Unload(w)
    PROVE  Served'
<1> DEFINE q == win[w].sign
<1>1. /\ win[w].st \in {"open", "ready", "saved", "closing", "unguarded"}
      /\ win' = [win EXCEPT ![w] = Closed]
      /\ page' = page /\ opened' = opened /\ wallets' = wallets /\ job' = job
    BY DEF Unload
<1>2. win[w].st \in {"open", "ready", "closing"}
    BY <1>1 DEF AllInv, Served, Shows
<1>3. Window = Req /\ win \in [Req -> Win] /\ Menu = {}
    BY AloneWindows DEF AllInv, IInv, TypeOK, Alone
<1>4. /\ \A v \in Req : v # w => win'[v] = win[v]
      /\ win'[w].st = "closed"
    BY <1>1, <1>3 DEF Closed, NoWin
<1>5. /\ q \in opened /\ q \in Req /\ Sent(q) /\ job[w].what # "sign" /\ rpc[w].kind \in SignKind
      /\ \A p \in Req : Serves(w, p) => p = q
    BY <1>2, ShownIs
<1>6. SignRejected(q) /\ connectedSites' = connectedSites
  <2>1. ~IsConnectWin(w)
      BY <1>5 DEF IsConnectWin, SignKind, DbSignKind, ConnectKind
  <2> QED BY <1>2, <1>3, <2>1 DEF Unload
<1>7. Ended(q)
    BY <1>5, <1>6, RejectEnds
<1> HIDE DEF q
<1> QED BY <1>1, <1>2, <1>4, <1>5, <1>6, <1>7, ServedEnded

LEMMA ServedConfirmSign ==
    ASSUME AllInv, Alone, NEW w \in Req, ConfirmSign(w)
    PROVE  Served'
<1> DEFINE q == win[w].sign
           c == SiteOf(rpc[q].tab)
           j == [what |-> "sign", shows |-> q, conn |-> c, req |-> q]
<1>1. /\ win[w].st \in {"ready", "unguarded"} /\ win' = [win EXCEPT ![w] = Closed]
      /\ page' = page /\ connectedSites' = connectedSites /\ opened' = opened /\ wallets' = wallets
    BY DEF ConfirmSign
<1>2. win[w].st = "ready"
    BY <1>1 DEF AllInv, Served, Shows
<1>3. Window = Req /\ win \in [Req -> Win] /\ job \in [Req -> Job]
    BY AloneWindows DEF AllInv, IInv, TypeOK
<1>4. /\ \A v \in Req : v # w => win'[v] = win[v]
      /\ win'[w].st = "closed"
    BY <1>1, <1>3 DEF Closed, NoWin
<1>5. /\ q \in opened /\ q \in Req /\ Sent(q) /\ job[w].what # "sign"
      /\ \A p \in Req : Serves(w, p) => p = q
    BY <1>2, ShownIs
<1>6. CASE PendingFor(q) = {} /\ UNCHANGED <<conn, rpc, job>>
  <2>1. Ended(q)
      BY <1>5, <1>6, PendingIs, UnchangedEnds
  <2> HIDE DEF q
  <2> QED BY <1>1, <1>2, <1>4, <1>5, <1>6, <2>1, ServedEnded
<1>7. CASE q \in PendingFor(q) /\ rpc' = Resolve(q, TRUE, q) /\ conn' = DeletePend(c, q) /\ job' = job
  <2>1. SiteOf(rpc[q].tab) \in Req
      BY <1>5, <1>7, PendingIs
  <2>2. Ended(q)
      BY <1>5, <1>7, <2>1, ResolveEnds
  <2> HIDE DEF q
  <2> QED BY <1>1, <1>2, <1>4, <1>5, <1>7, <2>2, ServedEnded
<1>8. CASE q \in PendingFor(q) /\ job' = [job EXCEPT ![w] = j] /\ UNCHANGED <<conn, rpc>>
  <2>1. c \in Req /\ c # NULL
      BY <1>5, <1>8, PendingIs, AllTypes
  <2>2. /\ \A v \in Req : v # w => job'[v] = job[v]
        /\ job'[w].req = q /\ job'[w].conn = c /\ job'[w].what = "sign"
      BY <1>3, <1>8
  <2>3. Known
      BY <1>8, StillKnown DEF AllInv
  <2>4. rpc' = rpc /\ conn' = conn /\ (rpc[q].pc = "asked" \/ q \notin PendingFor(q))
      BY <1>5, <1>8, PendingIs
  <2>5. rpc[q].pc = "asked"
      BY <1>8, <2>4
  <2> HIDE DEF q, j
  <2> QED BY <1>1, <1>2, <1>4, <1>5, <2>1, <2>2, <2>3, <2>4, <2>5, ServedAnswers
<1>9. \/ PendingFor(q) = {} /\ UNCHANGED <<conn, rpc, job>>
      \/ q \in PendingFor(q) /\ rpc' = Resolve(q, TRUE, q) /\ conn' = DeletePend(c, q) /\ job' = job
      \/ q \in PendingFor(q) /\ job' = [job EXCEPT ![w] = j] /\ UNCHANGED <<conn, rpc>>
  <2>1. CASE PendingFor(q) = {} /\ UNCHANGED <<conn, rpc, dbQueue, job>>
      BY <2>1
  <2>2. ASSUME NEW r \in PendingFor(q),
               IF rpc[r].kind \in {"data", "tx-reorg/cardano"}
               THEN /\ rpc' = Resolve(r, TRUE, q)
                    /\ conn' = DeletePend(c, q)
                    /\ UNCHANGED <<dbQueue, job>>
               ELSE /\ job' = [job EXCEPT ![w] = [what |-> "sign", shows |-> q, conn |-> c, req |-> r]]
                    /\ dbQueue' = Append(dbQueue, <<"ui", w>>)
                    /\ UNCHANGED <<conn, rpc>>
        PROVE  \/ q \in PendingFor(q) /\ rpc' = Resolve(q, TRUE, q) /\ conn' = DeletePend(c, q) /\ job' = job
               \/ q \in PendingFor(q) /\ job' = [job EXCEPT ![w] = j] /\ UNCHANGED <<conn, rpc>>
    <3>1. r = q
        BY <1>5, <2>2, PendingIs
    <3> QED BY <2>2, <3>1
  <2>3. \/ PendingFor(q) = {} /\ UNCHANGED <<conn, rpc, dbQueue, job>>
        \/ \E r \in PendingFor(q) :
               IF rpc[r].kind \in {"data", "tx-reorg/cardano"}
               THEN /\ rpc' = Resolve(r, TRUE, q)
                    /\ conn' = DeletePend(c, q)
                    /\ UNCHANGED <<dbQueue, job>>
               ELSE /\ job' = [job EXCEPT ![w] = [what |-> "sign", shows |-> q, conn |-> c, req |-> r]]
                    /\ dbQueue' = Append(dbQueue, <<"ui", w>>)
                    /\ UNCHANGED <<conn, rpc>>
      BY DEF ConfirmSign
  <2> QED BY <2>1, <2>2, <2>3
<1> QED BY <1>6, <1>7, <1>8, <1>9

LEMMA ServedSignJob ==
    ASSUME AllInv, Alone, NEW w \in Req, SignJob(w)
    PROVE  Served'
<1> DEFINE r == job[w].req
<1>1. /\ job[w].what = "sign" /\ job' = [job EXCEPT ![w] = NoJob]
      /\ DropMissing(rpc[job[w].shows].tab) /\ conn' = DeletePend(job[w].conn, job[w].shows)
      /\ \E ok \in BOOLEAN : rpc' = Resolve(r, ok, IF ok THEN job[w].shows ELSE NULL)
      /\ page' = page /\ opened' = opened /\ wallets' = wallets /\ win' = win
    BY DEF SignJob
<1>2. Shows(w) /\ Window = Req /\ job \in [Req -> Job]
    BY AloneWindows DEF AllInv, IInv, TypeOK, Served
<1>3. /\ win[w].st = "closed" /\ r \in opened /\ r \in Req
      /\ job[w].conn # NULL /\ job[w].conn = SiteOf(rpc[r].tab)
      /\ \A p \in Req : Serves(w, p) => p = r
    BY <1>1, <1>2, AllTypes DEF Shows, Serves
<1>4. job[w].shows = r /\ Sent(r) /\ rpc[r].tab \in Tab
  <2>1. Answering(job[w].shows, r)
      BY <1>1, <1>2 DEF AllInv, SignInv, Confirmed
  <2>2. job[w].shows \in Req /\ Sent(job[w].shows) /\ Sent(r) /\ SameKey(job[w].shows, r)
      BY <2>1 DEF Answering
  <2> HIDE DEF r
  <2> QED BY <1>3, <2>2, OneKey, AllTypes DEF Sent
<1>5. SiteOf(rpc[r].tab) \in Req /\ UNCHANGED connectedSites
    BY <1>1, <1>3, <1>4, NothingDropped, AllTypes DEF SiteOf
<1>6. Ended(r)
  <2>1. PICK ok \in BOOLEAN : rpc' = Resolve(r, ok, IF ok THEN r ELSE NULL)
      BY <1>1, <1>4
  <2>2. (IF ok THEN r ELSE NULL) \in Req \cup {NULL}
      BY <1>3
  <2>3. conn' = DeletePend(SiteOf(rpc[r].tab), r)
      BY <1>1, <1>3, <1>4
  <2> HIDE DEF r
  <2> QED BY <1>3, <1>4, <1>5, <2>1, <2>2, <2>3, ResolveEnds
<1>7. /\ \A v \in Req : v # w => job'[v] = job[v]
      /\ job'[w].what # "sign"
    BY <1>1, <1>2 DEF NoJob
<1> HIDE DEF r
<1> QED BY <1>1, <1>3, <1>5, <1>6, <1>7, ServedEnded

LEMMA NoConnectWindow ==
    ASSUME AllInv, Alone, NEW w \in Req
    PROVE  /\ \A x \in wallets : ~SaveWhitelist(w, x)
           /\ ~AcceptConnect(w) /\ ~CancelConnect(w)
<1>1. win[w].st # "none" => ~IsConnectWin(w)
    BY DEF AllInv, Served, Shows, IsConnectWin, SignKind, DbSignKind, ConnectKind
<1> QED BY <1>1 DEF SaveWhitelist, AcceptConnect, CancelConnect

LEMMA ServedInit ==
    ASSUME Init, Alone
    PROVE  Served
<1>1. Window = Req /\ NULL \notin Req
    BY AloneWindows, ConstantsAssumption
<1>2. /\ \A r \in Req : rpc[r].pc = "new" /\ rpc[r].load = 0 /\ conn[r].pend = {}
      /\ \A w \in Req : win[w].st = "none" /\ win[w].sign = NULL /\ job[w].what = "idle"
      /\ opened = {} /\ wallets = Wallet
      /\ \A t \in Tab : SiteOf(t) = NULL /\ page[t].load = 0
    BY <1>1 DEF Init, NewRpc, NoConn, NoWin, NoJob, SiteOf
<1>3. Waiting = {} /\ Coming = {}
    BY <1>2 DEF Waiting, Coming
<1> QED BY <1>2, <1>3 DEF Served, Undisturbed, Prompts, Shows, Attended, Counted

LEMMA ServedNext ==
    ASSUME AllInv, Alone, [Next]_vars
    PROVE  Served'
<1>1. CASE UNCHANGED vars
  <2>1. Undisturbed' /\ Prompts'
      BY <1>1, OnlyWindows DEF vars
  <2>2. \A w \in Req : Shows(w)'
      BY <1>1 DEF vars, AllInv, Served, Shows, SiteOf
  <2>3. Attended'
      BY <1>1 DEF vars, AllInv, Served, Attended, Serves
  <2>4. Counted'
      BY <1>1, CountedKept DEF vars, AllInv, Served
  <2> QED BY <2>1, <2>2, <2>3, <2>4 DEF Served
<1>2. ASSUME NEW r \in Req, NEW t \in Tab, NEW k \in Kind, Receive(r, t, k) PROVE Served'
    BY <1>2, ServedReceive
<1>3. ASSUME NEW r \in Req, Handler(r) PROVE Served'
    BY <1>3, ServedReadWhitelist, ServedConnectWhitelisted, ServedResponds, NoConnectPrompt,
       ServedSelectWallet, ServedAsk DEF Handler
<1>4. ASSUME NEW w \in Req, Load(w) PROVE Served'
    BY <1>4, ServedFetchConnect, NoFetchInVain, ServedFetchSign DEF Load
<1>5. ASSUME NEW w \in Req, UiJob(w) PROVE Served'
    BY <1>5, ServedUtxosJob, ServedSignJob DEF UiJob
<1>6. ASSUME NEW w \in Req, User(w) PROVE Served'
    BY <1>6, NoConnectWindow, ServedConfirmSign, ServedRejectSign, ServedUnload DEF User
<1>7. /\ \A w \in Req : ~CloseEarly(w) /\ ~ReorgFails(w)
      /\ Window = Req /\ Menu = {}
      /\ \A t \in Tab, s \in Site : ~Navigate(t, s)
      /\ \A x \in Wallet : ~DeleteWallet(x)
      /\ \A s \in Site : ~RemoveSite(s)
    BY AloneWindows DEF Alone, CloseEarly, ReorgFails, Navigate, DeleteWallet, RemoveSite
<1> QED BY <1>1, <1>2, <1>3, <1>4, <1>5, <1>6, <1>7 DEF Next

\* Without disturbances and connect prompts no request that waits for the user is left
\* without a window to answer it, although every window fetches whichever request comes
\* first (tx_sign_window_retrieve_data): a window that fetches finds one, since there
\* are as many windows that have not fetched as requests that were not fetched.
THEOREM NothingIsStranded == ASSUME Alone PROVE Spec => []NothingStranded
<1>1. Init => Served
    BY ServedInit
<1>2. IInv /\ SignInv /\ Served /\ [Next]_vars => Served'
    BY ServedNext DEF AllInv
<1>3. IInv /\ SignInv /\ Served => NothingStranded
  <2> SUFFICES ASSUME AllInv, NEW r \in Req, Stranded(r) PROVE FALSE
      BY DEF NothingStranded, AllInv
  <2>1. /\ rpc[r].pc = "asked" /\ rpc[r].kind \in SignKind /\ Sent(r)
        /\ SiteOf(rpc[r].tab) # NULL /\ r \in conn[SiteOf(rpc[r].tab)].pend
      BY AskedIs, AllTypes DEF Stranded
  <2>2. ~SignAnswerable(r) /\ Window = Req
      BY <2>1, AloneWindows DEF Stranded
  <2>3. CASE r \in opened
    <3>1. PICK w \in Req : Serves(w, r)
        BY <2>1, <2>3 DEF AllInv, Served, Attended
    <3>2. CASE win[w].sign = r /\ win[w].st \in {"open", "ready"}
      <4>1. IsSignWin(w) /\ win[w].sign # NULL /\ SameKey(r, r)
          BY <3>2, ShownIs, AllTypes DEF IsSignWin, SameKey
      <4> QED BY <2>1, <2>2, <3>2, <4>1 DEF SignAnswerable, Showing
    <3>3. CASE job[w].what = "sign" /\ job[w].req = r
        BY <2>2, <3>3 DEF SignAnswerable
    <3> QED BY <3>1, <3>2, <3>3 DEF Serves
  <2>4. CASE r \notin opened
    <3>1. r \in Waiting
        BY <2>1, <2>4 DEF Waiting
    <3>2. PICK w \in Coming : TRUE
        BY <3>1, SomeoneWaits
    <3>3. w \in Req /\ win[w].st \in {"loading", "fetched"} /\ IsSignWin(w)
        BY <3>2 DEF Coming, AllInv, Served, Shows, IsSignWin
    <3> QED BY <2>1, <2>2, <2>4, <3>3 DEF SignAnswerable
  <2> QED BY <2>3, <2>4
<1> QED BY <1>1, <1>2, <1>3, SigningInductive, PTL DEF Spec
===============================================================================
