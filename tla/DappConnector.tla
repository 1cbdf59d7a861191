---------------------------- MODULE DappConnector ----------------------------
(***************************************************************************)
(* The background page of the dApp connector                               *)
(* (chrome/extension/background.js) together with the popup windows it     *)
(* opens (app/ergo-connector).  Pages send requests over a port; the       *)
(* background answers some of them at once, runs most of them inside       *)
(* `withDb`, i.e. under the one database mutex, and for connecting and     *)
(* signing opens a window and waits for the user.                          *)
(*                                                                         *)
(* The background is single threaded: an action is the code between two    *)
(* awaits.  Every request has an identity r \in Req, used once.  The       *)
(* objects the code allocates for a request carry the same identity: the   *)
(* ConnectedSite a connect request creates is conn[r], the window a        *)
(* request opens is win[r].                                                *)
(***************************************************************************)
EXTENDS Naturals, Sequences

CONSTANTS
    Tab,      \* browser tabs
    Site,     \* urls a tab may load
    Wallet,   \* public derivers
    Req,      \* messages sent by pages, each sent at most once
    Menu,     \* connector settings windows the user may open
    Kind,     \* the kinds of requests pages send
    Env,      \* the disturbances enabled (see EnvKind)
    MaxLoad,  \* bound: page loads per tab
    NULL

ConnectKind == {"connect", "connect_auth", "connect_silent"}
DbSignKind  == {"tx", "tx_input", "data", "tx-reorg/cardano"}
SignKind    == DbSignKind \cup {"tx/cardano"}
AnyKind     == ConnectKind \cup SignKind \cup {"query"}
EnvKind     == {"navigate", "delete_wallet", "remove_site", "close_early", "reorg_fails"}

ASSUME ConstantsAssumption ==
    /\ Kind \subseteq AnyKind
    /\ Env \subseteq EnvKind
    /\ MaxLoad \in Nat
    /\ NULL \notin Tab \cup Site \cup Wallet \cup Req \cup Menu
    /\ Menu \cap Req = {}

VARIABLES
    page,           \* per tab: the url it shows, which load it is, RPCs sent by that load
    connectedSites, \* per tab: the ConnectedSite in the Map, or NULL
    conn,           \* the ConnectedSite objects
    opened,         \* the PendingSigns whose openedWindow flag is set
    whitelist,      \* per url: the stored WhitelistEntry
    wallets,        \* the wallets in the database
    rpc,            \* per request: its handler
    dbQueue,        \* dbAccessMutex: its holder, then the waiters
    win,            \* per window
    job             \* per window: its message handler that needs the database

vars == <<page, connectedSites, conn, opened, whitelist, wallets, rpc, dbQueue, win, job>>

-----------------------------------------------------------------------------
(* Types *)

Window  == Req \cup Menu
Task    == {"rpc"} \X Req \cup {"ui"} \X Window
NoEntry == [wallet |-> NULL, auth |-> FALSE]
Entry   == [wallet: Wallet, auth: BOOLEAN] \cup {NoEntry}

Page          == [site: Site, load: Nat, uid: Nat]
ConnectedSite == [status: {"none", "pending", "connected"},
                  wallet: Wallet \cup {NULL}, pend: SUBSET Req]
Rpc == [pc: {"new", "queued", "checked", "selected", "asked", "answered", "done"},
        kind: AnyKind \cup {NULL}, tab: Tab \cup {NULL}, site: Site \cup {NULL},
        load: Nat, uid: Nat,
        found: Entry,              \* what findWhitelistedConnection returned
        conn: Req \cup {NULL},     \* the ConnectedSite captured
        ok: BOOLEAN, wallet: Wallet \cup {NULL},
        signed: Req \cup {NULL}]   \* the request whose payload the answer is made from
Win == [st: {"none", "loading", "fetched", "open", "ready", "saved", "unguarded",
             "closing", "closed"},
        conn: Req \cup {NULL},     \* the connection request it shows
        sign: Req \cup {NULL},     \* the sign request it shows
        wallet: Wallet \cup {NULL}]
Job == [what: {"idle", "utxos", "sign"},
        shows: Req \cup {NULL},    \* the sign request its window shows
        conn: Req \cup {NULL}, req: Req \cup {NULL}]

NoConn == [status |-> "none", wallet |-> NULL, pend |-> {}]
NewRpc == [pc |-> "new", kind |-> NULL, tab |-> NULL, site |-> NULL, load |-> 0, uid |-> 0,
           found |-> NoEntry, conn |-> NULL, ok |-> FALSE, wallet |-> NULL, signed |-> NULL]
NoWin  == [st |-> "none", conn |-> NULL, sign |-> NULL, wallet |-> NULL]
NoJob  == [what |-> "idle", shows |-> NULL, conn |-> NULL, req |-> NULL]
Closed == [NoWin EXCEPT !.st = "closed"]

TypeOK ==
    /\ page \in [Tab -> Page]
    /\ connectedSites \in [Tab -> Req \cup {NULL}]
    /\ conn \in [Req -> ConnectedSite]
    /\ opened \in SUBSET Req
    /\ whitelist \in [Site -> Entry]
    /\ wallets \in SUBSET Wallet
    /\ rpc \in [Req -> Rpc]
    /\ dbQueue \in Seq(Task)
    /\ win \in [Window -> Win]
    /\ job \in [Window -> Job]

Init ==
    /\ page \in [Tab -> [site: Site, load: {0}, uid: {0}]]
    /\ connectedSites = [t \in Tab |-> NULL]
    /\ conn = [r \in Req |-> NoConn]
    /\ opened = {}
    /\ whitelist \in [Site -> {NoEntry} \cup [wallet: Wallet, auth: {FALSE}]]
    /\ wallets = Wallet
    /\ rpc = [r \in Req |-> NewRpc]
    /\ dbQueue = <<>>
    /\ win = [w \in Window |-> NoWin]
    /\ job = [w \in Window |-> NoJob]

-----------------------------------------------------------------------------
(* Helpers *)

AuthRequested(k) == k = "connect_auth"
EveryKind(k)     == TRUE                \* mutant of NeedsDb: signing for Cardano in withDb too
NeedsDb(k)       == k # "tx/cardano"
Holds(task)      == dbQueue # <<>> /\ Head(dbQueue) = task
Release(k)       == dbQueue' = IF NeedsDb(k) THEN Tail(dbQueue) ELSE dbQueue

\* Mutant of Whitelisted: a lookup that fails gives another value than callers test for.
WhitelistedOrNull(s, auth) ==
    IF whitelist[s] # NoEntry /\ (auth => whitelist[s].auth) THEN whitelist[s] ELSE NULL
\* findWhitelistedConnection: url and protocol match and, if identification was
\* asked for, the entry was made with it.
Whitelisted(s, auth) ==
    IF whitelist[s] # NoEntry /\ (auth => whitelist[s].auth) THEN whitelist[s] ELSE NoEntry

SiteOf(t)    == connectedSites[t]
Pending(t)   == SiteOf(t) # NULL /\ conn[SiteOf(t)].status = "pending"
Connected(t) == SiteOf(t) # NULL /\ conn[SiteOf(t)].status = "connected"
Missing(t)   == Connected(t) /\ conn[SiteOf(t)].wallet \notin wallets
Usable(t)    == Connected(t) /\ conn[SiteOf(t)].wallet \in wallets

\* withSelectedWallet: a connection to a wallet that is no longer in the database
\* is dropped, with every whitelist entry of that wallet (removeWallet).
DropMissing(t) ==
    IF Missing(t)
    THEN /\ connectedSites' = [connectedSites EXCEPT ![t] = NULL]
         /\ whitelist' = [s \in Site |-> IF whitelist[s].wallet = conn[SiteOf(t)].wallet
                                          THEN NoEntry ELSE whitelist[s]]
    ELSE UNCHANGED <<connectedSites, whitelist>>

\* The handlers of the port: answer request r and forget what its handler captured.
Respond(r, ok, wallet, signed) ==
    rpc' = [rpc EXCEPT ![r] = [@ EXCEPT !.pc = "done", !.found = NoEntry, !.conn = NULL,
                                        !.ok = ok, !.wallet = wallet, !.signed = signed]]

\* The resolve function of a PendingSign: only its first call counts.
Resolve(r, ok, signed) ==
    IF rpc[r].pc = "asked"
    THEN [rpc EXCEPT ![r] = [@ EXCEPT !.pc = "answered", !.ok = ok, !.signed = signed]]
    ELSE rpc

SameKey(q, r) == rpc[q].tab = rpc[r].tab /\ rpc[q].uid = rpc[r].uid
\* Mutant of PendingFor: the uid of the message is ignored.
PendingOfSite(q) ==
    IF q = NULL \/ SiteOf(rpc[q].tab) = NULL THEN {} ELSE conn[SiteOf(rpc[q].tab)].pend
\* pendingSigns.get(uid) for the (tab, uid) of the request q a window shows.
PendingFor(q) ==
    IF q = NULL \/ SiteOf(rpc[q].tab) = NULL THEN {}
    ELSE {r \in conn[SiteOf(rpc[q].tab)].pend : SameKey(q, r)}
\* Mutant of DeletePend: pendingSigns.clear()
ClearPend(c, q) == [conn EXCEPT ![c].pend = {}]
\* pendingSigns.delete(uid)
DeletePend(c, q) == [conn EXCEPT ![c].pend = {r \in @ : rpc[r].uid # rpc[q].uid}]

-----------------------------------------------------------------------------
(* Requests *)

\* A page sends a message (inject.js); the port listener runs up to its first await.
\* Only RPCs carry a uid, which counts from 0 in every page load.
Receive(r, t, k) ==
    /\ rpc[r].pc = "new"
    /\ page' = [page EXCEPT ![t].uid = IF k \in ConnectKind THEN @ ELSE @ + 1]
    /\ LET arrived == [NewRpc EXCEPT !.pc = "queued", !.kind = k, !.tab = t,
                           !.site = page[t].site, !.load = page[t].load,
                           !.uid = IF k \in ConnectKind THEN 0 ELSE page[t].uid]
       IN IF NeedsDb(k)
          THEN /\ rpc' = [rpc EXCEPT ![r] = arrived]
               /\ dbQueue' = Append(dbQueue, <<"rpc", r>>)
          ELSE /\ rpc' = [rpc EXCEPT ![r] =
                             IF SiteOf(t) = NULL THEN [arrived EXCEPT !.pc = "done"]
                             ELSE [arrived EXCEPT !.pc = "selected", !.conn = SiteOf(t)]]
               /\ UNCHANGED dbQueue
    /\ UNCHANGED <<connectedSites, conn, opened, whitelist, wallets, win, job>>

\* Mutant of ReadWhitelist: connect requests are not run in withDb.
ReadWhitelistUnlocked(r) ==
    /\ rpc[r].pc = "queued" /\ rpc[r].kind \in ConnectKind
    /\ rpc' = [rpc EXCEPT ![r].pc = "checked",
                          ![r].found = Whitelisted(rpc[r].site, AuthRequested(rpc[r].kind))]
    /\ UNCHANGED <<page, connectedSites, conn, opened, whitelist, wallets, dbQueue, win, job>>

\* findWhitelistedConnection, awaited by confirmConnect.
ReadWhitelist(r) ==
    /\ Holds(<<"rpc", r>>)
    /\ rpc[r].pc = "queued" /\ rpc[r].kind \in ConnectKind
    /\ rpc' = [rpc EXCEPT ![r].pc = "checked",
                          ![r].found = Whitelisted(rpc[r].site, AuthRequested(rpc[r].kind))]
    /\ UNCHANGED <<page, connectedSites, conn, opened, whitelist, wallets, dbQueue, win, job>>

\* The three branches of confirmConnect after the whitelist was read.
ConnectWhitelisted(r) ==
    LET t == rpc[r].tab
        x == rpc[r].found.wallet
    IN  /\ rpc[r].pc = "checked" /\ rpc[r].found # NoEntry
        /\ IF SiteOf(t) = NULL
           THEN /\ connectedSites' = [connectedSites EXCEPT ![t] = r]
                /\ conn' = [conn EXCEPT ![r] = [status |-> "connected", wallet |-> x,
                                                pend |-> {}]]
           ELSE UNCHANGED <<connectedSites, conn>>
        /\ Respond(r, TRUE, x, NULL)
        /\ Release(rpc[r].kind)
        /\ UNCHANGED <<page, opened, whitelist, wallets, win, job>>

ConnectSilentFails(r) ==
    /\ rpc[r].pc = "checked" /\ rpc[r].found = NoEntry
    /\ rpc[r].kind = "connect_silent"
    /\ Respond(r, FALSE, NULL, NULL)
    /\ Release(rpc[r].kind)
    /\ UNCHANGED <<page, connectedSites, conn, opened, whitelist, wallets, win, job>>

\* Mutant of ConnectAsks: the ConnectedSite a tab has already is kept, as above.
ConnectAsksKeeping(r) ==
    /\ rpc[r].pc = "checked" /\ rpc[r].found = NoEntry
    /\ rpc[r].kind # "connect_silent"
    /\ connectedSites' = [connectedSites EXCEPT ![rpc[r].tab] = IF @ = NULL THEN r ELSE @]
    /\ conn' = [conn EXCEPT ![r] = [status |-> "pending", wallet |-> NULL, pend |-> {}]]
    /\ rpc' = [rpc EXCEPT ![r].pc = "asked"]
    /\ win' = [win EXCEPT ![r].st = "loading"]
    /\ UNCHANGED <<page, opened, whitelist, wallets, dbQueue, job>>

ConnectAsks(r) ==
    /\ rpc[r].pc = "checked" /\ rpc[r].found = NoEntry
    /\ rpc[r].kind # "connect_silent"
    /\ connectedSites' = [connectedSites EXCEPT ![rpc[r].tab] = r]
    /\ conn' = [conn EXCEPT ![r] = [status |-> "pending", wallet |-> NULL, pend |-> {}]]
    /\ rpc' = [rpc EXCEPT ![r].pc = "asked"]
    /\ win' = [win EXCEPT ![r].st = "loading"]
    /\ UNCHANGED <<page, opened, whitelist, wallets, dbQueue, job>>

\* withSelectedWallet, at the head of every other handler that runs in withDb.
SelectWallet(r) ==
    LET t == rpc[r].tab
    IN  /\ Holds(<<"rpc", r>>)
        /\ rpc[r].pc = "queued" /\ rpc[r].kind \notin ConnectKind
        /\ DropMissing(t)
        /\ IF Usable(t)
           THEN /\ rpc' = [rpc EXCEPT ![r].pc = "selected", ![r].conn = SiteOf(t),
                                      ![r].wallet = conn[SiteOf(t)].wallet]
                /\ UNCHANGED dbQueue
           ELSE /\ Respond(r, FALSE, NULL, NULL)
                /\ Release(rpc[r].kind)
        /\ UNCHANGED <<page, conn, opened, wallets, win, job>>

\* The handlers that need no user: every query, and a signing request that is
\* refused for its parameters or (collateral) can be served from the UTXOs at hand.
RespondAtOnce(r) ==
    /\ rpc[r].pc = "selected"
    /\ \E ok \in IF rpc[r].kind \in {"query", "tx-reorg/cardano"} THEN BOOLEAN ELSE {FALSE} :
          Respond(r, ok, rpc[r].wallet, NULL)
    /\ Release(rpc[r].kind)
    /\ UNCHANGED <<page, connectedSites, conn, opened, whitelist, wallets, win, job>>

\* confirmSign.  sign_data and get_collateral_utxos read connectedSites again,
\* the others use the ConnectedSite they captured.  Map.set replaces the
\* PendingSign that has the same uid.
Ask(r) ==
    LET c == IF rpc[r].kind \in {"data", "tx-reorg/cardano"} THEN SiteOf(rpc[r].tab)
             ELSE rpc[r].conn
    IN  /\ rpc[r].pc = "selected" /\ rpc[r].kind \in SignKind
        /\ IF c = NULL
           THEN /\ Respond(r, FALSE, NULL, NULL)
                /\ Release(rpc[r].kind)
                /\ UNCHANGED <<conn, win>>
           ELSE /\ rpc' = [rpc EXCEPT ![r].pc = "asked", ![r].conn = c]
                /\ conn' = [conn EXCEPT ![c].pend = {q \in @ : rpc[q].uid # rpc[r].uid} \cup {r}]
                /\ win' = [win EXCEPT ![r].st = "loading"]
                /\ UNCHANGED dbQueue
        /\ UNCHANGED <<page, connectedSites, opened, whitelist, wallets, job>>

\* Mutant of Finish: the error path leaves withDb without releasing the mutex.
FinishLeaks(r) ==
    /\ rpc[r].pc = "answered"
    /\ Respond(r, rpc[r].ok, rpc[r].wallet, rpc[r].signed)
    /\ IF rpc[r].ok THEN Release(rpc[r].kind) ELSE UNCHANGED dbQueue
    /\ UNCHANGED <<page, connectedSites, conn, opened, whitelist, wallets, win, job>>

\* The rest of the handler once its promise is resolved; signing data may still fail.
Finish(r) ==
    /\ rpc[r].pc = "answered"
    /\ \E ok \in {rpc[r].ok} \cup (IF rpc[r].kind = "data" THEN {FALSE} ELSE {}) :
          Respond(r, ok, rpc[r].wallet, IF ok THEN rpc[r].signed ELSE NULL)
    /\ Release(rpc[r].kind)
    /\ UNCHANGED <<page, connectedSites, conn, opened, whitelist, wallets, win, job>>

-----------------------------------------------------------------------------
(* Windows and their messages *)

IsConnectWin(w) == w \in Req /\ rpc[w].kind \in ConnectKind
IsSignWin(w)    == w \in Req /\ rpc[w].kind \in SignKind

\* open_browseraction_menu.  One window per m at a time (a bound).
OpenMenu(m) ==
    /\ win[m].st \in {"none", "closed"} /\ job[m] = NoJob
    /\ win' = [win EXCEPT ![m] = [NoWin EXCEPT !.st = "loading"]]
    /\ UNCHANGED <<page, connectedSites, conn, opened, whitelist, wallets, rpc, dbQueue, job>>

\* Every window sends connect_retrieve_data, then tx_sign_window_retrieve_data,
\* when its store is set up, whatever page it shows.
FetchConnect(w) ==
    /\ win[w].st = "loading"
    /\ \/ /\ \A t \in Tab : ~Pending(t)
          /\ win' = [win EXCEPT ![w].st = "fetched"]
       \/ \E t \in Tab :
          /\ Pending(t)
          /\ win' = [win EXCEPT ![w].st = "fetched", ![w].conn = SiteOf(t)]
    /\ UNCHANGED <<page, connectedSites, conn, opened, whitelist, wallets, rpc, dbQueue, job>>

\* Mutant of Unopened: openedWindow is not looked at.
AllPending == {q \in Req : \E t \in Tab : SiteOf(t) # NULL /\ q \in conn[SiteOf(t)].pend}
\* The PendingSigns no window has fetched yet.
Unopened == {q \in Req \ opened : \E t \in Tab : SiteOf(t) # NULL /\ q \in conn[SiteOf(t)].pend}

FetchNoSign(w) ==
    /\ win[w].st = "fetched" /\ Unopened = {}
    /\ win' = [win EXCEPT ![w].st = "open"]
    /\ UNCHANGED <<page, connectedSites, conn, opened, whitelist, wallets, rpc, dbQueue, job>>

\* The handler marks the first unopened PendingSign; it then throws when no wallet
\* was chosen for the site.  For a Cardano transaction the window goes on to ask for
\* the wallet's UTXOs (createAdaTransaction), a handler that needs the database.
FetchSign(w) ==
    /\ win[w].st = "fetched"
    /\ \E q \in Unopened :
       /\ opened' = opened \cup {q}
       /\ IF ~Connected(rpc[q].tab)
          THEN /\ win' = [win EXCEPT ![w].st = "open"]
               /\ UNCHANGED <<job, dbQueue>>
          ELSE IF rpc[q].kind = "tx/cardano"
          THEN /\ win' = [win EXCEPT ![w].st = "open", ![w].sign = q]
               /\ job' = [job EXCEPT ![w] = [NoJob EXCEPT !.what = "utxos", !.shows = q]]
               /\ dbQueue' = Append(dbQueue, <<"ui", w>>)
          ELSE /\ win' = [win EXCEPT ![w].st = IF IsSignWin(w) THEN "ready" ELSE "open",
                                     ![w].sign = q]
               /\ UNCHANGED <<job, dbQueue>>
    /\ UNCHANGED <<page, connectedSites, conn, whitelist, wallets, rpc>>

\* get_utxos/addresses
UtxosJob(w) ==
    LET t == rpc[job[w].shows].tab
    IN  /\ Holds(<<"ui", w>>) /\ job[w].what = "utxos"
        /\ DropMissing(t)
        /\ win' = IF Usable(t) /\ IsSignWin(w) /\ win[w].st = "open"
                  THEN [win EXCEPT ![w].st = "ready"] ELSE win
        /\ job' = [job EXCEPT ![w] = NoJob]
        /\ dbQueue' = Tail(dbQueue)
        /\ UNCHANGED <<page, conn, opened, wallets, rpc>>

\* Mutant of ConnectResponse: a refused ConnectedSite stays in the Map.
ConnectResponseKeeps(c, accepted, x) ==
    IF c = NULL \/ ~Pending(rpc[c].tab) THEN UNCHANGED <<connectedSites, conn, rpc>>
    ELSE LET d == SiteOf(rpc[c].tab)
         IN /\ conn' = [conn EXCEPT ![d].status = IF accepted THEN "connected" ELSE @,
                                    ![d].wallet = x]
            /\ rpc' = [rpc EXCEPT ![d].pc = "answered", ![d].ok = accepted, ![d].wallet = x]
            /\ UNCHANGED connectedSites

\* connect_response for the tab of connection request c.
ConnectResponse(c, accepted, x) ==
    IF c = NULL THEN UNCHANGED <<connectedSites, conn, rpc>>
    ELSE LET t == rpc[c].tab
             d == SiteOf(t)
         IN IF ~Pending(t) THEN UNCHANGED <<connectedSites, conn, rpc>>
            ELSE IF accepted
            THEN /\ conn' = [conn EXCEPT ![d].status = "connected", ![d].wallet = x]
                 /\ rpc' = [rpc EXCEPT ![d].pc = "answered", ![d].ok = TRUE, ![d].wallet = x]
                 /\ UNCHANGED connectedSites
            ELSE /\ connectedSites' = [connectedSites EXCEPT ![t] = NULL]
                 /\ rpc' = [rpc EXCEPT ![d].pc = "answered", ![d].ok = FALSE]
                 /\ UNCHANGED conn

\* ConnectContainer.onConnect: store the whitelist, then send connect_response.
SaveWhitelist(w, x) ==
    LET c == win[w].conn
    IN  /\ IsConnectWin(w) /\ win[w].st = "open" /\ c # NULL
        /\ whitelist' = [whitelist EXCEPT ![rpc[c].site] =
                            [wallet |-> x, auth |-> AuthRequested(rpc[c].kind)]]
        /\ win' = [win EXCEPT ![w].st = "saved", ![w].wallet = x]
        /\ UNCHANGED <<page, connectedSites, conn, opened, wallets, rpc, dbQueue, job>>

AcceptConnect(w) ==
    /\ IsConnectWin(w) /\ win[w].st = "saved"
    /\ ConnectResponse(win[w].conn, TRUE, win[w].wallet)
    /\ win' = [win EXCEPT ![w].st = "closing"]
    /\ UNCHANGED <<page, opened, whitelist, wallets, dbQueue, job>>

CancelConnect(w) ==
    /\ IsConnectWin(w) /\ win[w].st = "open" /\ win[w].conn # NULL
    /\ ConnectResponse(win[w].conn, FALSE, NULL)
    /\ win' = [win EXCEPT ![w].st = "closing"]
    /\ UNCHANGED <<page, opened, whitelist, wallets, dbQueue, job>>

\* sign_rejected and sign_error, for the request q a window shows.
SignRejected(q) ==
    IF PendingFor(q) = {} THEN UNCHANGED <<conn, rpc>>
    ELSE /\ \E r \in PendingFor(q) : rpc' = Resolve(r, FALSE, NULL)
         /\ conn' = DeletePend(SiteOf(rpc[q].tab), q)

\* The cancel button, and the sign_error a window sends when it cannot build the
\* transaction: a message, then window.close(), whose unload listener sends another.
RejectSign(w) ==
    /\ IsSignWin(w) /\ win[w].st \in {"ready", "unguarded"}
    /\ rpc[win[w].sign].kind # "tx_input"   \* SignTxContainer renders nothing for it
    /\ SignRejected(win[w].sign)
    /\ win' = [win EXCEPT ![w] = IF @.st = "ready" THEN [@ EXCEPT !.st = "closing"] ELSE Closed]
    /\ UNCHANGED <<page, connectedSites, opened, whitelist, wallets, dbQueue, job>>

\* The unload listener of a window: the user closed it, or window.close() did.
Unload(w) ==
    /\ win[w].st \in {"open", "ready", "saved", "closing", "unguarded"}
    /\ win' = [win EXCEPT ![w] = Closed]
    /\ \/ /\ IsConnectWin(w)
          /\ ConnectResponse(win[w].conn, FALSE, NULL)
       \/ /\ IsSignWin(w) /\ win[w].st # "unguarded"
          /\ SignRejected(win[w].sign)
          /\ UNCHANGED connectedSites
       \/ /\ w \in Menu \/ win[w].st = "unguarded"
          /\ UNCHANGED <<connectedSites, conn, rpc>>
    /\ UNCHANGED <<page, opened, whitelist, wallets, dbQueue, job>>

\* Closed before its container was mounted with its message: nothing is sent.
CloseEarly(w) ==
    /\ "close_early" \in Env
    /\ win[w].st \in {"loading", "fetched"}
    /\ win' = [win EXCEPT ![w] = Closed]
    /\ UNCHANGED <<page, connectedSites, conn, opened, whitelist, wallets, rpc, dbQueue, job>>

\* The collateral window removes its unload listener, then signs and sends the
\* transaction itself: that may fail, or still be running when the user goes on.
ReorgFails(w) ==
    /\ "reorg_fails" \in Env
    /\ IsSignWin(w) /\ win[w].st = "ready"
    /\ rpc[win[w].sign].kind = "tx-reorg/cardano"
    /\ win' = [win EXCEPT ![w].st = "unguarded"]
    /\ UNCHANGED <<page, connectedSites, conn, opened, whitelist, wallets, rpc, dbQueue, job>>

\* sign_confirmed, up to its first await.
ConfirmSign(w) ==
    LET q == win[w].sign
        c == SiteOf(rpc[q].tab)
    IN  /\ IsSignWin(w) /\ win[w].st \in {"ready", "unguarded"}
        /\ rpc[q].kind # "tx_input"
        /\ win' = [win EXCEPT ![w] = Closed]
        /\ \/ /\ PendingFor(q) = {}     \* throws
              /\ UNCHANGED <<conn, rpc, dbQueue, job>>
           \/ \E r \in PendingFor(q) :
              IF rpc[r].kind \in {"data", "tx-reorg/cardano"}
              THEN /\ rpc' = Resolve(r, TRUE, q)
                   /\ conn' = DeletePend(c, q)
                   /\ UNCHANGED <<dbQueue, job>>
              ELSE /\ job' = [job EXCEPT ![w] = [what |-> "sign", shows |-> q, conn |-> c, req |-> r]]
                   /\ dbQueue' = Append(dbQueue, <<"ui", w>>)
                   /\ UNCHANGED <<conn, rpc>>
        /\ UNCHANGED <<page, connectedSites, opened, whitelist, wallets>>

\* signTxInputs and signCardanoTx, then the rest of sign_confirmed.
SignJob(w) ==
    LET q == job[w].shows
        r == job[w].req
        t == rpc[q].tab
    IN  /\ Holds(<<"ui", w>>) /\ job[w].what = "sign"
        /\ DropMissing(t)
        /\ \E ok \in IF Usable(t) /\ rpc[q].kind = rpc[r].kind THEN BOOLEAN ELSE {FALSE} :
              rpc' = Resolve(r, ok, IF ok THEN q ELSE NULL)
        /\ conn' = DeletePend(job[w].conn, q)
        /\ job' = [job EXCEPT ![w] = NoJob]
        /\ dbQueue' = Tail(dbQueue)
        /\ UNCHANGED <<page, opened, wallets, win>>

-----------------------------------------------------------------------------
(* The surroundings *)

\* A tab loads a page: inject.js starts again, the background keeps what it has.
Navigate(t, s) ==
    /\ "navigate" \in Env /\ page[t].load < MaxLoad
    /\ page' = [page EXCEPT ![t] = [site |-> s, load |-> @.load + 1, uid |-> 0]]
    /\ UNCHANGED <<connectedSites, conn, opened, whitelist, wallets, rpc, dbQueue, win, job>>

\* The main application deletes a wallet.
DeleteWallet(x) ==
    /\ "delete_wallet" \in Env
    /\ wallets' = wallets \ {x}
    /\ UNCHANGED <<page, connectedSites, conn, opened, whitelist, rpc, dbQueue, win, job>>

\* The user removes a site in the settings (_removeWalletFromWhitelist); the
\* background's remove_wallet_from_whitelist only closes a port.
RemoveSite(s) ==
    /\ "remove_site" \in Env
    /\ whitelist' = [whitelist EXCEPT ![s] = NoEntry]
    /\ UNCHANGED <<page, connectedSites, conn, opened, wallets, rpc, dbQueue, win, job>>

-----------------------------------------------------------------------------

\* The handlers of one request, of one window.
Handler(r) ==
    \/ ReadWhitelist(r) \/ ConnectWhitelisted(r) \/ ConnectSilentFails(r) \/ ConnectAsks(r)
    \/ SelectWallet(r) \/ RespondAtOnce(r) \/ Ask(r) \/ Finish(r)
Load(w)  == FetchConnect(w) \/ FetchNoSign(w) \/ FetchSign(w)
UiJob(w) == UtxosJob(w) \/ SignJob(w)
User(w)  ==
    \/ \E x \in wallets : SaveWhitelist(w, x)
    \/ AcceptConnect(w) \/ CancelConnect(w)
    \/ ConfirmSign(w) \/ RejectSign(w) \/ Unload(w)

Next ==
    \/ \E r \in Req, t \in Tab, k \in Kind : Receive(r, t, k)
    \/ \E r \in Req : Handler(r)
    \/ \E w \in Window : Load(w) \/ UiJob(w) \/ User(w) \/ CloseEarly(w) \/ ReorgFails(w)
    \/ \E m \in Menu : OpenMenu(m)
    \/ \E t \in Tab, s \in Site : Navigate(t, s)
    \/ \E x \in Wallet : DeleteWallet(x)
    \/ \E s \in Site : RemoveSite(s)

Spec == Init /\ [][Next]_vars

\* Handlers the event loop can run are run, windows load, and a user who sees a
\* window answers or closes it.
Fairness ==
    /\ \A r \in Req : WF_vars(Handler(r))
    /\ \A w \in Window : WF_vars(Load(w)) /\ WF_vars(UiJob(w)) /\ WF_vars(User(w))

FairSpec == Spec /\ Fairness

-----------------------------------------------------------------------------
(* Properties *)

\* Whatever runs past the start of withDb holds the mutex: no two handlers have
\* different copies of the database (comment of dbAccessMutex), although connecting
\* and most signing wait for the user in between.
DbExclusive ==
    \A r \in Req :
       rpc[r].pc \in {"checked", "selected", "asked", "answered"} /\ NeedsDb(rpc[r].kind)
          => Holds(<<"rpc", r>>)

\* The user is asked about one connection at a time, and the ConnectedSite that waits
\* for the answer is the one of the request that holds the database: it cannot be
\* overwritten, dropped or answered for another tab.
ConnectPromptKept ==
    /\ \A t \in Tab : Pending(t) => /\ Holds(<<"rpc", SiteOf(t)>>)
                                    /\ rpc[SiteOf(t)].pc = "asked"
                                    /\ rpc[SiteOf(t)].tab = t
    /\ \A r \in Req : rpc[r].pc = "asked" /\ rpc[r].kind \in ConnectKind
                         => Pending(rpc[r].tab) /\ SiteOf(rpc[r].tab) = r

\* A signing request that holds the database stays findable by the answer of its
\* window: its ConnectedSite is not replaced and its PendingSign not overwritten,
\* unless a later load of the page reused its uid.
DbSignPromptKept ==
    \A r \in Req : rpc[r].pc = "asked" /\ rpc[r].kind \in DbSignKind =>
       \/ /\ SiteOf(rpc[r].tab) = rpc[r].conn
          /\ r \in conn[rpc[r].conn].pend
       \/ \E q \in Req : SameKey(q, r) /\ rpc[q].load # rpc[r].load

\* A request is answered with what the user confirmed in a window that shows a
\* request of the same tab and uid: this very request, if the page was not reloaded
\* in between.
SignedAsShown ==
    \A r \in Req : rpc[r].signed # NULL =>
       LET q == rpc[r].signed IN SameKey(q, r) /\ (rpc[q].load = rpc[r].load => q = r)

\* What a window needs to show a request, or to sign it once it is confirmed
\* (get_utxos/addresses, signTxInputs, signCardanoTx), does not wait for the mutex
\* while that request holds it.
NoSelfWait ==
    \A w \in Window : job[w].what # "idle" =>
       ~Holds(<<"rpc", IF job[w].what = "sign" THEN job[w].req ELSE job[w].shows>>)

\* A page that is told it is connected is connected, and one whose user refused is not.
ConnectAnswerTrue ==
    [][\A r \in Req : rpc[r].pc # "done" /\ rpc'[r].pc = "done"
                         /\ rpc'[r].kind \in ConnectKind =>
          LET d == connectedSites'[rpc[r].tab]
          IN  /\ rpc'[r].ok => d # NULL /\ conn'[d].status = "connected"
              /\ rpc[r].pc = "answered" /\ ~rpc'[r].ok => d = NULL]_vars

\* The wallet reported to the page is the one its later calls are served from
\* (ConnectedStatus: "which public deriver the user selected").
WalletAsSelected ==
    [][\A r \in Req : rpc[r].pc # "done" /\ rpc'[r].pc = "done"
                         /\ rpc'[r].kind \in ConnectKind /\ rpc'[r].ok =>
          conn'[connectedSites'[rpc[r].tab]].wallet = rpc'[r].wallet]_vars

\* A request that waits for the user can still be answered by a message of a window.
Showing(w, r) == IsSignWin(w) /\ win[w].sign # NULL /\ SameKey(win[w].sign, r)
SignAnswerable(r) ==
    \/ /\ SiteOf(rpc[r].tab) # NULL /\ r \in conn[SiteOf(rpc[r].tab)].pend
       /\ \/ \E w \in Window : Showing(w, r)
          \/ r \notin opened /\ \E w \in Window :
                                IsSignWin(w) /\ win[w].st \in {"loading", "fetched"}
    \/ \E w \in Window : job[w].what = "sign" /\ job[w].req = r
ConnectAnswerable(r) ==
    \E w \in Window : /\ IsConnectWin(w)
                      /\ \/ win[w].st = "loading"
                         \/ win[w].conn # NULL /\ rpc[win[w].conn].tab = rpc[r].tab
Stranded(r) ==
    /\ rpc[r].pc = "asked"
    /\ IF rpc[r].kind \in SignKind THEN ~SignAnswerable(r) ELSE ~ConnectAnswerable(r)

\* Without disturbances no request is left without a window to answer it, although
\* each window takes whichever request is unopened when it asks
\* (tx_sign_window_retrieve_data).  Connect prompts take them too and cannot show them:
\* this is stated for kinds that open sign windows only.
NothingStranded == \A r \in Req : ~Stranded(r)

\* Every request is answered, if users answer or close the windows they are shown,
\* unless some request was left without a window.
Answered ==
    \A r \in Req : rpc[r].pc # "new" ~> (rpc[r].pc = "done" \/ \E q \in Req : Stranded(q))
==============================================================================
