--------------------------- MODULE TransactionsStore ---------------------------
(***************************************************************************)
(* The transactions of one Cardano wallet in the main window:              *)
(* TransactionsStore.js with the calls WalletStore.js and                  *)
(* WalletSettingsStore.js make of it.                                      *)
(*                                                                         *)
(* Refreshes.  refreshTransactionData keeps the promise of the refresh     *)
(* under way in ongoingRefreshing, so that other callers wait for it; the  *)
(* resync of the settings page puts the promise of its removal there.      *)
(*                                                                         *)
(* Submitted transactions.  They are listed in memory and in localStorage  *)
(* until the history has them; the connector's background page adds its    *)
(* own to localStorage and tells the window to load them.                  *)
(*                                                                         *)
(* open       the window is open                                           *)
(* ongoing    whose promise ongoingRefreshing holds: of an actor's refresh,*)
(*            of the resync's removal (Removal), or NoPromise              *)
(* pc, waits  per actor: its step, and whose promise it waits for          *)
(* displaced  history variable: an entry was deleted while its refresh ran *)
(* list, stored   _submittedTransactions, and the copy in localStorage     *)
(* loads      what was read from localStorage and waits for token infos    *)
(* recording  sent from the window, about to be recorded                   *)
(* connector  the submission the background page is at                     *)
(* sent, remote   transactions sent; those the wallet's history has        *)
(***************************************************************************)
EXTENDS Naturals, FiniteSets, Sequences, SequencesExt

CONSTANTS Callers,        \* timers and the user, calling refreshWalletFromRemote
          Resync, Removal, NoPromise,
          MainTxs,        \* transactions sent from this window
          ConnectorTxs    \* transactions sent by the connector

ASSUME StoreAssumption ==
    /\ Resync \notin Callers \cup {Removal, NoPromise}
    /\ Removal \notin Callers \cup {NoPromise} /\ NoPromise \notin Callers
    /\ MainTxs \cap ConnectorTxs = {} /\ {"none", "notify"} \cap ConnectorTxs = {}

VARIABLES open, ongoing, pc, waits, displaced,
          list, stored, loads, recording, connector, sent, remote

refreshVars == <<ongoing, pc, waits, displaced>>
windowVars == <<list, loads, recording>>
outside == <<connector, sent, remote>>
vars == <<open, refreshVars, windowVars, stored, outside>>

Actors == Callers \cup {Resync}
Txs == MainTxs \cup ConnectorTxs
Entry == [tx : Txs, used : BOOLEAN]     \* used: it has its usedUtxos
Steps == {"idle", "begun", "waiting", "refreshing", "after", "queued",
          "removing", "failed", "settling"}
NoSubmission == [step |-> "none", data |-> <<>>]

\* One type invariant; an actor waits exactly when it has a promise to wait
\* for, and only the resync is ever at one of the resync's own steps.
TypeOK ==
    /\ open \in BOOLEAN
    /\ ongoing \in Actors \cup {Removal, NoPromise}
    /\ pc \in [Actors -> Steps]
    /\ \A c \in Callers : pc[c] \notin Steps \ {"idle", "waiting", "refreshing"}
    /\ \A a \in Actors : pc[a] \in {"waiting", "queued"} <=> waits[a] # NoPromise
    /\ displaced \in BOOLEAN
    /\ list \in Seq(Entry) /\ stored \in Seq(Entry) /\ connector.data \in Seq(Entry)
    /\ \A i \in DOMAIN loads : loads[i] \in Seq(Entry)
    /\ connector.step \in {"none"} \cup ConnectorTxs \cup {"notify"}
    /\ recording \subseteq MainTxs \cap sent
    /\ remote \subseteq sent /\ sent \subseteq Txs

Each(value) == [a \in Actors |-> value]

Init ==
    /\ open = FALSE
    /\ ongoing = NoPromise
    /\ pc = Each("idle") /\ waits = Each(NoPromise)
    /\ displaced = FALSE
    /\ list = <<>> /\ loads = <<>> /\ recording = {}
    /\ stored = <<>>
    /\ connector = NoSubmission
    /\ sent = {} /\ remote = {}
-----------------------------------------------------------------------------
(* ongoingRefreshing *)

Refreshing(a) == pc[a] = "refreshing"
\* The promise is not settled yet.
Running(promise) ==
    \/ promise \in Actors /\ Refreshing(promise)
    \/ promise = Removal /\ pc[Resync] \notin {"idle", "failed", "queued", "settling"}

\* ongoingRefreshing.delete: whoever's entry it is.
DeleteEntry(own) ==
    /\ ongoing' = NoPromise
    /\ displaced' = (displaced \/ (ongoing \in Actors \ {own} /\ Running(ongoing)))

\* Changed: everybody goes on with what comes after a refresh.
SettledAlike(promise) ==
    LET resumed == {a \in Actors : waits[a] = promise}
        next(a) == IF pc[a] = "queued" THEN "removing" ELSE "after"
    IN  /\ waits' = [a \in Actors |-> IF a \in resumed THEN NoPromise ELSE waits[a]]
        /\ pc' = [a \in Actors |->
                    IF a \in resumed \cup ({promise} \cap Actors) THEN next(a) ELSE pc[a]]

\* Those who wait for a promise go on when it settles, well or not: the
\* resync with its removal, if that is what it was about to do, or with what
\* comes after its own refresh; a caller is done.
Settled(promise) ==
    LET resumed == {a \in Actors : waits[a] = promise}
        next(a) == CASE pc[a] = "queued" -> "removing"
                     [] pc[a] # "queued" /\ a = Resync -> "after"
                     [] OTHER -> "idle"
    IN  /\ waits' = [a \in Actors |-> IF a \in resumed THEN NoPromise ELSE waits[a]]
        /\ pc' = [a \in Actors |->
                    IF a \in resumed \cup ({promise} \cap Actors) THEN next(a) ELSE pc[a]]

\* A resync that waited takes the entry when it goes on.
TakenOver(promise) == pc[Resync] = "queued" /\ waits[Resync] = promise

\* refreshWalletFromRemote is called, by a timer or the user at any time, by
\* the resync once; what it reads of addresses and local storage before and
\* after is left out.
Calls(a) == open /\ pc[a] = (IF a = Resync THEN "begun" ELSE "idle")

\* refreshTransactionData, the wallet has an entry: wait for its promise.
\* (One that has failed already gives its error at once, and nothing changes.)
JoinRefresh(a) ==
    /\ Calls(a) /\ Running(ongoing)
    /\ pc' = [pc EXCEPT ![a] = "waiting"]
    /\ waits' = [waits EXCEPT ![a] = ongoing]
    /\ UNCHANGED <<open, ongoing, displaced, windowVars, stored, outside>>

\* refreshTransactionData, no entry: start a refresh.
StartRefresh(a) ==
    /\ Calls(a) /\ ongoing = NoPromise
    /\ pc' = [pc EXCEPT ![a] = "refreshing"]
    /\ ongoing' = a
    /\ UNCHANGED <<open, waits, displaced, windowVars, stored, outside>>

\* Changed: finds a transaction by the outputs it spent.
NotInByUsed(txs) == SelectSeq(list, LAMBDA e : ~ e.used \/ e.tx \notin txs)

\* What stays of the submitted transactions when the history has those: the
\* loop that splices them out (kept[i]: what stays of the first i).
NotIn(txs) ==
    LET kept[i \in 0..Len(list)] ==
            IF i = 0 THEN <<>>
            ELSE IF list[i].tx \in txs THEN kept[i - 1] ELSE Append(kept[i - 1], list[i])
    IN  kept[Len(list)]

TakeOut(txs) ==
    /\ list' = NotIn(txs)
    /\ stored' = IF NotIn(txs) # list THEN NotIn(txs) ELSE stored

\* The refresh of actor a settles: with the history the wallet has now (one it
\* had shortly before is the same as an earlier end), or with an error;
\* refreshTransactionData deletes the entry.
EndRefresh(a, ok) ==
    /\ Refreshing(a)
    /\ Settled(a)
    /\ displaced' = (displaced \/ (ongoing \in Actors \ {a} /\ Running(ongoing)))
    /\ ongoing' = IF TakenOver(a) THEN Removal ELSE NoPromise
    /\ IF ok THEN TakeOut(remote) ELSE UNCHANGED <<list, stored>>
    /\ UNCHANGED <<open, loads, recording, outside>>
-----------------------------------------------------------------------------
(* The resync of the settings page: _resyncHistory, clearHistory *)

\* Changed: the removal starts at once.
StartResyncAtOnce ==
    /\ open /\ pc[Resync] = "idle"
    /\ pc' = [pc EXCEPT ![Resync] = "removing"]
    /\ ongoing' = Removal
    /\ UNCHANGED <<open, waits, displaced, windowVars, stored, outside>>

\* clearHistory waits for a refresh under way, then starts the removal.
StartResync ==
    /\ open /\ pc[Resync] = "idle"
    /\ IF ongoing # NoPromise
       THEN /\ pc' = [pc EXCEPT ![Resync] = "queued"]
            /\ waits' = [waits EXCEPT ![Resync] = ongoing]
            /\ UNCHANGED ongoing
       ELSE /\ pc' = [pc EXCEPT ![Resync] = "removing"]
            /\ ongoing' = Removal
            /\ UNCHANGED waits
    /\ UNCHANGED <<open, displaced, windowVars, stored, outside>>

\* Changed: refreshWallet leaves the entry alone.
RemoveDoneKeepsEntry ==
    /\ pc[Resync] = "removing"
    /\ pc' = [pc EXCEPT ![Resync] = "begun"]
    /\ UNCHANGED <<open, ongoing, displaced, waits, windowVars, stored, outside>>

\* removeAllTransactions has removed the history and calls refreshWallet.
RemoveDone ==
    /\ pc[Resync] = "removing"
    /\ pc' = [pc EXCEPT ![Resync] = "begun"]
    /\ DeleteEntry(Removal)
    /\ UNCHANGED <<open, waits, windowVars, stored, outside>>

\* removeAllTransactions throws or, a failed refresh being swallowed, is
\* done: callers that wait for the removal go on.
RemovalSettles(ok) ==
    /\ pc[Resync] = IF ok THEN "after" ELSE "removing"
    /\ LET resumed == {c \in Callers : waits[c] = Removal}
       IN  /\ waits' = [a \in Actors |-> IF a \in resumed THEN NoPromise ELSE waits[a]]
           /\ pc' = [a \in Actors |->
                        CASE a = Resync -> IF ok THEN "settling" ELSE "failed"
                          [] a \in resumed -> "idle"
                          [] OTHER -> pc[a]]
    /\ UNCHANGED <<open, ongoing, displaced, windowVars, stored, outside>>

\* Changed: no finally, the entry of a failed removal stays.
EndResyncOnSuccess ==
    /\ pc[Resync] \in {"settling", "failed"}
    /\ pc' = [pc EXCEPT ![Resync] = "idle"]
    /\ IF pc[Resync] = "settling" THEN list' = <<>> /\ stored' = <<>> /\ DeleteEntry(Resync)
       ELSE UNCHANGED <<list, stored, ongoing, displaced>>
    /\ UNCHANGED <<open, waits, loads, recording, outside>>

\* The timer of the Request fires: _resyncHistory deletes the entry and,
\* without an error, forgets the submitted transactions.
EndResync ==
    /\ pc[Resync] \in {"settling", "failed"}
    /\ pc' = [pc EXCEPT ![Resync] = "idle"]
    /\ DeleteEntry(Resync)
    /\ IF pc[Resync] = "settling" THEN list' = <<>> /\ stored' = <<>>
       ELSE UNCHANGED <<list, stored>>
    /\ UNCHANGED <<open, waits, loads, recording, outside>>
-----------------------------------------------------------------------------
(* Submitted transactions *)

\* The window opens: setup loads what is stored; or it closes, and what was
\* under way in it is gone.
Open ==
    /\ ~ open /\ open' = TRUE
    /\ loads' = << stored >>
    /\ UNCHANGED <<refreshVars, list, recording, stored, outside>>

Close ==
    /\ open /\ open' = FALSE
    /\ ongoing' = NoPromise
    /\ pc' = Each("idle") /\ waits' = Each(NoPromise)
    /\ displaced' = FALSE
    /\ list' = <<>> /\ loads' = <<>> /\ recording' = {}
    /\ UNCHANGED <<stored, outside>>

\* _loadSubmittedTransactions: with the token infos fetched, the entries are
\* put before those in memory, built anew without usedUtxos.  A failed fetch
\* is logged.
Rebuilt(txs) == [i \in DOMAIN txs |-> [tx |-> txs[i].tx, used |-> FALSE]]
Insert(txs) == list' = Rebuilt(txs) \o list

\* Changed: local storage is read after the fetch.
LoadLate(i) ==
    /\ i \in DOMAIN loads
    /\ loads' = RemoveAt(loads, i)
    /\ Insert(stored) \/ UNCHANGED list
    /\ UNCHANGED <<open, refreshVars, recording, stored, outside>>

Load(i) ==
    /\ i \in DOMAIN loads
    /\ loads' = RemoveAt(loads, i)
    /\ Insert(loads[i]) \/ UNCHANGED list
    /\ UNCHANGED <<open, refreshVars, recording, stored, outside>>

\* The window sends a transaction, then recordSubmittedTransaction.
MainSend(t) ==
    /\ open /\ t \in MainTxs \ sent
    /\ sent' = sent \cup {t} /\ recording' = recording \cup {t}
    /\ UNCHANGED <<open, refreshVars, list, loads, stored, connector, remote>>

MainRecord(t) ==
    /\ t \in recording
    /\ recording' = recording \ {t}
    /\ list' = Append(list, [tx |-> t, used |-> TRUE])
    /\ stored' = list'
    /\ UNCHANGED <<open, refreshVars, loads, outside>>

\* Connector, submit_tx: the transaction is sent; what is stored is read, and
\* addressedUtxosWithSubmittedTxs throws at an entry without usedUtxos.
ConnectorSend(t) ==
    /\ connector.step = "none" /\ t \in ConnectorTxs \ sent
    /\ sent' = sent \cup {t}
    /\ connector' = IF \A i \in DOMAIN stored : stored[i].used
                    THEN [step |-> t, data |-> stored]
                    ELSE [step |-> "notify", data |-> <<>>]
    /\ UNCHANGED <<open, refreshVars, windowVars, stored, remote>>

ConnectorRecord ==
    /\ connector.step \in ConnectorTxs
    /\ stored' = Append(connector.data, [tx |-> connector.step, used |-> TRUE])
    /\ connector' = [step |-> "notify", data |-> <<>>]
    /\ UNCHANGED <<open, refreshVars, windowVars, sent, remote>>

\* connector-tx-submitted: the window, if there is one, loads what is stored.
ConnectorNotify ==
    /\ connector.step = "notify"
    /\ connector' = NoSubmission
    /\ loads' = IF open THEN Append(loads, stored) ELSE loads
    /\ UNCHANGED <<open, refreshVars, list, recording, stored, sent, remote>>

\* The backend reports a transaction in the wallet's history (external).
Confirm(t) ==
    /\ t \in sent \ remote
    /\ remote' = remote \cup {t}
    /\ UNCHANGED <<open, refreshVars, windowVars, stored, connector, sent>>
-----------------------------------------------------------------------------
CallerNext ==
    \E a \in Actors : \/ JoinRefresh(a) \/ StartRefresh(a)
                      \/ \E ok \in BOOLEAN : EndRefresh(a, ok)

ResyncNext ==
    StartResync \/ RemoveDone \/ (\E ok \in BOOLEAN : RemovalSettles(ok)) \/ EndResync

SubmittedNext ==
    \/ Open \/ Close
    \/ \E i \in DOMAIN loads : Load(i)
    \/ \E t \in Txs : MainSend(t) \/ MainRecord(t) \/ ConnectorSend(t) \/ Confirm(t)
    \/ ConnectorRecord \/ ConnectorNotify

Next == CallerNext \/ ResyncNext \/ SubmittedNext
Spec == Init /\ [][Next]_vars

\* Every promise settles; the timers call again and again; a refresh that is
\* always tried again succeeds at some time.
LiveSpec ==
    /\ Spec
    /\ \A a \in Actors : /\ WF_vars(JoinRefresh(a) \/ StartRefresh(a))
                         /\ WF_vars(\E ok \in BOOLEAN : EndRefresh(a, ok))
    /\ SF_vars(\E a \in Actors : EndRefresh(a, TRUE))
    /\ WF_vars(RemoveDone \/ \E ok \in BOOLEAN : RemovalSettles(ok))
    /\ WF_vars(EndResync)
-----------------------------------------------------------------------------
(* Properties *)

\* A wallet marked as refreshing is being refreshed: the entry of
\* ongoingRefreshing is never left behind by a refresh or a removal that is
\* over, so that later refreshes are not answered by it (but in the moment
\* between a failed removal and the timer of its request).
EntryIsRunning ==
    ongoing # NoPromise => Running(ongoing) \/ (ongoing = Removal /\ pc[Resync] = "failed")

\* One process at a time for a wallet, the history not being removed under a
\* refresh, unless a resync deleted the entry of somebody else's refresh.
RefreshAlone ==
    ~ displaced => /\ Cardinality({a \in Actors : Refreshing(a)}) <= 1
                   /\ pc[Resync] = "removing" => \A a \in Actors : ~ Refreshing(a)

\* Every wait ends: whoever waits does so for a promise not settled yet, of a
\* refresh, which waits for nobody, or of the removal, which is not the
\* resync's own wait.
WaitsEnd == \A a \in Actors :
    waits[a] # NoPromise => /\ Running(waits[a])
                            /\ waits[a] = Removal => a # Resync

\* As long as the connector sent nothing, no submitted transaction is listed
\* twice, whatever the window loads and records, and however often it opens.
ShownOnceAlone ==
    sent \cap ConnectorTxs = {} => \A i, j \in DOMAIN list : list[i].tx = list[j].tx => i = j

\* Whoever calls for a refresh or a resync gets an answer: nobody waits for
\* a promise that waits for itself.
CallsReturn == \A a \in Actors : pc[a] # "idle" ~> pc[a] = "idle"

\* While the window is open, everything sent is in the history and nobody
\* resyncs, the list of submitted transactions gets empty and stays so,
\* duplicates included.
Quiet == open /\ sent = remote /\ pc[Resync] = "idle"
Settles == <>[]Quiet => <>[](list = <<>>)
=============================================================================
