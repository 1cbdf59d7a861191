-------------------------------- MODULE TxSync --------------------------------
(***************************************************************************)
(* Synchronisation of a Cardano wallet with the backend, and its rollback: *)
(* updateTransactions.js.  A refresh runs inside one database transaction  *)
(* (raii) that locks the tables for all of it, network calls included; a   *)
(* refusal by the backend ends that transaction and the rollback takes the *)
(* lock again, so that other refreshes may come in between.                *)
(*                                                                         *)
(* db        the transaction rows: status, block, and whether the output's *)
(*           address was known when the row was added (own)                *)
(* unspent   rows whose output has IsUnspent                               *)
(* known     how many addresses of the chain are in the database           *)
(* lastSync  the block of LastSyncInfo, NoBlock for null                   *)
(* lock      the refresh that holds the tables                             *)
(* pc        per refresh; "overtaken" is refused, with LastSyncInfo        *)
(*           written by somebody else since (Time is part of the row)      *)
(* sync      what the refresh that holds the lock has seen                 *)
(***************************************************************************)
EXTENDS Backend

CONSTANTS Refreshes,   \* callers of updateTransactions
          Nobody,
          Gap,         \* addresses kept after the last used one (bip-44 gap)
          Chunk,       \* addresses per history request (addressesLimit)
          SteadyScan   \* TRUE: what the wallet scanned stays so, see Outside

ASSUME SyncAssumption ==
    /\ Nobody \notin Refreshes
    /\ Gap \in Nat \ {0} /\ Chunk \in Nat \ {0}
    /\ SteadyScan \in BOOLEAN

VARIABLES db, unspent, known, lastSync, lock, pc, sync

wallet == <<db, unspent, known, lastSync>>
vars == <<forks, served, pool, db, unspent, known, lastSync, lock, pc, sync>>

Statuses == {"none", "PENDING", "IN_BLOCK", "FAIL_RESPONSE", "NOT_IN_REMOTE", "ROLLBACK_FAIL"}
Absent == [st |-> "none", block |-> NoBlock]
NoRow == [st |-> "none", block |-> NoBlock, own |-> FALSE]
Blocks == (0..MaxHeight) \X (0..MaxForks)
NoSync == [step |-> "none", best |-> NoBlock, known |-> 0, after |-> 0, pages |-> <<>>]

Largest(S) == IF S = {} THEN 0 ELSE CHOOSE x \in S : \A y \in S : y <= x

Rows == {t \in Txs : db[t].st # "none"}
InBlock == {t \in Txs : db[t].st = "IN_BLOCK"}

\* Changed: any row that has a block, not only the confirmed ones.
FirstTxBefore(height) ==
    LET S == {t \in Txs : db[t].block # NoBlock /\ db[t].block[1] < height}
    IN  IF S = {} THEN 0
        ELSE CHOOSE t \in S : \A u \in S :
               \/ db[u].block[1] < db[t].block[1]
               \/ db[u].block[1] = db[t].block[1] /\ u <= t

\* firstSuccessTxBefore: the confirmed row that is highest, then last in its
\* block, below a height; 0 when there is none.
FirstSuccessTxBefore(height) ==
    LET S == {t \in InBlock : db[t].block[1] < height}
    IN  IF S = {} THEN 0
        ELSE CHOOSE t \in S : \A u \in S :
               \/ db[u].block[1] < db[t].block[1]
               \/ db[u].block[1] = db[t].block[1] /\ u <= t
Top == MaxHeight + 1
BlockOf(t) == IF t = 0 THEN NoBlock ELSE db[t].block

TypeOK ==
    /\ BackendTypeOK
    /\ db \in [Txs -> [st : Statuses, block : Blocks, own : BOOLEAN]]
    /\ unspent \subseteq Rows
    /\ known \in Nat
    /\ lastSync \in Blocks
    /\ lock \in Refreshes \cup {Nobody}
    /\ pc \in [Refreshes -> {"idle", "failed", "running", "refused", "overtaken"}]
    /\ sync.step \in {"none", "scan", "pages"}
    /\ (lock = Nobody) <=> (sync = NoSync)
    /\ \A p \in Refreshes : pc[p] = "running" <=> lock = p

Init ==
    /\ BackendInit
    /\ db = [t \in Txs |-> NoRow]
    /\ unspent = {}
    /\ known = Gap
    /\ lastSync = NoBlock
    /\ lock = Nobody
    /\ pc = [p \in Refreshes |-> "idle"]
    /\ sync = NoSync

\* LastSyncInfo is written by p: a rollback somebody else has yet to do is void.
OverrideLastSyncInfo(p, block) ==
    /\ lastSync' = block
    /\ pc' = [q \in Refreshes |-> IF q = p THEN "idle"
                                  ELSE IF pc[q] = "refused" THEN "overtaken" ELSE pc[q]]

\* Changed: the tables stay locked.
ReleaseKeepsLock(p, state) ==
    /\ sync' = NoSync
    /\ pc' = [pc EXCEPT ![p] = state]
    /\ UNCHANGED <<db, unspent, known, lastSync, lock>>

Release(p, state) ==
    /\ lock' = Nobody /\ sync' = NoSync
    /\ pc' = [pc EXCEPT ![p] = state]
    /\ UNCHANGED wallet

\* The refresh gets the lock and asks for the best block.  A backend more than
\* K blocks behind is not trusted; one without any block only overwrites
\* LastSyncInfo.
Begin(p) ==
    /\ lock = Nobody /\ pc[p] \in {"idle", "failed"}
    /\ LET best == Hash(Chain, served)
       IN  \/ /\ lastSync[1] - best[1] <= K
              /\ best # NoBlock
              /\ lock' = p /\ pc' = [pc EXCEPT ![p] = "running"]
              /\ sync' = [NoSync EXCEPT !.step = "scan", !.best = best]
              /\ UNCHANGED wallet
           \/ /\ lastSync[1] - best[1] <= K
              /\ best = NoBlock
              /\ OverrideLastSyncInfo(p, NoBlock)
              /\ UNCHANGED <<db, unspent, known, lock, sync>>
    /\ UNCHANGED bvars

\* Addresses the backend answers are in use (isUsed of what is scanned).
Used == {AddrOf[t] : t \in TxsIn(Served) \cup Waiting}

\* discoverAllAddressesFrom: scanning starts after the last address used in
\* the database and ends after Gap unused ones in a row.
Discovered ==
    LET lastUsed == Largest({AddrOf[t] : t \in {u \in InBlock : db[u].own}})
        unusedRun(n) == \A a \in (n - Gap + 1)..n : a <= lastUsed \/ a \notin Used
        end == CHOOSE n \in (lastUsed + Gap)..(Largest(Used \cup {lastUsed}) + Gap) :
                 /\ unusedRun(n)
                 /\ \A m \in (lastUsed + Gap)..(n - 1) : ~unusedRun(m)
    IN  Largest({known, end})

RawScanAddresses(p) ==
    /\ lock = p /\ sync.step = "scan"
    /\ sync' = [sync EXCEPT !.step = "pages", !.known = Discovered,
                            !.after = FirstSuccessTxBefore(Top)]
    /\ UNCHANGED <<bvars, wallet, lock, pc>>

Chunks(n) == 1..((n + Chunk - 1) \div Chunk)
AddressesOf(c) == {a \in 1..sync.known : (a - 1) \div Chunk = c - 1}
Until == SubSeq(Served, 1, sync.best[1])
Touches(t, A) == AddrOf[t] \in A \/ \E s \in Spends[t] : AddrOf[s] \in A

\* untilBlock, and the block of the last transaction we know, are on the chain
\* the backend has; it refuses otherwise.
Accepts == /\ OnChain(sync.best, Served)
           /\ sync.after # 0 => OnChain(BlockOf(sync.after), Until)

\* What the backend reports of a transaction: in a block after the last one
\* we know and up to untilBlock, or waiting, or failed.
Reported(t) ==
    CASE t \in TxsIn(Until) ->
           LET block == PlaceOf(t, Until)
               last == BlockOf(sync.after)
           IN  IF block[1] > last[1] \/ (block[1] = last[1] /\ t > sync.after)
               THEN [st |-> "IN_BLOCK", block |-> block] ELSE Absent
      [] t \in Waiting -> [st |-> "PENDING", block |-> NoBlock]
      [] t \notin TxsIn(Until) /\ pool[t] = "failed" -> [st |-> "FAIL_RESPONSE", block |-> NoBlock]
      [] OTHER -> Absent

PageOf(c) == [t \in Txs |-> IF Touches(t, AddressesOf(c)) THEN Reported(t) ELSE Absent]

\* The pages put together in the order of the chunks, the first of two
\* answers about the same transaction kept.
Response(pages) == [t \in Txs |->
    LET C == {c \in DOMAIN pages : pages[c][t].st # "none"}
    IN  IF C = {} THEN Absent ELSE pages[CHOOSE c \in C : \A d \in C : c <= d][t]]

InputsOf(S) == UNION {Spends[t] : t \in S}

\* Changed: only the inputs of rows that are new are marked as spent.
UpdateMarksNewOnly(resp) ==
    LET seen == {t \in Txs : resp[t].st # "none"}
        added == {t \in seen \ Rows : resp[t].block # NoBlock}
    IN  /\ db' = [t \in Txs |->
              CASE t \in seen ->
                     [st |-> resp[t].st, block |-> resp[t].block,
                      own |-> IF t \in Rows THEN db[t].own ELSE AddrOf[t] <= sync.known]
                [] t \notin seen /\ db[t].st = "PENDING" -> [db[t] EXCEPT !.st = "NOT_IN_REMOTE"]
                [] OTHER -> db[t]]
        /\ unspent' = (unspent \cup (seen \ Rows)) \ InputsOf(added)

\* Changed: pending rows that the backend has forgotten stay pending.
UpdateKeepsPending(resp) ==
    LET seen == {t \in Txs : resp[t].st # "none"}
        added == {t \in seen \ InBlock : resp[t].block # NoBlock}
    IN  /\ db' = [t \in Txs |->
              IF t \in seen
              THEN [st |-> resp[t].st, block |-> resp[t].block,
                    own |-> IF t \in Rows THEN db[t].own ELSE AddrOf[t] <= sync.known]
              ELSE db[t]]
        /\ unspent' = (unspent \cup (seen \ Rows)) \ InputsOf(added)

UpdateTransactionBatch(resp) ==
    LET seen == {t \in Txs : resp[t].st # "none"}
        added == {t \in seen \ InBlock : resp[t].block # NoBlock}
    IN  /\ db' = [t \in Txs |->
              CASE t \in seen ->
                     [st |-> resp[t].st, block |-> resp[t].block,
                      own |-> IF t \in Rows THEN db[t].own ELSE AddrOf[t] <= sync.known]
                [] t \notin seen /\ db[t].st = "PENDING" -> [db[t] EXCEPT !.st = "NOT_IN_REMOTE"]
                [] OTHER -> db[t]]
        /\ unspent' = (unspent \cup (seen \ Rows)) \ InputsOf(added)

\* One of the history requests is answered (they run side by side); after the
\* last one everything is written and the tables are free again.  The answer
\* of a chunk is one step: _batchHistoryByTransaction asks again from the last
\* confirmed transaction of a full page, but what is in a block is fixed by
\* untilBlock for all of its pages.  That a full page has nothing in a block,
\* which makes it throw, is a Fail.
Page(p, c) ==
    /\ lock = p /\ sync.step = "pages"
    /\ c \in Chunks(sync.known) \ DOMAIN sync.pages
    /\ LET pages == [d \in DOMAIN sync.pages \cup {c} |->
                        IF d = c THEN PageOf(c) ELSE sync.pages[d]]
           all == DOMAIN pages = Chunks(sync.known)
       IN  \/ ~Accepts /\ Release(p, "refused")
           \/ /\ Accepts /\ ~all
              /\ sync' = [sync EXCEPT !.pages = pages]
              /\ UNCHANGED <<wallet, lock, pc>>
           \/ /\ Accepts /\ all
              /\ UpdateTransactionBatch(Response(pages))
              /\ known' = sync.known
              /\ OverrideLastSyncInfo(p, sync.best)
              /\ lock' = Nobody /\ sync' = NoSync
    /\ UNCHANGED bvars

\* Any other error of a request: the database transaction is undone.
Fail(p) == lock = p /\ Release(p, "failed") /\ UNCHANGED bvars

\* Changed: a block less is given up than the sync point goes back.
RevertedAbove == {t \in Rows : db[t].block # NoBlock /\ db[t].block[1] > BlockOf(FirstSuccessTxBefore(Top))[1] - K}

\* Changed: LastSyncInfo is not compared.
RollbackAnyway(p) ==
    /\ lock = Nobody /\ pc[p] \in {"refused", "overtaken"}
    /\ IF lastSync = NoBlock \/ InBlock = {}
       THEN /\ pc' = [pc EXCEPT ![p] = "idle"]
            /\ UNCHANGED wallet
       ELSE LET low == BlockOf(FirstSuccessTxBefore(Top))[1] - K
                top == {t \in Rows : db[t].block # NoBlock /\ db[t].block[1] >= low}
                failed == top \cup {t \in Rows : db[t].st = "PENDING"}
            IN  /\ db' = [t \in Txs |-> IF t \in failed THEN [db[t] EXCEPT !.st = "ROLLBACK_FAIL"] ELSE db[t]]
                /\ unspent' = unspent \cup (InputsOf(top) \cap Rows)
                /\ OverrideLastSyncInfo(p, BlockOf(FirstSuccessTxBefore(low)))
                /\ UNCHANGED known
    /\ UNCHANGED <<bvars, lock, sync>>

\* Changed: the comparison is turned round.
RevertedUpTo == {t \in Rows : db[t].block # NoBlock /\ db[t].block[1] <= BlockOf(FirstSuccessTxBefore(Top))[1] - K}

\* rollback: the K highest blocks and what is waiting are given up, and the
\* inputs of what was given up are unspent again.
Reverted == {t \in Rows : db[t].block # NoBlock /\ db[t].block[1] >= BlockOf(FirstSuccessTxBefore(Top))[1] - K}

Rollback(p) ==
    /\ lock = Nobody /\ pc[p] \in {"refused", "overtaken"}
    /\ IF pc[p] = "overtaken" \/ lastSync = NoBlock \/ InBlock = {}
       THEN /\ pc' = [pc EXCEPT ![p] = "idle"]
            /\ UNCHANGED wallet
       ELSE LET low == BlockOf(FirstSuccessTxBefore(Top))[1] - K
                failed == Reverted \cup {t \in Rows : db[t].st = "PENDING"}
            IN  /\ db' = [t \in Txs |-> IF t \in failed THEN [db[t] EXCEPT !.st = "ROLLBACK_FAIL"] ELSE db[t]]
                /\ unspent' = unspent \cup (InputsOf(Reverted) \cap Rows)
                /\ OverrideLastSyncInfo(p, BlockOf(FirstSuccessTxBefore(low)))
                /\ UNCHANGED known
    /\ UNCHANGED <<bvars, lock, sync>>

\* removeAllTransactions, from the wallet's settings: the rows go, the
\* addresses stay, LastSyncInfo is reset.
RemoveAllTransactions ==
    /\ lock = Nobody
    /\ Rows # {} \/ lastSync # NoBlock
    /\ db' = [t \in Txs |-> NoRow]
    /\ unspent' = {}
    /\ OverrideLastSyncInfo(Nobody, NoBlock)
    /\ UNCHANGED <<bvars, known, lock, sync>>

Wallet(p) ==
    \/ Begin(p) \/ RawScanAddresses(p) \/ Rollback(p)
    \/ \E c \in Chunks(sync.known) : Page(p, c)

\* The backend does not go back between the best block and the scan of the
\* addresses: the race the code names at that place is left out.
Outside ==
    /\ BackendNext \/ Lag
    /\ SteadyScan => /\ sync.step = "scan" => ~Lag
                     /\ sync.step = "pages" => \A t \in Waiting' : AddrOf[t] <= sync.known
    /\ UNCHANGED <<wallet, lock, pc, sync>>

Next == Outside \/ RemoveAllTransactions \/ \E p \in Refreshes : Wallet(p) \/ Fail(p)

Spec == Init /\ [][Next]_vars

\* The wallet is polled and a request ends: some refresh always goes on.
Fairness == WF_vars(\E p \in Refreshes : Wallet(p))
LiveSpec == Spec /\ Fairness
-----------------------------------------------------------------------------
OwnOf(chain) == {<<t, PlaceOf(t, chain)>> : t \in TxsIn(chain)}
Confirmed == {<<t, db[t].block>> : t \in InBlock}
View == INSTANCE ChainView WITH Own <- OwnOf, confirmed <- Confirmed

\* What is shown as confirmed is always one initial part of one chain and
\* moves as that module says: whatever order pages, refusals, rollbacks and
\* removals of two refreshes come in.
FollowsOneChain == View!Spec

\* What the wallet may spend is what its confirmed transactions leave: an
\* output is unspent exactly when no confirmed transaction spends it, unless
\* a transaction that failed still has a block and spends it too.
UtxoRight == \A t \in InBlock :
    LET spenders == {u \in Txs : t \in Spends[u]}
    IN  (\A u \in spenders \ InBlock : db[u].block = NoBlock)
          => (db[t].own /\ t \in unspent) <=> spenders \cap InBlock = {}

\* The same for every output: what the comment in rollback takes to be all
\* the cases there are.
UtxoRightAlways == \A t \in InBlock :
    (db[t].own /\ t \in unspent) <=> ~\E u \in InBlock : t \in Spends[u]

\* The sync point and the confirmed rows are of one chain, and the point is
\* not below them: a null point means that there is nothing to roll back.
SyncPointCovers == \E i \in DOMAIN forks :
    /\ OnChain(lastSync, forks[i])
    /\ Confirmed \subseteq OwnOf(SubSeq(forks[i], 1, lastSync[1]))

\* Confirmed rows are given up only by a refresh the backend refused when
\* nobody has synchronised since, and only with a removal otherwise.
RollbackAnswersRefusal == [][
    (\E t \in Txs : db[t].st = "IN_BLOCK" /\ db'[t].st = "ROLLBACK_FAIL")
      => \E p \in Refreshes : pc[p] = "refused" /\ pc'[p] = "idle"]_vars

\* One rollback is enough for one reorganisation: what is confirmed on a chain
\* the network has replaced is, after it, of the chain that came next.
RollbackUndoesReorganisation == [][
    \A p \in Refreshes : pc[p] = "refused" /\ pc'[p] = "idle" =>
        \A i \in 1..(Len(forks) - 1) :
            Confirmed \subseteq OwnOf(forks[i]) => Confirmed' \subseteq OwnOf(forks[i + 1])]_vars

InSync ==
    /\ Confirmed = OwnOf(Served)
    /\ \A t \in Txs : /\ db[t].st = "PENDING" <=> t \in Waiting
                      /\ t \in InBlock => db[t].own
    /\ UtxoRight

\* Once the backend has read a chain that stays, requests no longer fail and
\* no removal is asked for, the wallet agrees with it, for good.
EventuallyInSync ==
    (/\ <>[]Quiet
     /\ <>[][~RemoveAllTransactions /\ \A p \in Refreshes : pc'[p] = "failed" => pc[p] = "failed"]_vars)
        => <>[]InSync
=============================================================================
