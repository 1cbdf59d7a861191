------------------------------- MODULE Backend -------------------------------
(***************************************************************************)
(* The backend and the chain behind it, as the synchronisation code sees   *)
(* them (external: no code of theirs is in the repository; the shape comes *)
(* from the fetchers and from the mock network of the tests).              *)
(*                                                                         *)
(* forks   every chain the network has agreed on, the last one is current; *)
(*         a block is [fork, txs], its hash the pair <<height, fork>>      *)
(* served  how much of the current chain the backend has read so far       *)
(* pool    what the backend says of a transaction that is in no block      *)
(*                                                                         *)
(* A transaction has one output, at address AddrOf[t] of the wallet, and   *)
(* spends outputs of the transactions Spends[t].  Its number is its        *)
(* ordinal in a block.                                                     *)
(***************************************************************************)
EXTENDS Integers, FiniteSets, Sequences, SequencesExt

CONSTANTS Txs,        \* the wallet's transactions, 1..n
          Spends,     \* Spends[t]: the transactions whose output t spends
          AddrOf,     \* AddrOf[t]: index of the address t pays to
          Before,     \* transactions that were in the first block from the start
          Pooled,     \* bound: those that may wait in the backend's pool
          K,          \* CARDANO_STABLE_SIZE: no reorganisation is deeper
          MaxHeight,  \* bound: height of a chain
          MaxForks    \* bound: reorganisations + 1

ASSUME BackendAssumption ==
    /\ IsFiniteSet(Txs) /\ Txs = 1..Cardinality(Txs)
    /\ \A t \in Txs : /\ Spends[t] \subseteq {s \in Txs : s < t}
                      /\ AddrOf[t] \in Nat \ {0}
    /\ Before \subseteq Txs /\ Pooled \subseteq Txs
    /\ \A t \in Before : /\ Spends[t] \subseteq Before
                         /\ \A u \in Before \ {t} : Spends[t] \cap Spends[u] = {}
    /\ K \in Nat \ {0} /\ MaxHeight \in Nat \ {0} /\ MaxForks \in Nat \ {0}

VARIABLES forks, served, pool

bvars == <<forks, served, pool>>

NoBlock == <<0, 0>>
Chain == Last(forks)
Hash(chain, h) == IF h = 0 THEN NoBlock ELSE <<h, chain[h].fork>>
OnChain(block, chain) == block[1] <= Len(chain) /\ block = Hash(chain, block[1])
TxsIn(chain) == UNION {chain[h].txs : h \in DOMAIN chain}
Served == SubSeq(Chain, 1, served)

\* Where transaction t is on a chain that holds it.
PlaceOf(t, chain) == Hash(chain, CHOOSE h \in DOMAIN chain : t \in chain[h].txs)

BackendTypeOK ==
    /\ forks \in Seq(Seq([fork : 1..MaxForks, txs : SUBSET Txs]))
    /\ served \in 0..Len(Chain)
    /\ pool \in [Txs -> {"new", "pending", "failed", "out"}]

\* The chain has a first block; the backend has read nothing yet.
BackendInit ==
    /\ forks = << << [fork |-> 1, txs |-> Before] >> >>
    /\ served = 0
    /\ pool = [t \in Txs |-> IF t \in Before THEN "out" ELSE "new"]

\* A set of transactions that may follow a chain in one block: what they
\* spend is there and is spent once.
Fits(S, chain) ==
    /\ S \cap TxsIn(chain) = {}
    /\ \A t \in S : Spends[t] \subseteq TxsIn(chain) \cup S
    /\ \A t \in S, u \in S \cup TxsIn(chain) : t # u => Spends[t] \cap Spends[u] = {}

\* Waiting transactions that cannot follow S any more; they are reported as failed.
Spoilt(S) == {u \in Txs \ S : pool[u] = "pending" /\ \E t \in S : Spends[t] \cap Spends[u] # {}}

Mint == \E S \in SUBSET {t \in Txs : pool[t] \in {"new", "pending"}} :
    /\ Len(Chain) < MaxHeight
    /\ Fits(S, Chain)
    /\ forks' = [forks EXCEPT ![Len(forks)] = Append(@, [fork |-> Len(forks), txs |-> S])]
    /\ pool' = [t \in Txs |-> IF t \in S THEN "out" ELSE IF t \in Spoilt(S) THEN "failed" ELSE pool[t]]
    /\ UNCHANGED served

\* The network drops up to K blocks; what was in them waits again or is lost.
Reorg == \E h \in 1..(Len(Chain) - 1), lost \in SUBSET Txs :
    /\ Len(forks) < MaxForks
    /\ h >= Len(Chain) - K
    /\ LET kept == SubSeq(Chain, 1, h)
           orphans == TxsIn(Chain) \ TxsIn(kept)
       IN  /\ orphans \ Pooled \subseteq lost /\ lost \subseteq orphans
           /\ forks' = Append(forks, kept)
           /\ pool' = [t \in Txs |-> IF t \in orphans \ lost THEN "pending" ELSE pool[t]]
           /\ served' = IF served > h THEN h ELSE served

CatchUp == /\ served < Len(Chain)
           /\ served' = Len(Chain)
           /\ UNCHANGED <<forks, pool>>

\* Another instance answers, or the backend reads the chain again: it knows
\* less than it did, never nothing at all.
Lag == \E n \in 1..(served - 1) : served' = n /\ UNCHANGED <<forks, pool>>

Submit(t) == /\ t \in Pooled /\ pool[t] = "new"
             /\ Fits({t}, Chain)
             /\ pool' = [pool EXCEPT ![t] = "pending"]
             /\ UNCHANGED <<forks, served>>

\* A waiting transaction expires: the backend forgets it.
Expire(t) ==
    /\ pool[t] = "pending"
    /\ pool' = [pool EXCEPT ![t] = "out"]
    /\ UNCHANGED <<forks, served>>

\* What the backend reports as pending: it knows where the inputs come from.
Waiting == LET pending == {t \in Txs : pool[t] = "pending"}
           IN  {t \in pending : Spends[t] \subseteq TxsIn(Served) \cup pending}

BackendNext == Mint \/ Reorg \/ CatchUp \/ \E t \in Txs : Submit(t) \/ Expire(t)

\* No fork gives up before it is as long as those it replaced.
Longest == \A i \in DOMAIN forks : Len(forks[i]) <= Len(Chain)

Quiet == served > 0 /\ served = Len(Chain) /\ Longest
=============================================================================
