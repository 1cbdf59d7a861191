----------------------------- MODULE TxSyncProofs -----------------------------
(***************************************************************************)
(* Theorems about TxSync, for any transactions that fit on a chain, any    *)
(* reorganisations, any number of refreshes and any chunk size.            *)
(*                                                                         *)
(* Two invariants.  Base holds whatever the backend does in the middle of  *)
(* a refresh: a hash names one chain up to its block (SameHash), what is   *)
(* confirmed is on one chain and not above the sync point (Cover), the     *)
(* pages of a refresh are about one part of one chain (SyncSeen), and a    *)
(* backend that never read a block was never followed (Fresh).             *)
(*                                                                         *)
(* RowsFull and SyncFull add what depends on the scan: that what is        *)
(* confirmed is all of an initial part of a chain (Exact), and which       *)
(* outputs are unspent (Unspent).  They need the two assumptions that      *)
(* address discovery makes of the world outside: SteadyScan, and that      *)
(* addresses are used in order, with gaps of at most Gap (GapKept).  The   *)
(* crux is LooseGone: a row that rollback gave up and that stands against  *)
(* a confirmed one will never be confirmed again.                          *)
(***************************************************************************)
EXTENDS TxSync, FiniteSetTheorems, SequenceTheorems, WellFoundedInduction, TLAPS

-----------------------------------------------------------------------------
(* Greatest elements. *)

LEMMA TxNumbers ==
    /\ Cardinality(Txs) \in Nat /\ Txs = 1..Cardinality(Txs)
    /\ \A t \in Txs : t \in Nat /\ t # 0
<1>1. Cardinality(Txs) \in Nat
    BY BackendAssumption, FS_CardinalityType
<1> QED BY <1>1, BackendAssumption

LEMMA LeastOf ==
    ASSUME NEW S \in SUBSET Nat, S # {}
    PROVE  \E n \in S : \A m \in S : n <= m
<1> DEFINE R == OpToRel(<, Nat)
<1>1. IsWellFoundedOn(R, Nat)
    BY NatLessThanWellFounded
<1>2. \A m, n \in Nat : m < n => <<m, n>> \in R
    BY DEF OpToRel
<1> HIDE DEF R
<1>3. PICK n \in S : \A m \in S : ~(<<m, n>> \in R)
    BY <1>1, WFMin
<1>4. \A m \in S : ~(m < n)
    BY <1>2, <1>3
<1> QED BY <1>4

LEMMA GreatestBelow ==
    ASSUME NEW S \in SUBSET Nat, S # {}, NEW b \in Nat, \A x \in S : x <= b
    PROVE  \E x \in S : \A y \in S : y <= x
<1> DEFINE D == {n \in Nat : \E x \in S : n = b - x}
<1>1. D \in SUBSET Nat /\ D # {}
  <2>1. PICK x \in S : TRUE
      OBVIOUS
  <2>2. b - x \in Nat
      BY <2>1
  <2> QED BY <2>1, <2>2
<1>d. \A m \in D : \E x \in S : m = b - x
    OBVIOUS
<1>e. \A y \in S : b - y \in D
    OBVIOUS
<1> HIDE DEF D
<1>2. PICK n \in D : \A m \in D : n <= m
    BY <1>1, LeastOf
<1>3. PICK x \in S : n = b - x
    BY <1>2, <1>d
<1>4. ASSUME NEW y \in S PROVE y <= x
  <2>1. n <= b - y
      BY <1>2, <1>e
  <2> QED BY <1>3, <2>1
<1> QED BY <1>4

LEMMA LargestIs ==
    ASSUME NEW S \in SUBSET Nat, NEW b \in Nat, \A x \in S : x <= b
    PROVE  /\ Largest(S) \in 0..b /\ \A x \in S : x <= Largest(S)
           /\ S # {} => Largest(S) \in S
<1>1. CASE S = {}
    BY <1>1 DEF Largest
<1>2. CASE S # {}
  <2>1. \E x \in S : \A y \in S : y <= x
      BY <1>2, GreatestBelow
  <2>2. Largest(S) \in S /\ \A y \in S : y <= Largest(S)
    <3> DEFINE P(x) == \A y \in S : y <= x
    <3>1. Largest(S) = CHOOSE x \in S : P(x)
        BY <1>2 DEF Largest
    <3>2. \E x \in S : P(x)
        BY <2>1
    <3> HIDE DEF P
    <3>3. Largest(S) \in S /\ P(Largest(S))
        BY <3>1, <3>2
    <3> QED BY <3>3 DEF P
  <2>3. Largest(S) \in Nat /\ Largest(S) <= b
      BY <2>2
  <2> QED BY <2>2, <2>3
<1> QED BY <1>1, <1>2

\* The addresses the transactions pay to are bounded, since there are finitely many.
LEMMA AddressesBounded == \E b \in Nat : \A t \in Txs : AddrOf[t] <= b
<1> DEFINE Bad == {n \in Nat : n <= Cardinality(Txs) /\ ~\E b \in Nat : \A t \in 1..n : AddrOf[t] <= b}
<1>0. Cardinality(Txs) \in Bad \/ \E b \in Nat : \A t \in Txs : AddrOf[t] <= b
    BY TxNumbers
<1>1. SUFFICES ASSUME Bad # {} PROVE FALSE
    BY <1>0
<1>2. Bad \in SUBSET Nat
    OBVIOUS
<1>3. PICK n \in Bad : \A m \in Bad : n <= m
  <2> HIDE DEF Bad
  <2> QED BY <1>1, <1>2, LeastOf
<1>4. n # 0
  <2>1. \A t \in 1..0 : AddrOf[t] <= 0
      OBVIOUS
  <2> QED BY <1>3, <2>1
<1>5. n \in Nat /\ n - 1 \in Nat /\ n - 1 <= Cardinality(Txs) /\ ~(n <= n - 1) /\ n <= Cardinality(Txs)
  <2>1. n \in Nat /\ n <= Cardinality(Txs)
      BY <1>3
  <2> QED BY <1>4, <2>1, TxNumbers
<1>6. PICK b \in Nat : \A t \in 1..(n - 1) : AddrOf[t] <= b
    BY <1>3, <1>5
<1>7. AddrOf[n] \in Nat /\ 1..n \subseteq Txs
  <2>1. n \in 1..Cardinality(Txs) /\ 1..n \subseteq 1..Cardinality(Txs)
      BY <1>4, <1>5, TxNumbers
  <2> QED BY <2>1, BackendAssumption, TxNumbers
<1>8. b + AddrOf[n] \in Nat /\ \A t \in 1..n : AddrOf[t] <= b + AddrOf[n]
  <2>1. ASSUME NEW t \in 1..n PROVE AddrOf[t] <= b + AddrOf[n]
    <3>1. AddrOf[t] \in Nat
        BY <1>7, BackendAssumption
    <3>2. t = n \/ t \in 1..(n - 1)
        BY <1>5
    <3> QED BY <1>6, <1>7, <3>1, <3>2
  <2> QED BY <1>6, <1>7, <2>1
<1> QED BY <1>3, <1>8

LEMMA LexGreatest ==
    ASSUME NEW S \in SUBSET Txs, S # {}, NEW f, \A t \in S : f[t] \in 0..MaxHeight
    PROVE  \E t \in S : \A u \in S : f[u] < f[t] \/ (f[u] = f[t] /\ u <= t)
<1> DEFINE F == {f[t] : t \in S}
<1>1. F \in SUBSET Nat /\ F # {} /\ \A x \in F : x <= MaxHeight
    OBVIOUS
<1>2. MaxHeight \in Nat /\ \A t \in S : f[t] \in F
    BY BackendAssumption
<1> HIDE DEF F
<1>3. PICK h \in F : \A y \in F : y <= h
    BY <1>1, <1>2, GreatestBelow
<1> DEFINE T == {t \in S : f[t] = h}
<1>4. T \in SUBSET Nat /\ T # {} /\ \A t \in T : t <= Cardinality(Txs)
  <2>1. \E t \in S : f[t] = h
      BY <1>3 DEF F
  <2> QED BY <2>1, TxNumbers
<1> HIDE DEF T
<1>5. PICK t \in T : \A u \in T : u <= t
    BY <1>4, TxNumbers, GreatestBelow
<1>6. ASSUME NEW u \in S PROVE f[u] < f[t] \/ (f[u] = f[t] /\ u <= t)
  <2>1. f[u] \in Nat /\ h \in Nat /\ f[u] <= h
      BY <1>1, <1>2, <1>3
  <2>2. f[t] = h
      BY <1>5 DEF T
  <2>3. CASE f[u] = h
    <3>1. u <= t
        BY <1>5, <2>3 DEF T
    <3> QED BY <2>2, <2>3, <3>1
  <2>4. CASE f[u] # h
    <3>1. f[u] < h
        BY <2>1, <2>4
    <3> QED BY <2>2, <3>1
  <2> QED BY <2>3, <2>4
<1>7. t \in S
    BY <1>5 DEF T
<1> QED BY <1>6, <1>7

-----------------------------------------------------------------------------
(* Chains. *)

Block == [fork : 1..MaxForks, txs : SUBSET Txs]

\* Transaction t is on a chain, in block b.
Placed(t, b, chain) == b[1] \in DOMAIN chain /\ OnChain(b, chain) /\ t \in chain[b[1]].txs

\* A transaction is on a chain once, after what it spends, which nothing else spends.
Valid(chain) ==
    /\ \A g, h \in DOMAIN chain : \A t \in chain[g].txs : t \in chain[h].txs => g = h
    /\ \A h \in DOMAIN chain : \A t \in chain[h].txs : \A s \in Spends[t] :
          \E g \in 1..h : s \in chain[g].txs
    /\ \A g, h \in DOMAIN chain : \A t \in chain[g].txs, u \in chain[h].txs :
          t # u => Spends[t] \cap Spends[u] = {}

LEMMA TxsInIs ==
    ASSUME NEW chain, NEW t
    PROVE  t \in TxsIn(chain) <=> \E h \in DOMAIN chain : t \in chain[h].txs
BY DEF TxsIn

LEMMA PrefixIs ==
    ASSUME NEW chain \in Seq(Block), NEW h \in 0..Len(chain)
    PROVE  /\ SubSeq(chain, 1, h) \in Seq(Block) /\ Len(SubSeq(chain, 1, h)) = h
           /\ DOMAIN SubSeq(chain, 1, h) = 1..h
           /\ \A g \in 1..h : SubSeq(chain, 1, h)[g] = chain[g]
<1>1. h \in Nat /\ Len(chain) \in Nat /\ \A g \in 1..h : g \in 1..Len(chain)
    OBVIOUS
<1>2. SubSeq(chain, 1, h) \in Seq(Block) /\ Len(SubSeq(chain, 1, h)) = h
    BY <1>1, SubSeqProperties
<1>3. \A g \in 1..h : SubSeq(chain, 1, h)[g] = chain[g]
    BY <1>1, SubSeqProperties
<1> QED BY <1>2, <1>3

LEMMA BlockIs ==
    ASSUME NEW chain \in Seq(Block), NEW h \in DOMAIN chain
    PROVE  /\ h \in 1..Len(chain) /\ chain[h] \in Block
           /\ chain[h].fork \in 1..MaxForks /\ chain[h].txs \subseteq Txs
<1>1. h \in 1..Len(chain) /\ chain[h] \in Block
    OBVIOUS
<1> QED BY <1>1 DEF Block

LEMMA OnPrefix ==
    ASSUME NEW chain \in Seq(Block), NEW h \in 0..Len(chain), NEW b, b[1] \in 0..h
    PROVE  OnChain(b, SubSeq(chain, 1, h)) <=> OnChain(b, chain)
BY PrefixIs DEF OnChain, Hash

LEMMA SamePrefix ==
    ASSUME NEW c \in Seq(Block), NEW d \in Seq(Block), NEW h \in Nat,
           h <= Len(c), h <= Len(d), \A g \in 1..h : c[g] = d[g]
    PROVE  SubSeq(c, 1, h) = SubSeq(d, 1, h)
<1>1. /\ SubSeq(c, 1, h) \in Seq(Block) /\ Len(SubSeq(c, 1, h)) = h
      /\ \A g \in 1..h : SubSeq(c, 1, h)[g] = c[g]
    BY PrefixIs
<1>2. /\ SubSeq(d, 1, h) \in Seq(Block) /\ Len(SubSeq(d, 1, h)) = h
      /\ \A g \in 1..h : SubSeq(d, 1, h)[g] = d[g]
    BY PrefixIs
<1> QED BY <1>1, <1>2, SeqEqual

LEMMA PlaceIs ==
    ASSUME NEW chain \in Seq(Block), Valid(chain), NEW t
    PROVE  /\ t \in TxsIn(chain) => Placed(t, PlaceOf(t, chain), chain)
           /\ \A b : Placed(t, b, chain) => t \in TxsIn(chain) /\ b = PlaceOf(t, chain)
<1> DEFINE P(h) == t \in chain[h].txs
           g == CHOOSE h \in DOMAIN chain : P(h)
<1>1. PlaceOf(t, chain) = Hash(chain, g)
    BY DEF PlaceOf
<1>2. ASSUME NEW h \in DOMAIN chain, P(h) PROVE g = h /\ g \in DOMAIN chain
  <2>1. g \in DOMAIN chain /\ P(g)
    <3> HIDE DEF P
    <3> QED BY <1>2
  <2> QED BY <1>2, <2>1 DEF Valid
<1> HIDE DEF g
<1>3. ASSUME NEW h \in DOMAIN chain, P(h)
      PROVE  PlaceOf(t, chain) = <<h, chain[h].fork>>
  <2>1. h \in Nat /\ h # 0
      BY BlockIs
  <2> QED BY <1>1, <1>2, <1>3, <2>1 DEF Hash
<1>4. ASSUME NEW h \in DOMAIN chain, P(h) PROVE Placed(t, PlaceOf(t, chain), chain)
  <2>1. h \in 1..Len(chain) /\ h # 0 /\ h <= Len(chain)
      BY BlockIs
  <2> QED BY <1>3, <1>4, <2>1 DEF Placed, OnChain, Hash
<1>5. ASSUME NEW b, Placed(t, b, chain) PROVE t \in TxsIn(chain) /\ b = PlaceOf(t, chain)
  <2>1. b[1] \in DOMAIN chain /\ P(b[1]) /\ b[1] # 0 /\ b = Hash(chain, b[1])
      BY <1>5, BlockIs DEF Placed, OnChain
  <2> QED BY <1>3, <2>1, TxsInIs DEF Hash
<1> QED BY <1>4, <1>5, TxsInIs

LEMMA PrefixTxs ==
    ASSUME NEW chain \in Seq(Block), NEW h \in 0..Len(chain), NEW t
    PROVE  t \in TxsIn(SubSeq(chain, 1, h)) <=> \E g \in 1..h : t \in chain[g].txs
<1> DEFINE c == SubSeq(chain, 1, h)
<1>1. DOMAIN c = 1..h /\ \A g \in 1..h : c[g] = chain[g]
    BY PrefixIs
<1>2. t \in TxsIn(c) <=> \E g \in DOMAIN c : t \in c[g].txs
    BY TxsInIs
<1> HIDE DEF c
<1>3. t \in TxsIn(c) <=> \E g \in 1..h : t \in chain[g].txs
    BY <1>1, <1>2
<1> QED BY <1>3 DEF c

LEMMA ValidPrefix ==
    ASSUME NEW chain \in Seq(Block), Valid(chain), NEW h \in 0..Len(chain)
    PROVE  Valid(SubSeq(chain, 1, h))
<1> DEFINE c == SubSeq(chain, 1, h)
<1>1. DOMAIN c = 1..h /\ \A g \in 1..h : c[g] = chain[g] /\ g \in DOMAIN chain
    BY PrefixIs
<1> HIDE DEF c
<1>2. \A e, g \in DOMAIN c : \A t \in c[e].txs : t \in c[g].txs => e = g
    BY <1>1 DEF Valid
<1>3. ASSUME NEW e \in DOMAIN c, NEW t \in c[e].txs, NEW s \in Spends[t]
      PROVE  \E g \in 1..e : s \in c[g].txs
  <2>1. PICK g \in 1..e : s \in chain[g].txs
      BY <1>1, <1>3 DEF Valid
  <2>2. g \in 1..h
      BY <1>1
  <2> QED BY <1>1, <2>1, <2>2
<1>4. \A e, g \in DOMAIN c : \A t \in c[e].txs, u \in c[g].txs :
         t # u => Spends[t] \cap Spends[u] = {}
    BY <1>1 DEF Valid
<1> QED BY <1>2, <1>3, <1>4 DEF Valid, c

LEMMA ValidAppend ==
    ASSUME NEW chain \in Seq(Block), Valid(chain), NEW b \in Block, Fits(b.txs, chain)
    PROVE  Valid(Append(chain, b))
<1> DEFINE c == Append(chain, b)
           n == Len(chain) + 1
<1>1. /\ DOMAIN c = 1..n /\ n \in Nat /\ n \in 1..n /\ c[n] = b
      /\ DOMAIN chain = 1..(n - 1) /\ \A g \in 1..(n - 1) : c[g] = chain[g] /\ g \in 1..n
      /\ \A g \in 1..n : g = n \/ g \in 1..(n - 1)
    OBVIOUS
<1>2. /\ \A g \in DOMAIN chain, t \in b.txs : t \notin chain[g].txs
      /\ \A t \in b.txs : \A s \in Spends[t] : s \in b.txs \/ \E g \in DOMAIN chain : s \in chain[g].txs
      /\ \A t \in b.txs, u \in b.txs : t # u => Spends[t] \cap Spends[u] = {}
      /\ \A t \in b.txs, g \in DOMAIN chain : \A u \in chain[g].txs : t # u => Spends[t] \cap Spends[u] = {}
    BY TxsInIs DEF Fits
<1> HIDE DEF c, n
<1>3. \A e, g \in DOMAIN c : \A t \in c[e].txs : t \in c[g].txs => e = g
    BY <1>1, <1>2 DEF Valid
<1>4. ASSUME NEW e \in DOMAIN c, NEW t \in c[e].txs, NEW s \in Spends[t]
      PROVE  \E g \in 1..e : s \in c[g].txs
  <2>1. CASE e = n
      BY <1>1, <1>2, <1>4, <2>1
  <2>2. CASE e \in 1..(n - 1)
    <3>1. PICK g \in 1..e : s \in chain[g].txs
        BY <1>1, <1>4, <2>2 DEF Valid
    <3>2. g \in 1..(n - 1)
        BY <1>1, <2>2
    <3> QED BY <1>1, <3>1, <3>2
  <2> QED BY <1>1, <2>1, <2>2
<1>5. ASSUME NEW e \in DOMAIN c, NEW g \in DOMAIN c, NEW t \in c[e].txs, NEW u \in c[g].txs, t # u
      PROVE  Spends[t] \cap Spends[u] = {}
  <2>1. CASE e \in 1..(n - 1) /\ g \in 1..(n - 1)
      BY <1>1, <1>5, <2>1 DEF Valid
  <2>2. CASE e = n \/ g = n
      BY <1>1, <1>2, <1>5, <2>2
  <2> QED BY <1>1, <2>1, <2>2
<1> QED BY <1>3, <1>4, <1>5 DEF Valid, c

-----------------------------------------------------------------------------
(* The backend. *)

Lengths ==
    /\ Len(forks) \in 1..MaxForks
    /\ \A i \in DOMAIN forks : Len(forks[i]) \in 1..MaxHeight

\* A hash stands for the chain up to its block, whatever fork it is found on.
ForkNumbers == \A i \in DOMAIN forks : \A h \in DOMAIN forks[i] : forks[i][h].fork <= i
SameHash == \A i, j \in DOMAIN forks : \A h \in 1..Len(forks[i]) :
    h <= Len(forks[j]) /\ forks[i][h].fork = forks[j][h].fork =>
       \A g \in 1..h : forks[i][g] = forks[j][g]

\* What the pool says of a transaction agrees with the current chain.
PoolRight == \A t \in Txs :
    /\ pool[t] = "new" => \A i \in DOMAIN forks : t \notin TxsIn(forks[i])
    /\ t \in TxsIn(Chain) => pool[t] = "out"
    /\ pool[t] = "pending" => \A u \in TxsIn(Chain) : Spends[t] \cap Spends[u] = {}

Chains ==
    /\ BackendTypeOK /\ Lengths /\ ForkNumbers /\ SameHash /\ PoolRight
    /\ \A i \in DOMAIN forks : Valid(forks[i])

\* A transaction no later chain will hold, nor the pool.
Gone(t) == pool[t] = "out" /\ t \notin TxsIn(Chain)

LEMMA ChainsIs ==
    ASSUME Chains
    PROVE  /\ forks \in Seq(Seq(Block)) /\ Len(forks) \in Nat
           /\ DOMAIN forks = 1..Len(forks) /\ Len(forks) \in 1..Len(forks)
           /\ Len(forks) \in 1..MaxForks
           /\ Chain = forks[Len(forks)] /\ Chain \in Seq(Block) /\ Valid(Chain)
           /\ \A i \in 1..Len(forks) :
                 /\ forks[i] \in Seq(Block) /\ Len(forks[i]) \in 1..MaxHeight
                 /\ DOMAIN forks[i] = 1..Len(forks[i]) /\ Valid(forks[i])
           /\ served \in 0..Len(Chain) /\ Len(Chain) \in 1..MaxHeight
           /\ pool \in [Txs -> {"new", "pending", "failed", "out"}]
<1>1. forks \in Seq(Seq(Block))
    BY DEF Chains, BackendTypeOK, Block
<1>2. Len(forks) \in 1..MaxForks /\ MaxForks \in Nat
    BY BackendAssumption DEF Chains, Lengths
<1>3. Len(forks) \in Nat /\ DOMAIN forks = 1..Len(forks) /\ Len(forks) \in 1..Len(forks)
    BY <1>1, <1>2
<1>4. Chain = forks[Len(forks)]
    BY DEF Chain, Last
<1>5. \A i \in 1..Len(forks) : forks[i] \in Seq(Block)
    BY <1>1, <1>3
<1>6. \A i \in 1..Len(forks) : Len(forks[i]) \in 1..MaxHeight /\ Valid(forks[i])
    BY <1>3 DEF Chains, Lengths
<1>7. \A i \in 1..Len(forks) : DOMAIN forks[i] = 1..Len(forks[i])
    BY <1>5
<1>8. Chain \in Seq(Block) /\ Valid(Chain) /\ Len(Chain) \in 1..MaxHeight
    BY <1>3, <1>4, <1>5, <1>6
<1>9. served \in 0..Len(Chain) /\ pool \in [Txs -> {"new", "pending", "failed", "out"}]
    BY DEF Chains, BackendTypeOK
<1> QED BY <1>1, <1>2, <1>3, <1>4, <1>5, <1>6, <1>7, <1>8, <1>9

\* One hash on two chains: they agree up to there.
LEMMA HashesAgree ==
    ASSUME Chains, NEW i \in DOMAIN forks, NEW j \in DOMAIN forks, NEW b, b[1] \in Nat,
           OnChain(b, forks[i]), OnChain(b, forks[j])
    PROVE  /\ b[1] <= Len(forks[i]) /\ b[1] <= Len(forks[j])
           /\ \A g \in 1..b[1] : forks[i][g] = forks[j][g]
           /\ SubSeq(forks[i], 1, b[1]) = SubSeq(forks[j], 1, b[1])
<1>1. /\ forks[i] \in Seq(Block) /\ forks[j] \in Seq(Block)
      /\ b[1] <= Len(forks[i]) /\ b[1] <= Len(forks[j])
    BY ChainsIs DEF OnChain
<1>2. \A g \in 1..b[1] : forks[i][g] = forks[j][g]
  <2>1. CASE b[1] = 0
      BY <2>1
  <2>2. CASE b[1] # 0
    <3>1. b = <<b[1], forks[i][b[1]].fork>> /\ b = <<b[1], forks[j][b[1]].fork>>
        BY <2>2 DEF OnChain, Hash
    <3>2. forks[i][b[1]].fork = forks[j][b[1]].fork
        BY <3>1
    <3>3. b[1] \in 1..Len(forks[i])
        BY <1>1, <2>2
    <3>4. SameHash
        BY DEF Chains
    <3> QED BY <1>1, <3>2, <3>3, <3>4 DEF SameHash
  <2> QED BY <2>1, <2>2
<1> QED BY <1>1, <1>2, SamePrefix

\* What the backend does to the chains: they grow at the end, and the current one is
\* continued or cut.
Grown ==
    /\ DOMAIN forks \subseteq DOMAIN forks'
    /\ \A i \in DOMAIN forks :
          /\ Len(forks[i]) <= Len(forks'[i])
          /\ \A g \in 1..Len(forks[i]) : forks'[i][g] = forks[i][g]
Continued ==
    /\ \A g \in 1..Len(Chain) : g <= Len(Chain)' => Chain'[g] = Chain[g]
    /\ \A i \in DOMAIN forks : \A b : b[1] \in Nat /\ OnChain(b, forks[i]) /\ OnChain(b, Chain')
          => OnChain(b, Chain)
PoolMoves == \A t \in Txs :
    /\ pool[t] = "failed" => pool'[t] = "failed"
    /\ pool'[t] = "new" => pool[t] = "new"
    /\ Gone(t) => Gone(t)'

LEMMA MintChains ==
    ASSUME Chains, NEW S \in SUBSET Txs, Len(Chain) < MaxHeight, Fits(S, Chain),
           forks' = [forks EXCEPT ![Len(forks)] = Append(@, [fork |-> Len(forks), txs |-> S])]
    PROVE  /\ forks' \in Seq(Seq(Block)) /\ Lengths' /\ ForkNumbers' /\ SameHash'
           /\ \A i \in DOMAIN forks' : Valid(forks'[i])
           /\ Grown /\ Continued /\ Chain' = Append(Chain, [fork |-> Len(forks), txs |-> S])
           /\ DOMAIN forks' = DOMAIN forks
           /\ \A i \in DOMAIN forks : i # Len(forks) => forks'[i] = forks[i]
<1> DEFINE n == Len(forks)
           b == [fork |-> n, txs |-> S]
           c == Append(Chain, b)
           l == Len(Chain)
<1>1. /\ forks \in Seq(Seq(Block)) /\ n \in Nat /\ DOMAIN forks = 1..n /\ n \in 1..n /\ n \in 1..MaxForks
      /\ Chain = forks[n] /\ Chain \in Seq(Block) /\ l \in 1..MaxHeight /\ Valid(Chain)
      /\ \A i \in 1..n : /\ forks[i] \in Seq(Block) /\ Len(forks[i]) \in 1..MaxHeight
                         /\ DOMAIN forks[i] = 1..Len(forks[i]) /\ Valid(forks[i])
    BY ChainsIs
<1>2. b \in Block /\ b.fork = n /\ b.txs = S
    BY <1>1 DEF Block
<1>3. /\ c \in Seq(Block) /\ Len(c) = l + 1 /\ DOMAIN c = 1..(l + 1) /\ c[l + 1] = b
      /\ \A g \in 1..l : c[g] = Chain[g]
    BY <1>1, <1>2, AppendProperties
<1>4. Valid(c)
    BY <1>1, <1>2, ValidAppend
<1>5. /\ forks' \in Seq(Seq(Block)) /\ Len(forks') = n /\ DOMAIN forks' = 1..n
      /\ forks'[n] = c /\ \A i \in 1..n : i # n => forks'[i] = forks[i]
  <2>1. forks' = [forks EXCEPT ![n] = c]
      BY <1>1
  <2>2. /\ forks \in Seq(Seq(Block)) /\ n \in 1..Len(forks) /\ DOMAIN forks = 1..n /\ n = Len(forks)
        /\ c \in Seq(Block)
      BY <1>1, <1>3
  <2> HIDE DEF c, n
  <2>3. /\ forks' \in Seq(Seq(Block)) /\ Len(forks') = Len(forks) /\ DOMAIN forks' = DOMAIN forks
        /\ forks'[n] = c /\ \A i \in DOMAIN forks : i # n => forks'[i] = forks[i]
      BY <2>1, <2>2, ExceptSeq
  <2> QED BY <2>2, <2>3
<1>6. Chain' = c
    BY <1>5 DEF Chain, Last
<1> HIDE DEF n, b, c, l
<1>0. \A i, j \in DOMAIN forks : \A h \in 1..Len(forks[i]) :
         h <= Len(forks[j]) /\ forks[i][h].fork = forks[j][h].fork =>
            \A g \in 1..h : forks[i][g] = forks[j][g]
    BY DEF Chains, SameHash
<1>7. l + 1 \in 1..MaxHeight
    BY <1>1, BackendAssumption DEF l
<1>8. Lengths'
    BY <1>1, <1>3, <1>5, <1>7 DEF Lengths
<1>9. \A i \in DOMAIN forks' : Valid(forks'[i])
    BY <1>1, <1>4, <1>5
<1>10. ASSUME NEW i \in 1..n, NEW h \in 1..Len(forks'[i])
       PROVE  \/ i = n /\ h = l + 1 /\ forks'[i][h].fork = n
              \/ h \in 1..Len(forks[i]) /\ \A g \in 1..h : forks'[i][g] = forks[i][g]
  <2>1. CASE i = n /\ h = l + 1
      BY <1>2, <1>3, <1>5, <2>1
  <2>2. CASE i = n /\ h # l + 1
    <3>1. h \in 1..l /\ \A g \in 1..h : g \in 1..l
        BY <1>1, <1>3, <1>5, <2>2 DEF l
    <3> QED BY <1>1, <1>3, <1>5, <2>2, <3>1 DEF l
  <2>3. CASE i # n
      BY <1>1, <1>5, <2>3
  <2> QED BY <2>1, <2>2, <2>3
<1>11. \A i \in 1..n : \A h \in 1..Len(forks[i]) : forks[i][h].fork <= i
    BY <1>1 DEF Chains, ForkNumbers
<1>12. ForkNumbers'
  <2>1. ASSUME NEW i \in 1..n, NEW h \in 1..Len(forks'[i]) PROVE forks'[i][h].fork <= i
    <3>1. CASE i = n /\ h = l + 1 /\ forks'[i][h].fork = n
        BY <1>1, <3>1
    <3>2. CASE h \in 1..Len(forks[i]) /\ \A g \in 1..h : forks'[i][g] = forks[i][g]
        BY <1>11, <3>2
    <3> QED BY <1>10, <3>1, <3>2
  <2>2. \A i \in 1..n : DOMAIN forks'[i] = 1..Len(forks'[i])
      BY <1>1, <1>3, <1>5
  <2> QED BY <1>5, <2>1, <2>2 DEF ForkNumbers
<1>13. ASSUME NEW i \in 1..n, NEW j \in 1..n, NEW h \in 1..Len(forks'[i]), h <= Len(forks'[j]),
              forks'[i][h].fork = forks'[j][h].fork, NEW g \in 1..h
       PROVE  forks'[i][g] = forks'[j][g]
  <2>1. Len(forks'[j]) \in Nat /\ h \in 1..Len(forks'[j])
      BY <1>1, <1>3, <1>5, <1>13
  <2>2. CASE i = n /\ h = l + 1
    <3>1. CASE j = n
        BY <2>2, <3>1
    <3>2. CASE j # n
      <4>1. h \in 1..Len(forks[j]) /\ forks[j][h].fork = n
          BY <1>10, <1>13, <2>1, <2>2, <3>2, <1>2, <1>3, <1>5
      <4>2. n <= j
          BY <1>11, <4>1
      <4> QED BY <1>1, <3>2, <4>2
    <3> QED BY <3>1, <3>2
  <2>3. CASE j = n /\ h = l + 1 /\ i # n
    <3>1. h \in 1..Len(forks[i]) /\ forks[i][h].fork = n
        BY <1>10, <1>13, <2>1, <2>3, <1>2, <1>3, <1>5
    <3>2. n <= i
        BY <1>11, <3>1
    <3> QED BY <1>1, <2>3, <3>2
  <2>4. CASE ~(i = n /\ h = l + 1) /\ ~(j = n /\ h = l + 1)
    <3>1. h \in 1..Len(forks[i]) /\ \A e \in 1..h : forks'[i][e] = forks[i][e]
        BY <1>10, <2>4
    <3>2. h \in 1..Len(forks[j]) /\ \A e \in 1..h : forks'[j][e] = forks[j][e]
        BY <1>10, <2>1, <2>4
    <3>3. forks'[i][h] = forks[i][h] /\ forks'[j][h] = forks[j][h]
        BY <3>1, <3>2
    <3>4. h <= Len(forks[j]) /\ forks[i][h].fork = forks[j][h].fork
        BY <1>13, <3>2, <3>3
    <3>5. forks[i][g] = forks[j][g]
      <4>1. i \in DOMAIN forks /\ j \in DOMAIN forks
          BY <1>1
      <4>2. h \in 1..Len(forks[i]) /\ h <= Len(forks[j]) /\ forks[i][h].fork = forks[j][h].fork
          BY <3>1, <3>4
      <4> QED BY <1>0, <4>1, <4>2, <1>13
    <3> QED BY <3>1, <3>2, <3>5
  <2> QED BY <2>2, <2>3, <2>4
<1>14. SameHash'
  <2>1. DOMAIN forks' = 1..n
      BY <1>5
  <2>2. ASSUME NEW i \in DOMAIN forks', NEW j \in DOMAIN forks', NEW h \in 1..Len(forks'[i])
        PROVE  h <= Len(forks'[j]) /\ forks'[i][h].fork = forks'[j][h].fork =>
                  \A g \in 1..h : forks'[i][g] = forks'[j][g]
    <3>1. i \in 1..n /\ j \in 1..n
        BY <2>1
    <3> QED BY <1>13, <3>1
  <2> QED BY <2>2 DEF SameHash
<1>15. Grown
    BY <1>1, <1>3, <1>5 DEF Grown, l
<1>16. Continued
  <2>1. \A g \in 1..Len(Chain) : g <= Len(Chain)' => Chain'[g] = Chain[g]
      BY <1>3, <1>6 DEF l
  <2>2. ASSUME NEW i \in DOMAIN forks, NEW e, e[1] \in Nat, OnChain(e, forks[i]), OnChain(e, Chain')
        PROVE  OnChain(e, Chain)
    <3>1. CASE e[1] <= l
        BY <1>1, <1>3, <1>6, <2>2, <3>1 DEF OnChain, Hash, l
    <3>2. CASE ~(e[1] <= l)
      <4>1. e[1] = l + 1 /\ e = <<e[1], n>>
        <5>1. e[1] <= l + 1 /\ e = Hash(c, e[1])
            BY <1>3, <1>6, <2>2 DEF OnChain
        <5>2. e[1] = l + 1 /\ e[1] # 0
            BY <1>1, <2>2, <3>2, <5>1 DEF l
        <5>3. c[e[1]].fork = n
            BY <1>2, <1>3, <5>2
        <5> QED BY <5>1, <5>2, <5>3 DEF Hash
      <4>2. e[1] \in 1..Len(forks[i]) /\ e = <<e[1], forks[i][e[1]].fork>>
          BY <1>1, <2>2, <4>1 DEF OnChain, Hash, l
      <4>3. n <= i
          BY <1>1, <1>11, <4>1, <4>2
      <4>4. i = n
          BY <1>1, <4>3
      <4> QED BY <1>1, <2>2, <4>4
    <3> QED BY <3>1, <3>2
  <2> QED BY <2>1, <2>2 DEF Continued
<1> QED BY <1>1, <1>5, <1>6, <1>8, <1>9, <1>12, <1>14, <1>15, <1>16 DEF n, b, c

LEMMA ReorgChains ==
    ASSUME Chains, NEW h0 \in 1..(Len(Chain) - 1), Len(forks) < MaxForks,
           forks' = Append(forks, SubSeq(Chain, 1, h0))
    PROVE  /\ forks' \in Seq(Seq(Block)) /\ Lengths' /\ ForkNumbers' /\ SameHash'
           /\ \A i \in DOMAIN forks' : Valid(forks'[i])
           /\ Grown /\ Continued /\ Chain' = SubSeq(Chain, 1, h0)
           /\ \A i \in DOMAIN forks' : \E j \in DOMAIN forks : \A t : t \in TxsIn(forks'[i]) => t \in TxsIn(forks[j])
<1> DEFINE n == Len(forks)
           c == SubSeq(Chain, 1, h0)
<1>1. /\ forks \in Seq(Seq(Block)) /\ n \in Nat /\ DOMAIN forks = 1..n /\ n \in 1..n /\ n \in 1..MaxForks
      /\ Chain = forks[n] /\ Chain \in Seq(Block) /\ Len(Chain) \in 1..MaxHeight /\ Valid(Chain)
      /\ \A i \in 1..n : /\ forks[i] \in Seq(Block) /\ Len(forks[i]) \in 1..MaxHeight
                         /\ DOMAIN forks[i] = 1..Len(forks[i]) /\ Valid(forks[i])
    BY ChainsIs
<1>2. h0 \in 0..Len(Chain) /\ h0 \in 1..MaxHeight /\ h0 \in Nat
    BY <1>1, BackendAssumption
<1>3. /\ c \in Seq(Block) /\ Len(c) = h0 /\ DOMAIN c = 1..h0
      /\ \A g \in 1..h0 : c[g] = Chain[g]
    BY <1>1, <1>2, PrefixIs
<1>4. Valid(c)
    BY <1>1, <1>2, ValidPrefix
<1>5. /\ forks' \in Seq(Seq(Block)) /\ Len(forks') = n + 1 /\ DOMAIN forks' = 1..(n + 1)
      /\ forks'[n + 1] = c /\ \A i \in 1..n : forks'[i] = forks[i]
  <2>1. forks' = Append(forks, c)
      OBVIOUS
  <2> HIDE DEF c
  <2>2. /\ Append(forks, c) \in Seq(Seq(Block)) /\ Len(Append(forks, c)) = n + 1
        /\ \A i \in 1..n : Append(forks, c)[i] = forks[i]
        /\ Append(forks, c)[n + 1] = c
      BY <1>1, <1>3, AppendProperties
  <2>3. DOMAIN forks' = 1..(n + 1)
      BY <2>1, <2>2
  <2> QED BY <2>1, <2>2, <2>3
<1>6. Chain' = c
    BY <1>5 DEF Chain, Last
<1>7. n + 1 \in 1..MaxForks
    BY <1>1, BackendAssumption
<1> HIDE DEF n, c
<1>8. \A i \in 1..(n + 1) : i \in 1..n \/ i = n + 1
    BY <1>1
<1>9. Lengths'
  <2>1. \A i \in 1..(n + 1) : Len(forks'[i]) \in 1..MaxHeight
      BY <1>1, <1>2, <1>3, <1>5, <1>8
  <2> QED BY <1>5, <1>7, <2>1 DEF Lengths
<1>10. \A i \in DOMAIN forks' : Valid(forks'[i])
    BY <1>1, <1>4, <1>5, <1>8
<1> DEFINE o == [i \in 1..(n + 1) |-> IF i = n + 1 THEN n ELSE i]
<1>11. ASSUME NEW i \in 1..(n + 1)
       PROVE  /\ o[i] \in 1..n /\ o[i] <= i /\ Len(forks'[i]) \in Nat
              /\ Len(forks'[i]) <= Len(forks[o[i]]) /\ DOMAIN forks'[i] = 1..Len(forks'[i])
              /\ \A g \in 1..Len(forks'[i]) : g \in 1..Len(forks[o[i]]) /\ forks'[i][g] = forks[o[i]][g]
  <2>1. CASE i = n + 1
      BY <1>1, <1>2, <1>3, <1>5, <2>1
  <2>2. CASE i \in 1..n
      BY <1>1, <1>5, <2>2
  <2> QED BY <1>8, <2>1, <2>2
<1>12. /\ \A i \in 1..n : \A h \in 1..Len(forks[i]) : forks[i][h].fork <= i /\ forks[i][h].fork \in Nat
       /\ \A i, j \in DOMAIN forks : \A h \in 1..Len(forks[i]) :
             h <= Len(forks[j]) /\ forks[i][h].fork = forks[j][h].fork =>
                \A g \in 1..h : forks[i][g] = forks[j][g]
  <2>1. ASSUME NEW i \in 1..n, NEW h \in 1..Len(forks[i])
        PROVE  forks[i][h].fork <= i /\ forks[i][h].fork \in Nat
    <3>1. forks[i][h].fork \in Nat
        BY <1>1, BlockIs
    <3> QED BY <1>1, <3>1 DEF Chains, ForkNumbers
  <2> QED BY <2>1 DEF Chains, SameHash
<1> HIDE DEF o
<1>13. ForkNumbers'
  <2>1. ASSUME NEW i \in 1..(n + 1), NEW h \in 1..Len(forks'[i]) PROVE forks'[i][h].fork <= i
    <3>1. forks'[i][h].fork <= o[i] /\ forks'[i][h].fork \in Nat
        BY <1>11, <1>12
    <3>2. o[i] \in Nat /\ o[i] <= i /\ i \in Nat
        BY <1>1, <1>11
    <3> QED BY <1>1, <3>1, <3>2
  <2> QED BY <1>5, <1>11, <2>1 DEF ForkNumbers
<1>14. ASSUME NEW i \in 1..(n + 1), NEW j \in 1..(n + 1), NEW h \in 1..Len(forks'[i]),
              h <= Len(forks'[j]), forks'[i][h].fork = forks'[j][h].fork, NEW g \in 1..h
       PROVE  forks'[i][g] = forks'[j][g]
  <2>1. /\ h \in 1..Len(forks'[j]) /\ g \in 1..Len(forks'[i]) /\ g \in 1..Len(forks'[j])
    <3> DEFINE a == Len(forks'[i])
               b == Len(forks'[j])
    <3>1. a \in Nat /\ b \in Nat
        BY <1>11
    <3>2. h \in 1..a /\ h <= b /\ g \in 1..h
        BY <1>14
    <3> HIDE DEF a, b
    <3>3. h \in 1..b /\ g \in 1..a /\ g \in 1..b
        BY <3>1, <3>2
    <3> QED BY <3>3 DEF a, b
  <2>2. /\ o[i] \in DOMAIN forks /\ o[j] \in DOMAIN forks
        /\ h \in 1..Len(forks[o[i]]) /\ h <= Len(forks[o[j]])
        /\ forks[o[i]][h].fork = forks[o[j]][h].fork
    <3>1. /\ o[i] \in DOMAIN forks /\ o[j] \in DOMAIN forks
        BY <1>1, <1>11
    <3>2. /\ h \in 1..Len(forks[o[i]]) /\ forks'[i][h] = forks[o[i]][h]
          /\ h \in 1..Len(forks[o[j]]) /\ forks'[j][h] = forks[o[j]][h]
        BY <1>1, <1>11, <2>1
    <3>3. Len(forks[o[j]]) \in Nat /\ h <= Len(forks[o[j]])
        BY <1>1, <3>1, <3>2
    <3> QED BY <1>14, <3>1, <3>2, <3>3
  <2>3. forks[o[i]][g] = forks[o[j]][g]
      BY <1>12, <2>2
  <2> QED BY <1>11, <2>1, <2>3
<1>15. SameHash'
  <2>1. DOMAIN forks' = 1..(n + 1)
      BY <1>5
  <2>2. ASSUME NEW i \in DOMAIN forks', NEW j \in DOMAIN forks', NEW h \in 1..Len(forks'[i])
        PROVE  h <= Len(forks'[j]) /\ forks'[i][h].fork = forks'[j][h].fork =>
                  \A g \in 1..h : forks'[i][g] = forks'[j][g]
    <3>1. i \in 1..(n + 1) /\ j \in 1..(n + 1)
        BY <2>1
    <3> QED BY <1>14, <3>1
  <2> QED BY <2>2 DEF SameHash
<1>16. Grown
    BY <1>1, <1>5 DEF Grown
<1>17. Continued
  <2>1. \A g \in 1..Len(Chain) : g <= Len(Chain)' => Chain'[g] = Chain[g]
      BY <1>1, <1>3, <1>6
  <2>2. ASSUME NEW e, e[1] \in Nat, OnChain(e, Chain') PROVE OnChain(e, Chain)
      BY <1>1, <1>2, <1>3, <1>6, <2>2 DEF OnChain, Hash
  <2> QED BY <2>1, <2>2 DEF Continued
<1>18. ASSUME NEW i \in DOMAIN forks'
       PROVE  \E j \in DOMAIN forks : \A t : t \in TxsIn(forks'[i]) => t \in TxsIn(forks[j])
  <2>1. ASSUME NEW t, t \in TxsIn(forks'[i]) PROVE t \in TxsIn(forks[o[i]])
    <3>i. i \in 1..(n + 1)
        BY <1>5
    <3>1. PICK h \in DOMAIN forks'[i] : t \in forks'[i][h].txs
        BY <2>1, TxsInIs
    <3>h. h \in 1..Len(forks'[i]) /\ o[i] \in 1..n
        BY <1>11, <3>i
    <3>2. h \in DOMAIN forks[o[i]] /\ t \in forks[o[i]][h].txs
        BY <1>1, <1>11, <3>i, <3>1, <3>h
    <3> QED BY <3>2, TxsInIs
  <2> QED BY <1>1, <1>5, <1>11, <2>1
<1> QED BY <1>5, <1>6, <1>9, <1>10, <1>13, <1>15, <1>16, <1>17, <1>18 DEF c

\* What else a step of the backend leaves as it needs to be.
ServedKept == \A h \in Nat : h <= served /\ h <= Len(Chain') => h <= served'
BackendStep ==
    /\ Chains' /\ Grown /\ Continued /\ PoolMoves
    /\ served' = 0 => served = 0

LEMMA MintKeeps ==
    ASSUME Chains, Mint
    PROVE  BackendStep /\ ServedKept
<1>1. PICK S \in SUBSET {t \in Txs : pool[t] \in {"new", "pending"}} :
         /\ Len(Chain) < MaxHeight /\ Fits(S, Chain)
         /\ forks' = [forks EXCEPT ![Len(forks)] = Append(@, [fork |-> Len(forks), txs |-> S])]
         /\ pool' = [t \in Txs |-> IF t \in S THEN "out" ELSE IF t \in Spoilt(S) THEN "failed" ELSE pool[t]]
         /\ UNCHANGED served
    BY DEF Mint
<1> DEFINE n == Len(forks)
           b == [fork |-> n, txs |-> S]
<1>2. S \in SUBSET Txs
    OBVIOUS
<1>3. /\ forks' \in Seq(Seq(Block)) /\ Lengths' /\ ForkNumbers' /\ SameHash'
      /\ \A i \in DOMAIN forks' : Valid(forks'[i])
      /\ Grown /\ Continued /\ Chain' = Append(Chain, b)
      /\ DOMAIN forks' = DOMAIN forks
      /\ \A i \in DOMAIN forks : i # n => forks'[i] = forks[i]
    BY <1>1, <1>2, MintChains
<1>4. /\ n \in Nat /\ n \in 1..MaxForks /\ DOMAIN forks = 1..n /\ n \in DOMAIN forks
      /\ Chain = forks[n] /\ Chain \in Seq(Block) /\ Len(Chain) \in Nat /\ DOMAIN Chain = 1..Len(Chain)
      /\ served \in 0..Len(Chain)
      /\ pool \in [Txs -> {"new", "pending", "failed", "out"}]
    BY ChainsIs, BackendAssumption
<1>5. b \in Block /\ b.txs = S
    BY <1>2, <1>4 DEF Block
<1> HIDE DEF n, b
<1>6. /\ Len(Chain') = Len(Chain) + 1 /\ DOMAIN Chain' = 1..(Len(Chain) + 1)
      /\ Chain'[Len(Chain) + 1] = b /\ \A g \in 1..Len(Chain) : Chain'[g] = Chain[g]
    BY <1>3, <1>4, <1>5, AppendProperties
<1>7. \A t : t \in TxsIn(Chain') <=> t \in TxsIn(Chain) \/ t \in S
  <2>1. ASSUME NEW t, t \in TxsIn(Chain') PROVE t \in TxsIn(Chain) \/ t \in S
      BY <1>4, <1>5, <1>6, <2>1, TxsInIs
  <2>2. ASSUME NEW t, t \in TxsIn(Chain) PROVE t \in TxsIn(Chain')
    <3>1. PICK g \in 1..Len(Chain) : t \in Chain[g].txs
        BY <1>4, <2>2, TxsInIs
    <3>2. g \in 1..(Len(Chain) + 1) /\ t \in Chain'[g].txs
        BY <1>4, <1>6, <3>1
    <3> QED BY <1>6, <3>2, TxsInIs
  <2>3. ASSUME NEW t \in S PROVE t \in TxsIn(Chain')
    <3>1. Len(Chain) + 1 \in DOMAIN Chain' /\ t \in Chain'[Len(Chain) + 1].txs
        BY <1>4, <1>5, <1>6
    <3> QED BY <3>1, TxsInIs
  <2> QED BY <2>1, <2>2, <2>3
<1>8. Chain' = forks'[n]
    BY <1>3, <1>4 DEF Chain, Last, Lengths, n
<1>9. PoolRight
    BY DEF Chains
<1>10. \A t \in Txs : t \in S => pool[t] \in {"new", "pending"}
    OBVIOUS
<1>11. PoolRight'
  <2>1. ASSUME NEW t \in Txs, pool'[t] = "new", NEW i \in DOMAIN forks' PROVE t \notin TxsIn(forks'[i])
    <3>1. pool[t] = "new" /\ t \notin S
        BY <1>1, <2>1
    <3>2. t \notin TxsIn(Chain) /\ t \notin TxsIn(forks[i])
        BY <1>3, <1>4, <1>9, <3>1 DEF PoolRight
    <3> QED BY <1>3, <1>7, <1>8, <3>1, <3>2
  <2>2. ASSUME NEW t \in Txs, t \in TxsIn(Chain') PROVE pool'[t] = "out"
    <3>1. CASE t \in S
        BY <1>1, <3>1
    <3>2. CASE t \notin S
      <4>1. pool[t] = "out"
          BY <1>7, <1>9, <2>2, <3>2 DEF PoolRight
      <4> QED BY <1>1, <3>2, <4>1 DEF Spoilt
    <3> QED BY <3>1, <3>2
  <2>3. ASSUME NEW t \in Txs, pool'[t] = "pending", NEW u \in TxsIn(Chain')
        PROVE  Spends[t] \cap Spends[u] = {}
    <3>1. t \notin S /\ t \notin Spoilt(S) /\ pool[t] = "pending"
        BY <1>1, <2>3
    <3>2. CASE u \in S
        BY <3>1, <3>2 DEF Spoilt
    <3>3. CASE u \in TxsIn(Chain)
        BY <1>9, <3>1, <3>3 DEF PoolRight
    <3> QED BY <1>7, <3>2, <3>3
  <2> QED BY <2>1, <2>2, <2>3 DEF PoolRight
<1>12. BackendTypeOK'
  <2>1. forks' \in Seq(Seq([fork : 1..MaxForks, txs : SUBSET Txs]))
      BY <1>3 DEF Block
  <2>2. served' \in 0..Len(Chain')
      BY <1>1, <1>4, <1>6
  <2>3. pool' \in [Txs -> {"new", "pending", "failed", "out"}]
      BY <1>1, <1>4
  <2> QED BY <2>1, <2>2, <2>3 DEF BackendTypeOK
<1>13. PoolMoves
  <2>1. \A t \in Txs : /\ pool[t] = "failed" => pool'[t] = "failed"
                       /\ pool'[t] = "new" => pool[t] = "new"
      BY <1>1 DEF Spoilt
  <2>2. ASSUME NEW t \in Txs, Gone(t) PROVE Gone(t)'
    <3>1. t \notin S /\ t \notin Spoilt(S) /\ pool[t] = "out" /\ t \notin TxsIn(Chain)
        BY <2>2 DEF Gone, Spoilt
    <3> QED BY <1>1, <1>7, <3>1 DEF Gone
  <2> QED BY <2>1, <2>2 DEF PoolMoves
<1>14. ServedKept /\ served' = served
    BY <1>1 DEF ServedKept
<1> QED BY <1>3, <1>11, <1>12, <1>13, <1>14 DEF BackendStep, Chains

LEMMA ReorgKeeps ==
    ASSUME Chains, Reorg
    PROVE  BackendStep /\ ServedKept
<1>1. PICK h \in 1..(Len(Chain) - 1), lost \in SUBSET Txs :
         /\ Len(forks) < MaxForks
         /\ forks' = Append(forks, SubSeq(Chain, 1, h))
         /\ pool' = [t \in Txs |-> IF t \in (TxsIn(Chain) \ TxsIn(SubSeq(Chain, 1, h))) \ lost
                                   THEN "pending" ELSE pool[t]]
         /\ served' = IF served > h THEN h ELSE served
    BY DEF Reorg
<1> DEFINE kept == SubSeq(Chain, 1, h)
<1>2. /\ forks' \in Seq(Seq(Block)) /\ Lengths' /\ ForkNumbers' /\ SameHash'
      /\ \A i \in DOMAIN forks' : Valid(forks'[i])
      /\ Grown /\ Continued /\ Chain' = kept
      /\ \A i \in DOMAIN forks' : \E j \in DOMAIN forks : \A t : t \in TxsIn(forks'[i]) => t \in TxsIn(forks[j])
    BY <1>1, ReorgChains
<1>3. /\ Chain \in Seq(Block) /\ Len(Chain) \in Nat /\ DOMAIN Chain = 1..Len(Chain) /\ Valid(Chain)
      /\ served \in 0..Len(Chain)
      /\ pool \in [Txs -> {"new", "pending", "failed", "out"}]
    BY ChainsIs, BackendAssumption
<1>4. h \in 0..Len(Chain) /\ h \in Nat /\ h # 0
    BY <1>3
<1>5. Len(kept) = h /\ \A t : t \in TxsIn(kept) => t \in TxsIn(Chain)
  <2>1. Len(kept) = h
      BY <1>3, <1>4, PrefixIs
  <2>2. ASSUME NEW t, t \in TxsIn(kept) PROVE t \in TxsIn(Chain)
    <3>1. PICK g \in 1..h : t \in Chain[g].txs
        BY <1>3, <1>4, <2>2, PrefixTxs
    <3>2. g \in DOMAIN Chain
        BY <1>3, <1>4
    <3> QED BY <3>1, <3>2, TxsInIs
  <2> QED BY <2>1, <2>2
<1> HIDE DEF kept
<1>6. pool' = [t \in Txs |-> IF t \in (TxsIn(Chain) \ TxsIn(kept)) \ lost THEN "pending" ELSE pool[t]]
    BY <1>1 DEF kept
<1>7. PoolRight
    BY DEF Chains
<1>8. \A t, u \in TxsIn(Chain) : t # u => Spends[t] \cap Spends[u] = {}
    BY <1>3, TxsInIs DEF Valid
<1>9. PoolRight'
  <2>1. ASSUME NEW t \in Txs, pool'[t] = "new", NEW i \in DOMAIN forks' PROVE t \notin TxsIn(forks'[i])
    <3>1. pool[t] = "new"
        BY <1>6, <2>1
    <3> QED BY <1>2, <1>7, <3>1 DEF PoolRight
  <2>2. ASSUME NEW t \in Txs, t \in TxsIn(Chain') PROVE pool'[t] = "out"
    <3>1. t \in TxsIn(kept) /\ t \in TxsIn(Chain)
        BY <1>2, <1>5, <2>2
    <3> QED BY <1>6, <1>7, <3>1 DEF PoolRight
  <2>3. ASSUME NEW t \in Txs, pool'[t] = "pending", NEW u \in TxsIn(Chain')
        PROVE  Spends[t] \cap Spends[u] = {}
    <3>1. u \in TxsIn(kept) /\ u \in TxsIn(Chain)
        BY <1>2, <1>5, <2>3
    <3>2. CASE pool[t] = "pending"
        BY <1>7, <3>1, <3>2 DEF PoolRight
    <3>3. CASE pool[t] # "pending"
      <4>1. t \in TxsIn(Chain) /\ t \notin TxsIn(kept)
          BY <1>6, <2>3, <3>3
      <4> QED BY <1>8, <3>1, <4>1
    <3> QED BY <3>2, <3>3
  <2> QED BY <2>1, <2>2, <2>3 DEF PoolRight
<1>10. served' \in 0..Len(Chain') /\ (served' = 0 => served = 0)
    BY <1>1, <1>2, <1>3, <1>4, <1>5
<1>11. BackendTypeOK'
  <2>1. forks' \in Seq(Seq([fork : 1..MaxForks, txs : SUBSET Txs]))
      BY <1>2 DEF Block
  <2>2. pool' \in [Txs -> {"new", "pending", "failed", "out"}]
      BY <1>3, <1>6
  <2> QED BY <1>10, <2>1, <2>2 DEF BackendTypeOK
<1>12. PoolMoves
  <2>1. ASSUME NEW t \in Txs
        PROVE  /\ pool[t] = "failed" => pool'[t] = "failed"
               /\ pool'[t] = "new" => pool[t] = "new"
      BY <1>6, <1>7 DEF PoolRight
  <2>2. ASSUME NEW t \in Txs, Gone(t) PROVE Gone(t)'
      BY <1>2, <1>5, <1>6, <2>2 DEF Gone
  <2> QED BY <2>1, <2>2 DEF PoolMoves
<1>13. ServedKept
  <2>1. ASSUME NEW g \in Nat, g <= served, g <= Len(Chain') PROVE g <= served'
      BY <1>1, <1>2, <1>3, <1>4, <1>5, <2>1
  <2> QED BY <2>1 DEF ServedKept
<1> QED BY <1>2, <1>9, <1>10, <1>11, <1>12, <1>13 DEF BackendStep, Chains

LEMMA SameForks ==
    ASSUME Chains, UNCHANGED forks, served' \in 0..Len(Chain),
           pool' \in [Txs -> {"new", "pending", "failed", "out"}], PoolMoves, PoolRight',
           served' = 0 => served = 0
    PROVE  BackendStep
<1>1. Chain' = Chain
    BY DEF Chain
<1>2. /\ BackendTypeOK' /\ Lengths' /\ ForkNumbers' /\ SameHash'
      /\ \A i \in DOMAIN forks' : Valid(forks'[i])
  <2>1. BackendTypeOK'
      BY <1>1 DEF Chains, BackendTypeOK
  <2>2. Lengths' /\ ForkNumbers' /\ SameHash'
      BY DEF Chains, Lengths, ForkNumbers, SameHash
  <2>3. \A i \in DOMAIN forks' : Valid(forks'[i])
      BY DEF Chains
  <2> QED BY <2>1, <2>2, <2>3
<1>3. Grown
  <2>1. \A i \in DOMAIN forks : Len(forks[i]) \in Nat
      BY ChainsIs, BackendAssumption
  <2> QED BY <2>1 DEF Grown
<1>4. Continued
    BY <1>1 DEF Continued
<1> QED BY <1>2, <1>3, <1>4 DEF BackendStep, Chains

LEMMA PoolSteps ==
    ASSUME Chains, UNCHANGED forks, NEW t \in Txs, NEW to \in {"pending", "out"},
           pool' = [pool EXCEPT ![t] = to], pool[t] \in {"new", "pending"},
           to = "pending" => Fits({t}, Chain)
    PROVE  PoolMoves /\ PoolRight' /\ pool' \in [Txs -> {"new", "pending", "failed", "out"}]
<1>1. pool \in [Txs -> {"new", "pending", "failed", "out"}] /\ PoolRight
    BY ChainsIs DEF Chains
<1>2. Chain' = Chain
    BY DEF Chain
<1>3. PoolRight'
  <2>1. ASSUME NEW u \in Txs
        PROVE  /\ pool'[u] = "new" => \A i \in DOMAIN forks' : u \notin TxsIn(forks'[i])
               /\ u \in TxsIn(Chain') => pool'[u] = "out"
      BY <1>1, <1>2 DEF PoolRight
  <2>2. ASSUME NEW u \in Txs, pool'[u] = "pending", NEW v \in TxsIn(Chain')
        PROVE  Spends[u] \cap Spends[v] = {}
    <3>1. CASE u = t
      <4>1. Fits({t}, Chain) /\ v \in TxsIn(Chain)
          BY <1>1, <1>2, <2>2, <3>1
      <4>2. t # v
          BY <4>1 DEF Fits
      <4> QED BY <3>1, <4>1, <4>2 DEF Fits
    <3>2. CASE u # t
        BY <1>1, <1>2, <2>2, <3>2 DEF PoolRight
    <3> QED BY <3>1, <3>2
  <2> QED BY <2>1, <2>2 DEF PoolRight
<1>4. PoolMoves
    BY <1>1, <1>2 DEF PoolMoves, Gone
<1> QED BY <1>1, <1>3, <1>4

LEMMA BackendKeeps ==
    ASSUME Chains, BackendNext \/ Lag
    PROVE  BackendStep /\ (BackendNext => ServedKept)
<1>1. /\ served \in 0..Len(Chain) /\ Len(Chain) \in Nat /\ Len(Chain) # 0
      /\ pool \in [Txs -> {"new", "pending", "failed", "out"}]
    BY ChainsIs, BackendAssumption
<1>2. CASE Mint
    BY <1>2, MintKeeps
<1>3. CASE Reorg
    BY <1>3, ReorgKeeps
<1>4. ASSUME UNCHANGED pool, UNCHANGED forks PROVE PoolMoves /\ PoolRight'
  <2>1. UNCHANGED Chain
      BY <1>4 DEF Chain
  <2>2. PoolRight
      BY DEF Chains
  <2>3. PoolRight'
      BY <1>4, <2>1, <2>2 DEF PoolRight
  <2> QED BY <1>4, <2>1, <2>3 DEF PoolMoves, Gone
<1>5. CASE CatchUp
  <2>1. UNCHANGED forks /\ UNCHANGED pool /\ served' = Len(Chain) /\ served' \in 0..Len(Chain) /\ Chain' = Chain
      BY <1>1, <1>5 DEF CatchUp, Chain
  <2>2. BackendStep
      BY <1>1, <1>4, <2>1, SameForks
  <2>3. ServedKept
      BY <2>1 DEF ServedKept
  <2> QED BY <2>2, <2>3
<1>6. ASSUME Lag PROVE BackendStep
  <2>1. UNCHANGED forks /\ UNCHANGED pool /\ served' \in 1..(served - 1)
      BY <1>6 DEF Lag
  <2>2. served' \in 0..Len(Chain) /\ served' # 0
      BY <1>1, <2>1
  <2>3. BackendStep
      BY <1>1, <1>4, <2>1, <2>2, SameForks
  <2> QED BY <2>3
<1>7. ASSUME NEW t \in Txs, Submit(t) \/ Expire(t) PROVE BackendStep /\ ServedKept
  <2>1. UNCHANGED forks /\ UNCHANGED served
      BY <1>7 DEF Submit, Expire
  <2>2. PoolMoves /\ PoolRight' /\ pool' \in [Txs -> {"new", "pending", "failed", "out"}]
      BY <1>7, <2>1, PoolSteps DEF Submit, Expire
  <2>3. ServedKept
      BY <2>1 DEF ServedKept
  <2> QED BY <1>1, <2>1, <2>2, <2>3, SameForks
<1>8. BackendStep
    BY <1>2, <1>3, <1>5, <1>6, <1>7 DEF BackendNext
<1>9. BackendNext => ServedKept
    BY <1>2, <1>3, <1>5, <1>7 DEF BackendNext
<1> QED BY <1>8, <1>9

-----------------------------------------------------------------------------
(* The wallet. *)

RowType == [st : Statuses, block : Blocks, own : BOOLEAN]
Prefix(i, h) == SubSeq(forks[i], 1, h)

\* Before the backend has read a block nothing was synchronised: a best block of null
\* does not wipe out a sync point.
Fresh == served = 0 => InBlock = {} /\ lastSync = NoBlock /\ lock = Nobody

\* SyncPointCovers, with the place of each confirmed row.
Cover == \E i \in DOMAIN forks :
    /\ OnChain(lastSync, forks[i])
    /\ \A t \in InBlock : db[t].block[1] <= lastSync[1] /\ Placed(t, db[t].block, forks[i])

\* An answer to a history request, about the chain up to the best block.
PagePlaced(a, chain) == \A t \in Txs :
    \/ a[t] = Absent
    \/ a[t].st = "IN_BLOCK" /\ Placed(t, a[t].block, chain)
    \/ a[t].st \in {"PENDING", "FAIL_RESPONSE"} /\ a[t].block = NoBlock /\ t \notin TxsIn(chain)

\* What a refresh that runs has seen is of one chain.
SyncSeen ==
    /\ sync = [step |-> sync.step, best |-> sync.best, known |-> sync.known,
               after |-> sync.after, pages |-> sync.pages]
    /\ sync.step = "pages" => sync.after = FirstSuccessTxBefore(Top)
    /\ sync.step = "scan" => sync.pages = <<>>
    /\ sync.step # "none" =>
          /\ sync.best \in Blocks /\ sync.best # NoBlock /\ sync.known \in Nat
          /\ \E i \in DOMAIN forks :
                /\ OnChain(sync.best, forks[i])
                /\ \A c \in DOMAIN sync.pages :
                      PagePlaced(sync.pages[c], Prefix(i, sync.best[1]))

Base == TypeOK /\ Chains /\ Fresh /\ Cover /\ SyncSeen

LEMMA BlocksAre ==
    ASSUME NEW b \in Blocks
    PROVE  b[1] \in 0..MaxHeight /\ b[1] \in Nat /\ b[2] \in Nat
BY BackendAssumption DEF Blocks

LEMMA NoBlockIs == NoBlock \in Blocks /\ NoBlock[1] = 0
BY BackendAssumption DEF Blocks, NoBlock

LEMMA HashIsBlock ==
    ASSUME NEW chain \in Seq(Block), Len(chain) <= MaxHeight, NEW b, b[1] \in Nat, OnChain(b, chain)
    PROVE  b \in Blocks /\ (b[1] = 0 <=> b = NoBlock)
<1>1. CASE b[1] = 0
    BY <1>1, NoBlockIs DEF OnChain, Hash
<1>2. CASE b[1] # 0
  <2>1. b[1] \in 1..Len(chain) /\ b = <<b[1], chain[b[1]].fork>>
      BY <1>2 DEF OnChain, Hash
  <2>2. chain[b[1]].fork \in 1..MaxForks
      BY <2>1, BlockIs
  <2>3. b[1] \in 0..MaxHeight /\ chain[b[1]].fork \in 0..MaxForks
      BY <2>1, <2>2, BackendAssumption
  <2> QED BY <1>2, <2>1, <2>3 DEF Blocks, NoBlock
<1> QED BY <1>1, <1>2

LEMMA PlacedIs ==
    ASSUME NEW chain \in Seq(Block), Len(chain) <= MaxHeight, NEW t, NEW b, Placed(t, b, chain)
    PROVE  b \in Blocks /\ b[1] \in 1..Len(chain) /\ b # NoBlock /\ t \in TxsIn(chain) /\ t \in Txs
<1>1. b[1] \in 1..Len(chain) /\ OnChain(b, chain) /\ t \in chain[b[1]].txs /\ b[1] # 0 /\ b[1] \in Nat
    BY DEF Placed
<1>2. t \in TxsIn(chain) /\ t \in Txs
    BY <1>1, TxsInIs, BlockIs
<1> QED BY <1>1, <1>2, HashIsBlock

LEMMA FirstSuccessIs ==
    ASSUME db \in [Txs -> RowType], NEW h
    PROVE  /\ \/ FirstSuccessTxBefore(h) = 0
              \/ /\ FirstSuccessTxBefore(h) \in InBlock
                 /\ db[FirstSuccessTxBefore(h)].block[1] < h
           /\ \A u \in InBlock : db[u].block[1] < h =>
                 /\ FirstSuccessTxBefore(h) \in InBlock
                 /\ \/ db[u].block[1] < db[FirstSuccessTxBefore(h)].block[1]
                    \/ /\ db[u].block[1] = db[FirstSuccessTxBefore(h)].block[1]
                       /\ u <= FirstSuccessTxBefore(h)
<1> DEFINE S == {t \in InBlock : db[t].block[1] < h}
           f == FirstSuccessTxBefore(h)
<1>1. S = {} => f = 0
    BY DEF FirstSuccessTxBefore
<1>2. ASSUME S # {}
      PROVE  f \in S /\ \A u \in S : \/ db[u].block[1] < db[f].block[1]
                                     \/ db[u].block[1] = db[f].block[1] /\ u <= f
  <2> DEFINE P(t) == \A u \in S : \/ db[u].block[1] < db[t].block[1]
                                  \/ db[u].block[1] = db[t].block[1] /\ u <= t
             g == [t \in Txs |-> db[t].block[1]]
  <2>1. S \in SUBSET Txs /\ \A t \in S : g[t] \in 0..MaxHeight
      BY BlocksAre DEF InBlock, RowType
  <2>2. \E t \in S : \A u \in S : g[u] < g[t] \/ (g[u] = g[t] /\ u <= t)
    <3> HIDE DEF S, g
    <3> QED BY <1>2, <2>1, LexGreatest
  <2>3. \E t \in S : P(t)
      BY <2>1, <2>2
  <2>4. f = CHOOSE t \in S : P(t)
      BY <1>2 DEF FirstSuccessTxBefore
  <2> HIDE DEF P, f, S
  <2>5. f \in S /\ P(f)
      BY <2>3, <2>4
  <2> QED BY <2>5 DEF P
<1>3. \A u \in InBlock : db[u].block[1] < h => u \in S
    OBVIOUS
<1>4. \A u \in S : u \in InBlock /\ db[u].block[1] < h
    OBVIOUS
<1> HIDE DEF S
<1> QED BY <1>1, <1>2, <1>3, <1>4

\* The confirmed rows are on any chain that has the highest of them.
LEMMA HighestCovers ==
    ASSUME TypeOK, Chains, Cover, NEW j \in DOMAIN forks,
           FirstSuccessTxBefore(Top) # 0 => OnChain(BlockOf(FirstSuccessTxBefore(Top)), forks[j])
    PROVE  \A t \in InBlock : /\ FirstSuccessTxBefore(Top) # 0
                              /\ db[t].block[1] <= BlockOf(FirstSuccessTxBefore(Top))[1]
                              /\ Placed(t, db[t].block, forks[j])
<1> DEFINE f == FirstSuccessTxBefore(Top)
<1> SUFFICES ASSUME NEW t \in InBlock
             PROVE  f # 0 /\ db[t].block[1] <= BlockOf(f)[1] /\ Placed(t, db[t].block, forks[j])
    OBVIOUS
<1>1. /\ db \in [Txs -> RowType] /\ InBlock \subseteq Txs
      /\ \A u \in InBlock : db[u].block \in Blocks /\ db[u].block[1] \in Nat /\ db[u].block[1] < Top
  <2>1. db \in [Txs -> RowType]
      BY DEF TypeOK, RowType
  <2>2. ASSUME NEW u \in InBlock
        PROVE  db[u].block \in Blocks /\ db[u].block[1] \in Nat /\ db[u].block[1] < Top
    <3>1. db[u].block \in Blocks
        BY <2>1 DEF InBlock, RowType
    <3> QED BY <3>1, BlocksAre, BackendAssumption DEF Top
  <2> QED BY <2>1, <2>2 DEF InBlock
<1>2. f \in InBlock /\ db[t].block[1] <= db[f].block[1]
  <2>1. f \in InBlock /\ (db[t].block[1] < db[f].block[1] \/ db[t].block[1] = db[f].block[1])
      BY <1>1, FirstSuccessIs
  <2> QED BY <1>1, <2>1
<1> HIDE DEF f
<1>3. f \in Txs /\ f # 0 /\ BlockOf(f) = db[f].block
    BY <1>1, <1>2, TxNumbers DEF BlockOf
<1>4. PICK i \in DOMAIN forks :
         \A u \in InBlock : Placed(u, db[u].block, forks[i])
    BY DEF Cover
<1>5. OnChain(db[f].block, forks[i]) /\ OnChain(db[f].block, forks[j])
    BY <1>2, <1>3, <1>4 DEF Placed, f
<1>6. /\ db[f].block[1] <= Len(forks[i]) /\ db[f].block[1] <= Len(forks[j])
      /\ \A g \in 1..db[f].block[1] : forks[i][g] = forks[j][g]
    BY <1>1, <1>2, <1>5, HashesAgree
<1>7. /\ db[t].block[1] \in 1..Len(forks[i]) /\ OnChain(db[t].block, forks[i])
      /\ t \in forks[i][db[t].block[1]].txs /\ db[t].block[1] # 0
      /\ DOMAIN forks[j] = 1..Len(forks[j]) /\ Len(forks[j]) \in Nat
    BY <1>4, ChainsIs, BackendAssumption DEF Placed
<1>8. db[t].block[1] \in 1..db[f].block[1] /\ db[t].block[1] \in 1..Len(forks[j])
    BY <1>1, <1>2, <1>6, <1>7
<1>9. Placed(t, db[t].block, forks[j])
    BY <1>6, <1>7, <1>8 DEF Placed, OnChain, Hash
<1> QED BY <1>2, <1>3, <1>9 DEF f

LEMMA PlacedPrefix ==
    ASSUME NEW chain \in Seq(Block), NEW h \in 0..Len(chain), NEW t, NEW b, b[1] \in Nat
    PROVE  Placed(t, b, SubSeq(chain, 1, h)) <=> Placed(t, b, chain) /\ b[1] <= h
<1> DEFINE c == SubSeq(chain, 1, h)
<1>1. /\ DOMAIN c = 1..h /\ Len(c) = h /\ \A g \in 1..h : c[g] = chain[g]
      /\ DOMAIN chain = 1..Len(chain) /\ Len(chain) \in Nat
    BY PrefixIs
<1> HIDE DEF c
<1>2. b[1] \in 1..h => b[1] \in 1..Len(chain)
    BY <1>1
<1>3. Placed(t, b, c) <=> Placed(t, b, chain) /\ b[1] <= h
    BY <1>1, <1>2 DEF Placed, OnChain, Hash
<1> QED BY <1>3 DEF c

\* The part of the current chain an accepted answer is about.
LEMMA UntilIs ==
    ASSUME Base, sync.step = "pages", Accepts
    PROVE  /\ Until = SubSeq(Chain, 1, sync.best[1]) /\ Until \in Seq(Block) /\ Valid(Until)
           /\ sync.best[1] \in 1..Len(Chain) /\ Len(Until) = sync.best[1] /\ sync.best[1] <= served
           /\ OnChain(sync.best, Chain) /\ OnChain(sync.best, Served)
           /\ \A c \in DOMAIN sync.pages : PagePlaced(sync.pages[c], Until)
           /\ \A t \in InBlock : Placed(t, db[t].block, Until)
<1> DEFINE h == sync.best[1]
           n == Len(forks)
<1>1. /\ Chain \in Seq(Block) /\ Valid(Chain) /\ Len(Chain) \in 1..MaxHeight /\ served \in 0..Len(Chain)
      /\ MaxHeight \in Nat /\ Chain = forks[n] /\ n \in DOMAIN forks
    BY ChainsIs, BackendAssumption DEF Base
<1>2. sync.best \in Blocks /\ h \in Nat /\ sync.best # NoBlock
    BY BlocksAre DEF Base, SyncSeen
<1>3. /\ Served \in Seq(Block) /\ Len(Served) = served /\ \A g \in 1..served : Served[g] = Chain[g]
      /\ \A k \in 1..served : k \in 1..Len(Chain)
    BY <1>1, PrefixIs DEF Served
<1>4. OnChain(sync.best, Served) /\ h <= served
    BY <1>3 DEF Accepts, OnChain
<1>5. OnChain(sync.best, Chain) /\ h <= Len(Chain)
  <2>1. h \in 0..served
      BY <1>1, <1>2, <1>4
  <2> QED BY <1>1, <1>4, <2>1, OnPrefix DEF Served
<1>6. h # 0
  <2>1. h = 0 => sync.best = NoBlock
      BY <1>4 DEF OnChain, Hash
  <2> QED BY <1>2, <2>1
<1>7. Until = SubSeq(Chain, 1, h)
  <2>1. \A g \in 1..h : Served[g] = Chain[g]
      BY <1>1, <1>2, <1>3, <1>4
  <2> QED BY <1>1, <1>2, <1>3, <1>4, <1>5, <2>1, SamePrefix DEF Until
<1>8. h \in 0..Len(Chain)
    BY <1>1, <1>2, <1>5
<1>9. Until \in Seq(Block) /\ Valid(Until) /\ Len(Until) = h
    BY <1>1, <1>7, <1>8, PrefixIs, ValidPrefix
<1>10. \A c \in DOMAIN sync.pages : PagePlaced(sync.pages[c], Until)
  <2>1. PICK i \in DOMAIN forks :
           /\ OnChain(sync.best, forks[i])
           /\ \A c \in DOMAIN sync.pages : PagePlaced(sync.pages[c], Prefix(i, h))
      BY DEF Base, SyncSeen
  <2>2. Prefix(i, h) = SubSeq(forks[n], 1, h)
      BY <1>1, <1>2, <1>5, <2>1, HashesAgree DEF Base, Prefix
  <2> QED BY <1>1, <1>7, <2>1, <2>2
<1>11. ASSUME NEW t \in InBlock PROVE Placed(t, db[t].block, Until)
  <2> DEFINE f == FirstSuccessTxBefore(Top)
  <2>1. sync.after = f
      BY DEF Base, SyncSeen
  <2>2. f # 0 => OnChain(BlockOf(f), Until)
      BY <2>1 DEF Accepts
  <2>3. db \in [Txs -> RowType]
      BY DEF Base, TypeOK, RowType
  <2>4. \A u \in InBlock : db[u].block \in Blocks /\ db[u].block[1] \in Nat
    <3>1. \A u \in InBlock : db[u].block \in Blocks
        BY <2>3 DEF InBlock, RowType
    <3> QED BY <3>1, BlocksAre
  <2>5. f # 0 => f \in InBlock /\ BlockOf(f) = db[f].block /\ BlockOf(f)[1] \in Nat
    <3>1. f # 0 => f \in InBlock
        BY <2>3, FirstSuccessIs
    <3> QED BY <2>4, <3>1 DEF BlockOf
  <2>6. f # 0 => BlockOf(f)[1] <= h /\ OnChain(BlockOf(f), Chain)
    <3>1. ASSUME f # 0 PROVE BlockOf(f)[1] <= h
        BY <1>9, <2>2, <3>1 DEF OnChain
    <3>2. ASSUME f # 0 PROVE OnChain(BlockOf(f), Chain)
      <4>1. BlockOf(f)[1] \in 0..h
          BY <1>2, <2>5, <3>1, <3>2
      <4> QED BY <1>1, <1>7, <1>8, <2>2, <3>2, <4>1, OnPrefix
    <3> QED BY <3>1, <3>2
  <2>7. f # 0 /\ db[t].block[1] <= BlockOf(f)[1] /\ Placed(t, db[t].block, Chain)
      BY <1>1, <2>6, HighestCovers DEF Base
  <2>8. db[t].block[1] <= h /\ db[t].block[1] \in Nat
      BY <1>2, <2>4, <2>5, <2>6, <2>7
  <2> QED BY <1>1, <1>7, <1>8, <2>7, <2>8, PlacedPrefix
<1>12. h \in 1..Len(Chain)
    BY <1>6, <1>8
<1> QED BY <1>4, <1>5, <1>7, <1>9, <1>10, <1>11, <1>12

\* After the last transaction known.
Beyond(t, b) ==
    \/ b[1] > BlockOf(sync.after)[1]
    \/ b[1] = BlockOf(sync.after)[1] /\ t > sync.after

\* What the backend reports when it accepts the request.

LEMMA ReportedIs ==
    ASSUME Base, sync.step = "pages", Accepts, NEW t \in Txs
    PROVE  /\ t \in TxsIn(Until) =>
                 /\ Placed(t, PlaceOf(t, Until), Until)
                 /\ IF Beyond(t, PlaceOf(t, Until))
                    THEN Reported(t) = [st |-> "IN_BLOCK", block |-> PlaceOf(t, Until)]
                    ELSE Reported(t) = Absent
           /\ t \notin TxsIn(Until) =>
                 \/ t \in Waiting /\ Reported(t) = [st |-> "PENDING", block |-> NoBlock]
                 \/ pool[t] = "failed" /\ Reported(t) = [st |-> "FAIL_RESPONSE", block |-> NoBlock]
                 \/ t \notin Waiting /\ pool[t] # "failed" /\ Reported(t) = Absent
<1>1. Until \in Seq(Block) /\ Valid(Until) /\ Until = SubSeq(Chain, 1, sync.best[1])
      /\ sync.best[1] \in 0..Len(Chain) /\ Chain \in Seq(Block)
    BY UntilIs, ChainsIs DEF Base
<1>2. t \in TxsIn(Until) => pool[t] = "out"
  <2>1. ASSUME t \in TxsIn(Until) PROVE t \in TxsIn(Chain)
    <3>1. PICK g \in 1..sync.best[1] : t \in Chain[g].txs
        BY <1>1, <2>1, PrefixTxs
    <3>2. g \in DOMAIN Chain
        BY <1>1
    <3> QED BY <3>1, <3>2, TxsInIs
  <2> QED BY <2>1 DEF Base, Chains, PoolRight
<1>3. t \in Waiting => pool[t] = "pending"
    BY DEF Waiting
<1>4. t \in TxsIn(Until) => Placed(t, PlaceOf(t, Until), Until)
    BY <1>1, PlaceIs
<1> HIDE DEF Until
<1>5. CASE t \in TxsIn(Until)
  <2>1. t \notin Waiting /\ pool[t] # "failed"
      BY <1>2, <1>3, <1>5
  <2>2. IF Beyond(t, PlaceOf(t, Until))
        THEN Reported(t) = [st |-> "IN_BLOCK", block |-> PlaceOf(t, Until)]
        ELSE Reported(t) = Absent
      BY <1>5, <2>1 DEF Reported, Beyond
  <2> QED BY <1>4, <1>5, <2>2
<1>6. CASE t \notin TxsIn(Until)
  <2>1. t \in Waiting => pool[t] # "failed"
      BY <1>3
  <2> QED BY <1>6, <2>1 DEF Reported
<1> QED BY <1>5, <1>6

LEMMA PageIsPlaced ==
    ASSUME Base, sync.step = "pages", Accepts, NEW c
    PROVE  PagePlaced(PageOf(c), Until)
<1> SUFFICES ASSUME NEW t \in Txs
             PROVE  \/ PageOf(c)[t] = Absent
                    \/ /\ PageOf(c)[t].st = "IN_BLOCK"
                       /\ Placed(t, PageOf(c)[t].block, Until)
                    \/ /\ PageOf(c)[t].st \in {"PENDING", "FAIL_RESPONSE"}
                       /\ PageOf(c)[t].block = NoBlock /\ t \notin TxsIn(Until)
    BY DEF PagePlaced
<1>1. PageOf(c)[t] = Absent \/ PageOf(c)[t] = Reported(t)
    BY DEF PageOf
<1>2. \/ Reported(t) = Absent
      \/ /\ Reported(t) = [st |-> "IN_BLOCK", block |-> PlaceOf(t, Until)]
         /\ Placed(t, PlaceOf(t, Until), Until)
      \/ /\ t \notin TxsIn(Until)
         /\ \/ Reported(t) = [st |-> "PENDING", block |-> NoBlock]
            \/ Reported(t) = [st |-> "FAIL_RESPONSE", block |-> NoBlock]
    BY ReportedIs
<1> QED BY <1>1, <1>2

LEMMA ResponseIs ==
    ASSUME NEW pages, DOMAIN pages \subseteq Nat, NEW t \in Txs
    PROVE  \/ /\ Response(pages)[t] = Absent
              /\ \A c \in DOMAIN pages : pages[c][t].st = "none"
           \/ \E c \in DOMAIN pages : /\ Response(pages)[t] = pages[c][t]
                                      /\ pages[c][t].st # "none"
<1> DEFINE C == {c \in DOMAIN pages : pages[c][t].st # "none"}
           P(c) == \A d \in C : c <= d
<1>1. Response(pages)[t] = IF C = {} THEN Absent ELSE pages[CHOOSE c \in C : P(c)][t]
    BY DEF Response
<1>2. C = {} => \A c \in DOMAIN pages : pages[c][t].st = "none"
    OBVIOUS
<1>3. C \subseteq Nat /\ \A c \in C : c \in DOMAIN pages /\ pages[c][t].st # "none"
    OBVIOUS
<1> HIDE DEF C
<1>4. C # {} => \E c \in C : P(c)
    BY <1>3, LeastOf
<1> HIDE DEF P
<1>5. C # {} => (CHOOSE c \in C : P(c)) \in C
    BY <1>4
<1> QED BY <1>1, <1>2, <1>3, <1>5

LEMMA ChunksAre == ASSUME NEW n \in Nat PROVE Chunks(n) \subseteq Nat
<1>1. (n + Chunk - 1) \div Chunk \in Int
    BY SyncAssumption
<1> QED BY <1>1 DEF Chunks

\* The answers put together are still about one part of one chain.
LEMMA ResponsePlaced ==
    ASSUME NEW pages, DOMAIN pages \subseteq Nat, NEW chain,
           \A c \in DOMAIN pages : PagePlaced(pages[c], chain)
    PROVE  PagePlaced(Response(pages), chain)
<1> SUFFICES ASSUME NEW t \in Txs
             PROVE  \/ Response(pages)[t] = Absent
                    \/ /\ Response(pages)[t].st = "IN_BLOCK"
                       /\ Placed(t, Response(pages)[t].block, chain)
                    \/ /\ Response(pages)[t].st \in {"PENDING", "FAIL_RESPONSE"}
                       /\ Response(pages)[t].block = NoBlock /\ t \notin TxsIn(chain)
    BY DEF PagePlaced
<1>1. CASE Response(pages)[t] = Absent
    BY <1>1
<1>2. CASE \E c \in DOMAIN pages : Response(pages)[t] = pages[c][t]
    BY <1>2 DEF PagePlaced
<1> QED BY <1>1, <1>2, ResponseIs

\* What the refresh writes: the rows it adds to the confirmed ones are on the same part
\* of the same chain.
LEMMA BatchIs ==
    ASSUME Base, sync.step = "pages", Accepts, NEW resp, PagePlaced(resp, Until),
           UpdateTransactionBatch(resp)
    PROVE  /\ db' \in [Txs -> RowType] /\ unspent' \subseteq Rows'
           /\ \A t \in InBlock' : Placed(t, db'[t].block, Until)
<1> DEFINE seen == {t \in Txs : resp[t].st # "none"}
           added == {t \in seen \ InBlock : resp[t].block # NoBlock}
<1>1. /\ Until \in Seq(Block) /\ Len(Until) <= MaxHeight
      /\ \A t \in InBlock : Placed(t, db[t].block, Until)
  <2>1. Len(Until) <= MaxHeight
    <3>1. Len(Until) = sync.best[1] /\ sync.best[1] \in 1..Len(Chain) /\ Len(Chain) \in 1..MaxHeight
        BY UntilIs, ChainsIs DEF Base
    <3> QED BY <3>1, BackendAssumption
  <2> QED BY <2>1, UntilIs
<1>2. /\ db \in [Txs -> RowType] /\ unspent \subseteq Rows
      /\ sync.known \in Nat /\ NoBlock \in Blocks
    BY NoBlockIs DEF Base, TypeOK, RowType, SyncSeen
<1>3. /\ db' = [t \in Txs |->
              CASE t \in seen ->
                     [st |-> resp[t].st, block |-> resp[t].block,
                      own |-> IF t \in Rows THEN db[t].own ELSE AddrOf[t] <= sync.known]
                [] t \notin seen /\ db[t].st = "PENDING" -> [db[t] EXCEPT !.st = "NOT_IN_REMOTE"]
                [] OTHER -> db[t]]
      /\ unspent' = (unspent \cup (seen \ Rows)) \ InputsOf(added)
    BY DEF UpdateTransactionBatch
<1>4. ASSUME NEW t \in Txs
      PROVE  /\ t \in seen => /\ resp[t].st \in Statuses \ {"none"} /\ resp[t].block \in Blocks
                              /\ resp[t].st = "IN_BLOCK" => Placed(t, resp[t].block, Until)
             /\ resp[t] = Absent <=> t \notin seen
  <2>1. CASE resp[t] = Absent
      BY <2>1 DEF Absent
  <2>2. CASE resp[t].st = "IN_BLOCK" /\ Placed(t, resp[t].block, Until)
    <3>1. resp[t].block \in Blocks
        BY <1>1, <2>2, PlacedIs
    <3> QED BY <2>2, <3>1 DEF Statuses, Absent
  <2>3. CASE resp[t].st \in {"PENDING", "FAIL_RESPONSE"} /\ resp[t].block = NoBlock
      BY <1>2, <2>3 DEF Statuses, Absent
  <2> QED BY <2>1, <2>2, <2>3 DEF PagePlaced
<1> HIDE DEF seen, added
<1>5. ASSUME NEW t \in Txs
      PROVE  /\ t \in seen => /\ db'[t] = [st |-> resp[t].st, block |-> resp[t].block,
                                           own |-> IF t \in Rows THEN db[t].own ELSE AddrOf[t] <= sync.known]
             /\ t \notin seen => \/ db'[t] = db[t] /\ db[t].st # "PENDING"
                                 \/ db[t].st = "PENDING" /\ db'[t] = [db[t] EXCEPT !.st = "NOT_IN_REMOTE"]
    BY <1>3
<1>6. ASSUME NEW t \in Txs PROVE db'[t] \in RowType
  <2>1. CASE t \in seen
    <3> DEFINE o == IF t \in Rows THEN db[t].own ELSE AddrOf[t] <= sync.known
    <3>1. o \in BOOLEAN
      <4>1. db[t].own \in BOOLEAN
          BY <1>2 DEF RowType
      <4>2. (AddrOf[t] <= sync.known) \in BOOLEAN
          OBVIOUS
      <4> QED BY <4>1, <4>2
    <3>2. db'[t] = [st |-> resp[t].st, block |-> resp[t].block, own |-> o]
        BY <1>5, <2>1
    <3> HIDE DEF o
    <3> QED BY <1>4, <2>1, <3>1, <3>2 DEF RowType
  <2>2. CASE t \notin seen
      BY <1>2, <1>5, <2>2 DEF RowType, Statuses
  <2> QED BY <2>1, <2>2
<1>7. db' \in [Txs -> RowType]
  <2>1. DOMAIN db' = Txs /\ db' = [t \in Txs |-> db'[t]]
      BY <1>3
  <2> QED BY <1>6, <2>1
<1>8. ASSUME NEW t \in Txs
      PROVE  /\ t \in seen => db'[t].st # "none" /\ db'[t].st = resp[t].st /\ db'[t].block = resp[t].block
             /\ t \notin seen => /\ db'[t].st = "none" <=> db[t].st = "none"
                                 /\ db'[t].st = "IN_BLOCK" <=> db[t].st = "IN_BLOCK"
                                 /\ db'[t].block = db[t].block
  <2>1. CASE t \in seen
    <3> DEFINE o == IF t \in Rows THEN db[t].own ELSE AddrOf[t] <= sync.known
    <3>1. db'[t] = [st |-> resp[t].st, block |-> resp[t].block, own |-> o]
        BY <1>5, <2>1
    <3> HIDE DEF o
    <3>2. db'[t].st = resp[t].st /\ db'[t].block = resp[t].block
        BY <3>1
    <3> QED BY <1>4, <2>1, <3>2
  <2>2. CASE t \notin seen
    <3>1. db[t] \in RowType
        BY <1>2
    <3>2. db[t].st = "PENDING" /\ db'[t] = [db[t] EXCEPT !.st = "NOT_IN_REMOTE"]
             => db'[t].st = "NOT_IN_REMOTE" /\ db'[t].block = db[t].block
        BY <3>1 DEF RowType
    <3>3. \/ db'[t].st = db[t].st /\ db'[t].block = db[t].block
          \/ db[t].st = "PENDING" /\ db'[t].st = "NOT_IN_REMOTE" /\ db'[t].block = db[t].block
        BY <1>5, <2>2, <3>2
    <3> QED BY <2>2, <3>3
  <2> QED BY <2>1, <2>2
<1>9. unspent' \subseteq Rows'
    BY <1>2, <1>3, <1>8 DEF Rows, seen
<1>10. ASSUME NEW t \in InBlock' PROVE Placed(t, db'[t].block, Until)
  <2>1. t \in Txs /\ db'[t].st = "IN_BLOCK"
      BY DEF InBlock
  <2>2. CASE t \in seen
      BY <1>4, <1>8, <2>1, <2>2
  <2>3. CASE t \notin seen
    <3>1. t \in InBlock /\ db'[t].block = db[t].block
        BY <1>8, <2>1, <2>3 DEF InBlock
    <3> QED BY <1>1, <3>1
  <2> QED BY <2>2, <2>3
<1> QED BY <1>7, <1>9, <1>10

-----------------------------------------------------------------------------
(* What every step keeps, whatever the wallet scanned and however far apart the         *)
(* addresses in use are.                                                                *)

PcStates == {"idle", "failed", "running", "refused", "overtaken"}

LEMMA ChainsSame ==
    ASSUME Chains, UNCHANGED bvars
    PROVE  Chains' /\ Chain' = Chain
<1>1. forks' = forks /\ served' = served /\ pool' = pool
    BY DEF bvars
<1>2. Chain' = Chain
    BY <1>1 DEF Chain
<1>3. BackendTypeOK' /\ Lengths' /\ ForkNumbers' /\ SameHash'
    BY <1>1, <1>2 DEF Chains, BackendTypeOK, Lengths, ForkNumbers, SameHash
<1>4. PoolRight'
    BY <1>1, <1>2 DEF Chains, PoolRight
<1> QED BY <1>1, <1>2, <1>3, <1>4 DEF Chains

LEMMA BaseIs ==
    ASSUME Base
    PROVE  /\ db \in [Txs -> RowType] /\ unspent \subseteq Rows /\ known \in Nat
           /\ lastSync \in Blocks /\ lock \in Refreshes \cup {Nobody}
           /\ pc \in [Refreshes -> PcStates]
           /\ lock = Nobody <=> sync = NoSync
           /\ \A p \in Refreshes : pc[p] = "running" <=> lock = p
           /\ InBlock \subseteq Txs
           /\ \A t \in Txs : db[t].block \in Blocks /\ db[t].block[1] \in Nat
<1>1. db \in [Txs -> RowType]
    BY DEF Base, TypeOK, RowType
<1>2. \A t \in Txs : db[t].block \in Blocks
    BY <1>1 DEF RowType
<1>3. lock = Nobody <=> sync = NoSync
    BY DEF Base, TypeOK
<1>4. \A p \in Refreshes : pc[p] = "running" <=> lock = p
    BY DEF Base, TypeOK
<1> QED BY <1>1, <1>2, <1>3, <1>4, BlocksAre DEF Base, TypeOK, PcStates, InBlock

LEMMA NobodyRuns ==
    ASSUME Chains', served' = 0 => InBlock' = {} /\ lastSync' = NoBlock, Cover',
           db' \in [Txs -> RowType], unspent' \subseteq Rows', known' \in Nat, lastSync' \in Blocks,
           lock' = Nobody, sync' = NoSync, pc' \in [Refreshes -> PcStates],
           \A p \in Refreshes : pc'[p] # "running"
    PROVE  Base'
<1>1. TypeOK'
  <2>1. BackendTypeOK'
      BY DEF Chains
  <2>2. db' \in [Txs -> [st : Statuses, block : Blocks, own : BOOLEAN]]
      BY DEF RowType
  <2>3. sync'.step = "none"
      BY DEF NoSync
  <2>4. \A p \in Refreshes : pc'[p] = "running" <=> lock' = p
      BY SyncAssumption
  <2> QED BY <2>1, <2>2, <2>3, <2>4 DEF TypeOK, PcStates
<1>2. Fresh'
    BY DEF Fresh
<1>3. SyncSeen'
    BY DEF SyncSeen, NoSync
<1> QED BY <1>1, <1>2, <1>3 DEF Base

LEMMA OverrideIs ==
    ASSUME Base, NEW p, NEW block, OverrideLastSyncInfo(p, block), lock = Nobody \/ lock = p
    PROVE  /\ lastSync' = block /\ pc' \in [Refreshes -> PcStates]
           /\ \A q \in Refreshes : pc'[q] # "running"
<1>1. /\ lastSync' = block
      /\ pc' = [q \in Refreshes |-> IF q = p THEN "idle"
                                    ELSE IF pc[q] = "refused" THEN "overtaken" ELSE pc[q]]
    BY DEF OverrideLastSyncInfo
<1>2. pc \in [Refreshes -> PcStates] /\ \A q \in Refreshes : q # p => pc[q] # "running"
    BY BaseIs, SyncAssumption
<1>3. ASSUME NEW q \in Refreshes PROVE pc'[q] \in PcStates /\ pc'[q] # "running"
    BY <1>1, <1>2 DEF PcStates
<1> QED BY <1>1, <1>3

LEMMA ReleaseKeeps ==
    ASSUME Base, UNCHANGED bvars, NEW p \in Refreshes, lock = p, NEW state \in {"failed", "refused"},
           Release(p, state)
    PROVE  Base'
<1>1. /\ lock' = Nobody /\ sync' = NoSync /\ pc' = [pc EXCEPT ![p] = state]
      /\ db' = db /\ unspent' = unspent /\ known' = known /\ lastSync' = lastSync
    BY DEF Release, wallet
<1>2. /\ db \in [Txs -> RowType] /\ unspent \subseteq Rows /\ known \in Nat /\ lastSync \in Blocks
      /\ pc \in [Refreshes -> PcStates] /\ \A q \in Refreshes : pc[q] = "running" <=> lock = q
    BY BaseIs
<1>3. pc' \in [Refreshes -> PcStates] /\ \A q \in Refreshes : pc'[q] # "running"
    BY <1>1, <1>2 DEF PcStates
<1>4. InBlock' = InBlock /\ Rows' = Rows /\ forks' = forks /\ served' = served
    BY <1>1 DEF InBlock, Rows, bvars
<1>5. Cover'
    BY <1>1, <1>4 DEF Base, Cover
<1>6. Fresh
    BY DEF Base
<1>7. served' = 0 => InBlock' = {} /\ lastSync' = NoBlock
    BY <1>1, <1>4, <1>6 DEF Fresh
<1>8. Chains'
    BY ChainsSame DEF Base
<1> QED BY <1>1, <1>2, <1>3, <1>4, <1>5, <1>7, <1>8, NobodyRuns

LEMMA PageKeeps ==
    ASSUME Base, NEW p \in Refreshes, NEW c \in Chunks(sync.known), Page(p, c)
    PROVE  Base'
<1> DEFINE pages == [d \in DOMAIN sync.pages \cup {c} |-> IF d = c THEN PageOf(c) ELSE sync.pages[d]]
           n == Len(forks)
<1>1. /\ lock = p /\ sync.step = "pages" /\ UNCHANGED bvars
      /\ \/ ~Accepts /\ Release(p, "refused")
         \/ /\ Accepts
            /\ sync' = [sync EXCEPT !.pages = pages]
            /\ UNCHANGED <<wallet, lock, pc>>
         \/ /\ Accepts /\ DOMAIN pages = Chunks(sync.known)
            /\ UpdateTransactionBatch(Response(pages))
            /\ known' = sync.known
            /\ OverrideLastSyncInfo(p, sync.best)
            /\ lock' = Nobody /\ sync' = NoSync
    BY DEF Page
<1>2. /\ Chain = forks[n] /\ n \in DOMAIN forks /\ Chain \in Seq(Block)
      /\ forks' = forks /\ served' = served /\ Chains' /\ sync.known \in Nat /\ sync.best \in Blocks
      /\ served # 0
  <2>1. served # 0
      BY <1>1, SyncAssumption DEF Base, Fresh
  <2>2. sync.known \in Nat /\ sync.best \in Blocks
      BY <1>1 DEF Base, SyncSeen
  <2> QED BY <1>1, <2>1, <2>2, ChainsIs, ChainsSame DEF bvars, Base
<1>3. CASE ~Accepts /\ Release(p, "refused")
    BY <1>1, <1>3, ReleaseKeeps
<1>4. ASSUME Accepts PROVE /\ DOMAIN pages = DOMAIN sync.pages \cup {c}
                           /\ \A d \in DOMAIN pages : PagePlaced(pages[d], Until)
  <2>1. \A d \in DOMAIN sync.pages : PagePlaced(sync.pages[d], Until)
      BY <1>1, <1>4, UntilIs
  <2>2. PagePlaced(PageOf(c), Until)
      BY <1>1, <1>4, PageIsPlaced
  <2> QED BY <2>1, <2>2
<1> HIDE DEF pages
<1>5. CASE /\ Accepts /\ sync' = [sync EXCEPT !.pages = pages]
           /\ UNCHANGED <<wallet, lock, pc>>
  <2>1. /\ db' = db /\ unspent' = unspent /\ known' = known /\ lastSync' = lastSync
        /\ lock' = lock /\ pc' = pc
      BY <1>5 DEF wallet
  <2>2. InBlock' = InBlock /\ Rows' = Rows
      BY <2>1 DEF InBlock, Rows
  <2>3. sync = [step |-> sync.step, best |-> sync.best, known |-> sync.known,
                after |-> sync.after, pages |-> sync.pages]
      BY DEF Base, SyncSeen
  <2>4. sync' = [step |-> sync.step, best |-> sync.best, known |-> sync.known,
                 after |-> sync.after, pages |-> pages]
      BY <1>5, <2>3
  <2>5. sync' # NoSync
      BY <1>1, <2>4 DEF NoSync
  <2>6. TypeOK'
    <3>1. BackendTypeOK'
        BY <1>2 DEF Chains
    <3>2. sync'.step = "pages" /\ lock' # Nobody
        BY <1>1, <2>1, <2>4, SyncAssumption
    <3> QED BY <2>1, <2>2, <2>5, <3>1, <3>2 DEF Base, TypeOK
  <2>7. Fresh' /\ Cover'
      BY <1>2, <2>1, <2>2 DEF Base, Fresh, Cover
  <2>8. Until = Prefix(n, sync.best[1]) /\ OnChain(sync.best, forks[n])
      BY <1>1, <1>2, <1>5, UntilIs DEF Prefix
  <2>9. FirstSuccessTxBefore(Top)' = FirstSuccessTxBefore(Top)
      BY <2>1, <2>2 DEF FirstSuccessTxBefore, Top
  <2>10. sync.after = FirstSuccessTxBefore(Top) /\ sync.best # NoBlock
      BY <1>1 DEF Base, SyncSeen
  <2>11. SyncSeen'
    <3>1. /\ sync'.step = "pages" /\ sync'.best = sync.best /\ sync'.known = sync.known
          /\ sync'.after = sync.after /\ sync'.pages = pages
        BY <1>1, <2>4
    <3>2. n \in DOMAIN forks' /\ OnChain(sync'.best, forks'[n])
          /\ \A d \in DOMAIN sync'.pages : PagePlaced(sync'.pages[d], Prefix(n, sync.best[1])')
        BY <1>2, <1>4, <1>5, <2>8, <3>1 DEF Prefix
    <3> QED BY <1>2, <2>4, <2>9, <2>10, <3>1, <3>2 DEF SyncSeen
  <2> QED BY <1>2, <2>6, <2>7, <2>11 DEF Base
<1>6. CASE /\ Accepts /\ UpdateTransactionBatch(Response(pages))
           /\ known' = sync.known
           /\ DOMAIN pages = Chunks(sync.known)
           /\ OverrideLastSyncInfo(p, sync.best)
           /\ lock' = Nobody /\ sync' = NoSync
  <2>1. DOMAIN pages \subseteq Nat
      BY <1>2, <1>6, ChunksAre
  <2>2. PagePlaced(Response(pages), Until)
      BY <1>4, <1>6, <2>1, ResponsePlaced
  <2>3. /\ db' \in [Txs -> RowType] /\ unspent' \subseteq Rows'
        /\ \A t \in InBlock' : Placed(t, db'[t].block, Until)
      BY <1>1, <1>6, <2>2, BatchIs
  <2>4. /\ lastSync' = sync.best /\ pc' \in [Refreshes -> PcStates]
        /\ \A q \in Refreshes : pc'[q] # "running"
      BY <1>1, <1>6, OverrideIs
  <2>5. Cover'
    <3>1. /\ OnChain(sync.best, Chain) /\ Until = SubSeq(Chain, 1, sync.best[1])
          /\ sync.best[1] \in 0..Len(Chain)
        BY <1>1, <1>6, UntilIs
    <3>2. ASSUME NEW t \in InBlock'
          PROVE  db'[t].block[1] <= sync.best[1] /\ Placed(t, db'[t].block, Chain)
      <4>1. db'[t].block[1] \in Nat
        <5>1. t \in Txs
            BY DEF InBlock
        <5>2. db'[t].block \in Blocks
            BY <2>3, <5>1 DEF RowType
        <5> QED BY <5>2, BlocksAre
      <4>2. Placed(t, db'[t].block, SubSeq(Chain, 1, sync.best[1]))
          BY <2>3, <3>1
      <4> QED BY <1>2, <3>1, <4>1, <4>2, PlacedPrefix
    <3> QED BY <1>2, <2>4, <3>1, <3>2 DEF Cover
  <2> QED BY <1>2, <1>6, <2>3, <2>4, <2>5, NobodyRuns
<1> QED BY <1>1, <1>3, <1>5, <1>6 DEF pages

LEMMA BeginKeeps ==
    ASSUME Base, NEW p \in Refreshes, Begin(p)
    PROVE  Base'
<1> DEFINE best == Hash(Chain, served)
           n == Len(forks)
<1>1. /\ lock = Nobody /\ UNCHANGED bvars
      /\ \/ /\ best # NoBlock
            /\ lock' = p /\ pc' = [pc EXCEPT ![p] = "running"]
            /\ sync' = [NoSync EXCEPT !.step = "scan", !.best = best]
            /\ UNCHANGED wallet
         \/ /\ best = NoBlock
            /\ OverrideLastSyncInfo(p, NoBlock)
            /\ UNCHANGED <<db, unspent, known, lock, sync>>
    BY DEF Begin
<1>2. /\ Chain = forks[n] /\ n \in DOMAIN forks /\ Chain \in Seq(Block) /\ Len(Chain) \in 1..MaxHeight
      /\ forks' = forks /\ served' = served /\ Chains' /\ served \in 0..Len(Chain) /\ MaxHeight \in Nat
      /\ DOMAIN forks = 1..n /\ n \in Nat
    BY <1>1, ChainsIs, ChainsSame, BackendAssumption DEF bvars, Base
<1>3. best[1] = served /\ OnChain(best, Chain)
    BY <1>2 DEF Hash, OnChain, NoBlock
<1>4. best \in Blocks /\ (best = NoBlock <=> served = 0)
    BY <1>2, <1>3, HashIsBlock
<1> HIDE DEF best
<1>5. CASE /\ best # NoBlock
           /\ lock' = p /\ pc' = [pc EXCEPT ![p] = "running"]
           /\ sync' = [NoSync EXCEPT !.step = "scan", !.best = best]
           /\ UNCHANGED wallet
  <2>1. /\ db' = db /\ unspent' = unspent /\ known' = known /\ lastSync' = lastSync
      BY <1>5 DEF wallet
  <2>2. InBlock' = InBlock /\ Rows' = Rows
      BY <2>1 DEF InBlock, Rows
  <2>3. /\ sync' = [step |-> "scan", best |-> best, known |-> 0, after |-> 0, pages |-> <<>>]
        /\ sync' # NoSync
      BY <1>5 DEF NoSync
  <2>4. /\ pc \in [Refreshes -> PcStates] /\ \A q \in Refreshes : pc[q] # "running"
        /\ db \in [Txs -> RowType] /\ unspent \subseteq Rows /\ known \in Nat /\ lastSync \in Blocks
      BY <1>1, BaseIs, SyncAssumption
  <2>5. pc' \in [Refreshes -> PcStates] /\ \A q \in Refreshes : pc'[q] = "running" <=> p = q
      BY <1>5, <2>4 DEF PcStates
  <2>6. TypeOK'
    <3>1. BackendTypeOK'
        BY <1>2 DEF Chains
    <3>2. sync'.step = "scan" /\ lock' = p /\ p # Nobody
        BY <1>5, <2>3, SyncAssumption
    <3> QED BY <2>1, <2>2, <2>3, <2>4, <2>5, <3>1, <3>2 DEF TypeOK, PcStates, RowType
  <2>7. Fresh' /\ Cover'
      BY <1>2, <1>4, <1>5, <2>1, <2>2 DEF Base, Fresh, Cover
  <2>8. SyncSeen'
    <3>1. /\ sync'.step = "scan" /\ sync'.best = best /\ sync'.known = 0
          /\ sync'.after = 0 /\ sync'.pages = <<>>
        BY <2>3
    <3>2. DOMAIN sync'.pages = {} /\ OnChain(sync'.best, forks'[n]) /\ n \in DOMAIN forks'
        BY <1>2, <1>3, <3>1
    <3>3. \E i \in DOMAIN forks' :
             /\ OnChain(sync'.best, forks'[i])
             /\ \A c \in DOMAIN sync'.pages : PagePlaced(sync'.pages[c], Prefix(i, sync.best[1])')
        BY <3>2
    <3>4. sync'.best \in Blocks /\ sync'.best # NoBlock /\ sync'.known \in Nat
        BY <1>4, <1>5, <3>1
    <3>5. sync' = [step |-> sync'.step, best |-> sync'.best, known |-> sync'.known,
                   after |-> sync'.after, pages |-> sync'.pages]
        BY ONLY <2>3
    <3> QED BY <3>1, <3>3, <3>4, <3>5 DEF SyncSeen
  <2> QED BY <1>2, <2>6, <2>7, <2>8 DEF Base
<1>6. CASE /\ best = NoBlock
           /\ OverrideLastSyncInfo(p, NoBlock)
           /\ UNCHANGED <<db, unspent, known, lock, sync>>
  <2>1. /\ lastSync' = NoBlock /\ pc' \in [Refreshes -> PcStates]
        /\ \A q \in Refreshes : pc'[q] # "running"
      BY <1>1, <1>6, OverrideIs
  <2>2. /\ db' \in [Txs -> RowType] /\ unspent' \subseteq Rows' /\ known' \in Nat
        /\ lock' = Nobody /\ sync' = NoSync /\ InBlock' = InBlock
      BY <1>1, <1>6, BaseIs DEF InBlock, Rows
  <2>3. InBlock = {}
      BY <1>4, <1>6 DEF Base, Fresh
  <2>4. OnChain(NoBlock, Chain)
      BY <1>3, <1>6
  <2>5. Cover'
      BY <1>2, <2>1, <2>2, <2>3, <2>4 DEF Cover
  <2>6. lastSync' \in Blocks
      BY <2>1, NoBlockIs
  <2> QED BY <1>2, <2>1, <2>2, <2>3, <2>5, <2>6, NobodyRuns
<1> QED BY <1>1, <1>5, <1>6

\* Discovery ends, since beyond the last address in use there are only unused ones; it
\* ends at least Gap after the last address that a confirmed row used.
LEMMA DiscoveredIs ==
    ASSUME Base
    PROVE  /\ Discovered \in Nat /\ known <= Discovered
           /\ \E last, end \in Nat :
                 /\ \A t \in InBlock : db[t].own => AddrOf[t] <= last
                 /\ last + Gap <= end /\ end <= Discovered
                 /\ \A a \in Used : a \in (end - Gap + 1)..end => a <= last
<1> DEFINE O == {AddrOf[t] : t \in {u \in InBlock : db[u].own}}
           last == Largest(O)
           U == Used \cup {last}
           far == Largest(U)
           run(n) == \A a \in (n - Gap + 1)..n : a <= last \/ a \notin Used
           P(n) == run(n) /\ \A m \in (last + Gap)..(n - 1) : ~run(m)
           end == CHOOSE n \in (last + Gap)..(far + Gap) : P(n)
<1>1. Discovered = Largest({known, end})
    BY DEF Discovered
<1>2. PICK b \in Nat : \A t \in Txs : AddrOf[t] <= b
    BY AddressesBounded
<1>3. \A t \in Txs : AddrOf[t] \in Nat
    BY BackendAssumption
<1>4. TxsIn(Served) \cup Waiting \subseteq Txs
  <2>1. \A t : t \in TxsIn(Served) => t \in Txs
    <3>1. ASSUME NEW t, t \in TxsIn(Served) PROVE t \in Txs
      <4>1. Served \in Seq(Block)
          BY ChainsIs, PrefixIs DEF Served, Base
      <4>2. PICK h \in DOMAIN Served : t \in Served[h].txs
          BY <3>1, TxsInIs
      <4> QED BY <4>1, <4>2, BlockIs
    <3> QED BY <3>1
  <2> QED BY <2>1 DEF Waiting
<1>5. O \in SUBSET Nat /\ \A x \in O : x <= b
  <2>1. InBlock \subseteq Txs
      BY DEF InBlock
  <2> QED BY <1>2, <1>3, <2>1
<1>6. last \in Nat /\ last <= b /\ \A x \in O : x <= last
  <2> HIDE DEF O
  <2> QED BY <1>5, LargestIs
<1>7. \A t \in InBlock : db[t].own => AddrOf[t] <= last
  <2>1. \A t \in InBlock : db[t].own => AddrOf[t] \in O
      OBVIOUS
  <2> HIDE DEF O
  <2> QED BY <1>6, <2>1
<1> HIDE DEF O, last
<1>8. Used \in SUBSET Nat /\ \A x \in Used : x <= b
    BY <1>2, <1>3, <1>4 DEF Used
<1>9. far \in Nat /\ last <= far /\ \A x \in Used : x <= far
  <2>1. U \in SUBSET Nat /\ (\A x \in U : x <= b) /\ last \in U /\ \A x \in Used : x \in U
      BY <1>6, <1>8
  <2> HIDE DEF U
  <2> QED BY <2>1, LargestIs
<1> HIDE DEF U, far
<1>10. Gap \in Nat /\ Gap # 0
    BY SyncAssumption
<1> DEFINE N == {n \in (last + Gap)..(far + Gap) : run(n)}
<1>11. N \in SUBSET Nat /\ far + Gap \in N
    BY <1>6, <1>8, <1>9, <1>10
<1>12. PICK n \in N : \A m \in N : n <= m
  <2> HIDE DEF N
  <2> QED BY <1>11, LeastOf
<1>13. n \in (last + Gap)..(far + Gap) /\ run(n) /\ n \in Nat
    BY <1>11
<1>14. ASSUME NEW m \in (last + Gap)..(n - 1), run(m) PROVE FALSE
  <2>1. m \in (last + Gap)..(far + Gap) /\ ~(n <= m)
      BY <1>6, <1>9, <1>10, <1>13
  <2> QED BY <1>12, <1>14, <2>1
<1>15. \E k \in (last + Gap)..(far + Gap) : P(k)
    BY <1>13, <1>14
<1> HIDE DEF P
<1>16. end \in (last + Gap)..(far + Gap) /\ P(end)
    BY <1>15
<1> HIDE DEF end
<1>17. end \in Nat /\ last + Gap <= end /\ run(end)
    BY <1>6, <1>9, <1>10, <1>16 DEF P
<1>18. Discovered \in Nat /\ known <= Discovered /\ end <= Discovered
  <2>1. known \in Nat
      BY BaseIs
  <2>2. {known, end} \in SUBSET Nat /\ known + end \in Nat /\ \A x \in {known, end} : x <= known + end
      BY <1>17, <2>1
  <2>3. known \in {known, end} /\ end \in {known, end}
      OBVIOUS
  <2> DEFINE E == {known, end}
  <2> HIDE DEF E
  <2>4. Largest(E) \in Nat /\ known <= Largest(E) /\ end <= Largest(E)
      BY <2>2, <2>3, LargestIs DEF E
  <2> QED BY <1>1, <2>4 DEF E
<1>19. \A a \in Used : a \in (end - Gap + 1)..end => a <= last
    BY <1>17
<1> QED BY <1>6, <1>7, <1>17, <1>18, <1>19

LEMMA ScanKeeps ==
    ASSUME Base, NEW p \in Refreshes, RawScanAddresses(p)
    PROVE  Base'
<1>1. /\ lock = p /\ sync.step = "scan"
      /\ sync' = [sync EXCEPT !.step = "pages", !.known = Discovered, !.after = FirstSuccessTxBefore(Top)]
      /\ UNCHANGED bvars /\ UNCHANGED wallet /\ lock' = lock /\ pc' = pc
    BY DEF RawScanAddresses
<1>2. /\ db' = db /\ unspent' = unspent /\ known' = known /\ lastSync' = lastSync
      /\ forks' = forks /\ served' = served /\ Chains'
    BY <1>1, ChainsSame DEF wallet, bvars, Base
<1>3. InBlock' = InBlock /\ Rows' = Rows
    BY <1>2 DEF InBlock, Rows
<1>4. /\ sync = [step |-> sync.step, best |-> sync.best, known |-> sync.known,
                 after |-> sync.after, pages |-> sync.pages]
      /\ sync.pages = <<>> /\ sync.best \in Blocks /\ sync.best # NoBlock
    BY <1>1 DEF Base, SyncSeen
<1>5. sync' = [step |-> "pages", best |-> sync.best, known |-> Discovered,
               after |-> FirstSuccessTxBefore(Top), pages |-> sync.pages]
    BY <1>1, <1>4
<1>6. TypeOK'
  <2>1. BackendTypeOK'
      BY <1>2 DEF Chains
  <2>2. sync'.step = "pages" /\ lock' # Nobody /\ sync' # NoSync
      BY <1>1, <1>5, SyncAssumption DEF NoSync
  <2> QED BY <1>1, <1>2, <1>3, <2>1, <2>2 DEF Base, TypeOK
<1>7. Fresh' /\ Cover'
    BY <1>1, <1>2, <1>3 DEF Base, Fresh, Cover
<1>8. FirstSuccessTxBefore(Top)' = FirstSuccessTxBefore(Top)
    BY <1>2, <1>3 DEF FirstSuccessTxBefore, Top
<1>9. SyncSeen'
  <2>1. /\ sync'.step = "pages" /\ sync'.best = sync.best /\ sync'.known = Discovered
        /\ sync'.after = FirstSuccessTxBefore(Top) /\ sync'.pages = <<>>
      BY <1>4, <1>5
  <2>2. PICK i \in DOMAIN forks : OnChain(sync.best, forks[i])
      BY <1>1 DEF Base, SyncSeen
  <2>3. DOMAIN sync'.pages = {}
      BY <2>1
  <2>4. \E j \in DOMAIN forks' :
           /\ OnChain(sync'.best, forks'[j])
           /\ \A c \in DOMAIN sync'.pages : PagePlaced(sync'.pages[c], Prefix(j, sync.best[1])')
      BY <1>2, <2>1, <2>2, <2>3
  <2>5. sync' = [step |-> sync'.step, best |-> sync'.best, known |-> sync'.known,
                 after |-> sync'.after, pages |-> sync'.pages]
      BY ONLY <1>5
  <2>6. Discovered \in Nat
      BY DiscoveredIs
  <2> QED BY <1>4, <1>8, <2>1, <2>4, <2>5, <2>6 DEF SyncSeen
<1> QED BY <1>2, <1>6, <1>7, <1>9 DEF Base

\* What is confirmed after a rollback is below what the sync point goes back to.
LEMMA RollbackIs ==
    ASSUME Base, NEW p \in Refreshes, Rollback(p), pc[p] # "overtaken", lastSync # NoBlock, InBlock # {}
    PROVE  LET low == BlockOf(FirstSuccessTxBefore(Top))[1] - K
           IN  /\ lock = Nobody /\ pc[p] = "refused" /\ low \in Int
               /\ OverrideLastSyncInfo(p, BlockOf(FirstSuccessTxBefore(low)))
               /\ \A t \in Txs :
                     /\ db'[t].block = db[t].block /\ db'[t].own = db[t].own
                     /\ db'[t].st \in {db[t].st, "ROLLBACK_FAIL"}
                     /\ db'[t].st = "none" <=> db[t].st = "none"
                     /\ t \in InBlock' <=> t \in InBlock /\ db[t].block[1] < low
                     /\ t \in Reverted <=> t \in Rows /\ db[t].block # NoBlock /\ db[t].block[1] >= low
               /\ db' \in [Txs -> RowType] /\ Rows' = Rows /\ InBlock' \subseteq InBlock
               /\ unspent' = unspent \cup (InputsOf(Reverted) \cap Rows)
               /\ \A t \in InBlock : db[t].block # NoBlock /\ t \in Rows
               /\ UNCHANGED <<bvars, known, lock, sync>>
<1> DEFINE f == FirstSuccessTxBefore(Top)
           low == BlockOf(f)[1] - K
           failed == Reverted \cup {t \in Rows : db[t].st = "PENDING"}
<1>1. /\ lock = Nobody /\ pc[p] = "refused"
      /\ db' = [t \in Txs |-> IF t \in failed THEN [db[t] EXCEPT !.st = "ROLLBACK_FAIL"] ELSE db[t]]
      /\ unspent' = unspent \cup (InputsOf(Reverted) \cap Rows)
      /\ OverrideLastSyncInfo(p, BlockOf(FirstSuccessTxBefore(low)))
      /\ UNCHANGED <<bvars, known, lock, sync>>
    BY DEF Rollback
<1>2. db \in [Txs -> RowType] /\ InBlock \subseteq Txs /\ \A t \in Txs : db[t].block[1] \in Nat
    BY BaseIs
<1>3. \A t \in InBlock : db[t].block # NoBlock /\ t \in Rows
  <2>1. PICK i \in DOMAIN forks : \A t \in InBlock : Placed(t, db[t].block, forks[i])
      BY DEF Base, Cover
  <2>2. forks[i] \in Seq(Block) /\ Len(forks[i]) <= MaxHeight
      BY ChainsIs, BackendAssumption DEF Base
  <2>3. \A t \in InBlock : db[t].block # NoBlock
      BY <2>1, <2>2, PlacedIs
  <2> QED BY <2>3 DEF InBlock, Rows
<1>4. low \in Int
  <2>1. f \in InBlock => BlockOf(f)[1] \in Nat
    <3>1. ASSUME f \in InBlock PROVE BlockOf(f)[1] \in Nat
      <4>1. f \in Txs /\ f # 0
          BY <1>2, <3>1, TxNumbers
      <4> QED BY <1>2, <4>1 DEF BlockOf
    <3> QED BY <3>1
  <2>2. f = 0 => BlockOf(f)[1] \in Nat
      BY NoBlockIs DEF BlockOf
  <2>3. BlockOf(f)[1] \in Nat
      BY <1>2, <2>1, <2>2, FirstSuccessIs
  <2> QED BY <2>3, BackendAssumption
<1>5. \A t \in Txs : t \in Reverted <=> t \in Rows /\ db[t].block # NoBlock /\ db[t].block[1] >= low
    BY DEF Reverted
<1> HIDE DEF low, f
<1>6. ASSUME NEW t \in Txs
      PROVE  /\ db'[t] \in RowType
             /\ db'[t].block = db[t].block /\ db'[t].own = db[t].own
             /\ t \in failed => db'[t].st = "ROLLBACK_FAIL" /\ db[t].st # "none"
             /\ t \notin failed => db'[t].st = db[t].st
  <2>1. db[t] \in RowType
      BY <1>2
  <2>2. CASE t \in failed
    <3>1. db'[t] = [db[t] EXCEPT !.st = "ROLLBACK_FAIL"] /\ db[t].st # "none"
        BY <1>1, <2>2 DEF Reverted, Rows
    <3> QED BY <2>1, <2>2, <3>1 DEF RowType, Statuses
  <2>3. CASE t \notin failed
      BY <1>1, <2>1, <2>3
  <2> QED BY <2>2, <2>3
<1>7. db' \in [Txs -> RowType]
  <2>1. db' = [t \in Txs |-> db'[t]]
      BY <1>1
  <2> QED BY <1>6, <2>1
<1>8. ASSUME NEW t \in Txs PROVE t \in InBlock' <=> t \in InBlock /\ db[t].block[1] < low
  <2>1. t \in failed <=> t \in Reverted \/ (t \in Rows /\ db[t].st = "PENDING")
      BY DEF Rows
  <2>2. t \in InBlock => (t \in failed <=> db[t].block[1] >= low)
      BY <1>3, <1>5, <2>1 DEF InBlock
  <2>3. t \in InBlock' <=> t \in InBlock /\ t \notin failed
      BY <1>6 DEF InBlock
  <2> QED BY <1>2, <1>4, <2>2, <2>3
<1>9. Rows' = Rows
    BY <1>6 DEF Rows
<1>10. InBlock' \subseteq InBlock
    BY <1>8 DEF InBlock
<1>11. \A t \in Txs : /\ db'[t].st \in {db[t].st, "ROLLBACK_FAIL"}
                      /\ db'[t].st = "none" <=> db[t].st = "none"
    BY <1>6
<1> QED BY <1>1, <1>3, <1>4, <1>5, <1>6, <1>7, <1>8, <1>9, <1>10, <1>11 DEF low, f

LEMMA RollbackKeeps ==
    ASSUME Base, NEW p \in Refreshes, Rollback(p)
    PROVE  Base'
<1>1. lock = Nobody /\ UNCHANGED bvars /\ sync' = sync /\ lock' = lock
    BY DEF Rollback
<1>2. forks' = forks /\ served' = served /\ Chains' /\ sync' = NoSync
    BY <1>1, BaseIs, ChainsSame DEF bvars, Base
<1>3. /\ db \in [Txs -> RowType] /\ unspent \subseteq Rows /\ known \in Nat /\ lastSync \in Blocks
      /\ pc \in [Refreshes -> PcStates] /\ \A q \in Refreshes : pc[q] # "running"
      /\ InBlock \subseteq Txs /\ \A t \in Txs : db[t].block \in Blocks /\ db[t].block[1] \in Nat
    BY <1>1, BaseIs, SyncAssumption
<1>4. CASE pc[p] = "overtaken" \/ lastSync = NoBlock \/ InBlock = {}
  <2>1. /\ pc' = [pc EXCEPT ![p] = "idle"]
        /\ db' = db /\ unspent' = unspent /\ known' = known /\ lastSync' = lastSync
      BY <1>4 DEF Rollback, wallet
  <2>2. pc' \in [Refreshes -> PcStates] /\ \A q \in Refreshes : pc'[q] # "running"
      BY <1>3, <2>1 DEF PcStates
  <2>3. InBlock' = InBlock /\ Rows' = Rows
      BY <2>1 DEF InBlock, Rows
  <2>4. Cover' /\ (served' = 0 => InBlock' = {} /\ lastSync' = NoBlock)
      BY <1>2, <2>1, <2>3 DEF Base, Fresh, Cover
  <2> QED BY <1>1, <1>2, <1>3, <2>1, <2>2, <2>3, <2>4, NobodyRuns
<1>5. CASE ~(pc[p] = "overtaken" \/ lastSync = NoBlock \/ InBlock = {})
  <2> DEFINE low == BlockOf(FirstSuccessTxBefore(Top))[1] - K
             f == FirstSuccessTxBefore(low)
  <2>1. /\ low \in Int /\ OverrideLastSyncInfo(p, BlockOf(f))
        /\ \A t \in Txs : /\ db'[t].block = db[t].block
                          /\ t \in InBlock' <=> t \in InBlock /\ db[t].block[1] < low
        /\ db' \in [Txs -> RowType] /\ Rows' = Rows /\ InBlock' \subseteq InBlock
        /\ unspent' = unspent \cup (InputsOf(Reverted) \cap Rows)
        /\ known' = known
      BY <1>5, RollbackIs
  <2> HIDE DEF low
  <2>2. /\ lastSync' = BlockOf(f) /\ pc' \in [Refreshes -> PcStates]
        /\ \A q \in Refreshes : pc'[q] # "running"
      BY <1>1, <2>1, OverrideIs
  <2>3. served' # 0
      BY <1>2, <1>5 DEF Base, Fresh
  <2>4. /\ f = 0 \/ (f \in InBlock /\ db[f].block[1] < low)
        /\ \A t \in InBlock : db[t].block[1] < low =>
              f \in InBlock /\ (db[t].block[1] < db[f].block[1] \/ db[t].block[1] = db[f].block[1])
      BY <1>3, FirstSuccessIs
  <2> HIDE DEF f
  <2>5. /\ f = 0 => lastSync' = NoBlock
        /\ f # 0 => f \in InBlock /\ f \in Txs /\ lastSync' = db[f].block
        /\ lastSync' \in Blocks
      BY <1>3, <2>2, <2>4, NoBlockIs DEF BlockOf
  <2>6. ASSUME NEW t \in InBlock' PROVE t \in InBlock /\ f # 0 /\ db'[t].block[1] <= lastSync'[1]
    <3>1. t \in Txs /\ t \in InBlock /\ db[t].block[1] < low /\ db'[t].block = db[t].block
        BY <1>3, <2>1
    <3>2. f \in InBlock /\ (db[t].block[1] < db[f].block[1] \/ db[t].block[1] = db[f].block[1])
        BY <2>4, <3>1
    <3>3. f \in Txs /\ f # 0
        BY <1>3, <3>2, TxNumbers
    <3> QED BY <1>3, <2>5, <3>1, <3>2, <3>3
  <2>7. PICK i \in DOMAIN forks : \A t \in InBlock : Placed(t, db[t].block, forks[i])
      BY DEF Base, Cover
  <2>8. OnChain(lastSync', forks[i])
    <3>1. CASE f = 0
      <4>1. Len(forks[i]) \in Nat
          BY ChainsIs, BackendAssumption DEF Base
      <4> QED BY <2>5, <3>1, <4>1, NoBlockIs DEF OnChain, Hash
    <3>2. CASE f # 0
        BY <2>5, <2>7, <3>2 DEF Placed
    <3> QED BY <3>1, <3>2
  <2>9. Cover'
    <3>1. \A t \in InBlock' : db'[t].block[1] <= lastSync'[1] /\ Placed(t, db'[t].block, forks[i])
        BY <1>3, <2>1, <2>6, <2>7
    <3> QED BY <1>2, <2>8, <3>1 DEF Cover
  <2>10. unspent' \subseteq Rows'
      BY <1>3, <2>1
  <2> QED BY <1>1, <1>2, <1>3, <2>1, <2>2, <2>3, <2>5, <2>9, <2>10, NobodyRuns
<1> QED BY <1>4, <1>5

LEMMA RemoveKeeps ==
    ASSUME Base, RemoveAllTransactions
    PROVE  Base'
<1>1. /\ lock = Nobody /\ UNCHANGED bvars /\ sync' = sync /\ lock' = lock /\ known' = known
      /\ db' = [t \in Txs |-> NoRow] /\ unspent' = {}
      /\ OverrideLastSyncInfo(Nobody, NoBlock)
    BY DEF RemoveAllTransactions
<1>2. forks' = forks /\ Chains' /\ sync' = NoSync
    BY <1>1, BaseIs, ChainsSame DEF bvars, Base
<1>3. /\ lastSync' = NoBlock /\ pc' \in [Refreshes -> PcStates]
      /\ \A q \in Refreshes : pc'[q] # "running"
    BY <1>1, OverrideIs
<1>4. db' \in [Txs -> RowType] /\ InBlock' = {}
  <2>1. NoRow \in RowType
      BY NoBlockIs DEF NoRow, RowType, Statuses
  <2> QED BY <1>1, <2>1 DEF InBlock, NoRow
<1>5. Cover'
  <2>1. PICK i \in DOMAIN forks : TRUE
      BY ChainsIs DEF Base
  <2>2. Len(forks[i]) \in Nat
      BY ChainsIs, BackendAssumption DEF Base
  <2>3. OnChain(NoBlock, forks[i])
      BY <2>2, NoBlockIs DEF OnChain, Hash
  <2> QED BY <1>2, <1>3, <1>4, <2>3 DEF Cover
<1>6. known' \in Nat
    BY <1>1, BaseIs
<1> QED BY <1>1, <1>2, <1>3, <1>4, <1>5, <1>6, NoBlockIs, NobodyRuns

\* What is on a chain is still there when the chain has grown.
LEMMA GrownKeeps ==
    ASSUME Chains, Grown, Chains', NEW i \in DOMAIN forks, NEW b, b[1] \in Nat, OnChain(b, forks[i])
    PROVE  /\ i \in DOMAIN forks' /\ OnChain(b, forks'[i])
           /\ \A t : Placed(t, b, forks[i]) => Placed(t, b, forks'[i])
           /\ SubSeq(forks'[i], 1, b[1]) = SubSeq(forks[i], 1, b[1])
           /\ forks[i] \in Seq(Block) /\ forks'[i] \in Seq(Block) /\ b[1] <= Len(forks[i])
<1>1. /\ forks[i] \in Seq(Block) /\ DOMAIN forks[i] = 1..Len(forks[i]) /\ Len(forks[i]) \in Nat
    BY ChainsIs
<1>2. /\ i \in DOMAIN forks' /\ Len(forks[i]) <= Len(forks'[i])
      /\ \A g \in 1..Len(forks[i]) : forks'[i][g] = forks[i][g]
    BY DEF Grown
<1>3. b[1] <= Len(forks[i]) /\ b = Hash(forks[i], b[1])
    BY DEF OnChain
<1>4. b[1] # 0 => b[1] \in 1..Len(forks[i])
    BY <1>1, <1>3
<1>5. Hash(forks'[i], b[1]) = Hash(forks[i], b[1])
    BY <1>2, <1>4 DEF Hash
<1>6. forks'[i] \in Seq(Block) /\ Len(forks'[i]) \in Nat
  <2>1. forks' \in Seq(Seq(Block))
      BY DEF Chains, BackendTypeOK, Block
  <2>2. forks'[i] \in Seq(Block)
      BY <1>2, <2>1
  <2> QED BY <2>2
<1>7. OnChain(b, forks'[i])
    BY <1>1, <1>2, <1>3, <1>5, <1>6 DEF OnChain
<1>8. ASSUME NEW t, Placed(t, b, forks[i]) PROVE Placed(t, b, forks'[i])
  <2>1. b[1] \in 1..Len(forks[i]) /\ t \in forks[i][b[1]].txs
      BY <1>1, <1>8 DEF Placed
  <2>2. b[1] \in DOMAIN forks'[i]
      BY <1>1, <1>2, <1>6, <2>1
  <2> QED BY <1>2, <1>7, <2>1, <2>2 DEF Placed
<1>9. SubSeq(forks'[i], 1, b[1]) = SubSeq(forks[i], 1, b[1])
    BY <1>1, <1>2, <1>3, <1>6, SamePrefix
<1> QED BY <1>1, <1>2, <1>3, <1>6, <1>7, <1>8, <1>9

LEMMA OutsideKeeps ==
    ASSUME Base, Outside
    PROVE  Base'
<1>1. /\ BackendStep
      /\ db' = db /\ unspent' = unspent /\ known' = known /\ lastSync' = lastSync
      /\ lock' = lock /\ pc' = pc /\ sync' = sync
    BY BackendKeeps DEF Outside, wallet, Base
<1>2. Chains' /\ Grown /\ (served' = 0 => served = 0) /\ Chains
    BY <1>1 DEF BackendStep, Base
<1>3. InBlock' = InBlock /\ Rows' = Rows
    BY <1>1 DEF InBlock, Rows
<1>4. TypeOK'
  <2>1. BackendTypeOK'
      BY <1>2 DEF Chains
  <2> QED BY <1>1, <1>3, <2>1 DEF Base, TypeOK
<1>5. Fresh'
    BY <1>1, <1>2, <1>3 DEF Base, Fresh
<1>6. Cover'
  <2>1. PICK i \in DOMAIN forks :
           /\ OnChain(lastSync, forks[i])
           /\ \A t \in InBlock : db[t].block[1] <= lastSync[1] /\ Placed(t, db[t].block, forks[i])
      BY DEF Base, Cover
  <2>2. lastSync[1] \in Nat /\ \A t \in InBlock : db[t].block[1] \in Nat
      BY BaseIs, BlocksAre
  <2>3. i \in DOMAIN forks' /\ OnChain(lastSync, forks'[i])
      BY <1>2, <2>1, <2>2, GrownKeeps
  <2>4. ASSUME NEW t \in InBlock PROVE Placed(t, db[t].block, forks'[i])
    <3>1. OnChain(db[t].block, forks[i]) /\ Placed(t, db[t].block, forks[i])
        BY <2>1 DEF Placed
    <3> QED BY <1>2, <2>2, <3>1, GrownKeeps
  <2> QED BY <1>1, <1>3, <2>1, <2>3, <2>4 DEF Cover
<1>7. SyncSeen'
  <2>1. FirstSuccessTxBefore(Top)' = FirstSuccessTxBefore(Top)
      BY <1>1, <1>3 DEF FirstSuccessTxBefore, Top
  <2>2. ASSUME sync.step # "none"
        PROVE  \E i \in DOMAIN forks' :
                  /\ OnChain(sync.best, forks'[i])
                  /\ \A c \in DOMAIN sync.pages : PagePlaced(sync.pages[c], Prefix(i, sync.best[1])')
    <3>1. PICK i \in DOMAIN forks :
             /\ OnChain(sync.best, forks[i])
             /\ \A c \in DOMAIN sync.pages : PagePlaced(sync.pages[c], Prefix(i, sync.best[1]))
        BY <2>2 DEF Base, SyncSeen
    <3>2. sync.best[1] \in Nat
        BY <2>2, BlocksAre DEF Base, SyncSeen
    <3>3. /\ i \in DOMAIN forks' /\ OnChain(sync.best, forks'[i])
          /\ SubSeq(forks'[i], 1, sync.best[1]) = SubSeq(forks[i], 1, sync.best[1])
        BY <1>2, <3>1, <3>2, GrownKeeps
    <3>4. Prefix(i, sync.best[1])' = Prefix(i, sync.best[1])
        BY <1>1, <3>3 DEF Prefix
    <3> QED BY <3>1, <3>3, <3>4
  <2>3. sync'.step = sync.step /\ sync'.best = sync.best /\ sync'.pages = sync.pages
      BY <1>1
  <2> QED BY <1>1, <2>1, <2>2 DEF Base, SyncSeen
<1> QED BY <1>2, <1>4, <1>5, <1>6, <1>7 DEF Base

LEMMA BaseStart == Init => Base
<1> SUFFICES ASSUME Init PROVE Base
    OBVIOUS
<1> DEFINE b == [fork |-> 1, txs |-> Before]
           c == <<b>>
<1>1. /\ forks = <<c>> /\ served = 0
      /\ pool = [t \in Txs |-> IF t \in Before THEN "out" ELSE "new"]
      /\ db = [t \in Txs |-> NoRow] /\ unspent = {} /\ known = Gap /\ lastSync = NoBlock
      /\ lock = Nobody /\ sync = NoSync /\ pc = [p \in Refreshes |-> "idle"]
    BY DEF Init, BackendInit
<1>2. /\ b \in Block /\ b.fork = 1 /\ b.txs = Before
      /\ 1 \in 1..MaxForks /\ 1 \in 1..MaxHeight
    BY BackendAssumption DEF Block
<1> HIDE DEF b
<1>3. c \in Seq(Block) /\ Len(c) = 1 /\ DOMAIN c = {1} /\ c[1] = b
    BY <1>2
<1>4. \A t : t \in TxsIn(c) <=> t \in Before
    BY <1>2, <1>3, TxsInIs
<1> HIDE DEF c
<1>5. /\ forks \in Seq(Seq(Block)) /\ Len(forks) = 1 /\ DOMAIN forks = {1} /\ forks[1] = c
      /\ Chain = c
    BY <1>1, <1>3 DEF Chain, Last
<1>6. Valid(c)
  <2>1. \A t \in Before : \A s \in Spends[t] : s \in Before
      BY BackendAssumption
  <2>2. \A t, u \in Before : t # u => Spends[t] \cap Spends[u] = {}
      BY BackendAssumption
  <2>3. \E g \in 1..1 : g \in {1}
      OBVIOUS
  <2> QED BY <1>2, <1>3, <2>1, <2>2, <2>3 DEF Valid
<1>7. Chains
  <2>1. BackendTypeOK
      BY <1>1, <1>3, <1>5 DEF BackendTypeOK, Block
  <2>2. Lengths /\ ForkNumbers
    <3>1. \A i \in DOMAIN forks : i = 1 /\ forks[i] = c
        BY <1>5
    <3>2. Len(forks) \in 1..MaxForks /\ Len(c) \in 1..MaxHeight
        BY <1>2, <1>3, <1>5
    <3>3. \A h \in DOMAIN c : c[h].fork <= 1
        BY <1>2, <1>3
    <3> QED BY <3>1, <3>2, <3>3 DEF Lengths, ForkNumbers
  <2>3. SameHash
      BY <1>5 DEF SameHash
  <2>4. PoolRight
      BY <1>1, <1>4, <1>5 DEF PoolRight
  <2> QED BY <1>5, <1>6, <2>1, <2>2, <2>3, <2>4 DEF Chains
<1>8. InBlock = {} /\ NoRow \in RowType
    BY <1>1, NoBlockIs DEF InBlock, NoRow, RowType, Statuses
<1>9. TypeOK
  <2>1. db \in [Txs -> [st : Statuses, block : Blocks, own : BOOLEAN]]
      BY <1>1, <1>8 DEF RowType
  <2>2. pc \in [Refreshes -> {"idle", "failed", "running", "refused", "overtaken"}]
      BY <1>1
  <2>3. \A p \in Refreshes : pc[p] = "running" <=> lock = p
      BY <1>1, SyncAssumption
  <2>4. sync.step = "none" /\ known \in Nat
      BY <1>1, SyncAssumption DEF NoSync
  <2> QED BY <1>1, <1>7, <2>1, <2>2, <2>3, <2>4, NoBlockIs DEF TypeOK, Chains
<1>10. Cover
  <2>1. OnChain(NoBlock, c)
      BY <1>3, NoBlockIs DEF OnChain, Hash
  <2> QED BY <1>1, <1>5, <1>8, <2>1 DEF Cover
<1>11. Fresh /\ SyncSeen
    BY <1>1, <1>8 DEF Fresh, SyncSeen, NoSync
<1> QED BY <1>7, <1>9, <1>10, <1>11 DEF Base

LEMMA BaseStep == Base /\ [Next]_vars => Base'
<1> SUFFICES ASSUME Base, [Next]_vars PROVE Base'
    OBVIOUS
<1>1. CASE Outside
    BY <1>1, OutsideKeeps
<1>2. CASE RemoveAllTransactions
    BY <1>2, RemoveKeeps
<1>3. ASSUME NEW p \in Refreshes, Wallet(p) \/ Fail(p) PROVE Base'
  <2>1. CASE Begin(p)
      BY <2>1, BeginKeeps
  <2>2. CASE RawScanAddresses(p)
      BY <2>2, ScanKeeps
  <2>3. CASE Rollback(p)
      BY <2>3, RollbackKeeps
  <2>4. CASE \E c \in Chunks(sync.known) : Page(p, c)
      BY <2>4, PageKeeps
  <2>5. CASE Fail(p)
      BY <2>5, ReleaseKeeps DEF Fail
  <2> QED BY <1>3, <2>1, <2>2, <2>3, <2>4, <2>5 DEF Wallet
<1>4. CASE UNCHANGED vars
  <2>1. /\ UNCHANGED bvars
        /\ db' = db /\ unspent' = unspent /\ known' = known /\ lastSync' = lastSync
        /\ lock' = lock /\ pc' = pc /\ sync' = sync
      BY <1>4 DEF vars, bvars
  <2>2. /\ InBlock' = InBlock /\ Rows' = Rows /\ Chains' /\ forks' = forks /\ served' = served
        /\ FirstSuccessTxBefore(Top)' = FirstSuccessTxBefore(Top)
      BY <2>1, ChainsSame DEF InBlock, Rows, bvars, Base, FirstSuccessTxBefore, Top
  <2>3. TypeOK' /\ Fresh' /\ Cover'
    <3>1. BackendTypeOK'
        BY <2>2 DEF Chains
    <3> QED BY <2>1, <2>2, <3>1 DEF Base, TypeOK, Fresh, Cover
  <2>4. SyncSeen'
    <3>1. \A i : Prefix(i, sync.best[1])' = Prefix(i, sync.best[1])
        BY <2>1, <2>2 DEF Prefix
    <3> QED BY <2>1, <2>2, <3>1 DEF Base, SyncSeen
  <2> QED BY <2>2, <2>3, <2>4 DEF Base
<1> QED BY <1>1, <1>2, <1>3, <1>4 DEF Next

\* Base is inductive: every step of the backend, every request of a refresh that is
\* answered, refused or fails, and every rollback and removal keeps it.
THEOREM SyncInductive == Spec => []Base
BY BaseStart, BaseStep, PTL DEF Spec

\* Rows, addresses and LastSyncInfo keep their types, and who has the lock runs.
THEOREM SyncTypeCorrect == Spec => []TypeOK
<1>1. Base => TypeOK
    BY DEF Base
<1> QED BY <1>1, SyncInductive, PTL

\* LastSyncInfo and the confirmed rows are always of one chain and no confirmed row is
\* above it, also when a reorganisation, a refusal, a rollback of a refresh and another
\* refresh come in any order: the next rollback finds all there is to roll back.
THEOREM SyncPointIsKept == Spec => []SyncPointCovers
<1>1. Base => SyncPointCovers
  <2> SUFFICES ASSUME Base PROVE SyncPointCovers
      OBVIOUS
  <2>1. PICK i \in DOMAIN forks :
           /\ OnChain(lastSync, forks[i])
           /\ \A t \in InBlock : db[t].block[1] <= lastSync[1] /\ Placed(t, db[t].block, forks[i])
      BY DEF Base, Cover
  <2>2. lastSync[1] \in Nat /\ forks[i] \in Seq(Block) /\ Len(forks[i]) \in Nat /\ Valid(forks[i])
      BY BaseIs, BlocksAre, ChainsIs, BackendAssumption DEF Base
  <2>3. lastSync[1] \in 0..Len(forks[i])
      BY <2>1, <2>2 DEF OnChain
  <2>4. /\ SubSeq(forks[i], 1, lastSync[1]) \in Seq(Block)
        /\ Valid(SubSeq(forks[i], 1, lastSync[1]))
      BY <2>2, <2>3, PrefixIs, ValidPrefix
  <2>5. ASSUME NEW t \in InBlock
        PROVE  <<t, db[t].block>> \in OwnOf(SubSeq(forks[i], 1, lastSync[1]))
    <3> DEFINE c == SubSeq(forks[i], 1, lastSync[1])
    <3>1. db[t].block[1] \in Nat
        BY BaseIs
    <3>2. Placed(t, db[t].block, c)
        BY <2>1, <2>2, <2>3, <3>1, PlacedPrefix
    <3> HIDE DEF c
    <3>3. t \in TxsIn(c) /\ db[t].block = PlaceOf(t, c)
        BY <2>4, <3>2, PlaceIs DEF c
    <3> QED BY <3>3 DEF OwnOf, c
  <2> QED BY <2>1, <2>5 DEF SyncPointCovers, Confirmed
<1> QED BY <1>1, SyncInductive, PTL

\* A row loses its confirmation only in the rollback of a refresh the backend refused,
\* if nobody has written LastSyncInfo since; no page and no failure does that.
THEOREM RollbackIsAnAnswer == Spec => RollbackAnswersRefusal
<1> DEFINE A == (\E t \in Txs : db[t].st = "IN_BLOCK" /\ db'[t].st = "ROLLBACK_FAIL")
                   => \E p \in Refreshes : pc[p] = "refused" /\ pc'[p] = "idle"
<1>1. ASSUME Base, [Next]_vars PROVE [A]_vars
  <2> SUFFICES ASSUME NEW t \in Txs, db[t].st = "IN_BLOCK", db'[t].st = "ROLLBACK_FAIL"
               PROVE  \E p \in Refreshes : pc[p] = "refused" /\ pc'[p] = "idle"
      OBVIOUS
  <2>1. db' # db
      OBVIOUS
  <2>2. ~Outside /\ ~UNCHANGED vars
      BY <2>1 DEF Outside, wallet, vars
  <2>3. ~RemoveAllTransactions
      BY DEF RemoveAllTransactions, NoRow
  <2>4. PICK p \in Refreshes : Wallet(p) \/ Fail(p)
      BY <1>1, <2>2, <2>3 DEF Next
  <2>5. ~Begin(p) /\ ~RawScanAddresses(p) /\ ~Fail(p)
      BY <2>1 DEF Begin, RawScanAddresses, Fail, Release, wallet
  <2>6. ASSUME NEW c \in Chunks(sync.known), Page(p, c) PROVE FALSE
    <3> DEFINE pages == [d \in DOMAIN sync.pages \cup {c} |-> IF d = c THEN PageOf(c) ELSE sync.pages[d]]
    <3>1. sync.step = "pages" /\ Accepts /\ UpdateTransactionBatch(Response(pages)) /\ DOMAIN pages = Chunks(sync.known)
        BY <2>1, <2>6 DEF Page, Release, wallet
    <3>2. \A d \in DOMAIN pages : PagePlaced(pages[d], Until)
      <4>1. \A d \in DOMAIN sync.pages : PagePlaced(sync.pages[d], Until)
          BY <1>1, <3>1, UntilIs
      <4>2. PagePlaced(PageOf(c), Until)
          BY <1>1, <3>1, PageIsPlaced
      <4> QED BY <4>1, <4>2
    <3> HIDE DEF pages
    <3>3. DOMAIN pages \subseteq Nat
      <4>1. sync.known \in Nat
          BY <1>1, <3>1 DEF Base, SyncSeen
      <4> QED BY <3>1, <4>1, ChunksAre
    <3>4. PagePlaced(Response(pages), Until)
        BY <3>2, <3>3, ResponsePlaced
    <3> DEFINE resp == Response(pages)
    <3>5. resp[t].st # "ROLLBACK_FAIL"
        BY <3>4 DEF PagePlaced, Absent
    <3> HIDE DEF resp
    <3>6. db' = [u \in Txs |->
              CASE resp[u].st # "none" ->
                     [st |-> resp[u].st, block |-> resp[u].block,
                      own |-> IF u \in Rows THEN db[u].own ELSE AddrOf[u] <= sync.known]
                [] ~(resp[u].st # "none") /\ db[u].st = "PENDING" -> [db[u] EXCEPT !.st = "NOT_IN_REMOTE"]
                [] OTHER -> db[u]]
        BY <3>1 DEF UpdateTransactionBatch, resp
    <3> QED BY <3>5, <3>6
  <2>7. Rollback(p)
      BY <2>4, <2>5, <2>6 DEF Wallet
  <2>8. pc[p] = "refused" /\ pc' = [q \in Refreshes |-> IF q = p THEN "idle"
                                  ELSE IF pc[q] = "refused" THEN "overtaken" ELSE pc[q]]
      BY <2>1, <2>7 DEF Rollback, OverrideLastSyncInfo, wallet
  <2> QED BY <2>8
<1>2. Spec => [][A]_vars
    BY <1>1, SyncInductive, PTL DEF Spec
<1> QED BY <1>2 DEF RollbackAnswersRefusal, A

-----------------------------------------------------------------------------
(* With nothing read twice by the backend between its best block and the pages, and     *)
(* addresses used in order.                                                             *)

\* No address is used further than Gap beyond another one in use, or beyond the start.
GapKept == \A t \in TxsIn(Served) \cup Waiting :
    \/ AddrOf[t] <= Gap
    \/ \E s \in TxsIn(Served) \cup Waiting : AddrOf[s] < AddrOf[t] /\ AddrOf[t] <= AddrOf[s] + Gap

\* What is confirmed is an initial part of a chain, all of it.
OfChain(chain) == \A t \in Txs :
    /\ t \in InBlock => Placed(t, db[t].block, chain)
    /\ t \in TxsIn(chain) => t \in InBlock
Exact == \E i \in DOMAIN forks : \E h \in 0..Len(forks[i]) : OfChain(Prefix(i, h))

\* A row that lost its confirmation and still has a block.
Loose(t) == t \notin InBlock /\ db[t].block # NoBlock
Clash(t, u) == t # u /\ Spends[t] \cap Spends[u] # {}

RowsRight == \A t \in Txs :
    /\ db[t].block # NoBlock => db[t].st \in {"IN_BLOCK", "ROLLBACK_FAIL"} /\ pool[t] # "new"
    /\ db[t].st = "none" => db[t].block = NoBlock

\* If one stands against a confirmed row then the network has dropped it for good.
LooseGone == \A t \in Txs : Loose(t) => \A u \in InBlock : Clash(t, u) => Gone(t)

\* The address of a confirmed row was known when the row was added.
Owned == \A t \in Txs :
    /\ t \in InBlock => db[t].own
    /\ t \in Rows /\ ~db[t].own => pool[t] = "failed"

\* An output that is not unspent is spent by a confirmed row; one that is, by none, unless
\* a row that lost its confirmation spends it too.
Unspent ==
    /\ \A t \in Rows \ unspent : \E u \in InBlock : t \in Spends[u]
    /\ \A t \in unspent, u \in InBlock : t \in Spends[u] => \E v \in Txs : Loose(v) /\ t \in Spends[v]

\* Every address that the pages are about was found.
Scanned ==
    /\ sync.step = "scan" /\ OnChain(sync.best, Chain) => sync.best[1] <= served
    /\ sync.step = "pages" /\ OnChain(sync.best, Chain) =>
          \A g \in 1..sync.best[1] : \A t \in Chain[g].txs : AddrOf[t] <= sync.known
    /\ sync.step = "pages" => \A t \in Waiting : AddrOf[t] <= sync.known

\* What a page does not report was known before, or the network has dropped it.
PageFull(a, c, chain) == \A t \in Txs :
    /\ t \in TxsIn(chain) /\ Touches(t, AddressesOf(c)) /\ a[t].st = "none" => ~Beyond(t, PlaceOf(t, chain))
    /\ a[t].st = "PENDING" => AddrOf[t] <= sync.known
    /\ a[t].st = "FAIL_RESPONSE" => pool[t] = "failed"
    /\ Loose(t) => /\ \A u \in InBlock : Clash(t, u) => a[t].st = "none"
                   /\ a[t].st = "none" /\ Touches(t, AddressesOf(c)) =>
                         \A u \in TxsIn(chain) : Clash(t, u) => Gone(t)
PagesFull == sync.step = "pages" =>
    \E i \in DOMAIN forks :
       /\ OnChain(sync.best, forks[i])
       /\ \A c \in DOMAIN sync.pages : PageFull(sync.pages[c], c, Prefix(i, sync.best[1]))

RowsFull == Exact /\ RowsRight /\ LooseGone /\ Owned /\ Unspent
SyncFull == Scanned /\ PagesFull

LEMMA IdleFull == ASSUME sync' = NoSync PROVE SyncFull'
BY DEF SyncFull, Scanned, PagesFull, NoSync

LEMMA RowsSame ==
    ASSUME RowsFull, UNCHANGED bvars, db' = db, unspent' = unspent
    PROVE  RowsFull'
<1>1. /\ forks' = forks /\ pool' = pool /\ Chain' = Chain /\ InBlock' = InBlock /\ Rows' = Rows
    BY DEF bvars, Chain, InBlock, Rows
<1>2. Exact'
    BY <1>1 DEF RowsFull, Exact, OfChain, Prefix
<1>3. RowsRight' /\ Owned'
    BY <1>1 DEF RowsFull, RowsRight, Owned
<1>4. LooseGone'
    BY <1>1 DEF RowsFull, LooseGone, Loose, Gone
<1>5. Unspent'
    BY <1>1 DEF RowsFull, Unspent, Loose
<1> QED BY <1>2, <1>3, <1>4, <1>5 DEF RowsFull

\* Confirmed rows spend different outputs, of confirmed rows.
LEMMA ConfirmedRows ==
    ASSUME Base
    PROVE  /\ \A t, u \in InBlock : ~Clash(t, u)
           /\ Exact => \A u \in InBlock : \A t \in Spends[u] : t \in InBlock
<1>1. ASSUME NEW t \in InBlock, NEW u \in InBlock PROVE ~Clash(t, u)
  <2>1. PICK i \in DOMAIN forks : \A v \in InBlock : Placed(v, db[v].block, forks[i])
      BY DEF Base, Cover
  <2>2. Valid(forks[i])
      BY ChainsIs DEF Base
  <2> QED BY <2>1, <2>2 DEF Placed, Valid, Clash
<1>2. ASSUME Exact, NEW u \in InBlock, NEW t \in Spends[u] PROVE t \in InBlock
  <2>1. PICK i \in DOMAIN forks : \E h \in 0..Len(forks[i]) : OfChain(Prefix(i, h))
      BY <1>2 DEF Exact
  <2>2. PICK h \in 0..Len(forks[i]) : OfChain(Prefix(i, h))
      BY <2>1
  <2>3. Prefix(i, h) \in Seq(Block) /\ Valid(Prefix(i, h)) /\ Len(Prefix(i, h)) \in Nat
      BY ChainsIs, PrefixIs, ValidPrefix DEF Base, Prefix
  <2> DEFINE c == Prefix(i, h)
             g == db[u].block[1]
  <2>4. u \in Txs /\ t \in Txs /\ g \in DOMAIN c /\ u \in c[g].txs
    <3>1. u \in Txs
        BY DEF InBlock
    <3>2. t \in Txs
        BY <3>1, BackendAssumption
    <3> QED BY <2>2, <3>1, <3>2 DEF OfChain, Placed
  <2> HIDE DEF c, g
  <2>5. PICK k \in 1..g : t \in c[k].txs
      BY <2>3, <2>4 DEF Valid, c
  <2>6. k \in DOMAIN c
    <3>1. DOMAIN c = 1..Len(c) /\ Len(c) \in Nat
        BY <2>3 DEF c
    <3> QED BY <2>4, <3>1
  <2>7. t \in TxsIn(c)
      BY <2>5, <2>6, TxsInIs
  <2> QED BY <2>2, <2>4, <2>7 DEF OfChain, c
<1> QED BY <1>1, <1>2

LEMMA OutsideFull ==
    ASSUME SteadyScan, Base, RowsFull, SyncFull, Outside
    PROVE  RowsFull' /\ SyncFull'
<1>1. /\ BackendStep /\ (BackendNext => ServedKept)
      /\ db' = db /\ unspent' = unspent /\ known' = known /\ lastSync' = lastSync
      /\ lock' = lock /\ pc' = pc /\ sync' = sync
    BY BackendKeeps DEF Outside, wallet, Base
<1>2. Chains' /\ Grown /\ Continued /\ PoolMoves /\ Chains
    BY <1>1 DEF BackendStep, Base
<1>3. InBlock' = InBlock /\ Rows' = Rows
    BY <1>1 DEF InBlock, Rows
<1>4. \A t : Loose(t)' <=> Loose(t)
    BY <1>1, <1>3 DEF Loose
<1>5. \A t \in Txs : /\ Gone(t) => Gone(t)'
                     /\ pool[t] = "failed" => pool'[t] = "failed"
                     /\ pool'[t] = "new" => pool[t] = "new"
    BY <1>2 DEF PoolMoves
<1>6. ASSUME NEW i \in DOMAIN forks, NEW h \in 0..Len(forks[i])
      PROVE  i \in DOMAIN forks' /\ h \in 0..Len(forks'[i]) /\ Prefix(i, h)' = Prefix(i, h)
  <2>1. /\ forks[i] \in Seq(Block) /\ Len(forks[i]) \in Nat /\ DOMAIN forks[i] = 1..Len(forks[i])
      BY <1>2, ChainsIs
  <2>2. i \in DOMAIN forks' /\ Len(forks[i]) <= Len(forks'[i]) /\ \A g \in 1..Len(forks[i]) : forks'[i][g] = forks[i][g]
      BY <1>2 DEF Grown
  <2>3. forks'[i] \in Seq(Block) /\ Len(forks'[i]) \in Nat
    <3>1. forks' \in Seq(Seq(Block))
        BY <1>2 DEF Chains, BackendTypeOK, Block
    <3> QED BY <2>2, <3>1
  <2>4. Prefix(i, h)' = SubSeq(forks'[i], 1, h)
      BY DEF Prefix
  <2> QED BY <2>1, <2>2, <2>3, <2>4, SamePrefix DEF Prefix
<1>7. RowsFull'
  <2>1. Exact'
    <3>1. PICK i \in DOMAIN forks : \E h \in 0..Len(forks[i]) : OfChain(Prefix(i, h))
        BY DEF RowsFull, Exact
    <3>2. PICK h \in 0..Len(forks[i]) : OfChain(Prefix(i, h))
        BY <3>1
    <3>3. OfChain(Prefix(i, h))'
        BY <1>1, <1>3, <1>6, <3>2 DEF OfChain
    <3> QED BY <1>6, <3>3 DEF Exact
  <2>2. RowsRight' /\ Owned'
      BY <1>1, <1>3, <1>5 DEF RowsFull, RowsRight, Owned, Rows
  <2>3. LooseGone'
      BY <1>3, <1>4, <1>5 DEF RowsFull, LooseGone
  <2>4. Unspent'
      BY <1>1, <1>3, <1>4 DEF RowsFull, Unspent
  <2> QED BY <2>1, <2>2, <2>3, <2>4 DEF RowsFull
<1>8. ASSUME sync.step # "none"
      PROVE  /\ sync.best[1] \in Nat
             /\ \E i \in DOMAIN forks : OnChain(sync.best, forks[i])
             /\ OnChain(sync.best, Chain') => OnChain(sync.best, Chain)
  <2>1. sync.best[1] \in Nat
      BY <1>8, BlocksAre DEF Base, SyncSeen
  <2>2. PICK i \in DOMAIN forks : OnChain(sync.best, forks[i])
      BY <1>8 DEF Base, SyncSeen
  <2>3. OnChain(sync.best, Chain') => OnChain(sync.best, Chain)
      BY <1>2, <2>1, <2>2 DEF Continued
  <2> QED BY <2>1, <2>2, <2>3
<1>9. Scanned'
  <2>1. ASSUME sync.step = "scan", OnChain(sync.best, Chain') PROVE sync.best[1] <= served'
    <3>1. BackendNext
        BY <2>1 DEF Outside
    <3>2. sync.best[1] <= served /\ sync.best[1] <= Len(Chain')
        BY <1>8, <2>1 DEF SyncFull, Scanned, OnChain
    <3> QED BY <1>1, <1>8, <2>1, <3>1, <3>2 DEF ServedKept
  <2>2. ASSUME sync.step = "pages", OnChain(sync.best, Chain'), NEW g \in 1..sync.best[1], NEW t \in Chain'[g].txs
        PROVE  AddrOf[t] <= sync.known
    <3>1. OnChain(sync.best, Chain) /\ sync.best[1] <= Len(Chain) /\ sync.best[1] <= Len(Chain')
        BY <1>8, <2>2 DEF OnChain
    <3>2. Len(Chain) \in Nat /\ Len(Chain') = Len(Chain)' /\ sync.best[1] \in Nat
        BY <1>2, <1>8, <2>2, ChainsIs, BackendAssumption
    <3>3. g \in 1..Len(Chain) /\ g <= Len(Chain')
      <4>1. Len(Chain') \in Nat
        <5>1. served' \in 0..Len(Chain')
            BY <1>2 DEF Chains, BackendTypeOK
        <5>2. forks' \in Seq(Seq(Block)) /\ Len(forks') \in 1..MaxForks
            BY <1>2 DEF Chains, BackendTypeOK, Block, Lengths
        <5>3. Chain' = forks'[Len(forks')]
            BY DEF Chain, Last
        <5>4. Chain' \in Seq(Block)
            BY <5>2, <5>3, BackendAssumption
        <5> QED BY <5>4
      <4> QED BY <3>1, <3>2, <4>1
    <3>4. Chain'[g] = Chain[g]
        BY <1>2, <3>2, <3>3 DEF Continued
    <3> QED BY <2>2, <3>1, <3>4 DEF SyncFull, Scanned
  <2>3. ASSUME sync.step = "pages", NEW t \in Waiting' PROVE AddrOf[t] <= sync.known
      BY <2>3 DEF Outside
  <2> QED BY <1>1, <2>1, <2>2, <2>3 DEF Scanned
<1>10. PagesFull'
  <2> SUFFICES ASSUME sync.step = "pages"
               PROVE  \E i \in DOMAIN forks' :
                         /\ OnChain(sync.best, forks'[i])
                         /\ \A c \in DOMAIN sync.pages : PageFull(sync.pages[c], c, Prefix(i, sync.best[1]))'
      BY <1>1 DEF PagesFull
  <2>1. PICK i \in DOMAIN forks :
           /\ OnChain(sync.best, forks[i])
           /\ \A c \in DOMAIN sync.pages : PageFull(sync.pages[c], c, Prefix(i, sync.best[1]))
      BY DEF SyncFull, PagesFull
  <2>2. sync.best[1] \in Nat
      BY <1>8
  <2>3. /\ i \in DOMAIN forks' /\ OnChain(sync.best, forks'[i])
        /\ SubSeq(forks'[i], 1, sync.best[1]) = SubSeq(forks[i], 1, sync.best[1])
      BY <1>2, <2>1, <2>2, GrownKeeps
  <2>4. Prefix(i, sync.best[1])' = Prefix(i, sync.best[1])
      BY <1>1, <2>3 DEF Prefix
  <2>5. ASSUME NEW c \in DOMAIN sync.pages
        PROVE  PageFull(sync.pages[c], c, Prefix(i, sync.best[1]))'
    <3> DEFINE chain == Prefix(i, sync.best[1])
    <3>1. PageFull(sync.pages[c], c, chain)
        BY <2>1
    <3>2. chain' = chain
        BY <2>4
    <3> HIDE DEF chain
    <3>3. \A t : Touches(t, AddressesOf(c))' <=> Touches(t, AddressesOf(c))
        BY <1>1 DEF Touches, AddressesOf
    <3>4. \A t, b : Beyond(t, b)' <=> Beyond(t, b)
        BY <1>1 DEF Beyond, BlockOf
    <3>5. PageFull(sync.pages[c], c, chain)'
        BY <1>1, <1>3, <1>4, <1>5, <3>1, <3>2, <3>3, <3>4 DEF PageFull
    <3> QED BY <3>5 DEF chain
  <2> QED BY <2>3, <2>5
<1> QED BY <1>7, <1>9, <1>10 DEF SyncFull

\* Discovery finds every address the backend answers.
LEMMA UsedAreFound ==
    ASSUME Base, GapKept
    PROVE  \A t \in TxsIn(Served) \cup Waiting : AddrOf[t] <= Discovered
<1>1. Discovered \in Nat
    BY DiscoveredIs
<1>2. PICK last, end \in Nat :
         /\ last + Gap <= end /\ end <= Discovered
         /\ \A a \in Used : a \in (end - Gap + 1)..end => a <= last
    BY DiscoveredIs
<1>3. \A t \in TxsIn(Served) \cup Waiting : t \in Txs /\ AddrOf[t] \in Nat /\ AddrOf[t] \in Used
  <2>1. Served \in Seq(Block)
      BY ChainsIs, PrefixIs DEF Served, Base
  <2>2. ASSUME NEW t, t \in TxsIn(Served) PROVE t \in Txs
    <3>1. PICK h \in DOMAIN Served : t \in Served[h].txs
        BY <2>2, TxsInIs
    <3> QED BY <2>1, <3>1, BlockIs
  <2>3. \A t \in Waiting : t \in Txs
      BY DEF Waiting
  <2> QED BY <2>2, <2>3, BackendAssumption DEF Used
<1>4. Gap \in Nat
    BY SyncAssumption
<1> DEFINE B == {a \in Used : a > end}
<1>5. ASSUME B # {} PROVE FALSE
  <2>1. B \in SUBSET Nat
      BY <1>3 DEF Used
  <2>2. PICK a \in B : \A m \in B : a <= m
    <3> HIDE DEF B
    <3> QED BY <1>5, <2>1, LeastOf
  <2>3. a \in Used /\ a > end /\ a \in Nat
      BY <2>1
  <2>4. PICK t \in TxsIn(Served) \cup Waiting : a = AddrOf[t]
      BY <2>3 DEF Used
  <2>5. ~(AddrOf[t] <= Gap)
      BY <1>2, <1>4, <2>3, <2>4
  <2>6. PICK s \in TxsIn(Served) \cup Waiting : AddrOf[s] < AddrOf[t] /\ AddrOf[t] <= AddrOf[s] + Gap
      BY <2>5 DEF GapKept
  <2>7. AddrOf[s] \in Used /\ AddrOf[s] \in Nat
      BY <1>3
  <2>8. AddrOf[s] <= end
    <3>1. AddrOf[s] > end => AddrOf[s] \in B
        BY <2>7
    <3> HIDE DEF B
    <3>2. AddrOf[s] > end => a <= AddrOf[s]
        BY <2>2, <3>1
    <3> QED BY <1>2, <2>3, <2>4, <2>6, <2>7, <3>2
  <2>9. AddrOf[s] \in (end - Gap + 1)..end
      BY <1>2, <1>4, <2>3, <2>4, <2>6, <2>7, <2>8
  <2>10. AddrOf[s] <= last
      BY <1>2, <2>7, <2>9
  <2> QED BY <1>2, <1>4, <2>3, <2>4, <2>6, <2>7, <2>10
<1>6. ASSUME NEW t \in TxsIn(Served) \cup Waiting PROVE AddrOf[t] <= Discovered
  <2>1. AddrOf[t] \in Nat /\ ~(AddrOf[t] > end)
      BY <1>3, <1>5
  <2> QED BY <1>1, <1>2, <2>1
<1> QED BY <1>6

LEMMA ScanFull ==
    ASSUME Base, RowsFull, SyncFull, GapKept, NEW p \in Refreshes, RawScanAddresses(p)
    PROVE  RowsFull' /\ SyncFull'
<1>1. /\ sync.step = "scan"
      /\ sync' = [sync EXCEPT !.step = "pages", !.known = Discovered, !.after = FirstSuccessTxBefore(Top)]
      /\ UNCHANGED bvars /\ db' = db /\ unspent' = unspent
    BY DEF RawScanAddresses, wallet
<1>2. /\ sync = [step |-> sync.step, best |-> sync.best, known |-> sync.known,
                 after |-> sync.after, pages |-> sync.pages]
      /\ sync.pages = <<>> /\ sync.best[1] \in Nat
    BY <1>1, BlocksAre DEF Base, SyncSeen
<1>3. /\ sync'.step = "pages" /\ sync'.best = sync.best /\ sync'.known = Discovered
      /\ sync'.pages = <<>>
    BY <1>1, <1>2
<1>4. /\ forks' = forks /\ served' = served /\ pool' = pool /\ Chain' = Chain /\ Waiting' = Waiting
    BY <1>1 DEF bvars, Chain, Waiting, Served
<1>5. RowsFull'
    BY <1>1, RowsSame
<1>6. Scanned'
  <2>1. ASSUME OnChain(sync.best, Chain), NEW g \in 1..sync.best[1], NEW t \in Chain[g].txs
        PROVE  AddrOf[t] <= Discovered
    <3>1. sync.best[1] <= served /\ served \in 0..Len(Chain) /\ Chain \in Seq(Block)
        BY <1>1, <2>1, ChainsIs DEF SyncFull, Scanned, Base
    <3>2. g \in 1..served
        BY <1>2, <3>1
    <3>3. t \in TxsIn(Served)
        BY <2>1, <3>1, <3>2, PrefixTxs DEF Served
    <3> QED BY <3>3, UsedAreFound
  <2>2. \A t \in Waiting : AddrOf[t] <= Discovered
      BY UsedAreFound
  <2> QED BY <1>3, <1>4, <2>1, <2>2 DEF Scanned
<1>7. PagesFull'
  <2>1. PICK i \in DOMAIN forks : OnChain(sync.best, forks[i])
      BY <1>1 DEF Base, SyncSeen
  <2>2. DOMAIN sync'.pages = {}
      BY <1>3
  <2> QED BY <1>3, <1>4, <2>1, <2>2 DEF PagesFull
<1> QED BY <1>5, <1>6, <1>7 DEF SyncFull

LEMMA BeginFull ==
    ASSUME Base, RowsFull, NEW p \in Refreshes, Begin(p)
    PROVE  RowsFull' /\ SyncFull'
<1> DEFINE best == Hash(Chain, served)
<1>1. /\ UNCHANGED bvars /\ db' = db /\ unspent' = unspent
      /\ \/ sync' = [NoSync EXCEPT !.step = "scan", !.best = best]
         \/ sync' = NoSync
  <2>1. lock = Nobody => sync = NoSync
      BY BaseIs
  <2> QED BY <2>1 DEF Begin, wallet
<1>2. RowsFull'
    BY <1>1, RowsSame
<1>3. best[1] = served
  <2>1. served \in Nat
      BY ChainsIs, BackendAssumption DEF Base
  <2> QED BY <2>1 DEF Hash, NoBlock
<1> HIDE DEF best
<1>4. CASE sync' = [NoSync EXCEPT !.step = "scan", !.best = best]
  <2>1. sync'.step = "scan" /\ sync'.best = best
      BY <1>4 DEF NoSync
  <2>2. served' = served /\ served <= served
    <3>1. served \in Nat
        BY ChainsIs, BackendAssumption DEF Base
    <3> QED BY <1>1, <3>1 DEF bvars
  <2> QED BY <1>2, <1>3, <2>1, <2>2 DEF SyncFull, Scanned, PagesFull
<1> QED BY <1>1, <1>2, <1>4, IdleFull

LEMMA ReleaseFull ==
    ASSUME RowsFull, UNCHANGED bvars, NEW p, NEW state, Release(p, state)
    PROVE  RowsFull' /\ SyncFull'
BY RowsSame, IdleFull DEF Release, wallet

LEMMA RemoveFull ==
    ASSUME Base, RemoveAllTransactions
    PROVE  RowsFull' /\ SyncFull'
<1>1. /\ sync' = NoSync /\ forks' = forks /\ Chains
      /\ db' = [t \in Txs |-> NoRow] /\ unspent' = {}
    BY BaseIs DEF RemoveAllTransactions, bvars, Base
<1>2. /\ \A t \in Txs : db'[t].st = "none" /\ db'[t].block = NoBlock
      /\ InBlock' = {} /\ Rows' = {}
    BY <1>1 DEF NoRow, InBlock, Rows
<1>3. Exact'
  <2>1. PICK i \in DOMAIN forks : TRUE
      BY <1>1, ChainsIs
  <2>2. forks[i] \in Seq(Block) /\ Len(forks[i]) \in Nat /\ 0 \in 0..Len(forks[i])
      BY <1>1, ChainsIs, BackendAssumption
  <2>3. \A t : t \notin TxsIn(Prefix(i, 0))
    <3>1. \A t : t \in TxsIn(Prefix(i, 0)) <=> \E g \in 1..0 : t \in forks[i][g].txs
        BY <2>2, PrefixTxs DEF Prefix
    <3> QED BY <3>1
  <2>4. Prefix(i, 0)' = Prefix(i, 0)
      BY <1>1 DEF Prefix
  <2>5. OfChain(Prefix(i, 0))'
      BY <1>2, <2>3, <2>4 DEF OfChain
  <2> QED BY <1>1, <2>2, <2>5 DEF Exact
<1>4. RowsRight' /\ LooseGone' /\ Owned' /\ Unspent'
  <2>1. RowsRight' /\ Owned'
      BY <1>2 DEF RowsRight, Owned
  <2>2. LooseGone' /\ Unspent'
      BY <1>1, <1>2 DEF LooseGone, Unspent
  <2> QED BY <2>1, <2>2
<1> QED BY <1>1, <1>3, <1>4, IdleFull DEF RowsFull

LEMMA RollbackFull ==
    ASSUME Base, RowsFull, NEW p \in Refreshes, Rollback(p)
    PROVE  RowsFull' /\ SyncFull'
<1>1. lock = Nobody /\ UNCHANGED bvars /\ sync' = sync
    BY DEF Rollback
<1>2. /\ forks' = forks /\ pool' = pool /\ Chain' = Chain /\ sync' = NoSync /\ Chains
    BY <1>1, BaseIs DEF bvars, Chain, Base
<1>3. SyncFull'
    BY <1>2, IdleFull
<1>4. CASE pc[p] = "overtaken" \/ lastSync = NoBlock \/ InBlock = {}
  <2>1. db' = db /\ unspent' = unspent
      BY <1>4 DEF Rollback, wallet
  <2> QED BY <1>1, <1>3, <2>1, RowsSame
<1>5. CASE ~(pc[p] = "overtaken" \/ lastSync = NoBlock \/ InBlock = {})
  <2> DEFINE low == BlockOf(FirstSuccessTxBefore(Top))[1] - K
  <2>1. /\ low \in Int
        /\ \A t \in Txs : /\ db'[t].block = db[t].block /\ db'[t].own = db[t].own
                          /\ db'[t].st \in {db[t].st, "ROLLBACK_FAIL"}
                          /\ db'[t].st = "none" <=> db[t].st = "none"
                          /\ t \in InBlock' <=> t \in InBlock /\ db[t].block[1] < low
                          /\ t \in Reverted <=> t \in Rows /\ db[t].block # NoBlock /\ db[t].block[1] >= low
        /\ Rows' = Rows /\ InBlock' \subseteq InBlock
        /\ unspent' = unspent \cup (InputsOf(Reverted) \cap Rows)
        /\ \A t \in InBlock : db[t].block # NoBlock /\ t \in Rows
      BY <1>5, RollbackIs
  <2> HIDE DEF low
  <2>2. InBlock \subseteq Txs /\ Rows \subseteq Txs /\ \A t \in Txs : db[t].block[1] \in Nat
      BY BaseIs DEF Rows
  <2>3. \A t \in Txs : Loose(t) => Loose(t)'
      BY <2>1 DEF Loose
  <2>4. \A t \in Reverted : t \in Txs /\ Loose(t)'
    <3>1. ASSUME NEW t \in Reverted PROVE t \in Txs /\ t \notin InBlock' /\ db'[t].block # NoBlock
      <4>1. t \in Txs
          BY <2>2 DEF Reverted
      <4>2. db[t].block[1] >= low /\ db[t].block # NoBlock
          BY <2>1, <4>1
      <4>3. ~(db[t].block[1] < low)
          BY <2>1, <2>2, <4>1, <4>2
      <4> QED BY <2>1, <4>1, <4>2, <4>3
    <3> QED BY <3>1 DEF Loose
  <2>5. Exact'
    <3>1. PICK i \in DOMAIN forks : \E h \in 0..Len(forks[i]) : OfChain(Prefix(i, h))
        BY DEF RowsFull, Exact
    <3>2. PICK h \in 0..Len(forks[i]) : OfChain(Prefix(i, h))
        BY <3>1
    <3>3. /\ forks[i] \in Seq(Block) /\ Len(forks[i]) \in Nat /\ Valid(forks[i])
          /\ DOMAIN forks[i] = 1..Len(forks[i])
        BY <1>2, ChainsIs, BackendAssumption
    <3>4. PICK k \in 0..h : /\ k \in 0..Len(forks[i]) /\ (k # 0 => k < low)
                            /\ \A g \in 1..h : g < low => g <= k
      <4> DEFINE k == IF low < 1 THEN 0 ELSE IF low - 1 <= h THEN low - 1 ELSE h
      <4>1. k \in 0..h /\ k \in 0..Len(forks[i]) /\ (k # 0 => k < low) /\ \A g \in 1..h : g < low => g <= k
          BY <2>1, <3>3
      <4> HIDE DEF k
      <4> QED BY <4>1
    <3>5. ASSUME NEW t \in InBlock' PROVE Placed(t, db'[t].block, Prefix(i, k))
      <4>1. t \in InBlock /\ t \in Txs /\ db[t].block[1] < low /\ db'[t].block = db[t].block /\ db[t].block[1] \in Nat
          BY <2>1, <2>2
      <4>2. Placed(t, db[t].block, Prefix(i, h))
          BY <3>2, <4>1 DEF OfChain
      <4>3. Placed(t, db[t].block, forks[i]) /\ db[t].block[1] <= h
          BY <3>3, <4>1, <4>2, PlacedPrefix DEF Prefix
      <4>4. db[t].block[1] \in 1..h
          BY <3>3, <4>1, <4>3 DEF Placed
      <4>5. db[t].block[1] <= k
          BY <3>4, <4>1, <4>4
      <4> QED BY <3>3, <3>4, <4>1, <4>3, <4>5, PlacedPrefix DEF Prefix
    <3>6. ASSUME NEW t \in Txs, t \in TxsIn(Prefix(i, k)) PROVE t \in InBlock'
      <4>1. PICK g \in 1..k : t \in forks[i][g].txs
          BY <3>3, <3>4, <3>6, PrefixTxs DEF Prefix
      <4>2. g \in 1..h /\ g \in DOMAIN forks[i] /\ g < low
          BY <2>1, <3>3, <3>4
      <4>3. t \in TxsIn(Prefix(i, h))
          BY <3>3, <4>1, <4>2, PrefixTxs DEF Prefix
      <4>4. t \in InBlock /\ Placed(t, db[t].block, Prefix(i, h))
          BY <3>2, <4>3 DEF OfChain
      <4>5. Placed(t, db[t].block, forks[i])
          BY <2>2, <3>3, <4>4, PlacedPrefix DEF Prefix
      <4>6. db[t].block[1] = g
          BY <3>3, <4>1, <4>2, <4>5 DEF Placed, Valid
      <4> QED BY <2>1, <4>2, <4>4, <4>6
    <3>7. Prefix(i, k)' = Prefix(i, k)
        BY <1>2 DEF Prefix
    <3>8. OfChain(Prefix(i, k))'
        BY <3>5, <3>6, <3>7 DEF OfChain
    <3> QED BY <1>2, <3>4, <3>8 DEF Exact
  <2>6. RowsRight' /\ Owned'
      BY <1>2, <2>1 DEF RowsFull, RowsRight, Owned
  <2>7. LooseGone'
    <3>1. ASSUME NEW t \in Txs, Loose(t)', NEW u \in InBlock', Clash(t, u) PROVE Gone(t)'
      <4>1. u \in InBlock
          BY <2>1
      <4>2. t \notin InBlock
          BY <3>1, <4>1, ConfirmedRows
      <4>3. Loose(t)
          BY <2>1, <3>1, <4>2 DEF Loose
      <4> QED BY <1>2, <3>1, <4>1, <4>3 DEF RowsFull, LooseGone, Gone
    <3> QED BY <3>1 DEF LooseGone
  <2>8. Unspent'
    <3>1. ASSUME NEW t \in Rows' \ unspent' PROVE \E u \in InBlock' : t \in Spends[u]
      <4>1. t \in Rows /\ t \notin unspent /\ t \notin InputsOf(Reverted)
          BY <2>1
      <4>2. PICK u \in InBlock : t \in Spends[u]
          BY <4>1 DEF RowsFull, Unspent
      <4>3. u \notin Reverted
          BY <4>1, <4>2 DEF InputsOf
      <4>4. u \in Txs /\ u \in Rows /\ db[u].block # NoBlock
          BY <2>1, <2>2
      <4>5. db[u].block[1] < low
          BY <2>1, <2>2, <4>3, <4>4
      <4> QED BY <2>1, <4>2, <4>4, <4>5
    <3>2. ASSUME NEW t \in unspent', NEW u \in InBlock', t \in Spends[u]
          PROVE  \E v \in Txs : Loose(v)' /\ t \in Spends[v]
      <4>1. u \in InBlock
          BY <2>1
      <4>2. CASE t \in unspent
        <5>1. PICK v \in Txs : Loose(v) /\ t \in Spends[v]
            BY <3>2, <4>1, <4>2 DEF RowsFull, Unspent
        <5> QED BY <2>3, <5>1
      <4>3. CASE t \in InputsOf(Reverted)
        <5>1. PICK v \in Reverted : t \in Spends[v]
            BY <4>3 DEF InputsOf
        <5> QED BY <2>4, <5>1
      <4> QED BY <2>1, <4>2, <4>3
    <3> QED BY <3>1, <3>2 DEF Unspent
  <2> QED BY <1>3, <2>5, <2>6, <2>7, <2>8 DEF RowsFull
<1> QED BY <1>4, <1>5

LEMMA UntilInChain ==
    ASSUME Base, sync.step = "pages", Accepts, NEW t \in TxsIn(Until)
    PROVE  t \in TxsIn(Chain)
<1>1. Until = SubSeq(Chain, 1, sync.best[1]) /\ sync.best[1] \in 1..Len(Chain) /\ Chain \in Seq(Block)
    BY UntilIs, ChainsIs DEF Base
<1>2. sync.best[1] \in 0..Len(Chain)
    BY <1>1
<1>3. PICK g \in 1..sync.best[1] : t \in Chain[g].txs
    BY <1>1, <1>2, PrefixTxs
<1>4. g \in DOMAIN Chain
    BY <1>1, <1>2
<1> QED BY <1>3, <1>4, TxsInIs

LEMMA PageIsFull ==
    ASSUME Base, RowsFull, SyncFull, sync.step = "pages", Accepts, NEW c \in Chunks(sync.known)
    PROVE  PageFull(PageOf(c), c, Until)
<1> DEFINE a == PageOf(c)
<1>1. ASSUME NEW t \in Txs
      PROVE  \/ Touches(t, AddressesOf(c)) /\ a[t] = Reported(t)
             \/ ~Touches(t, AddressesOf(c)) /\ a[t] = Absent
    BY DEF PageOf
<1> HIDE DEF a
<1>2. \A t \in TxsIn(Until) : t \in TxsIn(Chain)
    BY UntilInChain
<1>3. Chain \in Seq(Block) /\ Valid(Chain) /\ PoolRight /\ pool \in [Txs -> {"new", "pending", "failed", "out"}]
    BY ChainsIs DEF Base, Chains
<1>4. ASSUME NEW t \in Txs
      PROVE  /\ a[t].st = "none" /\ Touches(t, AddressesOf(c)) =>
                   \/ t \in TxsIn(Until) /\ ~Beyond(t, PlaceOf(t, Until))
                   \/ t \notin TxsIn(Until) /\ t \notin Waiting /\ pool[t] # "failed"
             /\ a[t].st = "PENDING" => t \in Waiting
             /\ a[t].st = "FAIL_RESPONSE" => pool[t] = "failed"
             /\ a[t].st # "none" => t \in TxsIn(Until) \/ t \in Waiting \/ pool[t] = "failed"
  <2>1. CASE a[t] = Absent /\ ~Touches(t, AddressesOf(c))
      BY <2>1 DEF Absent
  <2>2. CASE a[t] = Reported(t) /\ t \in TxsIn(Until)
    <3>1. IF Beyond(t, PlaceOf(t, Until))
          THEN Reported(t) = [st |-> "IN_BLOCK", block |-> PlaceOf(t, Until)]
          ELSE Reported(t) = Absent
        BY <2>2, ReportedIs
    <3> QED BY <2>2, <3>1 DEF Absent
  <2>3. CASE a[t] = Reported(t) /\ t \notin TxsIn(Until)
    <3>1. \/ t \in Waiting /\ Reported(t) = [st |-> "PENDING", block |-> NoBlock]
          \/ pool[t] = "failed" /\ Reported(t) = [st |-> "FAIL_RESPONSE", block |-> NoBlock]
          \/ t \notin Waiting /\ pool[t] # "failed" /\ Reported(t) = Absent
        BY <2>3, ReportedIs
    <3> QED BY <2>3, <3>1 DEF Absent
  <2> QED BY <1>1, <2>1, <2>2, <2>3
<1>5. \A t \in Waiting : AddrOf[t] <= sync.known /\ pool[t] = "pending"
    BY DEF SyncFull, Scanned, Waiting
<1>6. ASSUME NEW t \in Txs, Loose(t), NEW u \in InBlock, Clash(t, u) PROVE a[t].st = "none"
  <2>1. Gone(t)
      BY <1>6 DEF RowsFull, LooseGone
  <2> QED BY <1>2, <1>4, <1>5, <2>1 DEF Gone
<1>7. ASSUME NEW t \in Txs, Loose(t), a[t].st = "none", Touches(t, AddressesOf(c)),
             NEW u \in TxsIn(Until), Clash(t, u)
      PROVE  Gone(t)
  <2>1. u \in TxsIn(Chain)
      BY <1>2
  <2>2. \A v \in TxsIn(Chain) : ~(v # u /\ Spends[v] \cap Spends[u] # {})
      BY <1>3, <2>1, TxsInIs DEF Valid
  <2>3. t \notin TxsIn(Chain) /\ t \notin TxsIn(Until)
      BY <1>2, <1>7, <2>2 DEF Clash
  <2>4. pool[t] # "failed"
      BY <1>4, <1>7, <2>3
  <2>5. pool[t] # "new"
      BY <1>7 DEF RowsFull, RowsRight, Loose
  <2>6. pool[t] # "pending"
      BY <1>3, <1>7, <2>1 DEF PoolRight, Clash
  <2>7. pool[t] = "out"
      BY <1>3, <2>4, <2>5, <2>6
  <2> QED BY <2>3, <2>7 DEF Gone
<1>8. PageFull(a, c, Until)
    BY <1>4, <1>5, <1>6, <1>7 DEF PageFull
<1> QED BY <1>8 DEF a

LEMMA PagesOfUntil ==
    ASSUME Base, SyncFull, sync.step = "pages", Accepts
    PROVE  \A c \in DOMAIN sync.pages : PageFull(sync.pages[c], c, Until)
<1> DEFINE n == Len(forks)
<1>1. PICK i \in DOMAIN forks :
         /\ OnChain(sync.best, forks[i])
         /\ \A c \in DOMAIN sync.pages : PageFull(sync.pages[c], c, Prefix(i, sync.best[1]))
    BY DEF SyncFull, PagesFull
<1>2. /\ OnChain(sync.best, Chain) /\ Until = SubSeq(Chain, 1, sync.best[1])
      /\ Chain = forks[n] /\ n \in DOMAIN forks /\ sync.best[1] \in Nat
    BY UntilIs, ChainsIs, BlocksAre DEF Base, SyncSeen
<1>3. Prefix(i, sync.best[1]) = Until
    BY <1>1, <1>2, HashesAgree DEF Base, Prefix
<1> QED BY <1>1, <1>3

\* Every address found is in a chunk.
LEMMA ChunksCover ==
    ASSUME sync.known \in Nat, NEW a \in Nat \ {0}, a <= sync.known
    PROVE  \E c \in Chunks(sync.known) : a \in AddressesOf(c)
<1> DEFINE q == (a - 1) \div Chunk
<1>1. /\ Chunk \in Nat \ {0} /\ a - 1 \in Nat /\ a - 1 + Chunk \in Nat /\ sync.known + Chunk - 1 \in Nat
      /\ a - 1 + Chunk <= sync.known + Chunk - 1 /\ a \in 1..sync.known
    BY SyncAssumption
<1>2. \A n \in Nat, d \in Nat \ {0} : n \div d \in Nat /\ (n + d) \div d = n \div d + 1
    OBVIOUS
<1>3. \A m, n \in Nat, d \in Nat \ {0} : m <= n => m \div d <= n \div d
    OBVIOUS
<1>4. q \in Nat /\ (a - 1 + Chunk) \div Chunk = q + 1
    BY <1>1, <1>2
<1>5. q + 1 <= (sync.known + Chunk - 1) \div Chunk
    BY <1>1, <1>3, <1>4
<1>6. (sync.known + Chunk - 1) \div Chunk \in Nat
    BY <1>1, <1>2
<1> HIDE DEF q
<1>7. q + 1 \in Chunks(sync.known)
    BY <1>4, <1>5, <1>6 DEF Chunks
<1>8. a \in AddressesOf(q + 1)
  <2>1. (a - 1) \div Chunk = (q + 1) - 1
      BY <1>4 DEF q
  <2> QED BY <1>1, <2>1 DEF AddressesOf
<1> QED BY <1>7, <1>8

\* What the refresh writes, row by row.
LEMMA BatchRows ==
    ASSUME Base, NEW resp, UpdateTransactionBatch(resp), NEW t \in Txs
    PROVE  /\ resp[t].st # "none" =>
                 /\ db'[t].st = resp[t].st /\ db'[t].block = resp[t].block
                 /\ t \in Rows => db'[t].own = db[t].own
                 /\ t \notin Rows /\ AddrOf[t] <= sync.known => db'[t].own
           /\ resp[t].st = "none" =>
                 /\ db'[t].block = db[t].block /\ db'[t].own = db[t].own
                 /\ \/ db'[t].st = db[t].st
                    \/ db[t].st = "PENDING" /\ db'[t].st = "NOT_IN_REMOTE"
<1> DEFINE o == IF t \in Rows THEN db[t].own ELSE AddrOf[t] <= sync.known
<1>1. db[t] \in RowType
    BY BaseIs
<1>2. /\ resp[t].st # "none" =>
            db'[t] = [st |-> resp[t].st, block |-> resp[t].block, own |-> o]
      /\ resp[t].st = "none" =>
            db'[t] = IF db[t].st = "PENDING" THEN [db[t] EXCEPT !.st = "NOT_IN_REMOTE"] ELSE db[t]
    BY DEF UpdateTransactionBatch
<1>3. /\ t \in Rows => o = db[t].own
      /\ t \notin Rows /\ AddrOf[t] <= sync.known => o
    OBVIOUS
<1> HIDE DEF o
<1>4. CASE resp[t].st # "none"
  <2>1. db'[t].st = resp[t].st /\ db'[t].block = resp[t].block /\ db'[t].own = o
      BY <1>2, <1>4
  <2> QED BY <1>3, <1>4, <2>1
<1>5. CASE resp[t].st = "none" /\ db[t].st = "PENDING"
    BY <1>1, <1>2, <1>5 DEF RowType
<1>6. CASE resp[t].st = "none" /\ db[t].st # "PENDING"
    BY <1>2, <1>6
<1> QED BY <1>4, <1>5, <1>6

LEMMA BatchFull ==
    ASSUME Base, RowsFull, SyncFull, sync.step = "pages", Accepts, UNCHANGED bvars,
           NEW pages, DOMAIN pages = Chunks(sync.known),
           \A c \in DOMAIN pages : PagePlaced(pages[c], Until) /\ PageFull(pages[c], c, Until),
           UpdateTransactionBatch(Response(pages))
    PROVE  /\ RowsFull' /\ \A t \in Txs : t \in InBlock' <=> t \in TxsIn(Until)
           /\ InBlock \subseteq InBlock'
<1> DEFINE resp == Response(pages)
           seen == {t \in Txs : resp[t].st # "none"}
           added == {t \in seen \ InBlock : resp[t].block # NoBlock}
<1>1. /\ Until \in Seq(Block) /\ Valid(Until) /\ Until = SubSeq(Chain, 1, sync.best[1])
      /\ Len(Until) <= MaxHeight /\ Chain = forks[Len(forks)] /\ Len(forks) \in DOMAIN forks
      /\ Chain \in Seq(Block) /\ Valid(Chain) /\ sync.best[1] \in 0..Len(Chain)
      /\ \A t \in InBlock : Placed(t, db[t].block, Until)
      /\ forks' = forks /\ pool' = pool /\ Chain' = Chain
  <2>1. Len(Until) = sync.best[1] /\ sync.best[1] \in 1..Len(Chain) /\ Len(Chain) \in 1..MaxHeight
      BY UntilIs, ChainsIs DEF Base
  <2>2. Len(Until) <= MaxHeight /\ sync.best[1] \in 0..Len(Chain)
      BY <2>1, BackendAssumption
  <2> QED BY <2>2, UntilIs, ChainsIs DEF Base, bvars, Chain
<1>2. sync.known \in Nat /\ DOMAIN pages \subseteq Nat
  <2>1. sync.known \in Nat
      BY DEF Base, SyncSeen
  <2> QED BY <2>1, ChunksAre
<1>3. PagePlaced(resp, Until)
    BY <1>2, ResponsePlaced
<1>4. /\ db' \in [Txs -> RowType] /\ unspent' \subseteq Rows'
      /\ \A t \in InBlock' : Placed(t, db'[t].block, Until)
    BY <1>3, BatchIs
<1>5. ASSUME NEW t \in Txs
      PROVE  \/ resp[t] = Absent /\ \A c \in DOMAIN pages : pages[c][t].st = "none"
             \/ \E c \in DOMAIN pages : resp[t] = pages[c][t] /\ resp[t].st # "none"
  <2>1. \/ /\ Response(pages)[t] = Absent
           /\ \A c \in DOMAIN pages : pages[c][t].st = "none"
        \/ \E c \in DOMAIN pages : /\ Response(pages)[t] = pages[c][t]
                                   /\ pages[c][t].st # "none"
      BY <1>2, ResponseIs
  <2> QED BY <2>1
<1>6. unspent' = (unspent \cup (seen \ Rows)) \ InputsOf(added)
    BY DEF UpdateTransactionBatch
<1>7. ASSUME NEW t \in Txs
      PROVE  /\ t \in seen =>
                 /\ db'[t].st = resp[t].st /\ db'[t].block = resp[t].block
                 /\ t \in Rows => db'[t].own = db[t].own
                 /\ t \notin Rows /\ AddrOf[t] <= sync.known => db'[t].own
             /\ t \notin seen =>
                 /\ db'[t].block = db[t].block /\ db'[t].own = db[t].own
                 /\ \/ db'[t].st = db[t].st
                    \/ db[t].st = "PENDING" /\ db'[t].st = "NOT_IN_REMOTE"
    BY BatchRows
<1>8. ASSUME NEW t \in Txs
      PROVE  /\ resp[t].st = "IN_BLOCK" => Placed(t, resp[t].block, Until) /\ resp[t].block # NoBlock
             /\ t \in seen /\ resp[t].st # "IN_BLOCK" =>
                   /\ resp[t].st \in {"PENDING", "FAIL_RESPONSE"}
                   /\ resp[t].block = NoBlock /\ t \notin TxsIn(Until)
             /\ t \in seen <=> resp[t] # Absent
  <2>1. \/ resp[t] = Absent
        \/ resp[t].st = "IN_BLOCK" /\ Placed(t, resp[t].block, Until)
        \/ resp[t].st \in {"PENDING", "FAIL_RESPONSE"} /\ resp[t].block = NoBlock /\ t \notin TxsIn(Until)
      BY <1>3 DEF PagePlaced
  <2>2. Placed(t, resp[t].block, Until) => resp[t].block # NoBlock
      BY <1>1, PlacedIs
  <2> QED BY <2>1, <2>2 DEF Absent
<1>9. ASSUME NEW t \in Txs
      PROVE  /\ resp[t].st = "PENDING" => AddrOf[t] <= sync.known
             /\ resp[t].st = "FAIL_RESPONSE" => pool[t] = "failed"
             /\ Loose(t) => \A u \in InBlock : Clash(t, u) => t \notin seen
  <2>1. CASE resp[t] = Absent
      BY <2>1 DEF Absent
  <2>2. ASSUME NEW c \in DOMAIN pages, resp[t] = pages[c][t]
        PROVE  /\ resp[t].st = "PENDING" => AddrOf[t] <= sync.known
               /\ resp[t].st = "FAIL_RESPONSE" => pool[t] = "failed"
               /\ Loose(t) => \A u \in InBlock : Clash(t, u) => t \notin seen
    <3>1. PageFull(pages[c], c, Until)
        OBVIOUS
    <3> QED BY <2>2, <3>1 DEF PageFull
  <2> QED BY <1>5, <2>1, <2>2
<1>10. ASSUME NEW t \in Txs, t \notin seen, NEW c \in DOMAIN pages PROVE pages[c][t].st = "none"
    BY <1>5, <1>10
<1> HIDE DEF resp, seen
<1>11. InBlock \subseteq Txs /\ InBlock \subseteq InBlock'
  <2>1. ASSUME NEW t \in InBlock PROVE t \in Txs /\ t \in InBlock'
    <3>1. t \in Txs /\ db[t].st = "IN_BLOCK" /\ t \in TxsIn(Until)
        BY <1>1, PlacedIs DEF InBlock
    <3>2. t \in seen => resp[t].st = "IN_BLOCK"
        BY <1>8, <3>1
    <3> QED BY <1>7, <3>1, <3>2 DEF InBlock
  <2> QED BY <2>1
<1>12. ASSUME NEW t \in Txs, t \in InBlock', t \notin InBlock
       PROVE  t \in added /\ resp[t].st = "IN_BLOCK"
  <2>1. t \in seen /\ resp[t].st = "IN_BLOCK"
      BY <1>7, <1>12 DEF InBlock
  <2> QED BY <1>8, <1>12, <2>1
<1>13. \A t \in added : t \in Txs /\ t \in InBlock'
  <2>1. ASSUME NEW t \in added PROVE t \in Txs /\ t \in InBlock'
    <3>1. t \in Txs /\ t \in seen /\ resp[t].block # NoBlock
        BY DEF seen
    <3>2. resp[t].st = "IN_BLOCK"
        BY <1>8, <3>1
    <3> QED BY <1>7, <3>1, <3>2 DEF InBlock
  <2> QED BY <2>1
<1> HIDE DEF added
<1>14. ASSUME NEW t \in Txs, t \in TxsIn(Until) PROVE t \in InBlock' /\ AddrOf[t] <= sync.known
  <2>1. PICK g \in 1..sync.best[1] : t \in Chain[g].txs
      BY <1>1, <1>14, PrefixTxs
  <2>2. OnChain(sync.best, Chain)
      BY UntilIs
  <2>3. AddrOf[t] <= sync.known /\ AddrOf[t] \in Nat \ {0}
      BY <2>1, <2>2, BackendAssumption DEF SyncFull, Scanned
  <2>4. PICK c \in Chunks(sync.known) : AddrOf[t] \in AddressesOf(c)
      BY <1>2, <2>3, ChunksCover
  <2>5. CASE t \in seen
    <3>1. resp[t].st = "IN_BLOCK"
        BY <1>8, <1>14, <2>5
    <3> QED BY <1>7, <2>3, <2>5, <3>1 DEF InBlock
  <2>6. CASE t \notin seen
    <3>1. ~Beyond(t, PlaceOf(t, Until))
      <4>1. pages[c][t].st = "none" /\ PageFull(pages[c], c, Until)
          BY <1>10, <2>6
      <4>2. Touches(t, AddressesOf(c))
          BY <2>4 DEF Touches
      <4> QED BY <1>14, <4>1, <4>2 DEF PageFull
    <3> DEFINE f == FirstSuccessTxBefore(Top)
               b == PlaceOf(t, Until)
    <3>2. Placed(t, b, Until) /\ b[1] \in 1..Len(Until)
        BY <1>1, <1>14, PlaceIs, PlacedIs
    <3>3. sync.after = f /\ (f = 0 \/ f \in InBlock)
        BY BaseIs, FirstSuccessIs DEF Base, SyncSeen
    <3> HIDE DEF f, b
    <3>4. f # 0 /\ f \in InBlock /\ f \in Txs /\ b[1] <= db[f].block[1]
      <4>1. ~(b[1] > BlockOf(f)[1])
          BY <3>1, <3>3 DEF Beyond, b
      <4>2. f # 0
          BY <3>2, <4>1, NoBlockIs DEF BlockOf
      <4>3. f \in InBlock /\ f \in Txs /\ db[f].block[1] \in Nat
          BY <3>3, <4>2, BaseIs
      <4> QED BY <3>2, <4>1, <4>2, <4>3 DEF BlockOf
    <3>5. PICK j \in DOMAIN forks : \E h \in 0..Len(forks[j]) : OfChain(Prefix(j, h))
        BY DEF RowsFull, Exact
    <3>6. PICK h \in 0..Len(forks[j]) : OfChain(Prefix(j, h))
        BY <3>5
    <3>7. forks[j] \in Seq(Block) /\ Len(forks[j]) \in Nat
        BY ChainsIs, BackendAssumption DEF Base
    <3>8. /\ Placed(f, db[f].block, Chain) /\ db[f].block[1] \in Nat
          /\ Placed(f, db[f].block, forks[j]) /\ db[f].block[1] <= h
      <4>1. db[f].block[1] \in Nat
          BY <3>4, BaseIs
      <4>2. Placed(f, db[f].block, Until) /\ Placed(f, db[f].block, Prefix(j, h))
          BY <1>1, <3>4, <3>6 DEF OfChain
      <4> QED BY <1>1, <3>7, <4>1, <4>2, PlacedPrefix DEF Prefix
    <3>9. \A k \in 1..db[f].block[1] : forks[j][k] = Chain[k]
        BY <1>1, <3>8, HashesAgree DEF Base, Placed
    <3>10. b[1] \in 1..h /\ t \in Chain[b[1]].txs /\ b[1] \in 1..db[f].block[1]
      <4>1. b[1] \in Nat /\ Placed(t, b, Chain)
          BY <1>1, <3>2, PlacedPrefix
      <4> QED BY <3>2, <3>4, <3>7, <3>8, <4>1 DEF Placed
    <3>11. t \in TxsIn(Prefix(j, h))
        BY <3>7, <3>9, <3>10, PrefixTxs DEF Prefix
    <3>12. t \in InBlock
        BY <3>6, <3>11 DEF OfChain
    <3> QED BY <1>11, <2>3, <3>12
  <2> QED BY <2>5, <2>6
<1>15. \A t \in InBlock' : t \in Txs /\ t \in TxsIn(Until)
    BY <1>1, <1>4, PlacedIs DEF InBlock
<1>16. \A t \in Txs : t \in InBlock' <=> t \in TxsIn(Until)
    BY <1>14, <1>15
<1>17. Exact'
  <2>1. PICK i \in DOMAIN forks : i = Len(forks)
      BY <1>1
  <2>2. PICK h \in 0..Len(forks[i]) : h = sync.best[1]
      BY <1>1, <2>1
  <2>3. Prefix(i, h)' = Until
      BY <1>1, <2>1, <2>2 DEF Prefix
  <2>4. OfChain(Prefix(i, h))'
      BY <1>4, <1>16, <2>3 DEF OfChain
  <2> QED BY <1>1, <2>4 DEF Exact
\* A row that lost its confirmation and keeps its block was not reported.
<1>18. ASSUME NEW t \in Txs, Loose(t)' PROVE Loose(t) /\ t \notin seen /\ t \notin InBlock
  <2>1. t \notin InBlock' /\ db'[t].block # NoBlock
      BY <1>18 DEF Loose
  <2>2. t \notin seen
      BY <1>7, <1>8, <2>1 DEF InBlock
  <2> QED BY <1>7, <1>11, <2>1, <2>2 DEF Loose
<1>19. RowsRight'
  <2>1. ASSUME NEW t \in Txs, db'[t].block # NoBlock
        PROVE  db'[t].st \in {"IN_BLOCK", "ROLLBACK_FAIL"} /\ pool'[t] # "new"
    <3>1. CASE t \in seen
      <4>1. resp[t].st = "IN_BLOCK" /\ db'[t].st = "IN_BLOCK"
          BY <1>7, <1>8, <2>1, <3>1
      <4>2. t \in TxsIn(Chain)
        <5>1. t \in TxsIn(Until)
            BY <1>1, <1>8, <4>1, PlacedIs
        <5> QED BY <5>1, UntilInChain
      <4>3. pool[t] = "out"
          BY <4>2 DEF Base, Chains, PoolRight
      <4> QED BY <1>1, <4>1, <4>3
    <3>2. CASE t \notin seen
      <4>1. db[t].block # NoBlock
          BY <1>7, <2>1, <3>2
      <4>2. db[t].st \in {"IN_BLOCK", "ROLLBACK_FAIL"} /\ pool[t] # "new"
          BY <4>1 DEF RowsFull, RowsRight
      <4> QED BY <1>1, <1>7, <3>2, <4>2
    <3> QED BY <3>1, <3>2
  <2>2. ASSUME NEW t \in Txs, db'[t].st = "none" PROVE db'[t].block = NoBlock
    <3>1. t \notin seen
        BY <1>7, <2>2 DEF seen
    <3>2. db[t].st = "none" /\ db'[t].block = db[t].block
        BY <1>7, <2>2, <3>1
    <3> QED BY <3>2 DEF RowsFull, RowsRight
  <2> QED BY <2>1, <2>2 DEF RowsRight
<1>20. LooseGone'
  <2>1. ASSUME NEW t \in Txs, Loose(t)', NEW u \in InBlock', Clash(t, u) PROVE Gone(t)'
    <3>1. Loose(t) /\ t \notin seen
        BY <1>18, <2>1
    <3>2. Gone(t)
      <4>1. CASE u \in InBlock
          BY <2>1, <3>1, <4>1 DEF RowsFull, LooseGone
      <4>2. CASE u \notin InBlock
        <5>1. u \in TxsIn(Until) /\ u \in Txs
            BY <1>15
        <5>2. PICK s \in Spends[u] : s \in Spends[t]
            BY <2>1 DEF Clash
        <5>3. s \in TxsIn(Until) /\ s \in Txs
          <6>1. PICK g \in DOMAIN Until : u \in Until[g].txs
              BY <5>1, TxsInIs
          <6>2. PICK k \in 1..g : s \in Until[k].txs
              BY <1>1, <5>2, <6>1 DEF Valid
          <6>3. k \in DOMAIN Until
            <7>1. DOMAIN Until = 1..Len(Until) /\ Len(Until) \in Nat
                BY <1>1
            <7> QED BY <6>1, <6>2, <7>1
          <6>4. s \in Txs
              BY <1>1, <6>2, <6>3, BlockIs
          <6> QED BY <6>2, <6>3, <6>4, TxsInIs
        <5>4. AddrOf[s] <= sync.known /\ AddrOf[s] \in Nat \ {0}
            BY <1>14, <5>3, BackendAssumption
        <5>5. PICK c \in Chunks(sync.known) : AddrOf[s] \in AddressesOf(c)
            BY <1>2, <5>4, ChunksCover
        <5>6. Touches(t, AddressesOf(c))
            BY <5>2, <5>5 DEF Touches
        <5>7. pages[c][t].st = "none" /\ PageFull(pages[c], c, Until)
            BY <1>10, <3>1
        <5> QED BY <2>1, <3>1, <5>1, <5>6, <5>7 DEF PageFull
      <4> QED BY <4>1, <4>2
    <3> QED BY <1>1, <3>2 DEF Gone
  <2> QED BY <2>1 DEF LooseGone
<1>21. Owned'
  <2>1. ASSUME NEW t \in Txs, t \in InBlock' PROVE db'[t].own
    <3>1. t \in TxsIn(Until) /\ AddrOf[t] <= sync.known
        BY <1>14, <1>15, <2>1
    <3>2. pool[t] # "failed"
      <4>1. t \in TxsIn(Chain)
          BY <3>1, UntilInChain
      <4> QED BY <4>1 DEF Base, Chains, PoolRight
    <3>3. t \in Rows => db[t].own
        BY <3>2 DEF RowsFull, Owned
    <3>4. t \notin Rows => t \in seen
        BY <1>7, <2>1 DEF InBlock, Rows
    <3> QED BY <1>7, <3>1, <3>3, <3>4
  <2>2. ASSUME NEW t \in Txs, t \in Rows', ~db'[t].own PROVE pool'[t] = "failed"
    <3>1. CASE t \in Rows
      <4>1. ~db[t].own
          BY <1>7, <2>2, <3>1
      <4> QED BY <1>1, <3>1, <4>1 DEF RowsFull, Owned
    <3>2. CASE t \notin Rows
      <4>1. t \in seen
          BY <1>7, <2>2, <3>2 DEF Rows
      <4>2. ~(AddrOf[t] <= sync.known)
          BY <1>7, <2>2, <3>2, <4>1
      <4>3. resp[t].st # "IN_BLOCK" /\ resp[t].st # "PENDING"
        <5>1. resp[t].st = "IN_BLOCK" => t \in TxsIn(Until)
            BY <1>1, <1>8, PlacedIs
        <5> QED BY <1>9, <1>14, <4>2, <5>1
      <4>4. pool[t] = "failed"
          BY <1>8, <1>9, <4>1, <4>3
      <4> QED BY <1>1, <4>4
    <3> QED BY <3>1, <3>2
  <2> QED BY <2>1, <2>2 DEF Owned
<1>22. Unspent'
  <2>1. ASSUME NEW t \in Rows' \ unspent' PROVE \E u \in InBlock' : t \in Spends[u]
    <3>0. t \in Txs
        BY DEF Rows
    <3>1. CASE t \in InputsOf(added)
      <4>1. PICK u \in added : t \in Spends[u]
          BY <3>1 DEF InputsOf
      <4> QED BY <1>13, <4>1
    <3>2. CASE t \notin InputsOf(added)
      <4>1. t \notin unspent /\ ~(t \in seen /\ t \notin Rows)
          BY <1>6, <2>1, <3>2
      <4>2. t \in Rows
          BY <1>7, <2>1, <3>0, <4>1 DEF Rows
      <4>3. PICK u \in InBlock : t \in Spends[u]
          BY <4>1, <4>2 DEF RowsFull, Unspent
      <4> QED BY <1>11, <4>3
    <3> QED BY <3>1, <3>2
  <2>2. ASSUME NEW t \in unspent', NEW u \in InBlock', t \in Spends[u]
        PROVE  \E v \in Txs : Loose(v)' /\ t \in Spends[v]
    <3>1. u \in Txs
        BY DEF InBlock
    <3>2. u \in InBlock
      <4>1. u \notin added
          BY <1>6, <2>2 DEF InputsOf
      <4> QED BY <1>12, <3>1, <4>1
    <3>3. t \in InBlock /\ t \in Rows
      <4>1. t \in InBlock
          BY <2>2, <3>2, ConfirmedRows DEF RowsFull
      <4> QED BY <4>1 DEF InBlock, Rows
    <3>4. t \in unspent
        BY <1>6, <3>3
    <3>5. PICK v \in Txs : Loose(v) /\ t \in Spends[v]
        BY <2>2, <3>2, <3>4 DEF RowsFull, Unspent
    <3>6. Clash(v, u)
        BY <2>2, <3>2, <3>5 DEF Clash, Loose
    <3>7. v \notin seen
        BY <1>9, <3>2, <3>5, <3>6
    <3>8. v \notin InBlock' /\ db'[v].block # NoBlock
      <4>1. db'[v].block = db[v].block /\ (db'[v].st = db[v].st \/ db'[v].st = "NOT_IN_REMOTE")
          BY <1>7, <3>7
      <4> QED BY <3>5, <4>1 DEF Loose, InBlock
    <3> QED BY <3>5, <3>8 DEF Loose
  <2> QED BY <2>1, <2>2 DEF Unspent
<1> QED BY <1>11, <1>16, <1>17, <1>19, <1>20, <1>21, <1>22 DEF RowsFull

\* The three outcomes of an answer.
LEMMA PageCases ==
    ASSUME Base, NEW p \in Refreshes, NEW c \in Chunks(sync.known), Page(p, c)
    PROVE  /\ lock = p /\ sync.step = "pages" /\ UNCHANGED bvars
           /\ \/ Release(p, "refused")
              \/ \E pages :
                    /\ Accepts
                    /\ \A d \in DOMAIN pages : PagePlaced(pages[d], Until)
                    /\ RowsFull /\ SyncFull => \A d \in DOMAIN pages : PageFull(pages[d], d, Until)
                    /\ \/ /\ sync' = [sync EXCEPT !.pages = pages]
                          /\ db' = db /\ unspent' = unspent
                       \/ /\ DOMAIN pages = Chunks(sync.known)
                          /\ UpdateTransactionBatch(Response(pages)) /\ sync' = NoSync
<1> DEFINE pages == [d \in DOMAIN sync.pages \cup {c} |-> IF d = c THEN PageOf(c) ELSE sync.pages[d]]
<1>1. /\ lock = p /\ sync.step = "pages" /\ UNCHANGED bvars
      /\ \/ Release(p, "refused")
         \/ /\ Accepts
            /\ \/ sync' = [sync EXCEPT !.pages = pages] /\ db' = db /\ unspent' = unspent
               \/ /\ DOMAIN pages = Chunks(sync.known)
                  /\ UpdateTransactionBatch(Response(pages)) /\ sync' = NoSync
    BY DEF Page, wallet
<1>2. CASE Release(p, "refused")
    BY <1>1, <1>2
<1>3. CASE Accepts
  <2>1. \A d \in DOMAIN pages : PagePlaced(pages[d], Until)
    <3>1. \A d \in DOMAIN sync.pages : PagePlaced(sync.pages[d], Until)
        BY <1>1, <1>3, UntilIs
    <3>2. PagePlaced(PageOf(c), Until)
        BY <1>1, <1>3, PageIsPlaced
    <3> QED BY <3>1, <3>2
  <2>2. ASSUME RowsFull, SyncFull PROVE \A d \in DOMAIN pages : PageFull(pages[d], d, Until)
    <3>1. \A d \in DOMAIN sync.pages : PageFull(sync.pages[d], d, Until)
        BY <1>1, <1>3, <2>2, PagesOfUntil
    <3>2. PageFull(PageOf(c), c, Until)
        BY <1>1, <1>3, <2>2, PageIsFull
    <3> QED BY <3>1, <3>2
  <2> HIDE DEF pages
  <2>3. \/ Release(p, "refused")
        \/ /\ Accepts
           /\ \/ sync' = [sync EXCEPT !.pages = pages] /\ db' = db /\ unspent' = unspent
              \/ /\ DOMAIN pages = Chunks(sync.known)
                 /\ UpdateTransactionBatch(Response(pages)) /\ sync' = NoSync
      BY <1>1
  <2> QED BY <1>1, <1>3, <2>1, <2>2, <2>3
<1> QED BY <1>1, <1>2, <1>3

LEMMA PageFullKeeps ==
    ASSUME Base, RowsFull, SyncFull, NEW p \in Refreshes, NEW c \in Chunks(sync.known), Page(p, c)
    PROVE  RowsFull' /\ SyncFull'
<1>1. lock = p /\ sync.step = "pages" /\ UNCHANGED bvars
    BY PageCases
<1>2. CASE Release(p, "refused")
    BY <1>1, <1>2, ReleaseFull
<1>3. CASE ~Release(p, "refused")
  <2>1. PICK pages :
           /\ Accepts
           /\ \A d \in DOMAIN pages : PagePlaced(pages[d], Until)
           /\ \A d \in DOMAIN pages : PageFull(pages[d], d, Until)
           /\ \/ /\ sync' = [sync EXCEPT !.pages = pages]
                 /\ db' = db /\ unspent' = unspent
              \/ /\ DOMAIN pages = Chunks(sync.known)
                 /\ UpdateTransactionBatch(Response(pages)) /\ sync' = NoSync
      BY <1>3, PageCases
  <2>2. CASE /\ DOMAIN pages = Chunks(sync.known)
             /\ UpdateTransactionBatch(Response(pages)) /\ sync' = NoSync
    <3>1. RowsFull'
        BY <1>1, <2>1, <2>2, BatchFull
    <3> QED BY <2>2, <3>1, IdleFull
  <2>3. CASE sync' = [sync EXCEPT !.pages = pages] /\ db' = db /\ unspent' = unspent
    <3>1. RowsFull'
        BY <1>1, <2>3, RowsSame
    <3>2. sync = [step |-> sync.step, best |-> sync.best, known |-> sync.known,
                  after |-> sync.after, pages |-> sync.pages]
        BY DEF Base, SyncSeen
    <3>3. /\ sync'.step = "pages" /\ sync'.best = sync.best /\ sync'.known = sync.known
          /\ sync'.after = sync.after /\ sync'.pages = pages
        BY <1>1, <2>3, <3>2
    <3>4. /\ forks' = forks /\ served' = served /\ pool' = pool /\ Chain' = Chain
          /\ Waiting' = Waiting /\ InBlock' = InBlock
        BY <1>1, <2>3 DEF bvars, Chain, Waiting, Served, InBlock
    <3>5. Scanned'
        BY <1>1, <3>3, <3>4 DEF SyncFull, Scanned
    <3>6. PagesFull'
      <4>1. PICK i \in DOMAIN forks : i = Len(forks)
          BY ChainsIs DEF Base
      <4>2. /\ OnChain(sync.best, forks[i]) /\ Until = Prefix(i, sync.best[1])
          BY <1>1, <2>1, <4>1, UntilIs, ChainsIs DEF Base, Prefix
      <4>3. Prefix(i, sync.best[1])' = Until
          BY <3>3, <3>4, <4>2 DEF Prefix
      <4>4. ASSUME NEW d \in DOMAIN pages PROVE PageFull(pages[d], d, Prefix(i, sync.best[1]))'
        <5> DEFINE chain == Until
        <5>1. PageFull(pages[d], d, chain)
            BY <2>1
        <5>2. Prefix(i, sync.best[1])' = chain
            BY <4>3
        <5> HIDE DEF chain
        <5>3. /\ \A t : Touches(t, AddressesOf(d))' <=> Touches(t, AddressesOf(d))
              /\ \A t, b : Beyond(t, b)' <=> Beyond(t, b)
              /\ \A t : Loose(t)' <=> Loose(t)
              /\ \A t : Gone(t)' <=> Gone(t)
            BY <2>3, <3>3, <3>4 DEF Touches, AddressesOf, Beyond, BlockOf, Loose, Gone
        <5> QED BY <2>3, <3>3, <3>4, <5>1, <5>2, <5>3 DEF PageFull
      <4>5. \E j \in DOMAIN forks' :
               /\ OnChain(sync'.best, forks'[j])
               /\ \A d \in DOMAIN sync'.pages : PageFull(sync.pages[d], d, Prefix(j, sync.best[1]))'
        <5>1. \A d \in DOMAIN sync'.pages : PageFull(sync.pages[d], d, Prefix(i, sync.best[1]))'
          <6>1. ASSUME NEW d \in DOMAIN sync'.pages PROVE PageFull(sync.pages[d], d, Prefix(i, sync.best[1]))'
            <7>1. PageFull(pages[d], d, Prefix(i, sync.best[1]))' /\ sync'.pages[d] = pages[d]
                BY <3>3, <4>4
            <7> QED BY <7>1 DEF PageFull
          <6> QED BY <6>1
        <5> QED BY <3>3, <3>4, <4>2, <5>1
      <4> QED BY <4>5 DEF PagesFull
    <3> QED BY <3>1, <3>5, <3>6 DEF SyncFull
  <2> QED BY <2>1, <2>2, <2>3
<1> QED BY <1>2, <1>3

LEMMA FullStart == Init => RowsFull /\ SyncFull
<1> SUFFICES ASSUME Init PROVE RowsFull /\ SyncFull
    OBVIOUS
<1>1. /\ Base /\ sync = NoSync /\ db = [t \in Txs |-> NoRow] /\ unspent = {}
    BY BaseStart DEF Init
<1>2. /\ \A t \in Txs : db[t].st = "none" /\ db[t].block = NoBlock
      /\ InBlock = {} /\ Rows = {}
    BY <1>1 DEF NoRow, InBlock, Rows
<1>3. Exact
  <2>1. PICK i \in DOMAIN forks : TRUE
      BY <1>1, ChainsIs DEF Base
  <2>2. forks[i] \in Seq(Block) /\ Len(forks[i]) \in Nat /\ 0 \in 0..Len(forks[i])
      BY <1>1, ChainsIs, BackendAssumption DEF Base
  <2>3. \A t : t \notin TxsIn(Prefix(i, 0))
    <3>1. \A t : t \in TxsIn(Prefix(i, 0)) <=> \E g \in 1..0 : t \in forks[i][g].txs
        BY <2>2, PrefixTxs DEF Prefix
    <3> QED BY <3>1
  <2>4. OfChain(Prefix(i, 0))
      BY <1>2, <2>3 DEF OfChain
  <2> QED BY <2>2, <2>4 DEF Exact
<1>4. RowsRight /\ LooseGone /\ Owned /\ Unspent
    BY <1>1, <1>2 DEF RowsRight, LooseGone, Owned, Unspent
<1>5. SyncFull
    BY <1>1 DEF SyncFull, Scanned, PagesFull, NoSync
<1> QED BY <1>3, <1>4, <1>5 DEF RowsFull

LEMMA FullStep ==
    ASSUME SteadyScan, Base, RowsFull, SyncFull, GapKept, [Next]_vars
    PROVE  RowsFull' /\ SyncFull'
<1>1. CASE Outside
    BY <1>1, OutsideFull
<1>2. CASE RemoveAllTransactions
    BY <1>2, RemoveFull
<1>3. ASSUME NEW p \in Refreshes, Wallet(p) \/ Fail(p) PROVE RowsFull' /\ SyncFull'
  <2>1. CASE Begin(p)
      BY <2>1, BeginFull
  <2>2. CASE RawScanAddresses(p)
      BY <2>2, ScanFull
  <2>3. CASE Rollback(p)
      BY <2>3, RollbackFull
  <2>4. CASE \E c \in Chunks(sync.known) : Page(p, c)
      BY <2>4, PageFullKeeps
  <2>5. CASE Fail(p)
      BY <2>5, ReleaseFull DEF Fail
  <2> QED BY <1>3, <2>1, <2>2, <2>3, <2>4, <2>5 DEF Wallet
<1>4. CASE UNCHANGED vars
  <2>1. UNCHANGED bvars /\ db' = db /\ unspent' = unspent /\ sync' = sync /\ forks' = forks
        /\ served' = served /\ pool' = pool
      BY <1>4 DEF vars, bvars
  <2>2. RowsFull'
      BY <2>1, RowsSame
  <2>3. Chain' = Chain /\ Waiting' = Waiting /\ InBlock' = InBlock
      BY <2>1 DEF Chain, Waiting, Served, InBlock
  <2>4. Scanned'
      BY <2>1, <2>3 DEF SyncFull, Scanned
  <2>5. PagesFull'
    <3>1. /\ \A t, c : Touches(t, AddressesOf(c))' <=> Touches(t, AddressesOf(c))
          /\ \A t, b : Beyond(t, b)' <=> Beyond(t, b)
          /\ \A t : Loose(t)' <=> Loose(t)
          /\ \A t : Gone(t)' <=> Gone(t)
          /\ \A i : Prefix(i, sync.best[1])' = Prefix(i, sync.best[1])
        BY <2>1, <2>3 DEF Touches, AddressesOf, Beyond, BlockOf, Loose, Gone, Prefix
    <3> QED BY <2>1, <2>3, <3>1 DEF SyncFull, PagesFull, PageFull
  <2> QED BY <2>2, <2>4, <2>5 DEF SyncFull
<1> QED BY <1>1, <1>2, <1>3, <1>4 DEF Next

\* What is confirmed is all that an initial part of one chain has, and the rows agree on
\* what is unspent, if the backend keeps what it has promised to the scan and addresses
\* are used in order.
THEOREM SyncExact ==
    ASSUME SteadyScan PROVE Spec /\ []GapKept => [](RowsFull /\ SyncFull)
<1>1. Base /\ RowsFull /\ SyncFull /\ GapKept /\ [Next]_vars => (RowsFull /\ SyncFull)'
    BY FullStep
<1> QED BY <1>1, FullStart, SyncInductive, PTL DEF Spec

\* The UTxOs of a wallet are the outputs of its confirmed rows that no confirmed row
\* spends, after any reorganisations, rollbacks and removals, and with transactions that
\* spend the same output.
THEOREM UtxosAreRight ==
    ASSUME SteadyScan PROVE Spec /\ []GapKept => []UtxoRight
<1>1. RowsFull => UtxoRight
  <2> SUFFICES ASSUME RowsFull, NEW t \in InBlock,
                      \A u \in {v \in Txs : t \in Spends[v]} \ InBlock : db[u].block = NoBlock
               PROVE  (db[t].own /\ t \in unspent) <=> {v \in Txs : t \in Spends[v]} \cap InBlock = {}
      BY DEF UtxoRight
  <2>1. t \in Txs /\ t \in Rows /\ db[t].own
      BY DEF InBlock, Rows, RowsFull, Owned
  <2>2. InBlock \subseteq Txs
      BY DEF InBlock
  <2>3. ASSUME t \in unspent, NEW u \in InBlock, t \in Spends[u] PROVE FALSE
    <3>1. PICK v \in Txs : Loose(v) /\ t \in Spends[v]
        BY <2>3 DEF RowsFull, Unspent
    <3> QED BY <3>1 DEF Loose
  <2>4. t \notin unspent => \E u \in InBlock : t \in Spends[u]
      BY <2>1 DEF RowsFull, Unspent
  <2> QED BY <2>1, <2>2, <2>3, <2>4
<1> QED BY <1>1, SyncExact, PTL

-----------------------------------------------------------------------------
(* Implementation of ChainView. *)

LEMMA ViewFollows ==
    ASSUME Base, Base', RowsFull', UNCHANGED forks, Confirmed \subseteq Confirmed'
    PROVE  View!Follow
<1>1. PICK i \in DOMAIN forks : \E h \in 0..Len(forks[i]) : OfChain(Prefix(i, h))'
  <2>1. PICK i \in DOMAIN forks' : \E h \in 0..Len(forks'[i]) : OfChain(Prefix(i, h))'
      BY DEF RowsFull, Exact
  <2> QED BY <2>1
<1>2. PICK h \in 0..Len(forks[i]) : OfChain(Prefix(i, h))'
    BY <1>1
<1> DEFINE c == SubSeq(forks[i], 1, h)
<1>3. Prefix(i, h)' = c
    BY DEF Prefix
<1>4. c \in Seq(Block) /\ Valid(c)
    BY ChainsIs, PrefixIs, ValidPrefix DEF Base
<1>5. \A t \in Txs : t \in TxsIn(c) => t \in InBlock'
    BY <1>2, <1>3 DEF OfChain
<1>6. \A t \in InBlock' : t \in Txs /\ Placed(t, db'[t].block, c)
    BY <1>2, <1>3 DEF OfChain, InBlock
<1>7. \A t : t \in TxsIn(c) => t \in Txs
  <2>1. ASSUME NEW t, t \in TxsIn(c) PROVE t \in Txs
    <3> HIDE DEF c
    <3>1. PICK g \in DOMAIN c : t \in c[g].txs
        BY <2>1, TxsInIs
    <3> QED BY <1>4, <3>1, BlockIs
  <2> QED BY <2>1
<1> HIDE DEF c
<1>8. \A t \in InBlock' : t \in TxsIn(c) /\ db'[t].block = PlaceOf(t, c)
    BY <1>4, <1>6, PlaceIs
<1>9. Confirmed' = OwnOf(c)
    BY <1>5, <1>7, <1>8 DEF Confirmed, OwnOf
<1> QED BY <1>9 DEF View!Follow, c

\* The rows below a height remain: if any goes, that is to revert to the least height
\* that goes.
LEMMA ViewReverts ==
    ASSUME Base, UNCHANGED forks, NEW low \in Int,
           \A t \in Txs : t \in InBlock' <=> t \in InBlock /\ db[t].block[1] < low,
           \A t \in InBlock' : db'[t].block = db[t].block
    PROVE  View!Revert \/ Confirmed' = Confirmed
<1>1. InBlock \subseteq Txs /\ InBlock' \subseteq Txs /\ \A t \in Txs : db[t].block[1] \in Nat
    BY BaseIs DEF InBlock
<1> DEFINE D == {n \in Nat : \E t \in InBlock : db[t].block[1] = n /\ ~(n < low)}
<1>2. CASE D = {}
  <2>1. \A t \in InBlock : db[t].block[1] < low
      BY <1>1, <1>2
  <2>2. InBlock' = InBlock
      BY <1>1, <2>1
  <2> QED BY <2>2 DEF Confirmed
<1>3. CASE D # {}
  <2>1. PICK h \in D : \A m \in D : h <= m
    <3>1. D \in SUBSET Nat
        OBVIOUS
    <3> HIDE DEF D
    <3> QED BY <1>3, <3>1, LeastOf
  <2>2. h \in Nat /\ ~(h < low) /\ \E t \in InBlock : db[t].block[1] = h
      OBVIOUS
  <2>3. ASSUME NEW t \in InBlock PROVE db[t].block[1] < low <=> db[t].block[1] < h
    <3>1. db[t].block[1] \in Nat
        BY <1>1
    <3>2. ~(db[t].block[1] < low) => db[t].block[1] \in D
        BY <3>1
    <3> HIDE DEF D
    <3>3. ~(db[t].block[1] < low) => h <= db[t].block[1]
        BY <2>1, <3>2
    <3> QED BY <2>2, <3>1, <3>3
  <2> HIDE DEF D
  <2>4. \A x : View!Height(x) = x[2][1]
      BY DEF View!Height
  <2>5. h \in {View!Height(x) : x \in Confirmed}
    <3>1. PICK t \in InBlock : db[t].block[1] = h
        BY <2>2
    <3>2. <<t, db[t].block>> \in Confirmed
        BY DEF Confirmed
    <3> QED BY <3>1, <3>2 DEF View!Height
  <2>6. Confirmed' = {x \in Confirmed : View!Height(x) < h}
    <3>1. ASSUME NEW x \in Confirmed' PROVE x \in Confirmed /\ View!Height(x) < h
      <4>1. PICK t \in InBlock' : x = <<t, db'[t].block>>
          BY DEF Confirmed
      <4>2. t \in InBlock /\ db[t].block[1] < low /\ x = <<t, db[t].block>>
          BY <1>1, <4>1
      <4>3. db[t].block[1] < h
          BY <2>3, <4>2
      <4> QED BY <2>4, <4>2, <4>3 DEF Confirmed
    <3>2. ASSUME NEW x \in Confirmed, View!Height(x) < h PROVE x \in Confirmed'
      <4>1. PICK t \in InBlock : x = <<t, db[t].block>>
          BY DEF Confirmed
      <4>2. db[t].block[1] < h
          BY <2>4, <3>2, <4>1
      <4>3. t \in InBlock' /\ db'[t].block = db[t].block
          BY <1>1, <2>3, <4>2
      <4> QED BY <4>1, <4>3 DEF Confirmed
    <3> QED BY <3>1, <3>2
  <2> QED BY <2>5, <2>6 DEF View!Revert
<1> QED BY <1>2, <1>3

LEMMA ViewStep ==
    ASSUME Base, Base', RowsFull, RowsFull', SyncFull, [Next]_vars
    PROVE  View!Next \/ (forks' = forks /\ Confirmed' = Confirmed)
<1>1. ASSUME db' = db PROVE View!Next \/ (forks' = forks /\ Confirmed' = Confirmed)
  <2>1. Confirmed' = Confirmed
      BY <1>1 DEF Confirmed, InBlock
  <2> QED BY <2>1 DEF View!Next, View!ChainMoves
<1>2. CASE Outside \/ UNCHANGED vars
    BY <1>1, <1>2 DEF Outside, wallet, vars
<1>3. CASE RemoveAllTransactions
  <2>1. forks' = forks /\ InBlock' = {}
      BY <1>3 DEF RemoveAllTransactions, bvars, InBlock, NoRow
  <2>2. \A t \in Txs : t \in InBlock' <=> t \in InBlock /\ db[t].block[1] < 0
      BY <2>1, BaseIs
  <2>3. View!Revert \/ Confirmed' = Confirmed
      BY <2>1, <2>2, ViewReverts
  <2> QED BY <2>1, <2>3 DEF View!Next
<1>4. ASSUME NEW p \in Refreshes, Wallet(p) \/ Fail(p)
      PROVE  View!Next \/ (forks' = forks /\ Confirmed' = Confirmed)
  <2>1. CASE Begin(p) \/ RawScanAddresses(p) \/ Fail(p)
      BY <1>1, <2>1 DEF Begin, RawScanAddresses, Fail, Release, wallet
  <2>2. CASE Rollback(p)
    <3>1. CASE pc[p] = "overtaken" \/ lastSync = NoBlock \/ InBlock = {}
        BY <1>1, <2>2, <3>1 DEF Rollback, wallet
    <3>2. CASE ~(pc[p] = "overtaken" \/ lastSync = NoBlock \/ InBlock = {})
      <4> DEFINE low == BlockOf(FirstSuccessTxBefore(Top))[1] - K
      <4>1. /\ low \in Int /\ forks' = forks
            /\ \A t \in Txs : /\ db'[t].block = db[t].block
                              /\ t \in InBlock' <=> t \in InBlock /\ db[t].block[1] < low
          BY <2>2, <3>2, RollbackIs DEF bvars
      <4> HIDE DEF low
      <4>2. \A t \in InBlock' : db'[t].block = db[t].block
          BY <4>1 DEF InBlock
      <4>3. View!Revert \/ Confirmed' = Confirmed
          BY <4>1, <4>2, ViewReverts
      <4> QED BY <4>1, <4>3 DEF View!Next
    <3> QED BY <3>1, <3>2
  <2>3. ASSUME NEW c \in Chunks(sync.known), Page(p, c)
        PROVE  View!Next \/ (forks' = forks /\ Confirmed' = Confirmed)
    <3>1. CASE db' = db
        BY <1>1, <3>1
    <3>2. CASE db' # db
      <4>1. /\ sync.step = "pages" /\ UNCHANGED bvars /\ ~Release(p, "refused")
          BY <2>3, <3>2, PageCases DEF Release, wallet
      <4>2. PICK pages :
               /\ Accepts
               /\ \A d \in DOMAIN pages : PagePlaced(pages[d], Until)
               /\ \A d \in DOMAIN pages : PageFull(pages[d], d, Until)
               /\ DOMAIN pages = Chunks(sync.known)
               /\ UpdateTransactionBatch(Response(pages))
          BY <2>3, <3>2, <4>1, PageCases
      <4>3. InBlock \subseteq InBlock'
          BY <4>1, <4>2, BatchFull
      <4>4. \A t \in InBlock : Placed(t, db[t].block, Until)
          BY <4>1, <4>2, UntilIs
      <4>5. \A t \in InBlock' : Placed(t, db'[t].block, Until)
        <5>1. DOMAIN pages \subseteq Nat
          <6>1. sync.known \in Nat
              BY <4>1 DEF Base, SyncSeen
          <6> QED BY <4>2, <6>1, ChunksAre
        <5>2. PagePlaced(Response(pages), Until)
            BY <4>2, <5>1, ResponsePlaced
        <5> QED BY <4>1, <4>2, <5>2, BatchIs
      <4>6. Until \in Seq(Block) /\ Valid(Until)
          BY <4>1, <4>2, UntilIs
      <4>7. \A t \in InBlock : db'[t].block = db[t].block
        <5>1. ASSUME NEW t \in InBlock PROVE db'[t].block = db[t].block
          <6>1. Placed(t, db[t].block, Until) /\ Placed(t, db'[t].block, Until)
              BY <4>3, <4>4, <4>5
          <6>2. db[t].block = PlaceOf(t, Until) /\ db'[t].block = PlaceOf(t, Until)
              BY <4>6, <6>1, PlaceIs
          <6> QED BY <6>2
        <5> QED BY <5>1
      <4>8. Confirmed \subseteq Confirmed'
          BY <4>3, <4>7 DEF Confirmed
      <4>9. View!Follow
          BY <4>1, <4>8, ViewFollows DEF bvars
      <4> QED BY <4>9 DEF View!Next
    <3> QED BY <3>1, <3>2
  <2> QED BY <1>4, <2>1, <2>2, <2>3 DEF Wallet
<1> QED BY <1>2, <1>3, <1>4 DEF Next

\* The synchronisation implements ChainView: it follows one chain at a time, confirms
\* nothing in two places, and goes back before it follows another one.
THEOREM SyncFollowsOneChain ==
    ASSUME SteadyScan PROVE Spec /\ []GapKept => FollowsOneChain
<1>1. Init => View!Init
  <2>1. Init => InBlock = {}
      BY DEF Init, InBlock, NoRow
  <2> QED BY <2>1 DEF View!Init, Confirmed
<1>2. Base /\ Base' /\ RowsFull /\ RowsFull' /\ SyncFull /\ [Next]_vars
        => [View!Next]_<<forks, Confirmed>>
    BY ViewStep
<1> QED BY <1>1, <1>2, SyncInductive, SyncExact, PTL DEF Spec, FollowsOneChain, View!Spec
-----------------------------------------------------------------------------
(* One rollback is enough for one reorganisation. *)

\* A chain that was replaced is the next one's, but for K blocks.
Shallow == \A i \in 1..(Len(forks) - 1) : \A g \in 1..(Len(forks[i]) - K) :
    g <= Len(forks[i + 1]) /\ forks[i + 1][g] = forks[i][g]

LEMMA ShallowStart == Init => Shallow
<1>1. Init => Len(forks) = 1
    BY DEF Init, BackendInit
<1>2. Len(forks) = 1 => 1..(Len(forks) - 1) = {}
    OBVIOUS
<1> QED BY <1>1, <1>2 DEF Shallow

LEMMA ShallowMint == ASSUME Chains, Shallow, Mint PROVE Shallow'
<1>1. PICK S \in SUBSET Txs :
         /\ Len(Chain) < MaxHeight /\ Fits(S, Chain)
         /\ forks' = [forks EXCEPT ![Len(forks)] = Append(@, [fork |-> Len(forks), txs |-> S])]
    BY DEF Mint
<1>2. /\ Grown /\ DOMAIN forks' = DOMAIN forks
      /\ \A i \in DOMAIN forks : i # Len(forks) => forks'[i] = forks[i]
      /\ forks' \in Seq(Seq(Block))
    BY <1>1, MintChains
<1>3. /\ forks \in Seq(Seq(Block)) /\ Len(forks) \in Nat /\ DOMAIN forks = 1..Len(forks)
      /\ \A i \in 1..Len(forks) : Len(forks[i]) \in Nat
    BY ChainsIs
<1>4. Len(forks') = Len(forks)
    BY <1>2, <1>3
<1>5. ASSUME NEW i \in 1..(Len(forks) - 1), NEW g \in 1..(Len(forks'[i]) - K)
      PROVE  g <= Len(forks'[i + 1]) /\ forks'[i + 1][g] = forks'[i][g]
  <2>1. i \in DOMAIN forks /\ i + 1 \in DOMAIN forks /\ forks'[i] = forks[i]
    <3>0. Len(forks) \in Nat
        BY <1>3
    <3>1. i \in 1..Len(forks) /\ i + 1 \in 1..Len(forks) /\ i # Len(forks)
        BY <3>0
    <3> QED BY <1>2, <1>3, <3>1
  <2>2. g <= Len(forks[i + 1]) /\ forks[i + 1][g] = forks[i][g]
      BY <1>5, <2>1 DEF Shallow
  <2>3. Len(forks[i + 1]) \in Nat /\ g \in 1..Len(forks[i + 1])
      BY <1>3, <2>1, <2>2
  <2>4. Len(forks'[i + 1]) \in Nat
      BY <1>2, <2>1
  <2>5. Len(forks[i + 1]) <= Len(forks'[i + 1]) /\ forks'[i + 1][g] = forks[i + 1][g]
      BY <1>2, <2>1, <2>3 DEF Grown
  <2> QED BY <2>1, <2>2, <2>3, <2>4, <2>5
<1> QED BY <1>4, <1>5 DEF Shallow

LEMMA ShallowReorg == ASSUME Chains, Shallow, Reorg PROVE Shallow'
<1>1. PICK h \in 1..(Len(Chain) - 1) :
         h >= Len(Chain) - K /\ forks' = Append(forks, SubSeq(Chain, 1, h))
    BY DEF Reorg
<1> DEFINE n == Len(forks)
           c == SubSeq(Chain, 1, h)
<1>2. /\ forks \in Seq(Seq(Block)) /\ n \in Nat \ {0} /\ Chain = forks[n] /\ Chain \in Seq(Block)
      /\ Len(Chain) \in Nat /\ \A i \in 1..n : Len(forks[i]) \in Nat
    BY ChainsIs
<1>3. c \in Seq(Block) /\ Len(c) = h /\ \A g \in 1..h : c[g] = Chain[g]
  <2>1. h \in 0..Len(Chain)
      BY <1>2
  <2> QED BY <1>2, <2>1, PrefixIs
<1> HIDE DEF c
<1>4. Len(forks') = n + 1 /\ forks'[n + 1] = c /\ \A i \in 1..n : forks'[i] = forks[i]
  <2>1. forks' = Append(forks, c)
      BY <1>1 DEF c
  <2> QED BY <1>2, <1>3, <2>1, AppendProperties
<1> HIDE DEF n
<1>5. ASSUME NEW i \in 1..n, NEW g \in 1..(Len(forks'[i]) - K)
      PROVE  g <= Len(forks'[i + 1]) /\ forks'[i + 1][g] = forks'[i][g]
  <2>1. CASE i = n
    <3>1. g \in 1..(Len(Chain) - K) /\ forks'[i] = Chain /\ forks'[i + 1] = c
        BY <1>2, <1>4, <2>1
    <3>2. g \in 1..h
        BY <1>1, <1>2, <3>1, BackendAssumption
    <3> QED BY <1>3, <3>1, <3>2
  <2>2. CASE i # n
    <3>1. i \in 1..(n - 1) /\ forks'[i] = forks[i] /\ forks'[i + 1] = forks[i + 1]
        BY <1>2, <1>4, <2>2
    <3> QED BY <3>1, <1>5 DEF Shallow, n
  <2> QED BY <2>1, <2>2
<1>6. Len(forks') - 1 = n
    BY <1>2, <1>4
<1> QED BY <1>5, <1>6 DEF Shallow

LEMMA ShallowStep == Base /\ Shallow /\ [Next]_vars => Shallow'
<1> SUFFICES ASSUME Base, Shallow, [Next]_vars PROVE Shallow'
    OBVIOUS
<1>1. CASE forks' = forks
    BY <1>1 DEF Shallow
<1>2. CASE Mint \/ Reorg
    BY <1>2, ShallowMint, ShallowReorg DEF Base
<1>3. CASE Outside
  <2>1. BackendNext \/ Lag
      BY <1>3 DEF Outside
  <2>2. CASE Lag \/ CatchUp \/ \E t \in Txs : Submit(t) \/ Expire(t)
      BY <1>1, <2>2 DEF Lag, CatchUp, Submit, Expire
  <2> QED BY <1>2, <2>1, <2>2 DEF BackendNext
<1>4. CASE UNCHANGED bvars \/ UNCHANGED vars
    BY <1>1, <1>4 DEF bvars, vars
<1>5. ASSUME NEW p \in Refreshes, Wallet(p) \/ Fail(p) PROVE UNCHANGED bvars
    BY <1>5 DEF Wallet, Fail, Begin, RawScanAddresses, Rollback, Page
<1>6. CASE RemoveAllTransactions
    BY <1>4, <1>6 DEF RemoveAllTransactions
<1> QED BY <1>3, <1>4, <1>5, <1>6 DEF Next

\* What is deep enough in a chain is at the same place of the next one.
LEMMA PlacedNext ==
    ASSUME Chains, Shallow, NEW i \in 1..(Len(forks) - 1), NEW t, NEW b,
           Placed(t, b, forks[i]), b[1] <= Len(forks[i]) - K
    PROVE  Placed(t, b, forks[i + 1])
<1>1. /\ Len(forks) \in Nat /\ i \in 1..Len(forks) /\ i + 1 \in 1..Len(forks)
      /\ DOMAIN forks[i] = 1..Len(forks[i]) /\ DOMAIN forks[i + 1] = 1..Len(forks[i + 1])
      /\ Len(forks[i]) \in Nat /\ Len(forks[i + 1]) \in Nat
  <2>1. Len(forks) \in Nat /\ i \in 1..Len(forks) /\ i + 1 \in 1..Len(forks)
      BY ChainsIs
  <2> QED BY <2>1, ChainsIs
<1>2. b[1] \in 1..Len(forks[i]) /\ OnChain(b, forks[i]) /\ t \in forks[i][b[1]].txs
    BY <1>1 DEF Placed
<1>3. b[1] \in 1..(Len(forks[i]) - K)
    BY <1>1, <1>2, BackendAssumption
<1>4. b[1] <= Len(forks[i + 1]) /\ forks[i + 1][b[1]] = forks[i][b[1]]
    BY <1>3 DEF Shallow
<1>5. b[1] \in 1..Len(forks[i + 1])
    BY <1>1, <1>2, <1>4
<1>6. OnChain(b, forks[i + 1])
    BY <1>2, <1>4 DEF OnChain, Hash
<1> QED BY <1>1, <1>2, <1>4, <1>5, <1>6 DEF Placed

LEMMA OnlyRollback ==
    ASSUME Base, [Next]_vars, NEW p \in Refreshes, pc[p] = "refused", pc'[p] = "idle"
    PROVE  Rollback(p)
<1>1. pc \in [Refreshes -> PcStates] /\ \A q \in Refreshes : lock = q => pc[q] = "running"
    BY DEF Base, TypeOK, PcStates
<1>2. ~Outside /\ ~UNCHANGED vars
    BY DEF Outside, vars
<1>3. ASSUME NEW q, NEW b, q # p PROVE ~OverrideLastSyncInfo(q, b)
    BY <1>3 DEF OverrideLastSyncInfo
<1>4. ASSUME NEW q, q # p, NEW s PROVE pc' # [pc EXCEPT ![q] = s]
    BY <1>1, <1>4
<1>5. ~RemoveAllTransactions
    BY <1>3, SyncAssumption DEF RemoveAllTransactions
<1>6. PICK q \in Refreshes : Wallet(q) \/ Fail(q)
    BY <1>2, <1>5 DEF Next
<1>7. ~RawScanAddresses(q)
    BY DEF RawScanAddresses
<1>8. ~Begin(q)
  <2>1. SUFFICES ASSUME Begin(q) PROVE FALSE
      OBVIOUS
  <2>2. q # p
      BY <2>1 DEF Begin
  <2> QED BY <1>3, <1>4, <2>1, <2>2 DEF Begin
<1>9. ~Fail(q)
  <2>1. SUFFICES ASSUME Fail(q) PROVE FALSE
      OBVIOUS
  <2>2. q # p
      BY <1>1, <2>1 DEF Fail
  <2> QED BY <1>4, <2>1, <2>2 DEF Fail, Release
<1>10. ASSUME NEW c \in Chunks(sync.known), Page(q, c) PROVE FALSE
  <2>1. q # p
      BY <1>1, <1>10 DEF Page
  <2> QED BY <1>3, <1>4, <1>10, <2>1 DEF Page, Release
<1>11. Rollback(q)
    BY <1>6, <1>7, <1>8, <1>9, <1>10 DEF Wallet
<1>12. q = p
  <2>1. SUFFICES ASSUME q # p PROVE FALSE
      OBVIOUS
  <2> QED BY <1>3, <1>4, <1>11, <2>1 DEF Rollback
<1> QED BY <1>11, <1>12

\* What was confirmed on a chain is, after the rollback of a refused refresh, of the
\* chain that replaced it: K blocks are as much as a reorganisation takes.
THEOREM RollbackIsDeepEnough == Spec => RollbackUndoesReorganisation
<1> DEFINE A == \A p \in Refreshes : pc[p] = "refused" /\ pc'[p] = "idle" =>
                   \A i \in 1..(Len(forks) - 1) :
                      Confirmed \subseteq OwnOf(forks[i]) => Confirmed' \subseteq OwnOf(forks[i + 1])
<1>1. ASSUME Base, Shallow, [Next]_vars PROVE [A]_vars
  <2> SUFFICES ASSUME NEW p \in Refreshes, pc[p] = "refused", pc'[p] = "idle",
                      NEW i \in 1..(Len(forks) - 1), Confirmed \subseteq OwnOf(forks[i])
               PROVE  Confirmed' \subseteq OwnOf(forks[i + 1])
      OBVIOUS
  <2>1. Rollback(p)
      BY <1>1, OnlyRollback
  <2>2. /\ Chains /\ Len(forks) \in Nat /\ i \in 1..Len(forks) /\ i + 1 \in 1..Len(forks)
        /\ forks[i] \in Seq(Block) /\ Valid(forks[i]) /\ Len(forks[i]) \in Nat
        /\ forks[i + 1] \in Seq(Block) /\ Valid(forks[i + 1])
        /\ DOMAIN forks[i] = 1..Len(forks[i])
    <3>1. Chains /\ Len(forks) \in Nat
        BY <1>1, ChainsIs DEF Base
    <3>2. i \in 1..Len(forks) /\ i + 1 \in 1..Len(forks)
        BY <3>1
    <3> QED BY <3>1, <3>2, ChainsIs
  <2>3. ASSUME NEW t \in InBlock PROVE Placed(t, db[t].block, forks[i])
    <3>1. <<t, db[t].block>> \in OwnOf(forks[i])
        BY <2>3 DEF Confirmed
    <3>2. t \in TxsIn(forks[i]) /\ db[t].block = PlaceOf(t, forks[i])
        BY <3>1 DEF OwnOf
    <3> QED BY <2>2, <3>2, PlaceIs
  <2>4. CASE lastSync = NoBlock \/ InBlock = {}
    <3>1. InBlock = {}
      <4>1. CASE lastSync = NoBlock
        <5>1. ASSUME NEW t \in InBlock PROVE FALSE
          <6>1. db[t].block[1] <= 0 /\ db[t].block[1] \in 1..Len(forks[i])
              BY <1>1, <2>2, <2>3, <4>1, NoBlockIs DEF Base, Cover, Placed
          <6> QED BY <2>2, <6>1
        <5> QED BY <5>1
      <4> QED BY <2>4, <4>1
    <3>2. db' = db
        BY <2>1, <2>4 DEF Rollback, wallet
    <3> QED BY <3>1, <3>2 DEF Confirmed, InBlock
  <2>5. CASE ~(lastSync = NoBlock \/ InBlock = {})
    <3> DEFINE f == FirstSuccessTxBefore(Top)
               low == BlockOf(f)[1] - K
    <3>1. /\ low \in Int
          /\ \A t \in Txs : /\ db'[t].block = db[t].block
                            /\ t \in InBlock' <=> t \in InBlock /\ db[t].block[1] < low
        BY <1>1, <2>1, <2>5, RollbackIs
    <3>2. low <= Len(forks[i]) - K
      <4>1. BlockOf(f)[1] \in 0..Len(forks[i])
        <5>1. db \in [Txs -> RowType]
            BY <1>1, BaseIs
        <5>2. f = 0 \/ f \in InBlock
            BY <5>1, FirstSuccessIs
        <5>3. CASE f = 0
            BY <2>2, <5>3, NoBlockIs DEF BlockOf
        <5>4. CASE f \in InBlock
          <6>1. f \in Txs
              BY <5>4 DEF InBlock
          <6>2. f # 0
              BY <6>1, TxNumbers
          <6>3. BlockOf(f) = db[f].block
              BY <6>2 DEF BlockOf
          <6> HIDE DEF f
          <6>4. Placed(f, db[f].block, forks[i])
              BY <2>3, <5>4
          <6> QED BY <2>2, <6>3, <6>4 DEF Placed
        <5> QED BY <5>2, <5>3, <5>4
      <4> QED BY <2>2, <4>1, BackendAssumption
    <3> HIDE DEF f, low
    <3>3. ASSUME NEW x \in Confirmed' PROVE x \in OwnOf(forks[i + 1])
      <4>1. PICK t \in InBlock' : x = <<t, db'[t].block>>
          BY <3>3 DEF Confirmed
      <4>2. t \in InBlock /\ db[t].block[1] < low /\ x = <<t, db[t].block>>
        <5>1. t \in Txs
            BY DEF InBlock
        <5> QED BY <3>1, <4>1, <5>1
      <4>3. Placed(t, db[t].block, forks[i]) /\ db[t].block[1] \in Nat
          BY <2>2, <2>3, <4>2 DEF Placed
      <4>4. db[t].block[1] <= Len(forks[i]) - K
          BY <2>2, <3>1, <3>2, <4>2, <4>3, BackendAssumption
      <4>5. Placed(t, db[t].block, forks[i + 1])
          BY <1>1, <2>2, <4>3, <4>4, PlacedNext
      <4>6. t \in TxsIn(forks[i + 1]) /\ db[t].block = PlaceOf(t, forks[i + 1])
          BY <2>2, <4>5, PlaceIs
      <4> QED BY <4>2, <4>6 DEF OwnOf
    <3> QED BY <3>3
  <2> QED BY <2>4, <2>5
<1>2. Spec => []Shallow
    BY ShallowStart, ShallowStep, SyncInductive, PTL DEF Spec
<1>3. Spec => [][A]_vars
    BY <1>1, <1>2, SyncInductive, PTL DEF Spec
<1> QED BY <1>3 DEF RollbackUndoesReorganisation, A

===============================================================================
