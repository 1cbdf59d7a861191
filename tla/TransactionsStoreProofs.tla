------------------------ MODULE TransactionsStoreProofs ------------------------
(***************************************************************************)
(* Theorems about TransactionsStore, for any callers and any transactions. *)
(*                                                                         *)
(* EntryIsRunning and RefreshAlone are not inductive.  A refresh deletes   *)
(* whatever entry there is when it ends, so one must know that the entry   *)
(* is its own (Own), and that the entry of the removal is there from the   *)
(* first to the last moment of the removal and at no other time (Removes). *)
(*                                                                         *)
(* WaitsEnd is inductive with these: the entry a caller finds is that of   *)
(* what runs, and the removal's is gone when the resync looks for one.     *)
(*                                                                         *)
(* ShownOnceAlone is about the list on the screen only.  What is stored    *)
(* and what is being loaded get there, so one must know of them too that   *)
(* they have nothing twice, and that a load under way has nothing in       *)
(* common with the list it will be put before (Apart).                     *)
(***************************************************************************)
EXTENDS TransactionsStore, FiniteSetTheorems, SequenceTheorems, WellFoundedInduction, TLAPS

\* Who is at which step: only the resync is at a step of its own.
RefreshTypeOK ==
    /\ ongoing \in Actors \cup {Removal, NoPromise}
    /\ pc \in [Actors -> Steps]
    /\ waits \in [Actors -> Actors \cup {Removal, NoPromise}]
    /\ \A c \in Callers : pc[c] \in {"idle", "waiting", "refreshing"}
    /\ displaced \in BOOLEAN

\* Only who has a promise to wait for waits.
Waits == \A a \in Actors : waits[a] # NoPromise => pc[a] \in {"waiting", "queued"}

\* An entry is of a refresh that runs, or of a removal that was not followed
\* by a refresh yet.
Entries ==
    /\ ongoing \in Actors => Refreshing(ongoing)
    /\ ongoing = Removal => pc[Resync] \in {"removing", "failed"}

\* Nobody's entry was deleted: whoever refreshes has the entry.
Own == ~ displaced => \A a \in Actors : Refreshing(a) => ongoing = a

\* Likewise the removal.
Removes == ~ displaced => (pc[Resync] = "removing" => ongoing = Removal)

IInv == RefreshTypeOK /\ Waits /\ Entries /\ Own /\ Removes

LEMMA InitIInv == Init => IInv
BY StoreAssumption DEF Init, IInv, RefreshTypeOK, Waits, Entries, Own, Removes,
   Each, Actors, Steps, Refreshing

LEMMA JoinIInv == ASSUME IInv, NEW a \in Actors, JoinRefresh(a) PROVE IInv'
BY StoreAssumption DEF IInv, RefreshTypeOK, Waits, Entries, Own, Removes, Actors, Steps,
   Refreshing, Running, JoinRefresh, Calls

LEMMA StartIInv == ASSUME IInv, NEW a \in Actors, StartRefresh(a) PROVE IInv'
BY StoreAssumption DEF IInv, RefreshTypeOK, Waits, Entries, Own, Removes, Actors, Steps,
   Refreshing, StartRefresh, Calls

LEMMA EndIInv == ASSUME IInv, NEW a \in Actors, NEW ok \in BOOLEAN, EndRefresh(a, ok) PROVE IInv'
BY StoreAssumption DEF IInv, RefreshTypeOK, Waits, Entries, Own, Removes, Actors, Steps,
   Refreshing, Running, EndRefresh, Settled, TakenOver

LEMMA ResyncIInv == ASSUME IInv, ResyncNext PROVE IInv'
<1> USE StoreAssumption DEF IInv, RefreshTypeOK, Waits, Entries, Own, Removes, Actors, Steps, Refreshing
<1>1. CASE StartResync
  BY <1>1 DEF StartResync
<1>2. CASE RemoveDone
  BY <1>2 DEF RemoveDone, DeleteEntry, Running
<1>3. ASSUME NEW ok \in BOOLEAN, RemovalSettles(ok) PROVE IInv'
  BY <1>3 DEF RemovalSettles
<1>4. CASE EndResync
  BY <1>4 DEF EndResync, DeleteEntry, Running
<1> QED BY <1>1, <1>2, <1>3, <1>4 DEF ResyncNext

LEMMA SubmittedIInv == ASSUME IInv, SubmittedNext PROVE IInv'
<1>1. CASE Close
  BY <1>1, StoreAssumption DEF IInv, RefreshTypeOK, Waits, Entries, Own, Removes, Actors, Steps,
     Refreshing, Close, Each
<1>2. CASE UNCHANGED refreshVars
  BY <1>2 DEF IInv, RefreshTypeOK, Waits, Entries, Own, Removes, Refreshing, refreshVars
<1> QED
  BY <1>1, <1>2 DEF SubmittedNext, Open, Load, MainSend, MainRecord, ConnectorSend, Confirm,
     ConnectorRecord, ConnectorNotify

\* The invariant of the refreshes holds in every state: ongoingRefreshing has
\* the promise of what runs, and of nothing else.
THEOREM RefreshInductive == Spec => []IInv
<1>1. ASSUME IInv, [Next]_vars PROVE IInv'
  <2>1. CASE CallerNext
    BY <1>1, <2>1, JoinIInv, StartIInv, EndIInv DEF CallerNext
  <2>2. CASE ResyncNext
    BY <1>1, <2>2, ResyncIInv
  <2>3. CASE SubmittedNext
    BY <1>1, <2>3, SubmittedIInv
  <2>4. CASE UNCHANGED vars
    BY <1>1, <2>4 DEF vars, IInv, RefreshTypeOK, Waits, Entries, Own, Removes, Refreshing, refreshVars
  <2> QED BY <1>1, <2>1, <2>2, <2>3, <2>4 DEF Next
<1> QED BY <1>1, InitIInv, PTL DEF Spec

\* No refresh and no removal that is over leaves its entry behind, so that
\* refreshTransactionData never answers with an old promise.
THEOREM EntryKept == Spec => []EntryIsRunning
<1>1. IInv => EntryIsRunning
  BY StoreAssumption DEF IInv, RefreshTypeOK, Entries, EntryIsRunning, Running, Actors
<1> QED BY <1>1, RefreshInductive, PTL

\* One process for a wallet at a time, as long as no resync deletes the entry
\* of somebody else's refresh.
THEOREM OneRefresh == Spec => []RefreshAlone
<1>1. ASSUME IInv PROVE RefreshAlone
  <2> SUFFICES ASSUME ~ displaced PROVE RefreshAlone
    BY DEF RefreshAlone
  <2> DEFINE R == {a \in Actors : Refreshing(a)}
  <2>1. R \subseteq {ongoing}
    BY <1>1 DEF IInv, Own
  <2>2. Cardinality(R) <= 1
    <3> HIDE DEF R
    <3>1. R = {} \/ R = {ongoing}
      BY <2>1
    <3>2. Cardinality({}) = 0 /\ Cardinality({ongoing}) = 1
      BY FS_EmptySet, FS_Singleton
    <3> QED BY <3>1, <3>2
  <2>3. pc[Resync] = "removing" => \A a \in Actors : ~ Refreshing(a)
    BY <1>1, StoreAssumption DEF IInv, Own, Removes, Actors, Refreshing
  <2> QED BY <2>2, <2>3 DEF RefreshAlone
<1> QED BY <1>1, RefreshInductive, PTL
-----------------------------------------------------------------------------
(* What a refresh leaves of the list: NotIn *)

\* A set of numbers has a least one.
LEMMA LeastOf ==
    ASSUME NEW S \in SUBSET Nat, S # {}
    PROVE  \E n \in S : \A m \in S : n <= m
<1> DEFINE R == OpToRel(<, Nat)
<1>1. IsWellFoundedOn(R, Nat)
    BY NatLessThanWellFounded
<1>2. \A m, n \in Nat : m < n => <<m, n>> \in R
    BY DEF OpToRel
<1> HIDE DEF R
<1>3. PICK n \in S : \A m \in S : ~(<<m, n>> \in R)
    BY <1>1, WFMin
<1>4. \A m \in S : ~(m < n)
    BY <1>2, <1>3
<1> QED BY <1>4

\* One step of NotIn, from what it made of the entries before.
KeepStep(txs, before, e) == IF e.tx \in txs THEN before ELSE Append(before, e)

\* k is what NotIn makes of the first n entries, and of fewer.
Kept(txs, k, n) ==
    k = [i \in 0..n |-> IF i = 0 THEN <<>> ELSE KeepStep(txs, k[i - 1], list[i])]

LEMMA KeptExists ==
    ASSUME list \in Seq(Entry), NEW txs
    PROVE  \A n \in 0..Len(list) : \E k : Kept(txs, k, n)
<1> DEFINE Bad == {n \in 0..Len(list) : ~ \E k : Kept(txs, k, n)}
<1>1. SUFFICES ASSUME Bad # {} PROVE FALSE
  OBVIOUS
<1> HIDE DEF Bad
<1>b. Bad \in SUBSET Nat
  BY DEF Bad
<1>2. PICK n \in Bad : \A m \in Bad : n <= m
  BY <1>1, <1>b, LeastOf
<1> USE DEF Bad
<1>3. n # 0
  <2>1. Kept(txs, [i \in 0..0 |-> <<>>], 0)
    BY DEF Kept
  <2> QED BY <2>1
<1>4. n - 1 \in 0..Len(list) /\ n - 1 \notin Bad
  BY <1>2, <1>3
<1>5. PICK k : Kept(txs, k, n - 1)
  BY <1>4
<1> DEFINE g == [i \in 0..n |-> IF i = n THEN KeepStep(txs, k[n - 1], list[n]) ELSE k[i]]
<1>6. ASSUME NEW i \in 0..n
      PROVE  g[i] = IF i = 0 THEN <<>> ELSE KeepStep(txs, g[i - 1], list[i])
  <2>1. CASE i = n
    <3>1. g[n - 1] = k[n - 1] /\ n - 1 \in 0..n
      BY <1>3
    <3> QED BY <2>1, <1>3, <3>1
  <2>2. CASE i # n
    <3>1. i \in 0..(n - 1) /\ g[i] = k[i]
      BY <2>2
    <3>2. i # 0 => i - 1 \in 0..n /\ g[i - 1] = k[i - 1]
      BY <3>1
    <3>3. k[i] = IF i = 0 THEN <<>> ELSE KeepStep(txs, k[i - 1], list[i])
      BY <1>5, <3>1 DEF Kept
    <3> QED BY <3>1, <3>2, <3>3
  <2> QED BY <2>1, <2>2
<1>7. Kept(txs, g, n)
  <2> HIDE DEF g
  <2>1. g = [i \in 0..n |-> g[i]]
    BY DEF g
  <2> QED BY <1>6, <2>1 DEF Kept
<1> QED BY <1>2, <1>7

\* NotIn is the last of them.
LEMMA NotInKept ==
    ASSUME list \in Seq(Entry), NEW txs
    PROVE  \E k : Kept(txs, k, Len(list)) /\ NotIn(txs) = k[Len(list)]
<1>1. \E k : Kept(txs, k, Len(list))
  <2>1. Len(list) \in Nat
    OBVIOUS
  <2>2. Len(list) \in 0..Len(list)
    BY <2>1
  <2> QED BY <2>2, KeptExists
<1> DEFINE c == CHOOSE k : Kept(txs, k, Len(list))
<1>2. Kept(txs, c, Len(list))
  BY <1>1
<1>3. NotIn(txs) = c[Len(list)]
  BY DEF NotIn, Kept, KeepStep
<1> QED BY <1>2, <1>3

-----------------------------------------------------------------------------
(* The lists *)

\* No transaction twice.
Distinct(s) == \A i, j \in DOMAIN s : s[i].tx = s[j].tx => i = j

\* All its entries are entries of t.
Within(s, t) == \A i \in DOMAIN s : \E j \in DOMAIN t : s[i] = t[j]

LEMMA AppendList ==
    ASSUME NEW s \in Seq(Entry), NEW e \in Entry
    PROVE  /\ Append(s, e) \in Seq(Entry)
           /\ DOMAIN s = 1..Len(s) /\ DOMAIN Append(s, e) = 1..(Len(s) + 1)
           /\ \A i \in 1..Len(s) : Append(s, e)[i] = s[i]
           /\ Append(s, e)[Len(s) + 1] = e
OBVIOUS

LEMMA AppendDistinct ==
    ASSUME NEW s \in Seq(Entry), NEW e \in Entry, Distinct(s),
           \A i \in DOMAIN s : s[i].tx # e.tx
    PROVE  Distinct(Append(s, e))
<1>1. SUFFICES ASSUME NEW i \in DOMAIN Append(s, e), NEW j \in DOMAIN Append(s, e),
                      Append(s, e)[i].tx = Append(s, e)[j].tx
               PROVE  i = j
  BY DEF Distinct
<1>2. Len(s) \in Nat
  OBVIOUS
<1>3. \A l \in DOMAIN Append(s, e) : l \in DOMAIN s \/ l = Len(s) + 1
  BY <1>2, AppendList
<1>4. CASE i \in DOMAIN s /\ j \in DOMAIN s
  <2>1. Append(s, e)[i] = s[i] /\ Append(s, e)[j] = s[j]
    BY <1>4, AppendList
  <2>2. s[i].tx = s[j].tx
    BY <1>1, <2>1
  <2> QED BY <2>2, <1>4 DEF Distinct
<1>5. CASE i \in DOMAIN s /\ j = Len(s) + 1
  <2>1. Append(s, e)[i] = s[i] /\ Append(s, e)[j] = e
    BY <1>5, AppendList
  <2> QED BY <1>1, <2>1, <1>5
<1>6. CASE j \in DOMAIN s /\ i = Len(s) + 1
  <2>1. Append(s, e)[j] = s[j] /\ Append(s, e)[i] = e
    BY <1>6, AppendList
  <2> QED BY <1>1, <2>1, <1>6
<1> QED BY <1>3, <1>4, <1>5, <1>6

\* What stays after a refresh are entries there were, none of them twice if
\* none was.
LEMMA NotInList ==
    ASSUME list \in Seq(Entry), NEW txs
    PROVE  /\ NotIn(txs) \in Seq(Entry)
           /\ Within(NotIn(txs), list)
           /\ Distinct(list) => Distinct(NotIn(txs))
<1>1. PICK k : Kept(txs, k, Len(list)) /\ NotIn(txs) = k[Len(list)]
  BY NotInKept
<1>l. Len(list) \in Nat /\ DOMAIN list = 1..Len(list) /\ \A i \in 1..Len(list) : list[i] \in Entry
  OBVIOUS
<1> DEFINE Good(n) == /\ k[n] \in Seq(Entry)
                      /\ \A i \in DOMAIN k[n] : \E j \in 1..n : k[n][i] = list[j]
                      /\ Distinct(list) => Distinct(k[n])
           Bad == {n \in 0..Len(list) : ~ Good(n)}
<1>2. k[0] = <<>>
  BY <1>1, <1>l DEF Kept
<1>3. ASSUME NEW n \in 1..Len(list) PROVE k[n] = KeepStep(txs, k[n - 1], list[n])
  BY <1>1, <1>3, <1>l DEF Kept
<1>4. Good(0)
  BY <1>2 DEF Distinct
<1>5. ASSUME NEW n \in 1..Len(list), Good(n - 1) PROVE Good(n)
  <2>1. CASE list[n].tx \in txs
    <3>1. k[n] = k[n - 1]
      BY <1>3, <2>1 DEF KeepStep
    <3>2. 1..(n - 1) \subseteq 1..n
      OBVIOUS
    <3> QED BY <1>5, <3>1, <3>2
  <2>2. CASE list[n].tx \notin txs
    <3> DEFINE s == k[n - 1]
    <3>1. k[n] = Append(s, list[n])
      BY <1>3, <2>2 DEF KeepStep
    <3>2. s \in Seq(Entry) /\ list[n] \in Entry
      BY <1>5, <1>l
    <3>3. \A i \in DOMAIN s : \E j \in 1..(n - 1) : s[i] = list[j]
      BY <1>5
    <3>4. Distinct(list) => Distinct(s)
      BY <1>5
    <3> HIDE DEF s
    <3>5. k[n] \in Seq(Entry)
      BY <3>1, <3>2, AppendList
    <3>6. ASSUME NEW i \in DOMAIN k[n] PROVE \E j \in 1..n : k[n][i] = list[j]
      <4>1. CASE i \in DOMAIN s
        <5>1. k[n][i] = s[i]
          BY <4>1, <3>1, <3>2, AppendList
        <5>2. PICK j \in 1..(n - 1) : s[i] = list[j]
          BY <4>1, <3>3
        <5>3. j \in 1..n
          OBVIOUS
        <5> QED BY <5>1, <5>2, <5>3
      <4>2. CASE i \notin DOMAIN s
        <5>1. i = Len(s) + 1
          BY <4>2, <3>1, <3>2, AppendList
        <5>2. k[n][i] = list[n]
          BY <5>1, <3>1, <3>2, AppendList
        <5> QED BY <5>2
      <4> QED BY <4>1, <4>2
    <3>7. ASSUME Distinct(list) PROVE Distinct(k[n])
      <4>1. ASSUME NEW i \in DOMAIN s PROVE s[i].tx # list[n].tx
        <5>1. PICK j \in 1..(n - 1) : s[i] = list[j]
          BY <3>3
        <5>2. j \in DOMAIN list /\ n \in DOMAIN list /\ j # n
          BY <1>l
        <5>3. list[j].tx # list[n].tx
          BY <5>2, <3>7 DEF Distinct
        <5> QED BY <5>1, <5>3
      <4> QED BY <4>1, <3>1, <3>2, <3>4, <3>7, AppendDistinct
    <3> QED BY <3>5, <3>6, <3>7
  <2> QED BY <2>1, <2>2
<1> HIDE DEF Good
<1>6. Bad = {}
  <2>1. SUFFICES ASSUME Bad # {} PROVE FALSE
    OBVIOUS
  <2> HIDE DEF Bad
  <2>2. Bad \in SUBSET Nat
    BY DEF Bad
  <2>3. PICK n \in Bad : \A m \in Bad : n <= m
    BY <2>1, <2>2, LeastOf
  <2>4. n \in 0..Len(list) /\ ~ Good(n)
    BY <2>3 DEF Bad
  <2>5. n \in 1..Len(list)
    BY <2>4, <1>4, <1>l
  <2>6. ~ Good(n - 1)
    BY <2>4, <2>5, <1>5
  <2>7. n - 1 \in Bad
    BY <2>5, <2>6, <1>l DEF Bad
  <2> QED BY <2>3, <2>5, <2>7, <1>l
<1>7. Good(Len(list))
  BY <1>6, <1>l
<1> QED
  <2> USE DEF Good
  <2>1. NotIn(txs) \in Seq(Entry) /\ (Distinct(list) => Distinct(NotIn(txs)))
    BY <1>1, <1>7
  <2>2. Within(NotIn(txs), list)
    BY <1>1, <1>7, <1>l DEF Within
  <2> QED BY <2>1, <2>2

TxsOf(s) == {s[i].tx : i \in DOMAIN s}

LEMMA WithinTxs ==
    ASSUME NEW s, NEW t, Within(s, t)
    PROVE  TxsOf(s) \subseteq TxsOf(t)
BY DEF Within, TxsOf

LEMMA AppendTxs ==
    ASSUME NEW s \in Seq(Entry), NEW e \in Entry
    PROVE  TxsOf(Append(s, e)) = TxsOf(s) \cup {e.tx}
<1>1. Len(s) \in Nat
  OBVIOUS
<1>2. DOMAIN Append(s, e) = DOMAIN s \cup {Len(s) + 1}
  BY <1>1, AppendList
<1>3. \A i \in DOMAIN s : Append(s, e)[i] = s[i]
  BY AppendList
<1>4. Append(s, e)[Len(s) + 1] = e
  BY AppendList
<1> QED BY <1>2, <1>3, <1>4 DEF TxsOf

LEMMA EmptyList ==
    /\ <<>> \in Seq(Entry) /\ <<>> \in Seq(Seq(Entry))
    /\ Distinct(<<>>) /\ TxsOf(<<>>) = {} /\ Len(<<>>) = 0
BY DEF Distinct, TxsOf

\* What a load puts before the list: the same transactions in the same order.
LEMMA RebuiltList ==
    ASSUME NEW s \in Seq(Entry)
    PROVE  /\ Rebuilt(s) \in Seq(Entry) /\ DOMAIN Rebuilt(s) = DOMAIN s
           /\ \A i \in DOMAIN s : Rebuilt(s)[i].tx = s[i].tx
<1>1. Len(s) \in Nat /\ DOMAIN s = 1..Len(s) /\ \A i \in 1..Len(s) : s[i] \in Entry
  OBVIOUS
<1>2. \A i \in 1..Len(s) : [tx |-> s[i].tx, used |-> FALSE] \in Entry
  BY <1>1 DEF Entry
<1>3. Rebuilt(s) \in [1..Len(s) -> Entry]
  BY <1>1, <1>2 DEF Rebuilt
<1>4. Rebuilt(s) \in Seq(Entry)
  BY <1>1, <1>3, SeqDef
<1> QED BY <1>1, <1>4 DEF Rebuilt

LEMMA ConcatList ==
    ASSUME NEW s \in Seq(Entry), NEW t \in Seq(Entry)
    PROVE  /\ s \o t \in Seq(Entry)
           /\ TxsOf(s \o t) = TxsOf(s) \cup TxsOf(t)
           /\ Distinct(s) /\ Distinct(t) /\ TxsOf(s) \cap TxsOf(t) = {} => Distinct(s \o t)
<1>1. s \o t \in Seq(Entry) /\ Len(s) \in Nat /\ Len(t) \in Nat
  OBVIOUS
<1>2. /\ DOMAIN s = 1..Len(s) /\ DOMAIN t = 1..Len(t)
      /\ DOMAIN (s \o t) = 1..(Len(s) + Len(t))
  OBVIOUS
<1>3. \A i \in DOMAIN s : (s \o t)[i] = s[i] /\ i \in DOMAIN (s \o t)
  BY <1>1, <1>2
<1>4. \A i \in DOMAIN t : (s \o t)[Len(s) + i] = t[i] /\ Len(s) + i \in DOMAIN (s \o t)
  BY <1>1, <1>2
<1>5. ASSUME NEW i \in DOMAIN (s \o t)
      PROVE  i \in DOMAIN s \/ (i - Len(s) \in DOMAIN t /\ i = Len(s) + (i - Len(s)))
  BY <1>1, <1>2
<1>6. TxsOf(s \o t) = TxsOf(s) \cup TxsOf(t)
  <2>1. TxsOf(s) \cup TxsOf(t) \subseteq TxsOf(s \o t)
    <3>1. ASSUME NEW i \in DOMAIN s PROVE s[i].tx \in TxsOf(s \o t)
      BY <1>3 DEF TxsOf
    <3>2. ASSUME NEW i \in DOMAIN t PROVE t[i].tx \in TxsOf(s \o t)
      BY <1>4 DEF TxsOf
    <3> QED BY <3>1, <3>2 DEF TxsOf
  <2>2. ASSUME NEW i \in DOMAIN (s \o t) PROVE (s \o t)[i].tx \in TxsOf(s) \cup TxsOf(t)
    <3>1. CASE i \in DOMAIN s
      BY <3>1, <1>3 DEF TxsOf
    <3>2. CASE i - Len(s) \in DOMAIN t /\ i = Len(s) + (i - Len(s))
      <4>1. (s \o t)[i] = t[i - Len(s)]
        BY <3>2, <1>4
      <4> QED BY <3>2, <4>1 DEF TxsOf
    <3> QED BY <3>1, <3>2, <1>5
  <2> QED BY <2>1, <2>2 DEF TxsOf
<1>7. ASSUME Distinct(s), Distinct(t), TxsOf(s) \cap TxsOf(t) = {},
             NEW i \in DOMAIN (s \o t), NEW j \in DOMAIN (s \o t),
             (s \o t)[i].tx = (s \o t)[j].tx
      PROVE  i = j
  <2>1. CASE i \in DOMAIN s /\ j \in DOMAIN s
    BY <2>1, <1>3, <1>7 DEF Distinct
  <2>2. ASSUME NEW a \in DOMAIN s, NEW b \in DOMAIN t PROVE s[a].tx # t[b].tx
    BY <1>7 DEF TxsOf
  <2>3. CASE i \in DOMAIN s /\ j \notin DOMAIN s
    <3>1. j - Len(s) \in DOMAIN t /\ (s \o t)[j] = t[j - Len(s)]
      BY <2>3, <1>4, <1>5
    <3> QED BY <2>2, <2>3, <3>1, <1>3, <1>7
  <2>4. CASE j \in DOMAIN s /\ i \notin DOMAIN s
    <3>1. i - Len(s) \in DOMAIN t /\ (s \o t)[i] = t[i - Len(s)]
      BY <2>4, <1>4, <1>5
    <3> QED BY <2>2, <2>4, <3>1, <1>3, <1>7
  <2>5. CASE i \notin DOMAIN s /\ j \notin DOMAIN s
    <3>1. j - Len(s) \in DOMAIN t /\ (s \o t)[j] = t[j - Len(s)]
      BY <2>5, <1>4, <1>5
    <3>2. i - Len(s) \in DOMAIN t /\ (s \o t)[i] = t[i - Len(s)]
      BY <2>5, <1>4, <1>5
    <3>3. i - Len(s) = j - Len(s)
      BY <3>1, <3>2, <1>7 DEF Distinct
    <3>4. i \in Nat /\ j \in Nat
      BY <1>1, <1>2, <1>7
    <3> QED BY <3>3, <3>4, <1>1
  <2> QED BY <2>1, <2>3, <2>4, <2>5
<1> QED BY <1>1, <1>6, <1>7 DEF Distinct

\* A load is taken from what is under way, whatever its place.
LEMMA RemoveLoad ==
    ASSUME loads \in Seq(Seq(Entry)), NEW i \in DOMAIN loads
    PROVE  /\ RemoveAt(loads, i) \in Seq(Seq(Entry))
           /\ Len(loads) <= 1 => RemoveAt(loads, i) = <<>>
<1>1. i \in 1..Len(loads) /\ Len(loads) \in Nat
  OBVIOUS
<1>2. SubSeq(loads, 1, i - 1) \in Seq(Seq(Entry)) /\ SubSeq(loads, i + 1, Len(loads)) \in Seq(Seq(Entry))
  BY <1>1
<1>3. RemoveAt(loads, i) \in Seq(Seq(Entry))
  BY <1>2 DEF RemoveAt
<1>4. ASSUME Len(loads) <= 1 PROVE RemoveAt(loads, i) = <<>>
  <2>1. i = 1 /\ Len(loads) = 1
    <3> DEFINE n == Len(loads)
    <3>1. n \in Nat /\ n <= 1 /\ i \in 1..n
      BY <1>1, <1>4
    <3> HIDE DEF n
    <3>2. i = 1 /\ n = 1
      BY <3>1
    <3> QED BY <3>2 DEF n
  <2>2. SubSeq(loads, 1, 0) = <<>> /\ SubSeq(loads, 2, 1) = <<>>
    BY <2>1, SubSeqEmpty
  <2>3. SubSeq(loads, 1, i - 1) = <<>> /\ SubSeq(loads, i + 1, Len(loads)) = <<>>
    BY <2>1, <2>2
  <2> QED BY <2>3 DEF RemoveAt
<1> QED BY <1>3, <1>4
-----------------------------------------------------------------------------
(* Types *)

\* Who waits has a promise to wait for.
WaitsFor == \A a \in Actors : pc[a] \in {"waiting", "queued"} => waits[a] # NoPromise

\* What there is of submitted transactions, wherever it is.
Lists ==
    /\ open \in BOOLEAN
    /\ list \in Seq(Entry) /\ stored \in Seq(Entry) /\ loads \in Seq(Seq(Entry))
    /\ connector.step \in {"none", "notify"} \cup ConnectorTxs
    /\ connector.data \in Seq(Entry)
    /\ recording \subseteq MainTxs \cap sent
    /\ remote \subseteq sent /\ sent \subseteq Txs

LEMMA InitWaitsFor == Init => WaitsFor
BY DEF Init, WaitsFor, Each

LEMMA WaitsForStep == ASSUME IInv, WaitsFor, [Next]_vars PROVE WaitsFor'
<1> USE StoreAssumption DEF IInv, RefreshTypeOK, WaitsFor, Waits, Actors, Steps, Refreshing
<1>1. ASSUME NEW a \in Actors, JoinRefresh(a) PROVE WaitsFor'
  BY <1>1 DEF JoinRefresh, Calls, Running
<1>2. ASSUME NEW a \in Actors, StartRefresh(a) PROVE WaitsFor'
  BY <1>2 DEF StartRefresh, Calls
<1>3. ASSUME NEW a \in Actors, NEW ok \in BOOLEAN, EndRefresh(a, ok) PROVE WaitsFor'
  BY <1>3 DEF EndRefresh, Settled
<1>4. CASE StartResync
  BY <1>4 DEF StartResync
<1>5. CASE RemoveDone
  BY <1>5 DEF RemoveDone
<1>6. ASSUME NEW ok \in BOOLEAN, RemovalSettles(ok) PROVE WaitsFor'
  BY <1>6 DEF RemovalSettles
<1>7. CASE EndResync
  BY <1>7 DEF EndResync
<1>8. CASE Close
  BY <1>8 DEF Close, Each
<1>9. CASE UNCHANGED refreshVars
  BY <1>9 DEF refreshVars
<1>10. CASE SubmittedNext
  BY <1>8, <1>9, <1>10 DEF SubmittedNext, Open, Load, MainSend, MainRecord, ConnectorSend, Confirm,
     ConnectorRecord, ConnectorNotify
<1>11. CASE UNCHANGED vars
  BY <1>11, <1>9 DEF vars
<1> QED
  BY <1>1, <1>2, <1>3, <1>4, <1>5, <1>6, <1>7, <1>10, <1>11 DEF Next, CallerNext, ResyncNext

LEMMA InitLists == ASSUME Init PROVE Lists
<1>1. connector.step = "none" /\ connector.data = <<>>
  BY DEF Init, NoSubmission
<1>2. list = <<>> /\ stored = <<>> /\ loads = <<>>
  BY DEF Init
<1>3. open \in BOOLEAN /\ recording = {} /\ sent = {} /\ remote = {}
  BY DEF Init
<1> QED BY <1>1, <1>2, <1>3, EmptyList DEF Lists

LEMMA TakeOutLists ==
    ASSUME Lists, NEW txs, TakeOut(txs)
    PROVE  list' \in Seq(Entry) /\ stored' \in Seq(Entry)
BY NotInList DEF Lists, TakeOut

\* The refreshes and the resync change the two lists only, and shorten them.
LEMMA RefreshLists ==
    ASSUME Lists, CallerNext \/ ResyncNext
    PROVE  Lists'
<1>1. /\ open' = open /\ loads' = loads /\ connector' = connector
      /\ recording' = recording /\ sent' = sent /\ remote' = remote
  BY DEF CallerNext, ResyncNext, JoinRefresh, StartRefresh, EndRefresh, StartResync, RemoveDone,
     RemovalSettles, EndResync, windowVars, outside
<1>2. list' \in Seq(Entry) /\ stored' \in Seq(Entry)
  <2>1. ASSUME NEW a \in Actors, NEW ok \in BOOLEAN, EndRefresh(a, ok)
        PROVE  list' \in Seq(Entry) /\ stored' \in Seq(Entry)
    <3>1. TakeOut(remote) \/ (list' = list /\ stored' = stored)
      BY <2>1 DEF EndRefresh
    <3> QED BY <3>1, TakeOutLists DEF Lists
  <2>2. CASE EndResync
    <3>1. (list' = <<>> /\ stored' = <<>>) \/ (list' = list /\ stored' = stored)
      BY <2>2 DEF EndResync
    <3> QED BY <3>1, EmptyList DEF Lists
  <2>3. CASE list' = list /\ stored' = stored
    BY <2>3 DEF Lists
  <2> QED
    BY <2>1, <2>2, <2>3 DEF CallerNext, ResyncNext, JoinRefresh, StartRefresh, StartResync,
       RemoveDone, RemovalSettles, windowVars
<1> QED BY <1>1, <1>2 DEF Lists

LEMMA SubmittedLists == ASSUME Lists, SubmittedNext PROVE Lists'
<1>1. CASE Open
  <2>1. << stored >> \in Seq(Seq(Entry))
    BY DEF Lists
  <2> QED BY <1>1, <2>1 DEF Open, Lists, outside
<1>2. CASE Close
  BY <1>2, EmptyList DEF Close, Lists, outside
<1>3. ASSUME NEW i \in DOMAIN loads, Load(i) PROVE Lists'
  <2>1. loads \in Seq(Seq(Entry)) /\ loads[i] \in Seq(Entry)
    BY <1>3 DEF Lists
  <2>2. loads' \in Seq(Seq(Entry))
    BY <1>3, <2>1, RemoveLoad DEF Load
  <2>3. list' \in Seq(Entry)
    <3>1. list' = list \/ list' = Rebuilt(loads[i]) \o list
      BY <1>3 DEF Load, Insert
    <3>2. list \in Seq(Entry)
      BY DEF Lists
    <3>3. Rebuilt(loads[i]) \in Seq(Entry)
      BY <2>1, RebuiltList
    <3>4. Rebuilt(loads[i]) \o list \in Seq(Entry)
      BY <3>2, <3>3, ConcatList
    <3> QED BY <3>1, <3>2, <3>4
  <2> QED BY <1>3, <2>2, <2>3 DEF Load, Lists, outside
<1>4. ASSUME NEW t \in Txs, MainSend(t) PROVE Lists'
  BY <1>4 DEF MainSend, Lists, Txs
<1>5. ASSUME NEW t \in Txs, MainRecord(t) PROVE Lists'
  <2>1. [tx |-> t, used |-> TRUE] \in Entry
    BY DEF Entry
  <2>2. list' \in Seq(Entry) /\ stored' \in Seq(Entry)
    BY <1>5, <2>1, AppendList DEF MainRecord, Lists
  <2> QED BY <1>5, <2>2 DEF MainRecord, Lists, outside
<1>6. ASSUME NEW t \in Txs, ConnectorSend(t) PROVE Lists'
  <2>1. \/ connector' = [step |-> t, data |-> stored]
        \/ connector' = [step |-> "notify", data |-> <<>>]
    BY <1>6 DEF ConnectorSend
  <2>2. connector'.step \in {"none", "notify"} \cup ConnectorTxs /\ connector'.data \in Seq(Entry)
    BY <1>6, <2>1, EmptyList DEF ConnectorSend, Lists
  <2> QED BY <1>6, <2>2 DEF ConnectorSend, Lists, windowVars, Txs
<1>7. ASSUME NEW t \in Txs, Confirm(t) PROVE Lists'
  BY <1>7 DEF Confirm, Lists, windowVars
<1>8. CASE ConnectorRecord
  <2>1. [tx |-> connector.step, used |-> TRUE] \in Entry
    BY <1>8 DEF ConnectorRecord, Entry, Txs
  <2>2. stored' \in Seq(Entry)
    BY <1>8, <2>1, AppendList DEF ConnectorRecord, Lists
  <2>3. connector'.step = "notify" /\ connector'.data = <<>>
    BY <1>8 DEF ConnectorRecord
  <2> QED BY <1>8, <2>2, <2>3, EmptyList DEF ConnectorRecord, Lists, windowVars
<1>9. CASE ConnectorNotify
  <2>1. loads' \in Seq(Seq(Entry))
    <3>1. loads' = loads \/ loads' = Append(loads, stored)
      BY <1>9 DEF ConnectorNotify
    <3>2. loads \in Seq(Seq(Entry)) /\ stored \in Seq(Entry)
      BY DEF Lists
    <3> QED BY <3>1, <3>2, AppendProperties
  <2>2. connector'.step = "none" /\ connector'.data = <<>>
    BY <1>9 DEF ConnectorNotify, NoSubmission
  <2> QED BY <1>9, <2>1, <2>2, EmptyList DEF ConnectorNotify, Lists
<1> QED BY <1>1, <1>2, <1>3, <1>4, <1>5, <1>6, <1>7, <1>8, <1>9 DEF SubmittedNext

LEMMA ListsStep == ASSUME Lists, [Next]_vars PROVE Lists'
<1>1. CASE UNCHANGED vars
  BY <1>1 DEF vars, windowVars, outside, Lists
<1> QED BY <1>1, RefreshLists, SubmittedLists DEF Next

\* The state has its types, and an actor waits exactly when it has a promise
\* to wait for, in every state.
THEOREM StoreTypeCorrect == Spec => []TypeOK
<1>1. Spec => []WaitsFor
  BY InitWaitsFor, WaitsForStep, RefreshInductive, PTL DEF Spec
<1>2. Spec => []Lists
  BY InitLists, ListsStep, PTL DEF Spec
<1>3. ASSUME IInv, WaitsFor, Lists PROVE TypeOK
  <2>1. \A i \in DOMAIN loads : loads[i] \in Seq(Entry)
    BY <1>3 DEF Lists
  <2> QED
    BY <1>3, <2>1, StoreAssumption DEF IInv, RefreshTypeOK, WaitsFor, Waits, Lists, TypeOK, Actors
<1> QED BY <1>1, <1>2, <1>3, RefreshInductive, PTL
-----------------------------------------------------------------------------
(* Nothing listed twice *)

\* Without the connector, one load is under way at most, the one of setup; the
\* list, what is stored and what is loaded have nothing twice; and a
\* transaction is in one of the three places, the load, the list, or about to
\* be recorded.
Apart ==
    /\ connector = NoSubmission
    /\ Len(loads) <= 1
    /\ Distinct(list) /\ Distinct(stored)
    /\ \A i \in DOMAIN loads :
        /\ Distinct(loads[i]) /\ TxsOf(loads[i]) \subseteq sent
        /\ TxsOf(loads[i]) \cap (TxsOf(list) \cup recording) = {}
    /\ recording \cap (TxsOf(list) \cup TxsOf(stored)) = {}
    /\ TxsOf(list) \cup TxsOf(stored) \subseteq sent
    /\ ~ open => list = <<>> /\ loads = <<>> /\ recording = {}

ApartAlone == sent \cap ConnectorTxs = {} => Apart

LEMMA InitApart == ASSUME Init PROVE ApartAlone
<1>1. connector = NoSubmission /\ list = <<>> /\ stored = <<>> /\ loads = <<>> /\ recording = {}
  BY DEF Init
<1>2. \A i : i \notin DOMAIN loads
  BY <1>1
<1> QED BY <1>1, <1>2, EmptyList DEF ApartAlone, Apart

\* The lists get shorter, all else stays.
LEMMA ShorterApart ==
    ASSUME Lists, Apart,
           open' = open, loads' = loads, connector' = connector, recording' = recording, sent' = sent,
           Distinct(list)', Distinct(stored)',
           TxsOf(list)' \subseteq TxsOf(list),
           TxsOf(stored)' \subseteq TxsOf(stored) \cup TxsOf(list),
           list = <<>> => list' = <<>>
    PROVE  Apart'
<1>1. \A i \in DOMAIN loads : TxsOf(loads[i])' = TxsOf(loads[i]) /\ Distinct(loads[i])' = Distinct(loads[i])
  BY DEF TxsOf, Distinct
<1> QED BY <1>1 DEF Apart

LEMMA TakeOutApart ==
    ASSUME Lists, Apart, NEW txs, TakeOut(txs),
           open' = open, loads' = loads, connector' = connector, recording' = recording, sent' = sent
    PROVE  Apart'
<1>1. /\ list' = NotIn(txs) /\ (stored' = stored \/ stored' = NotIn(txs))
      /\ NotIn(txs) \in Seq(Entry) /\ Within(NotIn(txs), list) /\ Distinct(NotIn(txs))
  BY NotInList DEF TakeOut, Lists, Apart
<1>2. TxsOf(NotIn(txs)) \subseteq TxsOf(list)
  BY <1>1, WithinTxs
<1>3. TxsOf(list)' = TxsOf(NotIn(txs)) /\ Distinct(list)' = Distinct(NotIn(txs))
  BY <1>1 DEF TxsOf, Distinct
<1>4. \/ TxsOf(stored)' = TxsOf(NotIn(txs)) /\ Distinct(stored)' = Distinct(NotIn(txs))
      \/ TxsOf(stored)' = TxsOf(stored) /\ Distinct(stored)' = Distinct(stored)
  BY <1>1 DEF TxsOf, Distinct
<1>5. list = <<>> => list' = <<>>
  <2>1. SUFFICES ASSUME list = <<>> PROVE NotIn(txs) = <<>>
    BY <1>1
  <2>2. DOMAIN list = {}
    BY <2>1
  <2>3. DOMAIN NotIn(txs) = {}
    BY <1>1, <2>2 DEF Within
  <2> QED BY <1>1, <2>3
<1>6. Distinct(stored)
  BY DEF Apart
<1> QED BY <1>1, <1>2, <1>3, <1>4, <1>5, <1>6, ShorterApart

LEMMA RefreshApart ==
    ASSUME Lists, Apart, CallerNext \/ ResyncNext
    PROVE  Apart'
<1>1. /\ open' = open /\ loads' = loads /\ connector' = connector
      /\ recording' = recording /\ sent' = sent
  BY DEF CallerNext, ResyncNext, JoinRefresh, StartRefresh, EndRefresh, StartResync, RemoveDone,
     RemovalSettles, EndResync, windowVars, outside
<1>2. CASE list' = list /\ stored' = stored
  <2>1. /\ TxsOf(list)' = TxsOf(list) /\ Distinct(list)' = Distinct(list)
        /\ TxsOf(stored)' = TxsOf(stored) /\ Distinct(stored)' = Distinct(stored)
    BY <1>2 DEF TxsOf, Distinct
  <2>2. Distinct(list) /\ Distinct(stored)
    BY DEF Apart
  <2> QED BY <1>1, <1>2, <2>1, <2>2, ShorterApart
<1>3. CASE list' = <<>> /\ stored' = <<>>
  <2>1. /\ TxsOf(list)' = TxsOf(<<>>) /\ Distinct(list)' = Distinct(<<>>)
        /\ TxsOf(stored)' = TxsOf(<<>>) /\ Distinct(stored)' = Distinct(<<>>)
    BY <1>3 DEF TxsOf, Distinct
  <2> QED BY <1>1, <1>3, <2>1, EmptyList, ShorterApart
<1>4. CASE TakeOut(remote)
  BY <1>1, <1>4, TakeOutApart
<1>5. \/ list' = list /\ stored' = stored
      \/ list' = <<>> /\ stored' = <<>>
      \/ TakeOut(remote)
  BY DEF CallerNext, ResyncNext, JoinRefresh, StartRefresh, EndRefresh, StartResync,
     RemoveDone, RemovalSettles, EndResync, windowVars
<1> QED BY <1>2, <1>3, <1>4, <1>5

LEMMA SubmittedApart ==
    ASSUME Lists, ApartAlone, SubmittedNext, sent' \cap ConnectorTxs = {}
    PROVE  Apart'
<1>a. sent \subseteq sent'
  BY DEF SubmittedNext, Open, Close, Load, MainSend, MainRecord, ConnectorSend, Confirm,
     ConnectorRecord, ConnectorNotify, outside
<1>b. Apart
  BY <1>a DEF ApartAlone
<1>1. CASE Open
  <2>1. /\ open' /\ list' = list /\ stored' = stored /\ loads' = <<stored>> /\ recording' = recording
        /\ connector' = connector /\ sent' = sent /\ list = <<>> /\ recording = {}
    BY <1>1, <1>b DEF Open, Apart, outside
  <2>2. Len(<<stored>>) = 1 /\ DOMAIN <<stored>> = {1} /\ <<stored>>[1] = stored
    OBVIOUS
  <2>3. /\ TxsOf(list)' = {} /\ Distinct(list)'
        /\ TxsOf(stored)' = TxsOf(stored) /\ Distinct(stored)' = Distinct(stored)
    BY <2>1 DEF TxsOf, Distinct
  <2>4. \A i \in DOMAIN loads' : TxsOf(loads[i])' = TxsOf(stored) /\ Distinct(loads[i])' = Distinct(stored)
    BY <2>1, <2>2 DEF TxsOf, Distinct
  <2> QED BY <1>b, <2>1, <2>2, <2>3, <2>4 DEF Apart
<1>2. CASE Close
  <2>1. /\ list' = <<>> /\ stored' = stored /\ loads' = <<>> /\ recording' = {}
        /\ connector' = connector /\ sent' = sent
    BY <1>2 DEF Close, outside
  <2>2. /\ TxsOf(list)' = {} /\ Distinct(list)'
        /\ TxsOf(stored)' = TxsOf(stored) /\ Distinct(stored)' = Distinct(stored)
    BY <2>1 DEF TxsOf, Distinct
  <2>3. Len(loads') = 0 /\ \A i : i \notin DOMAIN loads'
    BY <2>1
  <2> QED BY <1>b, <2>1, <2>2, <2>3 DEF Apart
<1>3. ASSUME NEW i \in DOMAIN loads, Load(i) PROVE Apart'
  <2>1. /\ open' = open /\ stored' = stored /\ recording' = recording
        /\ connector' = connector /\ sent' = sent /\ open
    BY <1>3, <1>b DEF Load, outside, Apart
  <2>2. loads' = <<>>
    BY <1>3, <1>b, RemoveLoad DEF Load, Lists, Apart
  <2>3. loads[i] \in Seq(Entry) /\ list \in Seq(Entry)
    BY <1>3 DEF Lists
  <2> DEFINE r == Rebuilt(loads[i])
  <2>4. r \in Seq(Entry) /\ DOMAIN r = DOMAIN loads[i] /\ \A j \in DOMAIN r : r[j].tx = loads[i][j].tx
    BY <2>3, RebuiltList
  <2>5. list' = list \/ list' = r \o list
    BY <1>3 DEF Load, Insert
  <2> HIDE DEF r
  <2>6. TxsOf(r) = TxsOf(loads[i])
    BY <2>4 DEF TxsOf
  <2>7. Distinct(r) /\ Distinct(list)
    BY <1>3, <1>b, <2>4 DEF Apart, Distinct
  <2>8. TxsOf(r) \cap TxsOf(list) = {} /\ TxsOf(r) \cap recording = {} /\ TxsOf(r) \subseteq sent
    BY <1>3, <1>b, <2>6 DEF Apart
  <2>9. TxsOf(r \o list) = TxsOf(r) \cup TxsOf(list) /\ Distinct(r \o list)
    BY <2>3, <2>4, <2>7, <2>8, ConcatList
  <2>10. /\ TxsOf(list)' \subseteq TxsOf(r) \cup TxsOf(list)
         /\ Distinct(list)'
    <3>1. CASE list' = list
      <4>1. TxsOf(list)' = TxsOf(list) /\ Distinct(list)' = Distinct(list)
        BY <3>1 DEF TxsOf, Distinct
      <4> QED BY <4>1, <2>7
    <3>2. CASE list' = r \o list
      <4>1. TxsOf(list)' = TxsOf(r \o list) /\ Distinct(list)' = Distinct(r \o list)
        BY <3>2 DEF TxsOf, Distinct
      <4> QED BY <4>1, <2>9
    <3> QED BY <2>5, <3>1, <3>2
  <2>11. TxsOf(stored)' = TxsOf(stored) /\ Distinct(stored)' = Distinct(stored)
    BY <2>1 DEF TxsOf, Distinct
  <2>12. Len(loads') = 0 /\ \A l : l \notin DOMAIN loads'
    BY <2>2
  <2> QED BY <1>b, <2>1, <2>8, <2>10, <2>11, <2>12 DEF Apart
<1>4. ASSUME NEW t \in Txs, MainSend(t) PROVE Apart'
  <2>1. /\ open /\ open' = open /\ list' = list /\ loads' = loads /\ stored' = stored
        /\ connector' = connector /\ t \notin sent
        /\ sent' = sent \cup {t} /\ recording' = recording \cup {t}
    BY <1>4 DEF MainSend
  <2>2. /\ TxsOf(list)' = TxsOf(list) /\ Distinct(list)' = Distinct(list)
        /\ TxsOf(stored)' = TxsOf(stored) /\ Distinct(stored)' = Distinct(stored)
        /\ \A i \in DOMAIN loads : /\ TxsOf(loads[i])' = TxsOf(loads[i])
                                   /\ Distinct(loads[i])' = Distinct(loads[i])
    BY <2>1 DEF TxsOf, Distinct
  <2> QED BY <1>b, <2>1, <2>2 DEF Apart
<1>5. ASSUME NEW t \in Txs, MainRecord(t) PROVE Apart'
  <2> DEFINE e == [tx |-> t, used |-> TRUE]
             l == Append(list, e)
  <2>1. /\ open' = open /\ t \in recording /\ recording' = recording \ {t} /\ loads' = loads
        /\ connector' = connector /\ sent' = sent /\ list' = l /\ stored' = l
    BY <1>5 DEF MainRecord, outside
  <2>2. e \in Entry /\ e.tx = t /\ list \in Seq(Entry)
    BY DEF Entry, Lists
  <2>3. open /\ t \notin TxsOf(list) /\ t \in sent
    BY <1>b, <2>1 DEF Apart, Lists
  <2> HIDE DEF e
  <2>4. Distinct(l)
    BY <1>b, <2>2, <2>3, AppendDistinct DEF Apart, TxsOf
  <2>5. TxsOf(l) = TxsOf(list) \cup {t}
    BY <2>2, AppendTxs
  <2> HIDE DEF l
  <2>6. /\ TxsOf(list)' = TxsOf(l) /\ Distinct(list)' = Distinct(l)
        /\ TxsOf(stored)' = TxsOf(l) /\ Distinct(stored)' = Distinct(l)
        /\ \A i \in DOMAIN loads : /\ TxsOf(loads[i])' = TxsOf(loads[i])
                                   /\ Distinct(loads[i])' = Distinct(loads[i])
    BY <2>1 DEF TxsOf, Distinct
  <2> QED BY <1>b, <2>1, <2>3, <2>4, <2>5, <2>6 DEF Apart
<1>6. ASSUME NEW t \in Txs, ConnectorSend(t) PROVE Apart'
  BY <1>6 DEF ConnectorSend
<1>7. ASSUME NEW t \in Txs, Confirm(t) PROVE Apart'
  <2>1. /\ open' = open /\ list' = list /\ loads' = loads /\ stored' = stored /\ recording' = recording
        /\ connector' = connector /\ sent' = sent
    BY <1>7 DEF Confirm, windowVars
  <2>2. /\ TxsOf(list)' = TxsOf(list) /\ Distinct(list)' = Distinct(list)
        /\ TxsOf(stored)' = TxsOf(stored) /\ Distinct(stored)' = Distinct(stored)
    BY <2>1 DEF TxsOf, Distinct
  <2>3. Distinct(list) /\ Distinct(stored)
    BY <1>b DEF Apart
  <2> QED BY <1>b, <2>1, <2>2, <2>3, ShorterApart
<1>8. CASE ConnectorRecord
  BY <1>8, <1>b, StoreAssumption DEF ConnectorRecord, Apart, NoSubmission
<1>9. CASE ConnectorNotify
  BY <1>9, <1>b DEF ConnectorNotify, Apart, NoSubmission
<1> QED BY <1>1, <1>2, <1>3, <1>4, <1>5, <1>6, <1>7, <1>8, <1>9 DEF SubmittedNext

LEMMA ApartStep == ASSUME Lists, ApartAlone, [Next]_vars PROVE ApartAlone'
<1>1. CASE UNCHANGED vars
  <2>1. /\ open' = open /\ list' = list /\ loads' = loads /\ stored' = stored /\ recording' = recording
        /\ connector' = connector /\ sent' = sent
    BY <1>1 DEF vars, windowVars, outside
  <2>2. Apart' = Apart
    BY <2>1 DEF Apart, TxsOf, Distinct
  <2> QED BY <2>1, <2>2 DEF ApartAlone
<1>2. CASE CallerNext \/ ResyncNext
  <2>1. sent' = sent
    BY <1>2 DEF CallerNext, ResyncNext, JoinRefresh, StartRefresh, EndRefresh, StartResync, RemoveDone,
       RemovalSettles, EndResync, outside
  <2> QED BY <1>2, <2>1, RefreshApart DEF ApartAlone
<1>3. CASE SubmittedNext
  BY <1>3, SubmittedApart DEF ApartAlone
<1> QED BY <1>1, <1>2, <1>3 DEF Next

\* As long as the connector sent nothing, no submitted transaction is shown
\* twice, however often the window opens and closes and whatever of the
\* history the refreshes see.
THEOREM ShownOnce == Spec => []ShownOnceAlone
<1>1. Spec => []Lists
  BY InitLists, ListsStep, PTL DEF Spec
<1>2. Spec => []ApartAlone
  BY <1>1, InitApart, ApartStep, PTL DEF Spec
<1>3. ApartAlone => ShownOnceAlone
  BY DEF ApartAlone, Apart, Distinct, ShownOnceAlone
<1> QED BY <1>2, <1>3, PTL
-----------------------------------------------------------------------------
(* Waiting *)

LEMMA InitWaitsEnd == Init => WaitsEnd
BY DEF Init, WaitsEnd, Each

LEMMA WaitsEndStep == ASSUME IInv, WaitsFor, WaitsEnd, [Next]_vars PROVE WaitsEnd'
<1> USE StoreAssumption DEF IInv, RefreshTypeOK, WaitsFor, WaitsEnd, Waits, Entries, Actors, Steps,
    Refreshing, Running
<1>1. ASSUME NEW a \in Actors, JoinRefresh(a) PROVE WaitsEnd'
  BY <1>1 DEF JoinRefresh, Calls
<1>2. ASSUME NEW a \in Actors, StartRefresh(a) PROVE WaitsEnd'
  BY <1>2 DEF StartRefresh, Calls
<1>3. ASSUME NEW a \in Actors, NEW ok \in BOOLEAN, EndRefresh(a, ok) PROVE WaitsEnd'
  BY <1>3 DEF EndRefresh, Settled
<1>4. CASE StartResync
  BY <1>4 DEF StartResync
<1>5. CASE RemoveDone
  BY <1>5 DEF RemoveDone
<1>6. ASSUME NEW ok \in BOOLEAN, RemovalSettles(ok) PROVE WaitsEnd'
  BY <1>6 DEF RemovalSettles
<1>7. CASE EndResync
  BY <1>7 DEF EndResync
<1>8. CASE Close
  BY <1>8 DEF Close, Each
<1>9. CASE UNCHANGED refreshVars
  BY <1>9 DEF refreshVars
<1>10. CASE SubmittedNext
  BY <1>8, <1>9, <1>10 DEF SubmittedNext, Open, Load, MainSend, MainRecord, ConnectorSend, Confirm,
     ConnectorRecord, ConnectorNotify
<1>11. CASE UNCHANGED vars
  BY <1>11, <1>9 DEF vars
<1> QED
  BY <1>1, <1>2, <1>3, <1>4, <1>5, <1>6, <1>7, <1>10, <1>11 DEF Next, CallerNext, ResyncNext

\* Nobody waits for a promise that is settled or that waits for him: a caller
\* waits for a refresh or for the removal, the removal for a refresh at most.
THEOREM WaitingEnds == Spec => []WaitsEnd
<1>1. Spec => []WaitsFor
  <2>1. WaitsFor /\ IInv /\ [Next]_vars => WaitsFor'
    BY WaitsForStep
  <2> QED BY <2>1, InitWaitsFor, RefreshInductive, PTL DEF Spec
<1>2. WaitsEnd /\ IInv /\ WaitsFor /\ [Next]_vars => WaitsEnd'
  BY WaitsEndStep
<1> QED BY <1>1, <1>2, InitWaitsEnd, RefreshInductive, PTL DEF Spec
===============================================================================
