----------------------- MODULE TransactionBuilderProofs -----------------------
(***************************************************************************)
(* Theorems about TransactionBuilder, for any receivers and amounts, any   *)
(* number of builds, changes of the history and slots, and any Env.        *)
(*                                                                         *)
(* None of the invariants is inductive.  TypeOK needs that createUnsignedTx*)
(* is Sound.  FormSettles needs, as long as nothing of Env happens, that   *)
(* the builds that were not abandoned are answered, and their answers      *)
(* processed, in the order they were made (Rising), so that the last one   *)
(* comes last: it is for the form as it is now and is under way, or is     *)
(* what is planned (Form).  StaleFlaggedRegularly needs that mismatch      *)
(* compares what is planned now with what is reviewed (Compared).          *)
(***************************************************************************)
EXTENDS TransactionBuilder, SequenceTheorems, TLAPS

P == INSTANCE RequestOpsProofs WITH Arg <- Draft, Cached <- FALSE

LastBuild(q) == Len(q.args)

IsDone(timer) == timer.what = "done"

\* The builds of q are numbered; none of its timers shows a cached result or patches.
Numbered(q) ==
    /\ P!Sound(q)
    /\ q.inflight \subseteq 1..LastBuild(q)
    /\ q.result \in 0..LastBuild(q)
    /\ \A i \in 1..Len(q.timers) :
          /\ q.timers[i].show = NULL /\ q.timers[i].what # "patch"
          /\ IsDone(q.timers[i]) => q.timers[i].of \in 1..LastBuild(q)

\* No build failed, and the builds that are answered, under way and yet to be answered
\* were made in this order.
Rising(q) ==
    /\ \A i \in 1..Len(q.timers) : q.timers[i].what # "failed"
    /\ \A n \in q.inflight : q.result < n
    /\ \A i \in 1..Len(q.timers) : IsDone(q.timers[i]) =>
          /\ q.result < q.timers[i].of
          /\ \A n \in q.inflight : q.timers[i].of < n
          /\ \A j \in (i + 1)..Len(q.timers) :
                IsDone(q.timers[j]) => q.timers[i].of < q.timers[j].of

\* The result of the last build is there or will be.
Coming(q) ==
    /\ LastBuild(q) > 0
    /\ \/ LastBuild(q) \in q.inflight
       \/ \E i \in 1..Len(q.timers) : IsDone(q.timers[i]) /\ q.timers[i].of = LastBuild(q)
       \/ q.result = LastBuild(q)

-----------------------------------------------------------------------------
(* The operators of R are those that RequestOpsProofs is about *)

LEMMA Assumptions == P!OpsAssumption
BY ConstantsAssumption, NullAssumption DEF P!OpsAssumption

LEMMA SameSets == R!Object = P!Object /\ R!Result = P!Result /\ R!NoResult = 0 /\ P!NoResult = 0
BY DEF R!Object, P!Object, R!Result, P!Result, R!Timer, P!Timer, R!Execution, P!Execution,
       R!NoResult, P!NoResult

LEMMA SameNew == R!NewObject = P!NewObject
BY DEF R!NewObject, P!NewObject, R!NoResult, P!NoResult

LEMMA SameReset == ASSUME NEW q PROVE R!Reset(q) = P!Reset(q)
BY DEF R!Reset, P!Reset, R!NoResult, P!NoResult

LEMMA SameCancel == ASSUME NEW q PROVE R!Cancel(q) = P!Cancel(q)
BY DEF R!Cancel, P!Cancel

LEMMA SameExecute == ASSUME NEW q, NEW a PROVE R!Execute(q, a) = P!Execute(q, a)
BY DEF R!Execute, P!Execute, R!ExecutePlain, P!ExecutePlain, R!Issue, P!Issue,
       R!NoResult, P!NoResult

LEMMA SameCanExecute == ASSUME NEW q PROVE R!CanExecute(q) <=> P!CanExecute(q)
BY DEF R!CanExecute, P!CanExecute

LEMMA SameRespond ==
    ASSUME NEW q, NEW n, NEW ok PROVE R!Respond(q, n, ok) = P!Respond(q, n, ok)
BY DEF R!Respond, P!Respond

LEMMA SameMayFire == ASSUME NEW q, NEW i PROVE R!MayFire(q, i) <=> P!MayFire(q, i)
BY DEF R!MayFire, P!MayFire

LEMMA SameFire == ASSUME NEW q, NEW i PROVE R!Fire(q, i) = P!Fire(q, i)
BY DEF R!Fire, P!Fire, R!RemoveAt, P!RemoveAt, R!Callback, P!Callback, R!Settle, P!Settle,
       R!Store, P!Store, R!NoResult, P!NoResult

LEMMA SameQuiet == ASSUME NEW q PROVE R!Quiet(q) <=> P!Quiet(q)
BY DEF R!Quiet, P!Quiet

-----------------------------------------------------------------------------
(* The operators keep builds numbered and in order *)

LEMMA Fields ==
    ASSUME NEW q, P!Sound(q)
    PROVE  /\ q \in P!Object /\ q.timers \in Seq(P!Timer) /\ Len(q.timers) \in Nat
           /\ q.args \in Seq(Draft) /\ LastBuild(q) \in Nat
           /\ q.waiting \in BOOLEAN
           /\ \A i \in 1..Len(q.timers) :
                 q.timers[i].what \in {"started", "patch", "done", "failed"}
BY Assumptions, P!ObjectFields, P!TimerFields DEF P!Sound, LastBuild

LEMMA NewNumbered == Numbered(P!NewObject) /\ Rising(P!NewObject)
<1>1. P!Sound(P!NewObject)
  BY Assumptions, P!NewIsSound
<1>2. /\ P!NewObject.timers = <<>> /\ P!NewObject.inflight = {} /\ P!NewObject.args = <<>>
      /\ P!NewObject.result = 0
  BY SameSets DEF P!NewObject
<1> QED BY <1>1, <1>2 DEF Numbered, Rising, LastBuild

LEMMA ResetNumbered ==
    ASSUME NEW q, Numbered(q)
    PROVE  LET p == P!Reset(q)
           IN  /\ Numbered(p)
               /\ Rising(q) => Rising(p)
               /\ p.args = q.args /\ p.result = 0 /\ ~p.waiting
               /\ p.inflight = q.inflight /\ p.timers = q.timers
<1> DEFINE p == P!Reset(q)
<1>1. P!Sound(p)
  BY Assumptions, P!ResetSound DEF Numbered
<1>2. /\ p.args = q.args /\ p.result = 0 /\ ~p.waiting
      /\ p.inflight = q.inflight /\ p.timers = q.timers
  BY Assumptions, P!ResetFields, Fields, SameSets DEF Numbered
<1> HIDE DEF p
<1>3. Numbered(p)
  BY <1>1, <1>2, Fields DEF Numbered, LastBuild
<1>4. Rising(q) => Rising(p)
  BY <1>2, Fields DEF Numbered, Rising, IsDone
<1> QED BY <1>2, <1>3, <1>4 DEF p

\* A build of a request that is not waiting is the last one.
LEMMA ExecuteNumbered ==
    ASSUME NEW q, Numbered(q), ~q.waiting, P!CanExecute(q), NEW d \in Draft
    PROVE  LET p == P!Execute(q, d)
           IN  /\ Numbered(p)
               /\ Rising(q) => Rising(p)
               /\ Coming(p)
               /\ p.result = q.result
               /\ LastBuild(p) = LastBuild(q) + 1 /\ p.args[LastBuild(p)] = d
               /\ \A k \in 1..LastBuild(q) : p.args[k] = q.args[k]
<1> DEFINE p == P!Execute(q, d)
           n == LastBuild(q) + 1
           timer == [delay |-> 0, what |-> "started", show |-> NULL, of |-> P!NoResult]
           m == Len(q.timers)
<1>1. P!Sound(p)
  BY Assumptions, P!ExecuteSound DEF Numbered
<1>2. P!Called(q, d, p)
  BY Assumptions, P!ExecuteFields, Fields DEF Numbered, P!Hit
<1>3. /\ p.result = q.result
      /\ p.args = Append(q.args, d)
      /\ p.inflight = q.inflight \cup {n}
      /\ timer \in P!Timer
      /\ p.timers = Append(q.timers, timer)
  BY <1>2 DEF P!Called, LastBuild
<1>4. timer.what = "started" /\ timer.show = NULL
  OBVIOUS
<1>5. /\ q.args \in Seq(Draft) /\ q.timers \in Seq(P!Timer)
      /\ LastBuild(q) \in Nat /\ m \in Nat /\ n \in Nat /\ n > LastBuild(q)
  BY Fields DEF Numbered
<1> HIDE DEF p, timer
<1>6. /\ Len(p.timers) = m + 1
      /\ \A i \in 1..m : p.timers[i] = q.timers[i]
      /\ p.timers[m + 1] = timer
  BY <1>3, <1>5, Assumptions, P!Appended
<1>7. /\ LastBuild(p) = n /\ p.args[n] = d
      /\ \A k \in 1..LastBuild(q) : p.args[k] = q.args[k]
  BY <1>3, <1>5, Assumptions, P!Appended DEF LastBuild
<1> HIDE DEF n, m
<1>8. \A i \in 1..(m + 1) : p.timers[i] = timer \/ (i \in 1..m /\ p.timers[i] = q.timers[i])
  <2> SUFFICES ASSUME NEW i \in 1..(m + 1)
               PROVE  p.timers[i] = timer \/ (i \in 1..m /\ p.timers[i] = q.timers[i])
    OBVIOUS
  <2>1. i = m + 1 \/ i \in 1..m
    BY <1>5
  <2> QED BY <1>6, <2>1
<1>9. Numbered(p)
  <2>1. p.inflight \subseteq 1..n /\ p.result \in 0..n
    BY <1>3, <1>5 DEF Numbered, n
  <2>2. ASSUME NEW i \in 1..(m + 1)
        PROVE  /\ p.timers[i].show = NULL /\ p.timers[i].what # "patch"
               /\ IsDone(p.timers[i]) => p.timers[i].of \in 1..n
    <3>1. CASE p.timers[i] = timer
      BY <1>4, <3>1 DEF IsDone
    <3>2. CASE i \in 1..m /\ p.timers[i] = q.timers[i]
      <4>1. /\ q.timers[i].show = NULL /\ q.timers[i].what # "patch"
            /\ IsDone(q.timers[i]) => q.timers[i].of \in 1..LastBuild(q)
        BY <3>2 DEF Numbered, m
      <4> QED BY <1>5, <3>2, <4>1 DEF n
    <3> QED BY <1>8, <3>1, <3>2
  <2> QED BY <1>1, <1>6, <1>7, <2>1, <2>2 DEF Numbered
<1>10. Rising(q) => Rising(p)
  <2> SUFFICES ASSUME Rising(q) PROVE Rising(p)
    OBVIOUS
  <2>1. \A i \in 1..Len(p.timers) : p.timers[i].what # "failed"
    BY <1>4, <1>6, <1>8 DEF Rising, m
  <2>2. \A k \in p.inflight : p.result < k
    BY <1>3, <1>5 DEF Rising, Numbered
  <2>3. ASSUME NEW i \in 1..Len(p.timers), IsDone(p.timers[i])
        PROVE  /\ p.result < p.timers[i].of
               /\ \A k \in p.inflight : p.timers[i].of < k
               /\ \A j \in (i + 1)..Len(p.timers) :
                     IsDone(p.timers[j]) => p.timers[i].of < p.timers[j].of
    <3>1. i \in 1..m /\ p.timers[i] = q.timers[i]
      BY <1>4, <1>6, <1>8, <2>3 DEF IsDone
    <3>2. q.timers[i].of \in 1..LastBuild(q)
      BY <2>3, <3>1 DEF Numbered, m
    <3>3. \A k \in p.inflight : p.timers[i].of < k
      BY <1>3, <1>5, <2>3, <3>1, <3>2 DEF Rising, m
    <3>4. ASSUME NEW j \in (i + 1)..Len(p.timers), IsDone(p.timers[j])
          PROVE  p.timers[i].of < p.timers[j].of
      <4>1. j \in 1..(m + 1)
        BY <1>5, <1>6, <3>1
      <4>2. j \in 1..m /\ p.timers[j] = q.timers[j]
        BY <1>4, <1>8, <3>4, <4>1 DEF IsDone
      <4>3. j \in (i + 1)..m
        BY <1>5, <3>1, <4>2
      <4> QED BY <2>3, <3>1, <3>4, <4>2, <4>3 DEF Rising, m
    <3> QED BY <1>3, <2>3, <3>1, <3>3, <3>4 DEF Rising, m
  <2> QED BY <2>1, <2>2, <2>3 DEF Rising
<1>11. Coming(p)
  BY <1>3, <1>5, <1>7 DEF Coming
<1> QED BY <1>3, <1>7, <1>9, <1>10, <1>11 DEF p, n

LEMMA RespondNumbered ==
    ASSUME NEW q, Numbered(q), NEW n \in q.inflight, NEW ok \in BOOLEAN
    PROVE  LET p == P!Respond(q, n, ok)
           IN  /\ Numbered(p)
               /\ p.args = q.args /\ p.result = q.result
               /\ Rising(q) /\ ok /\ (~ \E k \in q.inflight : k < n) => Rising(p)
               /\ Coming(q) /\ ok => Coming(p)
<1> DEFINE p == P!Respond(q, n, ok)
           timer == [delay |-> 1, what |-> IF ok THEN "done" ELSE "failed",
                     show |-> NULL, of |-> n]
           m == Len(q.timers)
<1>1. P!Sound(p)
  BY Assumptions, P!RespondSound DEF Numbered
<1>2. /\ p.result = q.result /\ p.args = q.args
      /\ p.inflight = q.inflight \ {n}
      /\ timer \in P!Timer
      /\ p.timers = Append(q.timers, timer)
  BY Assumptions, P!RespondFields, Fields DEF Numbered
<1>3. /\ timer.what = IF ok THEN "done" ELSE "failed"
      /\ timer.show = NULL /\ timer.of = n
  OBVIOUS
<1>4. /\ q.timers \in Seq(P!Timer) /\ LastBuild(q) \in Nat /\ m \in Nat
      /\ n \in 1..LastBuild(q)
  BY Fields DEF Numbered
<1> HIDE DEF p, timer
<1>5. /\ Len(p.timers) = m + 1
      /\ \A i \in 1..m : p.timers[i] = q.timers[i]
      /\ p.timers[m + 1] = timer
  BY <1>2, <1>4, Assumptions, P!Appended
<1>6. LastBuild(p) = LastBuild(q)
  BY <1>2 DEF LastBuild
<1> HIDE DEF m
<1>7. ASSUME NEW i \in 1..(m + 1)
      PROVE  (i = m + 1 /\ p.timers[i] = timer) \/ (i \in 1..m /\ p.timers[i] = q.timers[i])
  <2>1. i = m + 1 \/ i \in 1..m
    BY <1>4
  <2> QED BY <1>5, <2>1
<1>8. Numbered(p)
  <2>1. ASSUME NEW i \in 1..(m + 1)
        PROVE  /\ p.timers[i].show = NULL /\ p.timers[i].what # "patch"
               /\ IsDone(p.timers[i]) => p.timers[i].of \in 1..LastBuild(q)
    <3>1. CASE p.timers[i] = timer
      BY <1>3, <1>4, <3>1
    <3>2. CASE i \in 1..m /\ p.timers[i] = q.timers[i]
      BY <3>2 DEF Numbered, m
    <3> QED BY <1>7, <3>1, <3>2
  <2> QED BY <1>1, <1>2, <1>5, <1>6, <2>1 DEF Numbered
<1>9. Rising(q) /\ ok /\ (~ \E k \in q.inflight : k < n) => Rising(p)
  <2> SUFFICES ASSUME Rising(q), ok, \A k \in q.inflight : ~(k < n) PROVE Rising(p)
    OBVIOUS
  <2>1. \A i \in 1..Len(p.timers) : p.timers[i].what # "failed"
    <3> SUFFICES ASSUME NEW i \in 1..(m + 1) PROVE p.timers[i].what # "failed"
      BY <1>5
    <3> QED BY <1>3, <1>7 DEF Rising, m
  <2>2. \A k \in p.inflight : p.result < k
    BY <1>2 DEF Rising
  <2>3. \A k \in p.inflight : n < k
    BY <1>2, <1>4 DEF Numbered
  <2>4. ASSUME NEW i \in 1..Len(p.timers), IsDone(p.timers[i])
        PROVE  /\ p.result < p.timers[i].of
               /\ \A k \in p.inflight : p.timers[i].of < k
               /\ \A j \in (i + 1)..Len(p.timers) :
                     IsDone(p.timers[j]) => p.timers[i].of < p.timers[j].of
    <3>1. i \in 1..(m + 1)
      BY <1>5
    <3>2. CASE i = m + 1 /\ p.timers[i] = timer
      <4>1. (i + 1)..Len(p.timers) = {}
        BY <1>4, <1>5, <3>2
      <4>2. p.result < n
        BY <1>2 DEF Rising
      <4> QED BY <1>3, <2>3, <3>2, <4>1, <4>2
    <3>3. CASE i \in 1..m /\ p.timers[i] = q.timers[i]
      <4>1. /\ q.result < q.timers[i].of /\ \A k \in q.inflight : q.timers[i].of < k
            /\ \A j \in (i + 1)..m : IsDone(q.timers[j]) => q.timers[i].of < q.timers[j].of
        BY <2>4, <3>3 DEF Rising, m
      <4>2. ASSUME NEW j \in (i + 1)..Len(p.timers), IsDone(p.timers[j])
            PROVE  p.timers[i].of < p.timers[j].of
        <5>1. j \in 1..(m + 1)
          BY <1>4, <1>5, <3>3
        <5>2. CASE p.timers[j] = timer
          BY <1>3, <3>3, <4>1, <5>2
        <5>3. CASE j \in 1..m /\ p.timers[j] = q.timers[j]
          <6>1. j \in (i + 1)..m
            BY <1>4, <3>3, <5>3
          <6> QED BY <3>3, <4>1, <4>2, <5>3, <6>1
        <5> QED BY <1>7, <5>1, <5>2, <5>3
      <4> QED BY <1>2, <3>3, <4>1, <4>2
    <3> QED BY <1>7, <3>1, <3>2, <3>3
  <2> QED BY <2>1, <2>2, <2>4 DEF Rising
<1>10. Coming(q) /\ ok => Coming(p)
  <2> SUFFICES ASSUME Coming(q), ok PROVE Coming(p)
    OBVIOUS
  <2>1. CASE LastBuild(q) \in q.inflight
    <3>1. CASE LastBuild(q) = n
      <4>1. m + 1 \in 1..Len(p.timers) /\ IsDone(p.timers[m + 1])
            /\ p.timers[m + 1].of = LastBuild(p)
        BY <1>3, <1>4, <1>5, <1>6, <3>1 DEF IsDone
      <4> QED BY <1>6, <4>1 DEF Coming
    <3>2. CASE LastBuild(q) # n
      BY <1>2, <1>6, <2>1, <3>2 DEF Coming
    <3> QED BY <3>1, <3>2
  <2>2. ASSUME NEW i \in 1..m, IsDone(q.timers[i]), q.timers[i].of = LastBuild(q)
        PROVE  Coming(p)
    <3>1. i \in 1..Len(p.timers) /\ p.timers[i] = q.timers[i]
      BY <1>4, <1>5
    <3> QED BY <1>6, <2>2, <3>1 DEF Coming
  <2>3. CASE q.result = LastBuild(q)
    BY <1>2, <1>6, <2>3 DEF Coming
  <2> QED BY <2>1, <2>2, <2>3 DEF Coming, m
<1> QED BY <1>2, <1>8, <1>9, <1>10 DEF p

\* What was answered first is the first timer when it fires.
LEMMA FireNumbered ==
    ASSUME NEW q, Numbered(q), NEW i \in 1..Len(q.timers), P!MayFire(q, i)
    PROVE  LET p == P!Fire(q, i)
           IN  /\ Numbered(p)
               /\ p.args = q.args
               /\ Rising(q) => Rising(p)
               /\ Rising(q) /\ Coming(q) => Coming(p)
<1> DEFINE p == P!Fire(q, i)
           timer == q.timers[i]
           m == Len(q.timers)
<1>1. P!Sound(p)
  BY Assumptions, P!FireSound DEF Numbered
<1>2. p.args = q.args /\ p.inflight = q.inflight /\ p.timers = P!RemoveAt(q.timers, i)
  BY Assumptions, P!FireFields, Fields DEF Numbered, P!Sound
<1>3. timer.show = NULL /\ timer.what \in {"started", "done", "failed"}
  BY Fields DEF Numbered
<1>4. /\ timer.what = "started" => p.result = q.result
      /\ timer.what = "done" => p.result = timer.of
      /\ timer.what = "failed" => p.result = 0
  <2>1. timer.what = "started" => p.result = IF timer.show = NULL THEN q.result ELSE q.calls[timer.show]
    BY Assumptions, P!FireFields, Fields DEF Numbered, P!Sound
  <2>2. timer.what = "done" => p.result = timer.of
    BY Assumptions, P!FireFields, Fields DEF Numbered, P!Sound
  <2>3. timer.what = "failed" => p.result = IF FALSE THEN q.result ELSE P!NoResult
    BY Assumptions, P!FireFields, Fields DEF Numbered, P!Sound
  <2> HIDE DEF p, timer
  <2> QED BY <1>3, <2>1, <2>2, <2>3, SameSets
<1>5. q.timers \in Seq(P!Timer) /\ LastBuild(q) \in Nat /\ m \in Nat /\ i \in 1..m
  BY Fields DEF Numbered
<1>6. /\ Len(P!RemoveAt(q.timers, i)) = m - 1
      /\ \A j \in 1..(i - 1) : P!RemoveAt(q.timers, i)[j] = q.timers[j]
      /\ \A j \in i..(m - 1) : P!RemoveAt(q.timers, i)[j] = q.timers[j + 1]
  BY <1>5, Assumptions, P!Removed
<1> HIDE DEF p
<1>7. /\ Len(p.timers) = m - 1
      /\ \A j \in 1..(i - 1) : p.timers[j] = q.timers[j]
      /\ \A j \in i..(m - 1) : p.timers[j] = q.timers[j + 1]
  BY <1>2, <1>6
<1>8. LastBuild(p) = LastBuild(q)
  BY <1>2 DEF LastBuild
<1> DEFINE old(j) == IF j < i THEN j ELSE j + 1
<1>9. ASSUME NEW j \in 1..Len(p.timers)
      PROVE  /\ old(j) \in 1..m /\ old(j) # i /\ p.timers[j] = q.timers[old(j)]
             /\ \A k \in (j + 1)..Len(p.timers) : old(k) \in (old(j) + 1)..m
  <2> HIDE DEF m, timer
  <2>j. j \in 1..(m - 1)
    BY <1>7
  <2>1. old(j) \in 1..m /\ old(j) # i /\ p.timers[j] = q.timers[old(j)]
    <3>1. CASE j < i
      <4>1. j \in 1..(i - 1) /\ j \in 1..m /\ j # i
        BY <1>5, <2>j, <3>1
      <4> QED BY <1>7, <3>1, <4>1
    <3>2. CASE ~(j < i)
      <4>1. j \in i..(m - 1) /\ j + 1 \in 1..m /\ j + 1 # i
        BY <1>5, <2>j, <3>2
      <4> QED BY <1>7, <3>2, <4>1
    <3> QED BY <3>1, <3>2
  <2>2. \A k \in (j + 1)..Len(p.timers) : old(k) \in (old(j) + 1)..m
    BY <1>5, <1>7
  <2> QED BY <2>1, <2>2
<1>10. Numbered(p)
  <2>1. p.result \in 0..LastBuild(q)
    BY <1>3, <1>4, <1>5 DEF Numbered, IsDone
  <2>2. ASSUME NEW j \in 1..Len(p.timers)
        PROVE  /\ p.timers[j].show = NULL /\ p.timers[j].what # "patch"
               /\ IsDone(p.timers[j]) => p.timers[j].of \in 1..LastBuild(q)
    BY <1>9 DEF Numbered
  <2> QED BY <1>1, <1>2, <1>8, <2>1, <2>2 DEF Numbered
\* A build that is answered: nothing older is left.
<1>11. Rising(q) => /\ timer.what \in {"started", "done"}
                    /\ \A n \in p.inflight : p.result < n
                    /\ \A j \in 1..Len(p.timers) :
                          IsDone(p.timers[j]) => p.result < p.timers[j].of
  <2> SUFFICES ASSUME Rising(q)
               PROVE  /\ timer.what \in {"started", "done"}
                      /\ \A n \in p.inflight : p.result < n
                      /\ \A j \in 1..Len(p.timers) :
                            IsDone(p.timers[j]) => p.result < p.timers[j].of
    OBVIOUS
  <2>1. timer.what \in {"started", "done"}
    BY <1>3 DEF Rising
  <2>2. CASE timer.what = "started"
    <3>1. p.result = q.result
      BY <1>4, <2>2
    <3>2. \A n \in p.inflight : p.result < n
      BY <1>2, <3>1 DEF Rising
    <3>3. ASSUME NEW j \in 1..Len(p.timers), IsDone(p.timers[j])
          PROVE  p.result < p.timers[j].of
      <4> HIDE DEF old
      <4>1. old(j) \in 1..m /\ IsDone(q.timers[old(j)]) /\ p.timers[j] = q.timers[old(j)]
        BY <1>9, <3>3
      <4> QED BY <3>1, <4>1 DEF Rising
    <3> QED BY <2>2, <3>2, <3>3
  <2>3. CASE timer.what = "done"
    <3>1. p.result = timer.of /\ IsDone(timer)
      BY <1>4, <2>3 DEF IsDone
    <3>2. \A n \in p.inflight : p.result < n
      BY <1>2, <3>1 DEF Rising
    <3>3. i = 1
      <4> SUFFICES ASSUME i # 1 PROVE FALSE
        OBVIOUS
      <4>1. timer.delay = 1
        BY <2>3 DEF Numbered, P!Sound, P!TimersOK, P!TimerOK, P!Ends
      <4>2. 1 \in 1..(i - 1) /\ 1 \in 1..m
        BY <1>5
      <4>3. q.timers[1].delay \in {0, 1} /\ q.timers[1].delay > timer.delay
        BY <4>2, Assumptions, P!TimerFields DEF Numbered, P!Sound, P!MayFire
      <4> QED BY <4>1, <4>3
    <3>4. ASSUME NEW j \in 1..Len(p.timers), IsDone(p.timers[j])
          PROVE  p.result < p.timers[j].of
      <4>1. j + 1 \in (i + 1)..m /\ p.timers[j] = q.timers[j + 1]
        <5> HIDE DEF m, timer
        <5> QED BY <1>5, <1>7, <3>3
      <4>2. timer.of < q.timers[j + 1].of
        BY <3>1, <3>4, <4>1 DEF Rising
      <4> QED BY <3>1, <4>1, <4>2
    <3> QED BY <2>3, <3>2, <3>4
  <2> QED BY <2>1, <2>2, <2>3
<1>12. Rising(q) => Rising(p)
  <2> SUFFICES ASSUME Rising(q) PROVE Rising(p)
    OBVIOUS
  <2> HIDE DEF old
  <2>1. \A j \in 1..Len(p.timers) : p.timers[j].what # "failed"
    BY <1>9 DEF Rising
  <2>2. ASSUME NEW j \in 1..Len(p.timers), IsDone(p.timers[j])
        PROVE  /\ \A n \in p.inflight : p.timers[j].of < n
               /\ \A k \in (j + 1)..Len(p.timers) :
                     IsDone(p.timers[k]) => p.timers[j].of < p.timers[k].of
    <3>1. /\ old(j) \in 1..m /\ p.timers[j] = q.timers[old(j)] /\ IsDone(q.timers[old(j)])
      BY <1>9, <2>2
    <3>2. \A n \in p.inflight : p.timers[j].of < n
      BY <1>2, <3>1 DEF Rising
    <3>3. ASSUME NEW k \in (j + 1)..Len(p.timers), IsDone(p.timers[k])
          PROVE  p.timers[j].of < p.timers[k].of
      <4>1. k \in 1..Len(p.timers)
        BY <1>5, <1>7
      <4>2. old(k) \in (old(j) + 1)..m /\ p.timers[k] = q.timers[old(k)]
        BY <1>9, <3>3, <4>1
      <4> QED BY <3>1, <3>3, <4>2 DEF Rising
    <3> QED BY <3>2, <3>3
  <2> QED BY <1>11, <2>1, <2>2 DEF Rising
<1>13. Rising(q) /\ Coming(q) => Coming(p)
  <2> SUFFICES ASSUME Rising(q), Coming(q) PROVE Coming(p)
    OBVIOUS
  <2>1. CASE LastBuild(q) \in q.inflight
    BY <1>2, <1>8, <2>1 DEF Coming
  <2>2. ASSUME NEW k \in 1..m, IsDone(q.timers[k]), q.timers[k].of = LastBuild(q)
        PROVE  Coming(p)
    <3>1. CASE k = i
      BY <1>4, <1>8, <2>2, <3>1 DEF Coming, IsDone
    <3>2. CASE k # i
      <4>1. PICK j \in 1..Len(p.timers) : p.timers[j] = q.timers[k]
        <5> HIDE DEF m, timer, old
        <5>1. CASE k < i
          <6>1. k \in 1..(i - 1) /\ k \in 1..Len(p.timers)
            BY <1>5, <1>7, <5>1
          <6> QED BY <1>7, <6>1
        <5>2. CASE k > i
          <6>1. k - 1 \in i..(m - 1) /\ k - 1 \in 1..Len(p.timers) /\ k - 1 + 1 = k
            BY <1>5, <1>7, <5>2
          <6> QED BY <1>7, <6>1
        <5> QED BY <1>5, <2>2, <3>2, <5>1, <5>2
      <4> QED BY <1>8, <2>2, <4>1 DEF Coming
    <3> QED BY <3>1, <3>2
  \* An older answer would be newer than the result.
  <2>3. CASE q.result = LastBuild(q)
    <3>1. timer.what # "done"
      BY <1>5, <2>3 DEF Rising, Numbered, IsDone
    <3>2. p.result = q.result
      BY <1>4, <1>11, <3>1
    <3> QED BY <1>8, <2>3, <3>2 DEF Coming
  <2> QED BY <2>1, <2>2, <2>3 DEF Coming
<1> QED BY <1>2, <1>10, <1>12, <1>13 DEF p

-----------------------------------------------------------------------------
(* The invariant *)

\* As long as nothing of Env happens, the last build is for the form as it is now.
Form ==
    IF CanCompute(receiver, amount)
    THEN Coming(request) /\ UpToDate(LastBuild(request))
    ELSE planned = 0 /\ R!Quiet(request)

\* mismatch is about what is planned and what is reviewed.
Compared ==
    /\ planned # 0 /\ tentative # 0 => mismatch = ~SameTx(planned, tentative)
    /\ step = "preview" => tentative # 0
    /\ regular /\ step = "preview" => CanCompute(receiver, amount)

IInv ==
    /\ TypeOK
    /\ Numbered(request)
    /\ planned = request.result
    /\ tentative \in 0..LastBuild(request)
    /\ Compared
    /\ regular => Rising(request) /\ Form

LEMMA InitIInv == Init => IInv
<1> SUFFICES ASSUME Init PROVE IInv
  OBVIOUS
<1>1. /\ request = P!NewObject /\ planned = 0 /\ tentative = 0 /\ receiver = NULL
      /\ step = "form"
  BY SameNew, SameSets DEF Init
<1>2. /\ Numbered(request) /\ Rising(request) /\ request \in R!Object
      /\ 0 \in 0..LastBuild(request) /\ 0 \in R!Result
  BY <1>1, NewNumbered, Fields, SameSets DEF Numbered, R!Result
<1>3. request.result = 0 /\ R!Quiet(request)
  BY <1>1, SameSets DEF P!NewObject, R!Quiet
<1>4. TypeOK
  <2>1. 0 \in 0..MaxHash /\ 0 \in 0..MaxSlot
    BY ConstantsAssumption
  <2> QED BY <1>1, <1>2, <2>1 DEF Init, TypeOK
<1>5. Compared /\ Form
  BY <1>1, <1>3 DEF Compared, Form, CanCompute
<1> QED BY <1>1, <1>2, <1>3, <1>4, <1>5 DEF IInv

\* The reactions to a result keep mismatch true.
LEMMA ResultCompared ==
    ASSUME IInv, NEW p, ResultIs(p), tentative' = tentative,
           p.result \in 0..LastBuild(request),
           \A k \in 1..LastBuild(request) : p.args[k] = request.args[k]
    PROVE  /\ request' = p /\ planned' = request'.result /\ mismatch' \in BOOLEAN
           /\ planned' # 0 /\ tentative' # 0 => mismatch' = ~SameTx(planned, tentative)'
<1>1. /\ request' = p /\ planned' = p.result
      /\ mismatch' = IF planned' = planned THEN mismatch ELSE TxMismatch(planned', tentative)
  BY DEF ResultIs
<1>2. /\ LastBuild(request) \in Nat /\ mismatch \in BOOLEAN
      /\ planned \in 0..LastBuild(request) /\ tentative \in 0..LastBuild(request)
  BY Fields DEF IInv, TypeOK, Numbered
<1>3. ASSUME NEW k \in 0..LastBuild(request), k # 0 PROVE request'.args[k] = request.args[k]
  BY <1>1, <1>2, <1>3
<1>4. mismatch' \in BOOLEAN
  BY <1>1, <1>2 DEF TxMismatch, SameTx
<1>5. planned' # 0 /\ tentative' # 0 => mismatch' = ~SameTx(planned, tentative)'
  <2> SUFFICES ASSUME planned' # 0, tentative # 0
               PROVE  mismatch' = (request'.args[planned'] # request'.args[tentative])
    BY DEF SameTx
  <2>1. request'.args[planned'] = request.args[planned'] /\ request'.args[tentative] = request.args[tentative]
    BY <1>1, <1>2, <1>3
  <2>2. CASE planned' = planned
    <3>1. mismatch = (request.args[planned] # request.args[tentative])
      BY <2>2 DEF IInv, Compared, SameTx
    <3> QED BY <1>1, <2>1, <2>2, <3>1
  <2>3. CASE planned' # planned
    <3>1. mismatch' = (request.args[planned'] # request.args[tentative])
      BY <1>1, <2>3, SameSets DEF TxMismatch, SameTx
    <3> QED BY <2>1, <3>1
  <2> QED BY <2>2, <2>3
<1> QED BY <1>1, <1>4, <1>5

LEMMA NewDraft ==
    ASSUME TypeOK, NEW a \in Amount \cup {NULL}, NEW h \in 0..MaxHash, CanCompute(receiver, a)
    PROVE  [receiver |-> receiver, amount |-> a, hash |-> h, slot |-> slot] \in Draft
BY DEF TypeOK, CanCompute, Draft

\* The reaction to amounts and history: the result is thrown away, and a complete form
\* is built.
LEMMA Updates ==
    ASSUME IInv, NEW a \in Amount \cup {NULL}, NEW h \in 0..MaxHash, tentative' = tentative,
           R!CanExecute(request), UpdateTxBuilder(a, h)
    PROVE  /\ Numbered(request') /\ planned' = request'.result /\ planned' = 0
           /\ mismatch' \in BOOLEAN
           /\ LastBuild(request) <= LastBuild(request')
           /\ Rising(request) => Rising(request')
           /\ IF CanCompute(receiver, a)
              THEN /\ Coming(request')
                   /\ request'.args[LastBuild(request')] =
                         [receiver |-> receiver, amount |-> a, hash |-> h, slot |-> slot]
              ELSE request'.inflight = request.inflight /\ request'.timers = request.timers
<1> DEFINE q == P!Reset(request)
           d == [receiver |-> receiver, amount |-> a, hash |-> h, slot |-> slot]
           p == IF CanCompute(receiver, a) THEN P!Execute(q, d) ELSE q
<1>1. /\ Numbered(q) /\ (Rising(request) => Rising(q))
      /\ q.args = request.args /\ q.result = 0 /\ ~q.waiting
      /\ q.inflight = request.inflight /\ q.timers = request.timers
  BY ResetNumbered DEF IInv
<1>2. ResultIs(p)
  BY SameReset, SameExecute DEF UpdateTxBuilder
<1>3. P!CanExecute(q) /\ LastBuild(q) = LastBuild(request) /\ LastBuild(request) \in Nat
  BY <1>1, SameCanExecute, Fields DEF P!CanExecute, LastBuild, Numbered, IInv
<1> HIDE DEF q, d
<1>4. /\ Numbered(p) /\ (Rising(request) => Rising(p)) /\ p.result = 0
      /\ LastBuild(request) <= LastBuild(p)
      /\ \A k \in 1..LastBuild(request) : p.args[k] = request.args[k]
      /\ IF CanCompute(receiver, a)
         THEN Coming(p) /\ p.args[LastBuild(p)] = d
         ELSE p.inflight = request.inflight /\ p.timers = request.timers
  <2>1. CASE CanCompute(receiver, a)
    <3>1. d \in Draft /\ p = P!Execute(q, d)
      BY <2>1, NewDraft DEF IInv, d
    <3> HIDE DEF p
    <3>2. /\ Numbered(p) /\ (Rising(q) => Rising(p)) /\ Coming(p) /\ p.result = q.result
          /\ LastBuild(p) = LastBuild(q) + 1 /\ p.args[LastBuild(p)] = d
          /\ \A k \in 1..LastBuild(q) : p.args[k] = q.args[k]
      BY <1>1, <1>3, <3>1, ExecuteNumbered
    <3> QED BY <1>1, <1>3, <2>1, <3>2
  <2>2. CASE ~CanCompute(receiver, a)
    <3>1. p = q
      BY <2>2
    <3> HIDE DEF p
    <3> QED BY <1>1, <1>3, <2>2, <3>1
  <2> QED BY <2>1, <2>2
<1> HIDE DEF p
<1>5. request' = p /\ planned' = request'.result /\ mismatch' \in BOOLEAN
  BY <1>2, <1>3, <1>4, ResultCompared
<1> QED BY <1>4, <1>5 DEF d

\* Such a reaction keeps the invariant, whatever became of the amount and the history.
LEMMA UpdatesKeep ==
    ASSUME IInv, NEW a \in Amount \cup {NULL}, NEW h \in 0..MaxHash, tentative' = tentative,
           R!CanExecute(request), UpdateTxBuilder(a, h),
           receiver' = receiver, amount' = a, hash' = h, slot' = slot, step' = step,
           regular' \in BOOLEAN, regular' => regular,
           regular' /\ ~CanCompute(receiver, a) => R!Quiet(request),
           regular' /\ step = "preview" => CanCompute(receiver, a)
    PROVE  IInv'
<1>1. /\ Numbered(request') /\ planned' = request'.result /\ planned' = 0
      /\ mismatch' \in BOOLEAN
      /\ LastBuild(request) <= LastBuild(request')
      /\ Rising(request) => Rising(request')
      /\ IF CanCompute(receiver, a)
         THEN /\ Coming(request')
              /\ request'.args[LastBuild(request')] =
                    [receiver |-> receiver, amount |-> a, hash |-> h, slot |-> slot]
         ELSE request'.inflight = request.inflight /\ request'.timers = request.timers
  BY Updates
<1>2. LastBuild(request) \in Nat /\ LastBuild(request') \in Nat /\ request' \in R!Object
  BY <1>1, Fields, SameSets DEF IInv, Numbered
<1>3. TypeOK'
  <2>1. planned' \in R!Result
    BY <1>1 DEF R!Result, R!NoResult
  <2> QED BY <1>1, <1>2, <2>1 DEF IInv, TypeOK
<1>4. tentative' \in 0..LastBuild(request')
  BY <1>1, <1>2 DEF IInv
<1>5. Compared'
  BY <1>1 DEF IInv, Compared
<1>6. regular' => Rising(request') /\ Form'
  <2> SUFFICES ASSUME regular' PROVE Rising(request') /\ Form'
    OBVIOUS
  <2>1. Rising(request')
    BY <1>1 DEF IInv
  <2>2. CASE CanCompute(receiver, a)
    <3>1. UpToDate(LastBuild(request))'
      BY <1>1, <2>2 DEF UpToDate
    <3> QED BY <1>1, <2>1, <2>2, <3>1 DEF Form
  <2>3. CASE ~CanCompute(receiver, a)
    BY <1>1, <2>1, <2>3 DEF Form, R!Quiet
  <2> QED BY <2>2, <2>3
<1> QED BY <1>1, <1>3, <1>4, <1>5, <1>6 DEF IInv

LEMMA AmountStep ==
    ASSUME IInv, NEW a \in Amount \cup {NULL}, UpdateAmount(a) PROVE IInv'
<1>1. /\ step = "form" /\ R!CanExecute(request) /\ amount' = a
      /\ UpdateTxBuilder(a, hash)
      /\ receiver' = receiver /\ hash' = hash /\ slot' = slot
      /\ tentative' = tentative /\ step' = step
      /\ regular' = (regular /\ ~(a = NULL /\ ~R!Quiet(request)))
  BY DEF UpdateAmount, Unless
<1>2. hash \in 0..MaxHash /\ regular \in BOOLEAN
  BY DEF IInv, TypeOK
<1>3. regular' /\ ~CanCompute(receiver, a) => R!Quiet(request)
  BY <1>1 DEF IInv, Form, CanCompute
<1> QED BY <1>1, <1>2, <1>3, UpdatesKeep

LEMMA HistoryStep == ASSUME IInv, HistoryChanges PROVE IInv'
<1>1. /\ R!CanExecute(request) /\ hash < MaxHash /\ hash' = hash + 1
      /\ UpdateTxBuilder(amount, hash + 1)
      /\ receiver' = receiver /\ amount' = amount /\ slot' = slot
      /\ tentative' = tentative /\ step' = step /\ regular' = regular
  BY DEF HistoryChanges
<1>2. /\ hash \in 0..MaxHash /\ regular \in BOOLEAN /\ amount \in Amount \cup {NULL}
      /\ MaxHash \in Nat
  BY ConstantsAssumption DEF IInv, TypeOK
<1>3. hash + 1 \in 0..MaxHash
  BY <1>1, <1>2
<1>4. /\ regular /\ ~CanCompute(receiver, amount) => R!Quiet(request)
      /\ regular /\ step = "preview" => CanCompute(receiver, amount)
  BY DEF IInv, Form, Compared
<1> QED BY <1>1, <1>2, <1>3, <1>4, UpdatesKeep

LEMMA ReceiverStep ==
    ASSUME IInv, NEW r \in Receiver \cup {NULL}, UpdateReceiver(r) PROVE IInv'
<1>1. /\ step = "form" /\ receiver' = r
      /\ regular' = (regular /\ ~(amount # NULL))
      /\ UNCHANGED <<amount, hash, slot, request, planned, tentative, mismatch, step>>
  BY DEF UpdateReceiver, Unless
<1>2. TypeOK'
  BY <1>1 DEF IInv, TypeOK
<1>3. Compared'
  BY <1>1 DEF IInv, Compared, SameTx
<1>4. regular' => Form'
  BY <1>1 DEF IInv, Form, CanCompute
<1> QED BY <1>1, <1>2, <1>3, <1>4 DEF IInv

LEMMA SlotStep == ASSUME IInv, SlotBegins PROVE IInv'
<1>1. /\ slot < MaxSlot /\ slot' = slot + 1
      /\ UNCHANGED <<receiver, amount, hash, request, planned, tentative, mismatch, step, regular>>
  BY DEF SlotBegins
<1>2. slot' \in 0..MaxSlot
  BY <1>1, ConstantsAssumption DEF IInv, TypeOK
<1>3. TypeOK'
  BY <1>1, <1>2 DEF IInv, TypeOK
<1>4. Compared' /\ (regular => Form')
  BY <1>1 DEF IInv, Compared, SameTx, Form, CanCompute, UpToDate
<1> QED BY <1>1, <1>3, <1>4 DEF IInv

\* A response or a timer of createUnsignedTx.  Without a complete form there is none.
LEMMA ResultKeeps ==
    ASSUME IInv, NEW p, ResultIs(p),
           UNCHANGED <<receiver, amount, hash, slot, tentative, step>>,
           regular' \in BOOLEAN, regular' => regular,
           Numbered(p), p.args = request.args, ~R!Quiet(request),
           regular' => Rising(p) /\ (Coming(request) => Coming(p))
    PROVE  IInv'
<1>1. LastBuild(p) = LastBuild(request) /\ p.result \in 0..LastBuild(request)
  BY DEF LastBuild, Numbered
<1>2. /\ request' = p /\ planned' = request'.result /\ mismatch' \in BOOLEAN
      /\ planned' # 0 /\ tentative' # 0 => mismatch' = ~SameTx(planned, tentative)'
  BY <1>1, ResultCompared
<1>3. TypeOK'
  <2>1. request' \in R!Object /\ planned' \in R!Result
    BY <1>2, Assumptions, Fields, P!ObjectFields, SameSets DEF Numbered
  <2> QED BY <1>2, <2>1 DEF IInv, TypeOK
<1>4. Compared'
  BY <1>2 DEF IInv, Compared, CanCompute
<1>5. regular' => Rising(request') /\ Form'
  BY <1>1, <1>2 DEF IInv, Form, CanCompute, UpToDate
<1> QED BY <1>1, <1>2, <1>3, <1>4, <1>5 DEF IInv

LEMMA BuiltStep == ASSUME IInv, Built PROVE IInv'
<1>1. PICK n \in request.inflight :
          \/ /\ Unless(\E m \in request.inflight : m < n, "reorder")
             /\ ResultIs(R!Respond(request, n, TRUE))
          \/ /\ Unless(TRUE, "fails")
             /\ ResultIs(R!Respond(request, n, FALSE))
  BY DEF Built
<1>2. UNCHANGED <<receiver, amount, hash, slot, tentative, step>> /\ Numbered(request)
      /\ regular \in BOOLEAN
  BY DEF Built, IInv, TypeOK
<1>3. ~R!Quiet(request)
  BY DEF R!Quiet
<1>4. CASE /\ Unless(\E m \in request.inflight : m < n, "reorder")
           /\ ResultIs(R!Respond(request, n, TRUE))
  <2> DEFINE p == P!Respond(request, n, TRUE)
  <2>1. ResultIs(p)
    BY <1>4, SameRespond
  <2>2. regular' = (regular /\ ~ \E m \in request.inflight : m < n)
    BY <1>4 DEF Unless
  <2>3. /\ Numbered(p) /\ p.args = request.args
        /\ Rising(request) /\ (~ \E k \in request.inflight : k < n) => Rising(p)
        /\ Coming(request) => Coming(p)
    BY <1>2, RespondNumbered
  <2> HIDE DEF p
  <2>4. regular' => Rising(p)
    BY <2>2, <2>3 DEF IInv
  <2> QED BY <1>2, <1>3, <2>1, <2>2, <2>3, <2>4, ResultKeeps
<1>5. CASE /\ Unless(TRUE, "fails")
           /\ ResultIs(R!Respond(request, n, FALSE))
  <2> DEFINE p == P!Respond(request, n, FALSE)
  <2>1. ResultIs(p)
    BY <1>5, SameRespond
  <2>2. regular' = FALSE
    BY <1>5 DEF Unless
  <2>3. Numbered(p) /\ p.args = request.args
    BY <1>2, RespondNumbered
  <2> HIDE DEF p
  <2> QED BY <1>2, <1>3, <2>1, <2>2, <2>3, ResultKeeps
<1> QED BY <1>1, <1>4, <1>5

LEMMA TimerStep == ASSUME IInv, NEW i, TimerFires(i) PROVE IInv'
<1> DEFINE p == P!Fire(request, i)
<1>1. /\ i \in 1..Len(request.timers) /\ P!MayFire(request, i) /\ ResultIs(p)
      /\ UNCHANGED <<receiver, amount, hash, slot, tentative, step, regular>>
  BY SameMayFire, SameFire DEF TimerFires
<1>2. regular \in BOOLEAN /\ Numbered(request)
  BY DEF IInv, TypeOK
<1>3. ~R!Quiet(request)
  BY <1>1 DEF R!Quiet
<1>4. /\ Numbered(p) /\ p.args = request.args
      /\ Rising(request) => Rising(p)
      /\ Rising(request) /\ Coming(request) => Coming(p)
  BY <1>1, <1>2, FireNumbered
<1> HIDE DEF p
<1>5. regular => Rising(p) /\ (Coming(request) => Coming(p))
  BY <1>4 DEF IInv
<1> QED BY <1>1, <1>2, <1>3, <1>4, <1>5, ResultKeeps

LEMMA SubmitStep == ASSUME IInv, Submit PROVE IInv'
<1>1. /\ planned # 0 /\ step' = "preview" /\ tentative' = planned
      /\ mismatch' = TxMismatch(planned, planned)
      /\ UNCHANGED <<receiver, amount, hash, slot, request, planned, regular>>
  BY SameSets DEF Submit
<1>2. mismatch' = FALSE
  BY <1>1, SameSets DEF TxMismatch, SameTx
<1>3. planned \in 0..LastBuild(request) /\ {planned} \subseteq R!Result
  BY DEF IInv, Numbered, TypeOK
<1>4. TypeOK'
  BY <1>1, <1>2, <1>3 DEF IInv, TypeOK
<1>5. Compared'
  BY <1>1, <1>2 DEF IInv, Compared, SameTx, Form, CanCompute
<1>6. regular => Form'
  BY <1>1 DEF IInv, Form, CanCompute, UpToDate
<1> QED BY <1>1, <1>3, <1>4, <1>5, <1>6 DEF IInv

LEMMA BackStep == ASSUME IInv, Back PROVE IInv'
<1>1. /\ step' = "form"
      /\ UNCHANGED <<receiver, amount, hash, slot, request, planned, tentative, mismatch, regular>>
  BY DEF Back
<1>2. TypeOK' /\ Compared' /\ (regular => Form')
  BY <1>1 DEF IInv, TypeOK, Compared, SameTx, Form, CanCompute, UpToDate
<1> QED BY <1>1, <1>2 DEF IInv

LEMMA LeaveStep == ASSUME IInv, Leave PROVE IInv'
<1> DEFINE q == P!Cancel(request)
           p == P!Reset(q)
<1>1. /\ request' = p /\ amount' = NULL /\ planned' = 0 /\ tentative' = 0 /\ step' = "form"
      /\ regular' = (regular /\ ~(~R!Quiet(request)))
      /\ UNCHANGED <<receiver, hash, slot, mismatch>>
  BY SameReset, SameCancel, SameSets DEF Leave, Unless
<1>2. /\ P!Sound(q) /\ q.args = request.args /\ q.result = request.result
      /\ q.inflight = request.inflight /\ q.timers = request.timers
  BY Assumptions, P!CancelSound, P!CancelFields, Fields DEF IInv, Numbered
<1> HIDE DEF q
<1>3. Numbered(q) /\ (Rising(request) => Rising(q))
  BY <1>2 DEF IInv, Numbered, Rising, LastBuild
<1>4. /\ Numbered(p) /\ (Rising(q) => Rising(p))
      /\ p.result = 0 /\ p.inflight = request.inflight /\ p.timers = request.timers
  BY <1>2, <1>3, ResetNumbered
<1> HIDE DEF p
<1>5. p \in R!Object /\ LastBuild(p) \in Nat
  BY <1>4, Fields, SameSets DEF Numbered
<1>6. TypeOK'
  <2>1. 0 \in R!Result
    BY DEF R!Result, R!NoResult
  <2> QED BY <1>1, <1>5, <2>1 DEF IInv, TypeOK
<1>7. Compared'
  BY <1>1 DEF Compared
<1>8. regular' => Form'
  BY <1>1, <1>4 DEF IInv, Form, CanCompute, R!Quiet
<1>9. /\ Numbered(request') /\ planned' = request'.result
      /\ tentative' \in 0..LastBuild(request')
  BY <1>1, <1>4, <1>5
<1>10. regular' => Rising(request')
  BY <1>1, <1>3, <1>4 DEF IInv
<1> QED BY <1>6, <1>7, <1>8, <1>9, <1>10 DEF IInv

-----------------------------------------------------------------------------
(* The theorems *)

\* IInv is inductive: every step of the user, the wallet, the API and the timers of
\* createUnsignedTx keeps it.
THEOREM SendInductive == Spec => []IInv
<1>1. IInv /\ [Next]_vars => IInv'
  <2> SUFFICES ASSUME IInv, [Next]_vars PROVE IInv'
    OBVIOUS
  <2>1. ASSUME NEW r \in Receiver \cup {NULL}, UpdateReceiver(r) PROVE IInv'
    BY <2>1, ReceiverStep
  <2>2. ASSUME NEW a \in Amount \cup {NULL}, UpdateAmount(a) PROVE IInv'
    BY <2>2, AmountStep
  <2>3. CASE HistoryChanges
    BY <2>3, HistoryStep
  <2>4. CASE SlotBegins
    BY <2>4, SlotStep
  <2>5. CASE Built
    BY <2>5, BuiltStep
  <2>6. ASSUME NEW i \in 1..Len(request.timers), TimerFires(i) PROVE IInv'
    BY <2>6, TimerStep
  <2>7. CASE Submit
    BY <2>7, SubmitStep
  <2>8. CASE Back
    BY <2>8, BackStep
  <2>9. CASE Leave
    BY <2>9, LeaveStep
  <2>10. CASE UNCHANGED vars
    BY <2>10 DEF vars, IInv, TypeOK, Compared, SameTx, Form, CanCompute, UpToDate
  <2> QED BY <2>1, <2>2, <2>3, <2>4, <2>5, <2>6, <2>7, <2>8, <2>9, <2>10 DEF Next
<1> QED BY InitIInv, <1>1, PTL DEF Spec

\* The fields of the store and of createUnsignedTx have the values they are declared with,
\* whatever users and the API do.
THEOREM SendTypeCorrect == Spec => []TypeOK
<1>1. IInv => TypeOK
  BY DEF IInv
<1> QED BY SendInductive, <1>1, PTL

\* Once nothing is under way, a complete form has the transaction built for this form and
\* this history, and an incomplete one has none, however many builds were abandoned.
THEOREM FormHasItsBuild == Spec => []FormSettles
<1>1. IInv => FormSettles
  <2> SUFFICES ASSUME IInv, regular, R!Quiet(request), CanCompute(receiver, amount)
               PROVE  planned # 0 /\ UpToDate(planned)
    BY SameSets DEF IInv, Form, FormSettles
  <2>1. request.inflight = {} /\ Len(request.timers) = 0
    BY DEF R!Quiet
  <2>2. planned = LastBuild(request) /\ LastBuild(request) > 0
    BY <2>1 DEF IInv, Form, Coming
  <2> QED BY <2>2 DEF IInv, Form
<1> QED BY SendInductive, <1>1, PTL

\* A user who reviews a transaction that would not be built any more is told so
\* (_txMismatch), as long as nothing of Env happens.
THEOREM StaleIsFlagged == Spec => []StaleFlaggedRegularly
<1>1. IInv => StaleFlaggedRegularly
  <2> SUFFICES ASSUME IInv, regular, R!Quiet(request), step = "preview", ~mismatch
               PROVE  planned # 0 /\ UpToDate(tentative)
    BY SameSets DEF StaleFlaggedRegularly, StaleFlagged
  <2>1. request.inflight = {} /\ Len(request.timers) = 0
    BY DEF R!Quiet
  <2>2. CanCompute(receiver, amount) /\ tentative # 0
    BY DEF IInv, Compared
  <2>3. planned = LastBuild(request) /\ planned # 0 /\ UpToDate(planned)
    BY <2>1, <2>2, Fields DEF IInv, Form, Coming, Numbered
  <2>4. request.args[planned] = request.args[tentative]
    BY <2>2, <2>3 DEF IInv, Compared, SameTx
  <2> QED BY <2>3, <2>4 DEF UpToDate
<1> QED BY SendInductive, <1>1, PTL
===============================================================================
