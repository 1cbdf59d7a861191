----------------------------- MODULE RequestProofs -----------------------------
(***************************************************************************)
(* Theorems about Request, for any arguments, any number of calls, any use *)
(* of its operations (Env) and both kinds of request.                      *)
(*                                                                         *)
(* None of the invariants is inductive.  Whatever is called, who looks     *)
(* busy has a response before it (Sound of RequestOpsProofs).  As long as  *)
(* it is only executed and invalidated, there is one call at a time, and   *)
(* its response comes behind the timer that shows its cached result        *)
(* (Serial); what the cache, the result and the flag _isInvalidated are    *)
(* then (Keyed, Shown, Fresh) depends on the call under way.               *)
(***************************************************************************)
EXTENDS Request, RequestOpsProofs

\* One call at a time, the last one; nothing is left of the others.
Serial(q) ==
    LET n == Len(q.args)
        m == Len(q.timers)
    IN  IF ~q.waiting THEN Quiet(q)
        ELSE /\ n \in Execution /\ q.current = q.args[n]
             /\ \A i \in 1..m : q.timers[i].show \in {NULL, q.current}
             /\ \/ /\ q.inflight = {n}
                   /\ \A i \in 1..m : q.timers[i].what = "started"
                \/ /\ q.inflight = {}
                   /\ m > 0 /\ Ends(q.timers[m]) /\ q.timers[m].of = n
                   /\ \A i \in 1..(m - 1) : q.timers[i].what = "started"

\* What is cached for some arguments is from an execution for them.
Keyed(q) ==
    \A a \in Arg : q.calls[a] \in Execution =>
        q.calls[a] <= Len(q.args) /\ q.args[q.calls[a]] = a

\* The result is the one of the current call, or a timer is set that makes it so.
Shown(q) ==
    /\ q.current # NULL =>
          \/ q.calls[q.current] \in {NoResult, q.result}
          \/ \E i \in 1..Len(q.timers) : q.timers[i].show = q.current
    /\ ~Cached /\ q.waiting => q.calls[q.current] = NoResult

\* The call under way is newer than the last invalidation that counts, old.
Fresh(q, old) ==
    /\ old \subseteq 1..Len(q.args)
    /\ q.waiting => q.invalidated /\ Len(q.args) \notin old
    /\ ~q.waiting /\ q.current # NULL /\ q.calls[q.current] \in old => q.invalidated
    /\ ~Cached => q.invalidated

Orderly(q, old) == Serial(q) /\ Keyed(q) /\ Shown(q) /\ Fresh(q, old)

IInv ==
    /\ Sound(request)
    /\ outdated \subseteq Execution
    /\ plain \in BOOLEAN
    /\ plain => Orderly(request, outdated)

-----------------------------------------------------------------------------
(* The operators keep a request orderly *)

LEMMA Fields ==
    ASSUME NEW q, Sound(q)
    PROVE  /\ q \in Object /\ q.timers \in Seq(Timer) /\ Len(q.timers) \in Nat
           /\ q.args \in Seq(Arg) /\ Len(q.args) \in Nat
           /\ q.waiting \in BOOLEAN /\ q.invalidated \in BOOLEAN
           /\ q.current \in Arg \cup {NULL} /\ q.result \in Result
           /\ q.calls \in [Arg -> Result \cup {NULL}] /\ q.inflight \subseteq Execution
BY ObjectFields DEF Sound

LEMMA NewOrderly == Orderly(NewObject, {})
<1>1. /\ NewObject.timers = <<>> /\ NewObject.args = <<>> /\ NewObject.inflight = {}
      /\ NewObject.current = NULL /\ ~NewObject.waiting /\ NewObject.invalidated
      /\ \A a \in Arg : NewObject.calls[a] = NULL
  BY DEF NewObject
<1>2. Keyed(NewObject)
  BY <1>1, OpsAssumption DEF Keyed, Execution
<1>3. Serial(NewObject) /\ Shown(NewObject) /\ Fresh(NewObject, {})
  BY <1>1 DEF Serial, Quiet, Shown, Fresh
<1> QED BY <1>2, <1>3 DEF Orderly

\* A call: nothing else is under way, and its timer shows what is cached for it.
LEMMA CalledOrderly ==
    ASSUME NEW q, NEW old, Sound(q), Orderly(q, old), ~q.waiting, CanExecute(q),
           NEW a \in Arg, NEW p \in Object, Called(q, a, p)
    PROVE  Orderly(p, old)
<1> DEFINE show  == IF Cached /\ q.calls[a] # NULL THEN a ELSE NULL
           timer == [delay |-> 0, what |-> "started", show |-> show, of |-> NoResult]
           n     == Len(q.args) + 1
<1> USE OpsAssumption
<1>1. /\ timer \in Timer /\ p.timers = Append(q.timers, timer)
      /\ p.result = q.result /\ p.waiting /\ p.current = a
      /\ p.invalidated <=> Cached \/ q.invalidated
      /\ p.calls[a] = IF show = a THEN q.calls[a] ELSE NoResult
      /\ \A b \in Arg \ {a} : p.calls[b] = q.calls[b]
      /\ p.args = Append(q.args, a)
      /\ p.inflight = q.inflight \cup {n}
  BY DEF Called
<1>2. timer.what = "started" /\ timer.show = show
  OBVIOUS
<1>3. /\ q.timers = <<>> /\ q.inflight = {}
      /\ Len(q.args) \in Nat /\ q.args \in Seq(Arg) /\ q.timers \in Seq(Timer)
      /\ q.calls \in [Arg -> Result \cup {NULL}]
  BY Fields DEF Orderly, Serial, Quiet
<1> HIDE DEF timer
<1>4. Len(p.timers) = 1 /\ p.timers[1] = timer
  BY <1>1, <1>3, Appended
<1>5. /\ Len(p.args) = n /\ p.args[n] = a
      /\ \A i \in 1..Len(q.args) : p.args[i] = q.args[i]
  BY <1>1, <1>3, Appended
<1>6. n \in Execution
  BY <1>3 DEF CanExecute, Execution
<1> HIDE DEF n
<1>7. Serial(p)
  <2>1. p.inflight = {n} /\ p.current = p.args[n]
    BY <1>1, <1>3, <1>5
  <2>2. \A i \in 1..Len(p.timers) : p.timers[i].what = "started"
                                    /\ p.timers[i].show \in {NULL, p.current}
    BY <1>1, <1>2, <1>4
  <2> QED BY <1>1, <1>5, <1>6, <2>1, <2>2 DEF Serial
<1>8. Keyed(p)
  <2> SUFFICES ASSUME NEW b \in Arg, p.calls[b] \in Execution
               PROVE  p.calls[b] <= Len(p.args) /\ p.args[p.calls[b]] = b
    BY DEF Keyed
  <2>1. p.calls[b] = q.calls[b]
    BY <1>1 DEF Execution, NoResult
  <2>2. q.calls[b] <= Len(q.args) /\ q.args[q.calls[b]] = b /\ q.calls[b] \in 1..Len(q.args)
    BY <1>3, <2>1 DEF Orderly, Keyed, Execution
  <2> QED BY <1>3, <1>5, <2>1, <2>2 DEF n
<1>9. Shown(p)
  <2>1. CASE show = a
    <3>1. Cached /\ 1 \in 1..Len(p.timers) /\ p.timers[1].show = p.current
      BY <1>1, <1>2, <1>4, <2>1
    <3> QED BY <3>1 DEF Shown
  <2>2. CASE show # a
    <3>1. p.calls[p.current] = NoResult
      BY <1>1, <2>2
    <3> QED BY <3>1 DEF Shown
  <2> QED BY <2>1, <2>2
<1>10. Fresh(p, old)
  <2>1. /\ old \subseteq 1..Len(q.args)
        /\ ~Cached => q.invalidated
    BY DEF Orderly, Fresh
  <2>2. old \subseteq 1..Len(p.args) /\ Len(p.args) \notin old
    BY <1>3, <1>5, <2>1 DEF n
  <2> QED BY <1>1, <2>1, <2>2 DEF Fresh
<1> QED BY <1>7, <1>8, <1>9, <1>10 DEF Orderly

LEMMA ExecuteOrderly ==
    ASSUME NEW q, NEW old, Sound(q), Orderly(q, old), CanExecute(q), NEW a \in Arg
    PROVE  Orderly(Execute(q, a), old)
<1> DEFINE p == Execute(q, a)
<1>1. /\ p \in Object
      /\ q.waiting => p = q
      /\ ~q.waiting => Called(q, a, p) \/ Hit(q, a, p)
  BY ExecuteFields, Fields
<1> HIDE DEF p
<1>2. CASE q.waiting
  BY <1>1, <1>2 DEF p
<1>3. CASE ~q.waiting /\ Called(q, a, p)
  BY <1>1, <1>3, CalledOrderly DEF p
<1>4. CASE ~q.waiting /\ Hit(q, a, p)
  <2>1. /\ Cached /\ q.current = a
        /\ p.result = q.result /\ ~p.waiting
        /\ p.current = a /\ \A b \in Arg : p.calls[b] = q.calls[b]
        /\ p.args = q.args /\ p.inflight = q.inflight /\ p.timers = q.timers
        /\ ~q.invalidated
    BY <1>4 DEF Hit
  <2>2. Serial(p)
    BY <1>4, <2>1 DEF Orderly, Serial, Quiet
  <2>3. Keyed(p)
    BY <2>1 DEF Orderly, Keyed
  <2>4. Shown(p)
    BY <2>1 DEF Orderly, Shown
  <2>5. Fresh(p, old)
    BY <1>4, <2>1 DEF Orderly, Fresh
  <2> QED BY <2>2, <2>3, <2>4, <2>5 DEF Orderly, p
<1> QED BY <1>1, <1>2, <1>3, <1>4, Fields

\* An invalidation counts unless a call is under way.
LEMMA InvalidateOrderly ==
    ASSUME NEW q, NEW old, Sound(q), Orderly(q, old)
    PROVE  Orderly(Invalidate(q), IF q.waiting THEN old ELSE 1..Len(q.args))
<1> DEFINE p == Invalidate(q)
<1>1. /\ p.result = q.result /\ p.waiting = q.waiting
      /\ p.current = q.current /\ p.invalidated
      /\ p.calls = q.calls /\ p.args = q.args
      /\ p.inflight = q.inflight /\ p.timers = q.timers
  BY InvalidateFields, Fields
<1> HIDE DEF p
<1>2. Serial(p) /\ Keyed(p) /\ Shown(p)
  BY <1>1 DEF Orderly, Serial, Quiet, Keyed, Shown
<1>3. Fresh(p, old) /\ (~q.waiting => Fresh(p, 1..Len(q.args)))
  BY <1>1, Fields DEF Orderly, Fresh
<1> QED BY <1>2, <1>3 DEF Orderly, p

LEMMA RespondOrderly ==
    ASSUME NEW q, NEW old, Sound(q), Orderly(q, old), NEW n \in q.inflight, NEW ok \in BOOLEAN
    PROVE  Orderly(Respond(q, n, ok), old)
<1> DEFINE p == Respond(q, n, ok)
           timer == [delay |-> 1, what |-> IF ok THEN "done" ELSE "failed",
                     show |-> NULL, of |-> n]
           m == Len(q.timers)
<1>1. /\ p.result = q.result /\ p.waiting = q.waiting
      /\ p.current = q.current /\ p.invalidated = q.invalidated /\ p.calls = q.calls
      /\ p.args = q.args
      /\ p.inflight = q.inflight \ {n}
      /\ timer \in Timer
      /\ p.timers = Append(q.timers, timer)
  BY RespondFields, Fields
<1>2. Ends(timer) /\ timer.show = NULL /\ timer.of = n
  BY DEF Ends
<1> HIDE DEF p, timer
<1>3. /\ Len(p.timers) = m + 1 /\ m \in Nat
      /\ \A i \in 1..m : p.timers[i] = q.timers[i]
      /\ p.timers[m + 1] = timer
  BY <1>1, Fields, Appended
<1>4. /\ q.waiting /\ n = Len(q.args) /\ n \in Execution /\ q.current = q.args[n]
      /\ q.inflight = {n}
      /\ \A i \in 1..m : q.timers[i].what = "started" /\ q.timers[i].show \in {NULL, q.current}
  BY DEF Orderly, Serial, Quiet
<1>5. Serial(p)
  <2>1. p.inflight = {}
    BY <1>1, <1>4
  <2>2. \A i \in 1..Len(p.timers) : p.timers[i].show \in {NULL, p.current}
    BY <1>1, <1>2, <1>3, <1>4
  <2>3. \A i \in 1..(Len(p.timers) - 1) : p.timers[i].what = "started"
    BY <1>3, <1>4
  <2>4. Len(p.timers) > 0 /\ Ends(p.timers[Len(p.timers)]) /\ p.timers[Len(p.timers)].of = n
    BY <1>2, <1>3
  <2> QED BY <1>1, <1>4, <2>1, <2>2, <2>3, <2>4 DEF Serial
<1>6. Keyed(p) /\ Fresh(p, old)
  BY <1>1 DEF Orderly, Keyed, Fresh
<1>7. Shown(p)
  <2>1. ASSUME NEW i \in 1..m, q.timers[i].show = q.current
        PROVE  \E j \in 1..Len(p.timers) : p.timers[j].show = p.current
    BY <1>1, <1>3, <2>1
  <2> QED BY <1>1, <2>1 DEF Orderly, Shown
<1> QED BY <1>5, <1>6, <1>7 DEF Orderly, p

LEMMA FireOrderly ==
    ASSUME NEW q, NEW old, Sound(q), Orderly(q, old),
           NEW i \in 1..Len(q.timers), MayFire(q, i)
    PROVE  Orderly(Fire(q, i), old)
<1> DEFINE p == Fire(q, i)
           timer == q.timers[i]
           n == Len(q.args)
           m == Len(q.timers)
<1> USE OpsAssumption
<1>1. /\ q.waiting /\ n \in Execution /\ q.current = q.args[n] /\ q.current \in Arg
      /\ \A j \in 1..m : q.timers[j].show \in {NULL, q.current}
      /\ \/ /\ q.inflight = {n}
            /\ \A j \in 1..m : q.timers[j].what = "started"
         \/ /\ q.inflight = {}
            /\ Ends(q.timers[m]) /\ q.timers[m].of = n
            /\ \A j \in 1..(m - 1) : q.timers[j].what = "started"
  <2>1. q.waiting
    BY Fields DEF Orderly, Serial, Quiet
  <2>2. Serial(q)
    BY DEF Orderly
  <2>3. n \in 1..n
    BY <2>1, <2>2, Fields DEF Serial, Execution
  <2> QED BY <2>1, <2>2, <2>3, Fields DEF Serial
<1>2. /\ p.current = q.current /\ p.args = q.args /\ p.inflight = q.inflight
      /\ p.timers = RemoveAt(q.timers, i)
  BY Fields, FireFields DEF Sound
<1>3. m \in Nat /\ m > 0 /\ i \in 1..m
  BY Fields
<1>4. /\ Len(p.timers) = m - 1
      /\ \A j \in 1..(i - 1) : p.timers[j] = q.timers[j]
      /\ \A j \in i..(m - 1) : p.timers[j] = q.timers[j + 1]
  <2>0. q.timers \in Seq(Timer)
    BY Fields
  <2>1. /\ Len(RemoveAt(q.timers, i)) = m - 1
        /\ \A j \in 1..(i - 1) : RemoveAt(q.timers, i)[j] = q.timers[j]
        /\ \A j \in i..(m - 1) : RemoveAt(q.timers, i)[j] = q.timers[j + 1]
    BY <2>0, Removed
  <2> HIDE DEF p
  <2> QED BY <1>2, <2>1
<1>5. CASE timer.what = "started"
  <2>1. /\ p.result = IF timer.show = NULL THEN q.result ELSE q.calls[timer.show]
        /\ p.waiting = q.waiting /\ p.calls = q.calls /\ p.invalidated = q.invalidated
    BY <1>5, Fields, FireFields DEF Sound
  <2> HIDE DEF p, n
  <2>2. Keyed(p) /\ Fresh(p, old)
    BY <1>2, <2>1 DEF Orderly, Keyed, Fresh
  <2>3. \A j \in 1..(m - 1) : /\ p.timers[j].show \in {NULL, p.current}
                              /\ j + 1 \in 1..m /\ j \in 1..m
                              /\ p.timers[j] = q.timers[j] \/ p.timers[j] = q.timers[j + 1]
    BY <1>1, <1>2, <1>3, <1>4
  <2>4. Serial(p)
    <3>1. CASE q.inflight = {n} /\ \A j \in 1..m : q.timers[j].what = "started"
      <4>1. ASSUME NEW j \in 1..(m - 1) PROVE p.timers[j].what = "started"
        <5>1. j \in 1..m /\ j + 1 \in 1..m
          BY <2>3
        <5>2. q.timers[j].what = "started" /\ q.timers[j + 1].what = "started"
          BY <3>1, <5>1
        <5> QED BY <2>3, <5>2
      <4>2. /\ p.waiting /\ n = Len(p.args) /\ n \in Execution /\ p.current = p.args[n]
            /\ p.inflight = {n}
            /\ \A j \in 1..Len(p.timers) : p.timers[j].show \in {NULL, p.current}
        BY <1>1, <1>2, <1>4, <2>1, <2>3, <3>1 DEF n
      <4> QED BY <1>4, <4>1, <4>2 DEF Serial
    <3>2. CASE /\ q.inflight = {}
               /\ Ends(q.timers[m]) /\ q.timers[m].of = n
               /\ \A j \in 1..(m - 1) : q.timers[j].what = "started"
      <4>1. i # m
        BY <1>5, <3>2 DEF Ends
      <4>2. m - 1 > 0 /\ p.timers[m - 1] = q.timers[m]
        <5>1. m - 1 \in i..(m - 1) /\ m - 1 + 1 = m
          BY <1>3, <4>1
        <5> QED BY <1>3, <1>4, <5>1
      <4>3. \A j \in 1..(m - 2) : p.timers[j].what = "started"
        <5>1. ASSUME NEW j \in 1..(m - 2) PROVE p.timers[j].what = "started"
          <6>1. j \in 1..(m - 1) /\ j + 1 \in 1..(m - 1)
            BY <1>3
          <6> QED BY <2>3, <3>2, <6>1
        <5> QED BY <5>1
      <4>4. m - 1 - 1 = m - 2
        BY <1>3
      <4>5. Ends(p.timers[Len(p.timers)]) /\ p.timers[Len(p.timers)].of = n /\ Len(p.timers) > 0
        BY <1>4, <3>2, <4>2
      <4>6. \A j \in 1..(Len(p.timers) - 1) : p.timers[j].what = "started"
        BY <1>4, <4>3, <4>4
      <4>7. /\ p.waiting /\ n = Len(p.args) /\ n \in Execution /\ p.current = p.args[n]
            /\ p.inflight = {}
            /\ \A j \in 1..Len(p.timers) : p.timers[j].show \in {NULL, p.current}
        BY <1>1, <1>2, <1>4, <2>1, <2>3, <3>2 DEF n
      <4> QED BY <4>5, <4>6, <4>7 DEF Serial
    <3> QED BY <1>1, <3>1, <3>2
  <2>5. Shown(p)
    <3>1. ~Cached => p.calls[p.current] = NoResult
      BY <1>1, <1>2, <2>1 DEF Orderly, Shown
    <3>2. CASE timer.show = q.current
      <4>1. p.calls[p.current] = p.result
        BY <1>1, <1>2, <2>1, <3>2
      <4> QED BY <3>1, <4>1 DEF Shown
    <3>3. CASE timer.show # q.current
      <4>1. p.result = q.result
        BY <1>1, <1>3, <2>1, <3>3
      <4>2. ASSUME NEW k \in 1..m, q.timers[k].show = q.current
            PROVE  \E j \in 1..Len(p.timers) : p.timers[j].show = p.current
        <5>1. CASE k < i
          <6>1. k \in 1..(i - 1) /\ k \in 1..Len(p.timers)
            BY <1>3, <1>4, <5>1
          <6> QED BY <1>2, <1>4, <4>2, <6>1
        <5>2. CASE k > i
          <6>1. k - 1 \in i..(m - 1) /\ k - 1 \in 1..Len(p.timers) /\ k - 1 + 1 = k
            BY <1>3, <1>4, <5>2
          <6>2. p.timers[k - 1] = q.timers[k]
            BY <1>4, <6>1
          <6> QED BY <1>2, <4>2, <6>1, <6>2
        <5> QED BY <1>3, <3>3, <4>2, <5>1, <5>2
      <4>3. \/ q.calls[q.current] \in {NoResult, q.result}
            \/ \E k \in 1..m : q.timers[k].show = q.current
        BY <1>1 DEF Orderly, Shown
      <4> QED BY <1>2, <2>1, <3>1, <4>1, <4>2, <4>3 DEF Shown
    <3> QED BY <3>2, <3>3
  <2> QED BY <2>2, <2>4, <2>5 DEF Orderly, p
\* The response: it is the last timer, and there is no other.
<1>6. CASE Ends(timer)
  <2>1. /\ q.inflight = {} /\ timer.of = n /\ i = m
        /\ \A j \in 1..(m - 1) : q.timers[j].what = "started"
    BY <1>1, <1>3, <1>6 DEF Ends
  <2>2. m = 1
    <3> SUFFICES ASSUME m # 1 PROVE FALSE
      OBVIOUS
    <3>1. 1 \in 1..(m - 1) /\ 1 \in 1..(i - 1) /\ 1 \in 1..m
      <4> HIDE DEF m
      <4> QED BY <1>3, <2>1
    <3>2. q.timers[1].delay = 0 /\ timer.delay = 1
      BY <1>3, <1>6, <2>1, <3>1 DEF Sound, TimersOK, TimerOK, Ends
    <3>3. q.timers[1].delay > timer.delay
      BY <3>1 DEF MayFire
    <3> QED BY <3>2, <3>3
  <2>3. timer.show = NULL
    BY <1>3, <1>6 DEF Sound, TimersOK, TimerOK, Ends
  <2>4. ~p.waiting
        /\ \/ /\ p.result = n /\ p.calls = Store(q, n)
              /\ p.invalidated <=> ~Cached /\ q.invalidated
           \/ /\ p.result = IF Cached THEN q.result ELSE NoResult
              /\ p.calls = q.calls /\ p.invalidated = q.invalidated
    <3>1. CASE timer.what = "done"
      BY <2>1, <3>1, Fields, FireFields DEF Sound
    <3>2. CASE timer.what = "failed"
      BY <3>2, Fields, FireFields DEF Sound
    <3> QED BY <1>6, <3>1, <3>2 DEF Ends
  <2>5. \A b \in Arg : Store(q, n)[b] = IF q.current = b THEN n ELSE q.calls[b]
    BY <1>1, Fields, Stored DEF Result
  <2> HIDE DEF p
  <2>6. Serial(p)
    <3>1. p.timers = <<>>
      BY <1>2, <1>4, <2>2, Fields, Removed
    <3> QED BY <1>2, <2>1, <2>4, <3>1 DEF Serial, Quiet
  <2>7. q.calls[q.current] \in {NoResult, q.result} /\ (~Cached => q.calls[q.current] = NoResult)
    BY <1>1, <2>2, <2>1, <2>3 DEF Orderly, Shown
  <2>8. Keyed(p)
    <3> SUFFICES ASSUME NEW b \in Arg, p.calls[b] \in Execution
                 PROVE  p.calls[b] <= Len(p.args) /\ p.args[p.calls[b]] = b
      BY DEF Keyed
    <3>1. p.calls[b] = q.calls[b] \/ (b = q.current /\ p.calls[b] = n)
      BY <2>4, <2>5
    <3>2. CASE p.calls[b] = q.calls[b]
      BY <1>2, <3>2 DEF Orderly, Keyed
    <3>3. CASE b = q.current /\ p.calls[b] = n
      BY <1>1, <1>2, <3>3, Fields
    <3> QED BY <3>1, <3>2, <3>3
  <2>9. Shown(p)
    BY <1>1, <1>2, <2>4, <2>5, <2>7 DEF Shown
  <2>10. Fresh(p, old)
    <3>1. old \subseteq 1..Len(p.args) /\ n \notin old /\ q.invalidated
      BY <1>1, <1>2 DEF Orderly, Fresh
    <3>2. q.current # NULL => p.calls[q.current] = n \/ p.invalidated
      BY <1>1, <2>4, <2>5, <3>1
    <3>3. ~Cached => p.invalidated
      BY <2>4, <3>1
    <3> QED BY <1>2, <2>4, <3>1, <3>2, <3>3 DEF Fresh
  <2> QED BY <2>6, <2>8, <2>9, <2>10 DEF Orderly, p
<1> QED BY <1>1, <1>3, <1>5, <1>6

-----------------------------------------------------------------------------
(* The steps *)

LEMMA InitIInv == Init => IInv
<1> SUFFICES ASSUME Init PROVE IInv
  OBVIOUS
<1>1. request = NewObject /\ outdated = {} /\ plain = TRUE
  BY DEF Init
<1>2. Sound(request) /\ Orderly(request, outdated)
  BY <1>1, NewIsSound, NewOrderly
<1> QED BY <1>1, <1>2 DEF IInv

LEMMA ExecuteStep == ASSUME IInv, NEW a \in Arg, DoExecute(a) PROVE IInv'
<1>1. /\ Sound(request) /\ CanExecute(request)
      /\ request' = Execute(request, a) /\ outdated' = outdated /\ plain' = plain
  BY DEF IInv, DoExecute
<1>2. Sound(request')
  BY <1>1, ExecuteSound
<1>3. plain => Orderly(request', outdated)
  BY <1>1, ExecuteOrderly DEF IInv
<1> QED BY <1>1, <1>2, <1>3 DEF IInv

LEMMA InvalidateStep ==
    ASSUME IInv, NEW immediately \in BOOLEAN, DoInvalidate(immediately) PROVE IInv'
<1> DEFINE q == Invalidate(request)
           old == IF request.waiting THEN outdated ELSE 1..Len(request.args)
<1>1. /\ Sound(request) /\ CanExecute(request) /\ plain' = plain /\ outdated' = old
      /\ request' = IF immediately /\ request.current # NULL
                    THEN Execute(q, request.current) ELSE q
  BY DEF IInv, DoInvalidate
<1>2. Sound(q) /\ (plain => Orderly(q, old))
  BY <1>1, InvalidateSound, InvalidateOrderly DEF IInv
<1>3. CanExecute(q) /\ request.current \in Arg \cup {NULL}
  <2>1. q.args = request.args
    BY <1>1, Fields, InvalidateFields
  <2> QED BY <1>1, <2>1, Fields DEF CanExecute
<1>4. old \subseteq Execution
  <2>1. Len(request.args) \in Nat /\ Len(request.args) < MaxCalls /\ MaxCalls \in Nat
    BY <1>1, Fields, OpsAssumption DEF CanExecute
  <2>2. 1..Len(request.args) \subseteq Execution
    BY <2>1 DEF Execution
  <2> QED BY <2>2 DEF IInv
<1> HIDE DEF q, old
<1>5. Sound(request') /\ (plain => Orderly(request', old))
  <2>1. CASE request' = q
    BY <1>2, <2>1
  <2>2. CASE request.current \in Arg /\ request' = Execute(q, request.current)
    BY <1>2, <1>3, <2>2, ExecuteSound, ExecuteOrderly
  <2> QED BY <1>1, <1>3, <2>1, <2>2
<1> QED BY <1>1, <1>4, <1>5 DEF IInv

LEMMA OtherStep == ASSUME IInv, DoReset \/ DoCancel \/ DoPatch PROVE IInv'
<1>1. /\ Sound(request) /\ outdated' = outdated /\ plain' = FALSE
      /\ request' \in {Reset(request), Cancel(request), Patch(request)}
  BY DEF IInv, DoReset, DoCancel, DoPatch
<1>2. Sound(request')
  BY <1>1, ResetSound, CancelSound, PatchSound
<1> QED BY <1>1, <1>2 DEF IInv

LEMMA AnswerStep == ASSUME IInv, MethodAnswers PROVE IInv'
<1>1. PICK n \in request.inflight, ok \in BOOLEAN : request' = Respond(request, n, ok)
  BY DEF MethodAnswers
<1>2. Sound(request) /\ outdated' = outdated /\ plain' = plain
  BY DEF IInv, MethodAnswers
<1>3. Sound(request')
  BY <1>1, <1>2, RespondSound
<1>4. plain => Orderly(request', outdated)
  BY <1>1, <1>2, RespondOrderly DEF IInv
<1> QED BY <1>2, <1>3, <1>4 DEF IInv

LEMMA TimerStep == ASSUME IInv, NEW i, TimerFires(i) PROVE IInv'
<1>1. /\ Sound(request) /\ outdated' = outdated /\ plain' = plain
      /\ i \in 1..Len(request.timers) /\ MayFire(request, i)
      /\ request' = Fire(request, i)
  BY DEF IInv, TimerFires
<1>2. Sound(request')
  BY <1>1, FireSound
<1>3. plain => Orderly(request', outdated)
  BY <1>1, FireOrderly DEF IInv
<1> QED BY <1>1, <1>2, <1>3 DEF IInv

-----------------------------------------------------------------------------
(* The theorems *)

\* IInv is inductive: every execute, invalidate, reset, cancel, patch, response and
\* timer keeps it.
THEOREM RequestInductive == Spec => []IInv
<1>1. IInv /\ [Next]_vars => IInv'
  <2> SUFFICES ASSUME IInv, [Next]_vars PROVE IInv'
    OBVIOUS
  <2>1. ASSUME NEW a \in Arg, DoExecute(a) PROVE IInv'
    BY <2>1, ExecuteStep
  <2>2. ASSUME NEW immediately \in BOOLEAN, DoInvalidate(immediately) PROVE IInv'
    BY <2>2, InvalidateStep
  <2>3. CASE DoReset \/ DoCancel \/ DoPatch
    BY <2>3, OtherStep
  <2>4. CASE MethodAnswers
    BY <2>4, AnswerStep
  <2>5. ASSUME NEW i \in 1..Len(request.timers), TimerFires(i) PROVE IInv'
    BY <2>5, TimerStep
  <2>6. CASE UNCHANGED vars
    BY <2>6 DEF vars, IInv
  <2> QED BY <2>1, <2>2, <2>3, <2>4, <2>5, <2>6 DEF Next
<1> QED BY InitIInv, <1>1, PTL DEF Spec

\* The objects of Request.js and CachedRequest.js have the fields they are declared with,
\* whatever their store calls when: what a timer shows was cached before.
THEOREM RequestTypeCorrect == Spec => []TypeOK
<1>1. IInv => TypeOK
  BY DEF IInv, Sound, TypeOK
<1> QED BY RequestInductive, <1>1, PTL

\* Neither isExecuting nor _isWaitingForResponse outlives the last response, whatever
\* was executed, invalidated, reset, cancelled or patched before it came.
THEOREM BusyEnds == Spec => []RestsWhenQuiet
<1>1. IInv => RestsWhenQuiet
  BY SoundRests DEF IInv, RestsWhenQuiet
<1> QED BY RequestInductive, <1>1, PTL

\* What is cached for some arguments (_apiCalls) is what _method returned for these, as
\* long as the request is only executed and invalidated.
THEOREM KeyedByArguments == Spec => []CacheKeyed
<1>1. IInv => CacheKeyed
  BY DEF IInv, Orderly, Keyed, CacheKeyed
<1> QED BY RequestInductive, <1>1, PTL

\* A request at rest shows the result of its current call, also if a later call failed
\* or the arguments changed back and forth.
THEOREM CurrentIsShown == Spec => []ShownIsCurrent
<1>1. IInv => ShownIsCurrent
  <2> SUFFICES ASSUME IInv, plain, Quiet(request), request.current # NULL
               PROVE  request.calls[request.current] \in {NoResult, request.result}
    BY DEF ShownIsCurrent
  <2>1. Len(request.timers) = 0
    BY DEF Quiet
  <2> QED BY <2>1 DEF IInv, Orderly, Shown
<1> QED BY RequestInductive, <1>1, PTL

\* An invalidation while no call is under way is never lost: what was fetched before it
\* does not answer a call, since _isInvalidated stays set until a later response.
THEOREM InvalidationCounts == Spec => []Reissued
<1>1. IInv => Reissued
  BY DEF IInv, Orderly, Fresh, Reissued
<1> QED BY RequestInductive, <1>1, PTL
===============================================================================
