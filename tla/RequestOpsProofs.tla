--------------------------- MODULE RequestOpsProofs ---------------------------
(***************************************************************************)
(* What the operators of RequestOps preserve, for any set of arguments and *)
(* any number of calls, and for both kinds of request.                     *)
(***************************************************************************)
EXTENDS RequestOps, SequenceTheorems, TLAPS

\* The timers a response sets; the others have no delay.
Ends(timer) == timer.what \in {"done", "failed"}

TimerOK(q, timer) ==
    /\ timer.delay = IF Ends(timer) THEN 1 ELSE 0
    /\ timer.show # NULL => timer.what = "started" /\ q.calls[timer.show] \in Result

TimersOK(q) == \A i \in 1..Len(q.timers) : TimerOK(q, q.timers[i])

\* A response is still to be processed.
Pending(q) == q.inflight # {} \/ \E i \in 1..Len(q.timers) : Ends(q.timers[i])

\* A response is still to be processed that no timer up to i has processed.
PendingAfter(q, i) == q.inflight # {} \/ \E j \in (i + 1)..Len(q.timers) : Ends(q.timers[j])

\* Who looks busy, or will when its timer fires, waits for a response.
Busy(q) ==
    /\ q.waiting \/ q.isExecuting => Pending(q)
    /\ \A i \in 1..Len(q.timers) : q.timers[i].what = "started" => PendingAfter(q, i)

\* The invariant of a request whatever is called when.
Sound(q) == q \in Object /\ TimersOK(q) /\ Busy(q)

-----------------------------------------------------------------------------
(* Sequences *)

LEMMA Appended ==
    ASSUME NEW S, NEW s \in Seq(S), NEW e \in S
    PROVE  /\ Append(s, e) \in Seq(S)
           /\ Len(Append(s, e)) = Len(s) + 1
           /\ \A i \in 1..Len(s) : Append(s, e)[i] = s[i]
           /\ Append(s, e)[Len(s) + 1] = e
BY AppendProperties

\* RemoveAt leaves what was before i and moves what came after it.
LEMMA Removed ==
    ASSUME NEW S, NEW s \in Seq(S), NEW i \in 1..Len(s)
    PROVE  /\ RemoveAt(s, i) \in Seq(S)
           /\ Len(RemoveAt(s, i)) = Len(s) - 1
           /\ \A j \in 1..(i - 1) : RemoveAt(s, i)[j] = s[j]
           /\ \A j \in i..(Len(s) - 1) : RemoveAt(s, i)[j] = s[j + 1]
<1> DEFINE before == SubSeq(s, 1, i - 1)
           after  == SubSeq(s, i + 1, Len(s))
<1>0. Len(s) \in Nat /\ i \in Int /\ i >= 1 /\ i <= Len(s) /\ i - 1 \in Int /\ i + 1 \in Int
  OBVIOUS
<1>1. \A j \in 1..Len(s) : s[j] \in S
  OBVIOUS
<1>2. /\ before \in Seq(S)
      /\ Len(before) = i - 1
      /\ \A j \in 1..(i - 1) : before[j] = s[j]
  <2>1. /\ before \in Seq(S)
        /\ Len(before) = IF 1 <= i - 1 THEN i - 1 - 1 + 1 ELSE 0
        /\ \A j \in 1..(i - 1 - 1 + 1) : before[j] = s[1 + j - 1]
    BY <1>0, <1>1, SubSeqProperties
  <2> QED BY <1>0, <2>1
<1>3. /\ after \in Seq(S)
      /\ Len(after) = Len(s) - i
      /\ \A j \in 1..(Len(s) - i) : after[j] = s[i + j]
  <2>1. /\ after \in Seq(S)
        /\ Len(after) = IF i + 1 <= Len(s) THEN Len(s) - (i + 1) + 1 ELSE 0
        /\ \A j \in 1..(Len(s) - (i + 1) + 1) : after[j] = s[i + 1 + j - 1]
    BY <1>0, <1>1, SubSeqProperties
  <2> QED BY <1>0, <2>1
<1> HIDE DEF before, after
<1>4. /\ before \o after \in Seq(S)
      /\ Len(before \o after) = Len(before) + Len(after)
      /\ \A j \in 1..(Len(before) + Len(after)) :
            (before \o after)[j] = IF j <= Len(before) THEN before[j] ELSE after[j - Len(before)]
  BY <1>2, <1>3, ConcatProperties
<1>5. RemoveAt(s, i) = before \o after
  BY DEF RemoveAt, before, after
<1>6. \A j \in 1..(i - 1) : (before \o after)[j] = s[j]
  BY <1>0, <1>2, <1>3, <1>4
<1>7. ASSUME NEW j \in i..(Len(s) - 1) PROVE (before \o after)[j] = s[j + 1]
  <2>1. j \in 1..(Len(before) + Len(after)) /\ ~(j <= Len(before)) /\ j - Len(before) \in 1..(Len(s) - i)
        /\ i + (j - Len(before)) = j + 1
    BY <1>0, <1>2, <1>3
  <2> QED BY <1>3, <1>4, <2>1
<1>8. Len(before \o after) = Len(s) - 1
  BY <1>0, <1>2, <1>3, <1>4
<1> QED BY <1>4, <1>5, <1>6, <1>7, <1>8

-----------------------------------------------------------------------------
(* The operators, field by field *)

LEMMA NewSound == NewObject \in Object /\ TimersOK(NewObject) /\ Busy(NewObject)
                  /\ Quiet(NewObject)
<1> USE OpsAssumption
<1>1. NewObject.timers = <<>> /\ NewObject.inflight = {} /\ ~NewObject.waiting /\ ~NewObject.isExecuting
  BY DEF NewObject
<1>2. NewObject \in Object
  BY DEF NewObject, Object, Result, NoResult
<1> QED BY <1>1, <1>2 DEF TimersOK, Busy, Quiet

LEMMA ObjectFields ==
    ASSUME NEW q \in Object
    PROVE  /\ q.result \in Result /\ q.error \in BOOLEAN /\ q.isExecuting \in BOOLEAN
           /\ q.wasExecuted \in BOOLEAN /\ q.waiting \in BOOLEAN
           /\ q.current \in Arg \cup {NULL} /\ q.invalidated \in BOOLEAN
           /\ q.calls \in [Arg -> Result \cup {NULL}] /\ q.args \in Seq(Arg)
           /\ q.inflight \subseteq Execution /\ q.timers \in Seq(Timer)
BY DEF Object

\* A call of _method: its timer joins the others.
LEMMA IssueFields ==
    ASSUME NEW q \in Object, NEW a \in Arg, NEW show \in Arg \cup {NULL}, CanExecute(q)
    PROVE  LET p == Issue(q, a, show)
               timer == [delay |-> 0, what |-> "started", show |-> show, of |-> NoResult]
           IN  /\ p \in Object
               /\ p.result = q.result /\ p.isExecuting = q.isExecuting /\ p.waiting
               /\ p.current = q.current /\ p.invalidated = q.invalidated /\ p.calls = q.calls
               /\ p.args = Append(q.args, a)
               /\ p.inflight = q.inflight \cup {Len(q.args) + 1}
               /\ timer \in Timer
               /\ p.timers = Append(q.timers, timer)
<1> DEFINE p == Issue(q, a, show)
           timer == [delay |-> 0, what |-> "started", show |-> show, of |-> NoResult]
           args == Append(q.args, a)
           inflight == q.inflight \cup {Len(q.args) + 1}
           timers == Append(q.timers, timer)
<1>1. timer \in Timer
  BY DEF Timer, Result, NoResult
<1>2. inflight \in SUBSET Execution
  BY ObjectFields, OpsAssumption DEF CanExecute, Execution
<1>3. args \in Seq(Arg) /\ timers \in Seq(Timer)
  BY ObjectFields, Appended, <1>1
<1>4. p = [q EXCEPT !.waiting = TRUE, !.args = args, !.inflight = inflight, !.timers = timers]
  BY DEF Issue
<1> HIDE DEF timer, args, inflight, timers, p
<1>5. p \in Object
  BY <1>2, <1>3, <1>4 DEF Object
<1>6. /\ p.result = q.result /\ p.isExecuting = q.isExecuting /\ p.waiting
      /\ p.current = q.current /\ p.invalidated = q.invalidated /\ p.calls = q.calls
      /\ p.args = args /\ p.inflight = inflight /\ p.timers = timers
  BY <1>2, <1>3, <1>4 DEF Object
<1> QED BY <1>1, <1>5, <1>6 DEF timer, args, inflight, timers, p

LEMMA ResetFields ==
    ASSUME NEW q \in Object
    PROVE  LET p == Reset(q)
           IN  /\ p \in Object
               /\ p.result = NoResult /\ ~p.isExecuting /\ ~p.waiting
               /\ p.current = NULL /\ p.invalidated = IF Cached THEN TRUE ELSE q.invalidated
               /\ p.calls = q.calls /\ p.args = q.args
               /\ p.inflight = q.inflight /\ p.timers = q.timers
BY OpsAssumption DEF Reset, Object, Result

LEMMA CancelFields ==
    ASSUME NEW q \in Object
    PROVE  LET p == Cancel(q)
           IN  /\ p \in Object
               /\ p.result = q.result /\ ~p.isExecuting /\ ~p.waiting
               /\ p.current = NULL /\ p.invalidated = q.invalidated
               /\ p.calls = q.calls /\ p.args = q.args
               /\ p.inflight = q.inflight /\ p.timers = q.timers
BY DEF Cancel, Object

LEMMA InvalidateFields ==
    ASSUME NEW q \in Object
    PROVE  LET p == Invalidate(q)
           IN  /\ p \in Object
               /\ p.result = q.result /\ p.isExecuting = q.isExecuting /\ p.waiting = q.waiting
               /\ p.current = q.current /\ p.invalidated
               /\ p.calls = q.calls /\ p.args = q.args
               /\ p.inflight = q.inflight /\ p.timers = q.timers
BY DEF Invalidate, Object

\* The object as execute sends it: for the arguments a, with a call for them.
Switched(q, a) ==
    [q EXCEPT !.invalidated = @ \/ ~(q.calls[a] # NULL) \/ q.current # a, !.current = a,
              !.calls[a] = IF q.calls[a] # NULL THEN @ ELSE NoResult]

LEMMA SwitchedFields ==
    ASSUME NEW q \in Object, NEW a \in Arg
    PROVE  LET p == Switched(q, a)
           IN  /\ p \in Object
               /\ p.result = q.result /\ p.isExecuting = q.isExecuting /\ p.waiting = q.waiting
               /\ p.current = a
               /\ p.invalidated <=> q.invalidated \/ q.calls[a] = NULL \/ q.current # a
               /\ p.calls[a] = IF q.calls[a] # NULL THEN q.calls[a] ELSE NoResult
               /\ p.calls[a] \in Result
               /\ \A b \in Arg \ {a} : p.calls[b] = q.calls[b]
               /\ p.args = q.args /\ p.inflight = q.inflight /\ p.timers = q.timers
<1> DEFINE known == q.calls[a] # NULL
           inv == q.invalidated \/ ~known \/ q.current # a
           calls == [q.calls EXCEPT ![a] = IF known THEN @ ELSE NoResult]
           p == Switched(q, a)
<1>1. inv \in BOOLEAN
  OBVIOUS
<1>2. /\ calls \in [Arg -> Result \cup {NULL}]
      /\ calls[a] = IF known THEN q.calls[a] ELSE NoResult
      /\ calls[a] \in Result
      /\ \A b \in Arg \ {a} : calls[b] = q.calls[b]
  BY ObjectFields DEF Result
<1>3. p = [q EXCEPT !.invalidated = inv, !.current = a, !.calls = calls]
  BY DEF Switched, Object
<1> HIDE DEF inv, calls, p
<1>4. p \in Object
  BY <1>1, <1>2, <1>3 DEF Object
<1>5. /\ p.result = q.result /\ p.isExecuting = q.isExecuting /\ p.waiting = q.waiting
      /\ p.current = a /\ p.invalidated = inv /\ p.calls = calls
      /\ p.args = q.args /\ p.inflight = q.inflight /\ p.timers = q.timers
  BY <1>1, <1>2, <1>3 DEF Object
<1> QED BY <1>2, <1>4, <1>5 DEF inv, p

\* An answer of _method: its timer joins the others.
LEMMA RespondFields ==
    ASSUME NEW q \in Object, NEW n \in q.inflight, NEW ok \in BOOLEAN
    PROVE  LET p == Respond(q, n, ok)
               timer == [delay |-> 1, what |-> IF ok THEN "done" ELSE "failed",
                         show |-> NULL, of |-> n]
           IN  /\ p \in Object
               /\ p.result = q.result /\ p.isExecuting = q.isExecuting /\ p.waiting = q.waiting
               /\ p.current = q.current /\ p.invalidated = q.invalidated /\ p.calls = q.calls
               /\ p.args = q.args
               /\ p.inflight = q.inflight \ {n}
               /\ timer \in Timer
               /\ p.timers = Append(q.timers, timer)
<1> DEFINE p == Respond(q, n, ok)
           timer == [delay |-> 1, what |-> IF ok THEN "done" ELSE "failed",
                     show |-> NULL, of |-> n]
           inflight == q.inflight \ {n}
           timers == Append(q.timers, timer)
<1>1. timer \in Timer
  BY ObjectFields DEF Timer, Result
<1>2. inflight \in SUBSET Execution
  BY ObjectFields
<1>3. timers \in Seq(Timer)
  BY ObjectFields, Appended, <1>1
<1>4. p = [q EXCEPT !.inflight = inflight, !.timers = timers]
  BY DEF Respond
<1> HIDE DEF timer, inflight, timers, p
<1>5. p \in Object
  BY <1>2, <1>3, <1>4 DEF Object
<1>6. /\ p.result = q.result /\ p.isExecuting = q.isExecuting /\ p.waiting = q.waiting
      /\ p.current = q.current /\ p.invalidated = q.invalidated /\ p.calls = q.calls
      /\ p.args = q.args /\ p.inflight = inflight /\ p.timers = timers
  BY <1>2, <1>3, <1>4 DEF Object
<1> QED BY <1>1, <1>5, <1>6 DEF timer, inflight, timers, p

LEMMA PatchFields ==
    ASSUME NEW q \in Object
    PROVE  LET p == Patch(q)
               timer == [delay |-> 0, what |-> "patch", show |-> NULL, of |-> NoResult]
           IN  /\ p \in Object
               /\ p.result = q.result /\ p.isExecuting = q.isExecuting /\ p.waiting = q.waiting
               /\ p.current = q.current /\ p.invalidated = q.invalidated /\ p.calls = q.calls
               /\ p.args = q.args /\ p.inflight = q.inflight
               /\ timer \in Timer
               /\ p.timers = Append(q.timers, timer)
<1> DEFINE p == Patch(q)
           timer == [delay |-> 0, what |-> "patch", show |-> NULL, of |-> NoResult]
           timers == Append(q.timers, timer)
<1>1. timer \in Timer
  BY DEF Timer, Result
<1>2. timers \in Seq(Timer)
  BY ObjectFields, Appended, <1>1
<1>3. p = [q EXCEPT !.timers = timers]
  BY DEF Patch
<1> HIDE DEF timer, timers, p
<1>4. p \in Object
  BY <1>2, <1>3 DEF Object
<1>5. /\ p.result = q.result /\ p.isExecuting = q.isExecuting /\ p.waiting = q.waiting
      /\ p.current = q.current /\ p.invalidated = q.invalidated /\ p.calls = q.calls
      /\ p.args = q.args /\ p.inflight = q.inflight /\ p.timers = timers
  BY <1>2, <1>3 DEF Object
<1> QED BY <1>1, <1>4, <1>5 DEF timer, timers, p

LEMMA Stored ==
    ASSUME NEW q \in Object, NEW v \in Result
    PROVE  /\ Store(q, v) \in [Arg -> Result \cup {NULL}]
           /\ \A a \in Arg : Store(q, v)[a] = IF q.current = a THEN v ELSE q.calls[a]
BY ObjectFields, OpsAssumption DEF Store

\* What the callback of a timer does.
LEMMA FireFields ==
    ASSUME NEW q \in Object, TimersOK(q), NEW i \in 1..Len(q.timers)
    PROVE  LET p == Fire(q, i)
               timer == q.timers[i]
           IN  /\ timer \in Timer
               /\ p \in Object
               /\ p.current = q.current /\ p.args = q.args /\ p.inflight = q.inflight
               /\ p.timers = RemoveAt(q.timers, i)
               /\ timer.what = "started" =>
                     /\ p.result = IF timer.show = NULL THEN q.result ELSE q.calls[timer.show]
                     /\ p.isExecuting /\ p.waiting = q.waiting
                     /\ p.calls = q.calls /\ p.invalidated = q.invalidated
               /\ timer.what = "patch" =>
                     /\ p.result = q.result
                     /\ p.isExecuting = q.isExecuting /\ p.waiting = q.waiting
                     /\ p.calls = Store(q, q.result) /\ p.invalidated = q.invalidated
               /\ timer.what = "done" =>
                     /\ p.result = timer.of
                     /\ ~p.isExecuting /\ ~p.waiting
                     /\ p.calls = Store(q, timer.of)
                     /\ p.invalidated <=> ~Cached /\ q.invalidated
               /\ timer.what = "failed" =>
                     /\ p.result = IF Cached THEN q.result ELSE NoResult
                     /\ ~p.isExecuting /\ ~p.waiting
                     /\ p.calls = q.calls /\ p.invalidated = q.invalidated
<1> DEFINE timer == q.timers[i]
           rest == RemoveAt(q.timers, i)
           r == [q EXCEPT !.timers = rest]
           p == Fire(q, i)
<1>1. timer \in Timer /\ rest \in Seq(Timer)
  BY ObjectFields, Removed
<1>2. timer.what \in {"started", "patch", "done", "failed"} /\ timer.of \in Result
      /\ timer.show \in Arg \cup {NULL}
  BY <1>1 DEF Timer
<1>3. timer.show # NULL => q.calls[timer.show] \in Result
  BY DEF TimersOK, TimerOK
<1>4. p = Callback(r, timer)
  BY DEF Fire
<1> HIDE DEF timer, rest, p
<1>5. /\ r \in Object
      /\ r.result = q.result /\ r.error = q.error /\ r.isExecuting = q.isExecuting
      /\ r.waiting = q.waiting /\ r.current = q.current /\ r.invalidated = q.invalidated
      /\ r.calls = q.calls /\ r.args = q.args /\ r.inflight = q.inflight
      /\ r.timers = rest
  BY <1>1 DEF Object
<1> HIDE DEF r
<1>6. \A v \in Result : Store(r, v) = Store(q, v)
  BY <1>5 DEF Store
<1>7. CASE timer.what = "started"
  <2> DEFINE result == IF timer.show = NULL THEN r.result ELSE r.calls[timer.show]
  <2>1. result \in Result
    BY <1>2, <1>3, <1>5, ObjectFields
  <2>2. p = [r EXCEPT !.isExecuting = TRUE, !.result = result]
    BY <1>4, <1>7 DEF Callback
  <2> HIDE DEF result
  <2>3. p \in Object
    BY <1>5, <2>1, <2>2 DEF Object
  <2>4. /\ p.result = result /\ p.isExecuting /\ p.waiting = r.waiting
        /\ p.current = r.current /\ p.args = r.args /\ p.inflight = r.inflight
        /\ p.timers = r.timers /\ p.calls = r.calls /\ p.invalidated = r.invalidated
    BY <1>5, <2>1, <2>2 DEF Object
  <2> QED BY <1>1, <1>5, <1>7, <2>3, <2>4 DEF result, timer, rest, p
<1>8. CASE timer.what = "patch"
  <2> DEFINE calls == Store(q, q.result)
  <2>1. calls \in [Arg -> Result \cup {NULL}]
    BY Stored, ObjectFields
  <2>2. p = [r EXCEPT !.calls = calls]
    BY <1>4, <1>5, <1>6, <1>8, ObjectFields DEF Callback
  <2> HIDE DEF calls
  <2>3. p \in Object
    BY <1>5, <2>1, <2>2 DEF Object
  <2>4. /\ p.result = r.result /\ p.isExecuting = r.isExecuting /\ p.waiting = r.waiting
        /\ p.current = r.current /\ p.args = r.args /\ p.inflight = r.inflight
        /\ p.timers = r.timers /\ p.calls = calls /\ p.invalidated = r.invalidated
    BY <1>5, <2>1, <2>2 DEF Object
  <2> QED BY <1>1, <1>5, <1>8, <2>3, <2>4 DEF calls, timer, rest, p
<1>9. CASE timer.what = "done"
  <2> DEFINE calls == Store(q, timer.of)
             error == Cached /\ r.error
             invalidated == ~Cached /\ r.invalidated
  <2>1. calls \in [Arg -> Result \cup {NULL}] /\ error \in BOOLEAN /\ invalidated \in BOOLEAN
    BY Stored, <1>2
  <2>2. p = [r EXCEPT !.isExecuting = FALSE, !.wasExecuted = TRUE, !.waiting = FALSE,
                      !.result = timer.of, !.calls = calls, !.error = error,
                      !.invalidated = invalidated]
    BY <1>2, <1>4, <1>5, <1>6, <1>9 DEF Callback, Settle, Object
  <2> HIDE DEF calls, error, invalidated
  <2>t. timer.of \in Result
    BY <1>2, <1>9
  <2>3. p \in Object
    <3> DEFINE flagged == [r EXCEPT !.isExecuting = FALSE, !.wasExecuted = TRUE, !.waiting = FALSE,
                                    !.error = error, !.invalidated = invalidated]
    <3>1. flagged \in Object
      BY <1>5, <2>1 DEF Object
    <3>2. p = [flagged EXCEPT !.result = timer.of, !.calls = calls]
      BY <1>5, <2>2 DEF Object
    <3> HIDE DEF flagged
    <3> QED BY <2>t, <2>1, <3>1, <3>2 DEF Object
  <2>4. /\ p.result = timer.of /\ ~p.isExecuting /\ ~p.waiting
        /\ p.current = r.current /\ p.args = r.args /\ p.inflight = r.inflight
        /\ p.timers = r.timers /\ p.calls = calls /\ p.invalidated = invalidated
    BY <1>5, <2>1, <2>2 DEF Object
  <2> QED BY <1>1, <1>5, <1>9, <2>3, <2>4 DEF calls, invalidated, timer, rest, p
<1>10. CASE timer.what = "failed"
  <2> DEFINE result == IF Cached THEN r.result ELSE NoResult
  <2>1. result \in Result
    BY <1>5, ObjectFields DEF Result
  <2>2. p = [r EXCEPT !.isExecuting = FALSE, !.wasExecuted = TRUE, !.waiting = FALSE,
                      !.error = TRUE, !.result = result]
    BY <1>4, <1>5, <1>10 DEF Callback, Settle, Object
  <2> HIDE DEF result
  <2>3. p \in Object
    BY <1>5, <2>1, <2>2 DEF Object
  <2>4. /\ p.result = result /\ ~p.isExecuting /\ ~p.waiting
        /\ p.current = r.current /\ p.args = r.args /\ p.inflight = r.inflight
        /\ p.timers = r.timers /\ p.calls = r.calls /\ p.invalidated = r.invalidated
    BY <1>5, <2>1, <2>2 DEF Object
  <2> QED BY <1>1, <1>5, <1>10, <2>3, <2>4 DEF result, timer, rest, p
<1> QED BY <1>2, <1>7, <1>8, <1>9, <1>10 DEF timer

\* p is q with one more call, for the arguments a.
Called(q, a, p) ==
    LET show  == IF Cached /\ q.calls[a] # NULL THEN a ELSE NULL
        timer == [delay |-> 0, what |-> "started", show |-> show, of |-> NoResult]
    IN  /\ p.result = q.result /\ p.isExecuting = q.isExecuting /\ p.waiting
        /\ p.current = a
        /\ p.invalidated <=> Cached \/ q.invalidated
        /\ p.calls[a] = IF show = a THEN q.calls[a] ELSE NoResult
        /\ p.calls[a] \in Result
        /\ \A b \in Arg \ {a} : p.calls[b] = q.calls[b]
        /\ p.args = Append(q.args, a)
        /\ p.inflight = q.inflight \cup {Len(q.args) + 1}
        /\ timer \in Timer
        /\ p.timers = Append(q.timers, timer)

\* p is q: the arguments are the ones it has a valid result for.
Hit(q, a, p) ==
    /\ Cached /\ ~q.invalidated /\ q.current = a /\ q.calls[a] # NULL
    /\ p.result = q.result /\ p.isExecuting = q.isExecuting /\ p.waiting = q.waiting
    /\ p.current = a /\ ~p.invalidated /\ \A b \in Arg : p.calls[b] = q.calls[b]
    /\ p.args = q.args /\ p.inflight = q.inflight /\ p.timers = q.timers

\* execute does nothing during a call; it calls _method, or has no need to.
LEMMA ExecuteFields ==
    ASSUME NEW q \in Object, NEW a \in Arg, CanExecute(q)
    PROVE  /\ Execute(q, a) \in Object
           /\ q.waiting => Execute(q, a) = q
           /\ ~q.waiting => Called(q, a, Execute(q, a)) \/ Hit(q, a, Execute(q, a))
<1> USE OpsAssumption
<1>0. q.waiting \in BOOLEAN /\ Cached \in BOOLEAN
  BY ObjectFields
<1>1. CASE q.waiting
  BY <1>1 DEF Execute, ExecuteCached, ExecutePlain
<1>2. CASE ~q.waiting /\ ~Cached
  <2> DEFINE i == Issue(q, a, NULL)
             calls == [i.calls EXCEPT ![a] = NoResult]
             p == Execute(q, a)
  <2>1. p = [i EXCEPT !.current = a, !.calls[a] = NoResult]
    BY <1>2 DEF Execute, ExecutePlain
  <2>2. /\ i \in Object
        /\ i.result = q.result /\ i.isExecuting = q.isExecuting /\ i.waiting
        /\ i.invalidated = q.invalidated /\ i.calls = q.calls
        /\ i.args = Append(q.args, a)
        /\ i.inflight = q.inflight \cup {Len(q.args) + 1}
        /\ [delay |-> 0, what |-> "started", show |-> NULL, of |-> NoResult] \in Timer
        /\ i.timers = Append(q.timers, [delay |-> 0, what |-> "started", show |-> NULL,
                                        of |-> NoResult])
    BY IssueFields
  <2> HIDE DEF i
  <2>3. /\ calls \in [Arg -> Result \cup {NULL}] /\ calls[a] = NoResult /\ NoResult \in Result
        /\ \A b \in Arg \ {a} : calls[b] = q.calls[b]
    BY <2>2, ObjectFields DEF Result
  <2>4. p = [i EXCEPT !.current = a, !.calls = calls]
    BY <2>1, <2>2 DEF Object
  <2> HIDE DEF calls, p
  <2>5. p \in Object
    BY <2>2, <2>3, <2>4 DEF Object
  <2>6. /\ p.result = i.result /\ p.isExecuting = i.isExecuting /\ p.waiting = i.waiting
        /\ p.current = a /\ p.invalidated = i.invalidated /\ p.calls = calls
        /\ p.args = i.args /\ p.inflight = i.inflight /\ p.timers = i.timers
    BY <2>2, <2>3, <2>4 DEF Object
  <2>7. Called(q, a, p)
    BY <1>2, <2>2, <2>3, <2>6 DEF Called
  <2> QED BY <1>2, <2>5, <2>7 DEF p
<1>3. CASE ~q.waiting /\ Cached
  <2> DEFINE s == Switched(q, a)
             show == IF q.calls[a] # NULL THEN a ELSE NULL
             p == Execute(q, a)
  <2>1. p = IF ~s.invalidated THEN s ELSE Issue(s, a, show)
    BY <1>3 DEF Execute, ExecuteCached, Switched
  <2>2. /\ s \in Object
        /\ s.result = q.result /\ s.isExecuting = q.isExecuting /\ s.waiting = q.waiting
        /\ s.current = a
        /\ s.invalidated <=> q.invalidated \/ q.calls[a] = NULL \/ q.current # a
        /\ s.calls[a] = IF q.calls[a] # NULL THEN q.calls[a] ELSE NoResult
        /\ s.calls[a] \in Result
        /\ \A b \in Arg \ {a} : s.calls[b] = q.calls[b]
        /\ s.args = q.args /\ s.inflight = q.inflight /\ s.timers = q.timers
    BY SwitchedFields
  <2>3. show \in Arg \cup {NULL} /\ CanExecute(s)
    BY <2>2 DEF CanExecute
  <2> HIDE DEF s, p, show
  <2>4. CASE ~s.invalidated
    <3>1. p = s
      BY <2>1, <2>4
    <3>2. Hit(q, a, p)
      BY <1>3, <2>2, <2>4, <3>1 DEF Hit
    <3> QED BY <1>3, <2>2, <3>1, <3>2 DEF p
  <2>5. CASE s.invalidated
    <3>1. p = Issue(s, a, show)
      BY <2>1, <2>5
    <3> DEFINE timer == [delay |-> 0, what |-> "started", show |-> show, of |-> NoResult]
    <3> DEFINE c == Issue(s, a, show)
    <3>0. s \in Object /\ a \in Arg
      BY <2>2
    <3>4. /\ c \in Object
          /\ c.result = s.result /\ c.isExecuting = s.isExecuting /\ c.waiting
          /\ c.current = s.current /\ c.invalidated = s.invalidated /\ c.calls = s.calls
          /\ c.args = Append(s.args, a)
          /\ c.inflight = s.inflight \cup {Len(s.args) + 1}
          /\ timer \in Timer
          /\ c.timers = Append(s.timers, timer)
      BY <3>0, <2>3, IssueFields
    <3>2. /\ p \in Object
          /\ p.result = s.result /\ p.isExecuting = s.isExecuting /\ p.waiting
          /\ p.current = s.current /\ p.invalidated = s.invalidated /\ p.calls = s.calls
          /\ p.args = Append(s.args, a)
          /\ p.inflight = s.inflight \cup {Len(s.args) + 1}
          /\ timer \in Timer
          /\ p.timers = Append(s.timers, timer)
      BY <3>1, <3>4
    <3>3. Called(q, a, p)
      BY <1>3, <2>2, <2>5, <3>2 DEF Called, show
    <3> QED BY <1>3, <3>2, <3>3 DEF p
  <2> QED BY <2>2, <2>4, <2>5, ObjectFields
<1> QED BY <1>0, <1>1, <1>2, <1>3

-----------------------------------------------------------------------------
(* Sound is kept *)

LEMMA NewIsSound == Sound(NewObject)
BY NewSound DEF Sound

\* A timer of q is one of Timer, with arguments that were executed.
LEMMA TimerFields ==
    ASSUME NEW q \in Object, NEW i \in 1..Len(q.timers)
    PROVE  /\ q.timers[i] \in Timer /\ q.timers[i].delay \in {0, 1}
           /\ q.timers[i].show \in Arg \cup {NULL} /\ q.timers[i].of \in Result
           /\ q.timers[i].what \in {"started", "patch", "done", "failed"}
<1>1. q.timers[i] \in Timer
  BY ObjectFields
<1> QED BY <1>1 DEF Timer

LEMMA FrameSound ==
    ASSUME NEW q, Sound(q), NEW p \in Object,
           p.timers = q.timers, p.inflight = q.inflight,
           \A b \in Arg : p.calls[b] = q.calls[b],
           p.waiting => q.waiting, p.isExecuting => q.isExecuting
    PROVE  Sound(p)
<1>1. TimersOK(p)
  <2> SUFFICES ASSUME NEW i \in 1..Len(p.timers) PROVE TimerOK(p, p.timers[i])
    BY DEF TimersOK
  <2>1. TimerOK(q, p.timers[i]) /\ p.timers[i].show \in Arg \cup {NULL}
    BY TimerFields DEF Sound, TimersOK
  <2> QED BY <2>1 DEF TimerOK
<1>2. Busy(p)
  BY DEF Sound, Busy, Pending, PendingAfter
<1> QED BY <1>1, <1>2 DEF Sound

LEMMA CalledSound ==
    ASSUME NEW q, Sound(q), NEW a \in Arg, NEW p \in Object, Called(q, a, p)
    PROVE  Sound(p)
<1> DEFINE show  == IF Cached /\ q.calls[a] # NULL THEN a ELSE NULL
           timer == [delay |-> 0, what |-> "started", show |-> show, of |-> NoResult]
<1>1. /\ timer \in Timer /\ p.timers = Append(q.timers, timer)
      /\ p.calls[a] \in Result
      /\ \A b \in Arg \ {a} : p.calls[b] = q.calls[b]
      /\ p.inflight # {}
  BY DEF Called
<1>2. timer.delay = 0 /\ timer.what = "started" /\ timer.show \in {a, NULL}
  OBVIOUS
<1>3. q \in Object /\ q.timers \in Seq(Timer) /\ Len(q.timers) \in Nat
  BY ObjectFields DEF Sound
<1> HIDE DEF timer
<1>4. /\ Len(p.timers) = Len(q.timers) + 1
      /\ \A i \in 1..Len(q.timers) : p.timers[i] = q.timers[i]
      /\ p.timers[Len(q.timers) + 1] = timer
  BY <1>1, <1>3, Appended
<1>5. TimersOK(p)
  <2> SUFFICES ASSUME NEW i \in 1..Len(p.timers) PROVE TimerOK(p, p.timers[i])
    BY DEF TimersOK
  <2>1. CASE i = Len(q.timers) + 1
    BY <2>1, <1>1, <1>2, <1>4 DEF TimerOK, Ends
  <2>2. CASE i \in 1..Len(q.timers)
    <3>1. TimerOK(q, q.timers[i]) /\ q.timers[i].show \in Arg \cup {NULL}
      BY <1>3, <2>2, TimerFields DEF Sound, TimersOK
    <3> QED BY <1>1, <1>4, <2>2, <3>1 DEF TimerOK
  <2> QED BY <1>3, <1>4, <2>1, <2>2
<1>6. Busy(p)
  BY <1>1 DEF Busy, Pending, PendingAfter
<1> QED BY <1>5, <1>6 DEF Sound

LEMMA ExecuteSound ==
    ASSUME NEW q, Sound(q), NEW a \in Arg, CanExecute(q)
    PROVE  Sound(Execute(q, a))
<1> DEFINE p == Execute(q, a)
<1>1. /\ q \in Object /\ p \in Object
      /\ q.waiting => p = q
      /\ ~q.waiting => Called(q, a, p) \/ Hit(q, a, p)
  BY ExecuteFields DEF Sound
<1> HIDE DEF p
<1>2. CASE q.waiting
  BY <1>1, <1>2 DEF p
<1>3. CASE Called(q, a, p)
  BY <1>1, <1>3, CalledSound DEF p
<1>4. CASE Hit(q, a, p)
  <2>1. /\ p.timers = q.timers /\ p.inflight = q.inflight
        /\ \A b \in Arg : p.calls[b] = q.calls[b]
        /\ p.waiting = q.waiting /\ p.isExecuting = q.isExecuting
    BY <1>4 DEF Hit
  <2> QED BY <1>1, <2>1, FrameSound DEF p
<1> QED BY <1>1, <1>2, <1>3, <1>4

LEMMA ResetSound ==
    ASSUME NEW q, Sound(q) PROVE Sound(Reset(q)) /\ Len(Reset(q).args) = Len(q.args)
<1> DEFINE p == Reset(q)
<1>1. /\ p \in Object /\ ~p.isExecuting /\ ~p.waiting /\ p.calls = q.calls
      /\ p.inflight = q.inflight /\ p.timers = q.timers /\ p.args = q.args
  BY ResetFields DEF Sound
<1> HIDE DEF p
<1>2. Sound(p)
  BY <1>1, FrameSound
<1> QED BY <1>1, <1>2 DEF p

LEMMA CancelSound ==
    ASSUME NEW q, Sound(q) PROVE Sound(Cancel(q))
<1> DEFINE p == Cancel(q)
<1>1. /\ p \in Object /\ ~p.isExecuting /\ ~p.waiting /\ p.calls = q.calls
      /\ p.inflight = q.inflight /\ p.timers = q.timers
  BY CancelFields DEF Sound
<1> HIDE DEF p
<1>2. Sound(p)
  BY <1>1, FrameSound
<1> QED BY <1>2 DEF p

LEMMA InvalidateSound ==
    ASSUME NEW q, Sound(q) PROVE Sound(Invalidate(q))
<1> DEFINE p == Invalidate(q)
<1>1. /\ p \in Object /\ p.isExecuting = q.isExecuting /\ p.waiting = q.waiting
      /\ p.calls = q.calls /\ p.inflight = q.inflight /\ p.timers = q.timers
  BY InvalidateFields DEF Sound
<1> HIDE DEF p
<1>2. Sound(p)
  BY <1>1, FrameSound
<1> QED BY <1>2 DEF p

\* The answer of an execution sets a timer behind all others, so that each "started"
\* has one behind it.
LEMMA RespondSound ==
    ASSUME NEW q, Sound(q), NEW n \in q.inflight, NEW ok \in BOOLEAN
    PROVE  Sound(Respond(q, n, ok))
<1> DEFINE p == Respond(q, n, ok)
           timer == [delay |-> 1, what |-> IF ok THEN "done" ELSE "failed",
                     show |-> NULL, of |-> n]
<1>1. q \in Object /\ q.timers \in Seq(Timer) /\ Len(q.timers) \in Nat
  BY ObjectFields DEF Sound
<1>2. /\ p \in Object
      /\ p.isExecuting = q.isExecuting /\ p.waiting = q.waiting /\ p.calls = q.calls
      /\ timer \in Timer /\ p.timers = Append(q.timers, timer)
  BY <1>1, RespondFields
<1>3. timer.delay = 1 /\ Ends(timer) /\ timer.show = NULL /\ timer.what # "started"
  BY DEF Ends
<1> HIDE DEF p, timer
<1>4. /\ Len(p.timers) = Len(q.timers) + 1
      /\ \A i \in 1..Len(q.timers) : p.timers[i] = q.timers[i]
      /\ p.timers[Len(q.timers) + 1] = timer
  BY <1>1, <1>2, Appended
<1>5. TimersOK(p)
  BY <1>1, <1>2, <1>3, <1>4 DEF TimersOK, TimerOK, Sound
<1>6. Busy(p)
  <2>1. Len(q.timers) + 1 \in 1..Len(p.timers) /\ Ends(p.timers[Len(q.timers) + 1])
    BY <1>1, <1>3, <1>4
  <2>2. Pending(p)
    BY <2>1 DEF Pending
  <2>3. ASSUME NEW i \in 1..Len(p.timers), p.timers[i].what = "started"
        PROVE  PendingAfter(p, i)
    <3>1. i \in Int /\ i # Len(q.timers) + 1
      BY <1>3, <1>4, <2>3
    <3>2. Len(q.timers) + 1 \in (i + 1)..Len(p.timers)
      BY <1>1, <1>4, <3>1
    <3> QED BY <2>1, <3>2 DEF PendingAfter
  <2> QED BY <2>2, <2>3 DEF Busy
<1> QED BY <1>2, <1>5, <1>6 DEF Sound, p

LEMMA PatchSound ==
    ASSUME NEW q, Sound(q) PROVE Sound(Patch(q))
<1> DEFINE p == Patch(q)
           timer == [delay |-> 0, what |-> "patch", show |-> NULL, of |-> NoResult]
<1>1. q \in Object /\ q.timers \in Seq(Timer) /\ Len(q.timers) \in Nat
  BY ObjectFields DEF Sound
<1>2. /\ p \in Object
      /\ p.isExecuting = q.isExecuting /\ p.waiting = q.waiting /\ p.calls = q.calls
      /\ p.inflight = q.inflight
      /\ timer \in Timer /\ p.timers = Append(q.timers, timer)
  BY <1>1, PatchFields
<1>3. timer.delay = 0 /\ ~Ends(timer) /\ timer.show = NULL /\ timer.what # "started"
  BY DEF Ends
<1> HIDE DEF p, timer
<1>4. /\ Len(p.timers) = Len(q.timers) + 1
      /\ \A i \in 1..Len(q.timers) : p.timers[i] = q.timers[i]
      /\ p.timers[Len(q.timers) + 1] = timer
  BY <1>1, <1>2, Appended
<1>5. TimersOK(p)
  BY <1>1, <1>2, <1>3, <1>4 DEF TimersOK, TimerOK, Sound
<1>6. ASSUME NEW i \in 1..Len(q.timers), PendingAfter(q, i)
      PROVE  PendingAfter(p, i)
  BY <1>1, <1>2, <1>4, <1>6 DEF PendingAfter
<1>7. Pending(q) => Pending(p)
  BY <1>1, <1>2, <1>4 DEF Pending
<1>8. Busy(p)
  BY <1>1, <1>2, <1>3, <1>4, <1>6, <1>7 DEF Busy, Sound
<1> QED BY <1>2, <1>5, <1>8 DEF Sound, p

\* A response is the first timer when it fires, so that no "started" before it is left.
LEMMA FireSound ==
    ASSUME NEW q, Sound(q), NEW i \in 1..Len(q.timers), MayFire(q, i)
    PROVE  Sound(Fire(q, i))
<1> DEFINE p == Fire(q, i)
           timer == q.timers[i]
<1>1. q \in Object /\ q.timers \in Seq(Timer) /\ Len(q.timers) \in Nat /\ i \in Nat
  BY ObjectFields DEF Sound
<1>2. /\ p \in Object /\ timer \in Timer
      /\ p.inflight = q.inflight /\ p.timers = RemoveAt(q.timers, i)
  BY <1>1, FireFields DEF Sound
<1>3. /\ p.isExecuting \/ p.waiting =>
            timer.what = "started" \/ (~Ends(timer) /\ (q.isExecuting \/ q.waiting))
      /\ p.calls = q.calls \/ \E v \in Result : p.calls = Store(q, v)
  <2>1. timer.what \in {"started", "patch", "done", "failed"} /\ timer.of \in Result
        /\ q.result \in Result
    BY <1>1, TimerFields, ObjectFields
  <2>2. CASE timer.what = "started"
    BY <1>1, <2>2, FireFields DEF Sound
  <2>3. CASE timer.what = "patch"
    <3>1. /\ p.isExecuting = q.isExecuting /\ p.waiting = q.waiting
          /\ p.calls = Store(q, q.result)
      BY <1>1, <2>3, FireFields DEF Sound
    <3> QED BY <2>1, <2>3, <3>1 DEF Ends
  <2>4. CASE timer.what = "done"
    <3>1. ~p.isExecuting /\ ~p.waiting /\ p.calls = Store(q, timer.of)
      BY <1>1, <2>4, FireFields DEF Sound
    <3> QED BY <2>1, <3>1
  <2>5. CASE timer.what = "failed"
    <3>1. ~p.isExecuting /\ ~p.waiting /\ p.calls = q.calls
      BY <1>1, <2>5, FireFields DEF Sound
    <3> QED BY <3>1
  <2> QED BY <2>1, <2>2, <2>3, <2>4, <2>5
<1>4. \A b \in Arg : q.calls[b] \in Result => p.calls[b] \in Result
  BY <1>1, <1>3, Stored
<1> HIDE DEF p
<1>5. /\ Len(p.timers) = Len(q.timers) - 1
      /\ \A j \in 1..(i - 1) : p.timers[j] = q.timers[j]
      /\ \A j \in i..(Len(q.timers) - 1) : p.timers[j] = q.timers[j + 1]
  <2> DEFINE s == q.timers
  <2>1. s \in Seq(Timer) /\ i \in 1..Len(s) /\ p.timers = RemoveAt(s, i)
    BY <1>1, <1>2
  <2> HIDE DEF s
  <2>2. /\ Len(RemoveAt(s, i)) = Len(s) - 1
        /\ \A j \in 1..(i - 1) : RemoveAt(s, i)[j] = s[j]
        /\ \A j \in i..(Len(s) - 1) : RemoveAt(s, i)[j] = s[j + 1]
    BY <2>1, Removed
  <2>3. /\ Len(p.timers) = Len(s) - 1
        /\ \A j \in 1..(i - 1) : p.timers[j] = s[j]
        /\ \A j \in i..(Len(s) - 1) : p.timers[j] = s[j + 1]
    BY <2>1, <2>2
  <2> QED BY <2>3 DEF s
<1>6. TimersOK(p)
  <2> SUFFICES ASSUME NEW j \in 1..Len(p.timers) PROVE TimerOK(p, p.timers[j])
    BY DEF TimersOK
  <2>1. PICK k \in 1..Len(q.timers) : p.timers[j] = q.timers[k]
    <3>1. CASE j \in 1..(i - 1)
      BY <1>1, <1>5, <3>1
    <3>2. CASE j \in i..(Len(q.timers) - 1)
      <4>1. j + 1 \in 1..Len(q.timers) /\ p.timers[j] = q.timers[j + 1]
        BY <1>1, <1>5, <3>2
      <4> QED BY <4>1
    <3> QED BY <1>1, <1>5, <3>1, <3>2
  <2>2. TimerOK(q, q.timers[k]) /\ q.timers[k].show \in Arg \cup {NULL}
    BY <1>1, TimerFields DEF Sound, TimersOK
  <2> QED BY <1>4, <2>1, <2>2 DEF TimerOK
\* A response that is not the one that fires is still there.
<1>7. ASSUME NEW m \in 1..Len(q.timers), m # i
      PROVE  LET j == IF m < i THEN m ELSE m - 1
             IN  j \in 1..Len(p.timers) /\ p.timers[j] = q.timers[m]
  <2>1. CASE m < i
    BY <1>1, <1>5, <2>1
  <2>2. CASE m > i
    <3>1. m - 1 \in i..(Len(q.timers) - 1) /\ m - 1 + 1 = m
      BY <1>1, <2>2
    <3> QED BY <1>1, <1>5, <2>2, <3>1
  <2> QED BY <1>1, <1>7, <2>1, <2>2
\* What waits at k in q for a response behind it, waits at j in p.
<1>8. ASSUME NEW j \in 1..Len(p.timers), NEW k \in 1..Len(q.timers),
             j = (IF k < i THEN k ELSE k - 1), k # i, ~Ends(timer) \/ i = 1, PendingAfter(q, k)
      PROVE  PendingAfter(p, j)
  <2>1. CASE q.inflight # {}
    BY <1>2, <2>1 DEF PendingAfter
  <2>2. ASSUME NEW m \in (k + 1)..Len(q.timers), Ends(q.timers[m])
        PROVE  PendingAfter(p, j)
    <3> DEFINE n == IF m < i THEN m ELSE m - 1
    <3>1. m \in 1..Len(q.timers) /\ m # i
      BY <1>1, <1>8, <2>2
    <3>2. n \in 1..Len(p.timers) /\ p.timers[n] = q.timers[m]
      BY <1>7, <3>1
    <3>3. n \in (j + 1)..Len(p.timers)
      BY <1>1, <1>5, <1>8, <3>1, <3>2
    <3> QED BY <2>2, <3>2, <3>3 DEF PendingAfter
  <2> QED BY <1>8, <2>1, <2>2 DEF PendingAfter
<1>9. Ends(timer) => i = 1
  <2> SUFFICES ASSUME Ends(timer), i # 1 PROVE FALSE
    OBVIOUS
  <2>1. timer.delay = 1
    BY DEF Sound, TimersOK, TimerOK
  <2>2. 1 \in 1..(i - 1) /\ 1 \in 1..Len(q.timers)
    BY <1>1
  <2>3. q.timers[1].delay \in {0, 1} /\ q.timers[1].delay > timer.delay
    BY <1>1, <2>2, TimerFields DEF MayFire
  <2> QED BY <2>1, <2>3
<1>10. p.isExecuting \/ p.waiting => Pending(p)
  <2> SUFFICES ASSUME p.isExecuting \/ p.waiting PROVE Pending(p)
    OBVIOUS
  <2>1. ~Ends(timer)
    BY <1>3 DEF Ends, p
  <2>2. Pending(q)
    <3>1. CASE timer.what = "started"
      <4>1. PendingAfter(q, i)
        BY <3>1 DEF Sound, Busy
      <4> QED BY <1>1, <4>1 DEF PendingAfter, Pending
    <3>2. CASE q.isExecuting \/ q.waiting
      BY <3>2 DEF Sound, Busy
    <3> QED BY <1>3, <3>1, <3>2 DEF p
  <2>3. CASE q.inflight # {}
    BY <1>2, <2>3 DEF Pending, p
  <2>4. ASSUME NEW m \in 1..Len(q.timers), Ends(q.timers[m]) PROVE Pending(p)
    <3>1. m # i
      BY <2>1, <2>4
    <3> DEFINE j == IF m < i THEN m ELSE m - 1
    <3>2. j \in 1..Len(p.timers) /\ p.timers[j] = q.timers[m]
      BY <1>7, <3>1
    <3> QED BY <2>4, <3>2 DEF Pending
  <2> QED BY <2>2, <2>3, <2>4 DEF Pending
<1>11. ASSUME NEW j \in 1..Len(p.timers), p.timers[j].what = "started"
       PROVE  PendingAfter(p, j)
  <2> DEFINE k == IF j < i THEN j ELSE j + 1
  <2>1. k \in 1..Len(q.timers) /\ k # i /\ q.timers[k] = p.timers[j]
        /\ j = (IF k < i THEN k ELSE k - 1)
    BY <1>1, <1>5
  <2> HIDE DEF k
  <2>2. PendingAfter(q, k)
    BY <1>11, <2>1 DEF Sound, Busy
  <2> QED BY <1>8, <1>9, <2>1, <2>2
<1>12. Busy(p)
  BY <1>10, <1>11 DEF Busy
<1> QED BY <1>2, <1>6, <1>12 DEF Sound, p

\* What the stores need of it: an object at rest does not look busy.
LEMMA SoundRests == ASSUME NEW q, Sound(q), Quiet(q) PROVE ~q.isExecuting /\ ~q.waiting
<1>1. q.inflight = {} /\ Len(q.timers) = 0
  BY DEF Quiet
<1> QED BY <1>1 DEF Sound, Busy, Pending
===============================================================================
