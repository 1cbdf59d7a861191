------------------------------ MODULE RequestOps ------------------------------
(***************************************************************************)
(* The objects the stores wrap every asynchronous API call in:             *)
(* app/stores/lib/Request.js and, with Cached, CachedRequest.js.  Each     *)
(* operator maps the state q of such an object to its next state, so that  *)
(* a store can be composed with the requests it owns.                      *)
(*                                                                         *)
(* The n-th time the wrapped _method is called is execution n; what it     *)
(* returns is the value n, so that a result says where it comes from.      *)
(***************************************************************************)
EXTENDS Naturals, Sequences, SequencesExt

CONSTANTS
    Arg,       \* arguments of execute
    Cached,    \* a CachedRequest, or else a plain Request
    MaxCalls,  \* bound: executions of _method
    NULL

ASSUME OpsAssumption ==
    /\ Cached \in BOOLEAN
    /\ MaxCalls \in Nat
    /\ NULL \notin Arg \cup 0..MaxCalls

NoResult  == 0
Execution == 1..MaxCalls
Result    == Execution \cup {NoResult}

\* A callback of setTimeout.  The promises run theirs in the same task as Respond.
Timer == [delay: {0, 1}, what: {"started", "patch", "done", "failed"},
          show: Arg \cup {NULL}, of: Result]

Object == [result: Result, error: BOOLEAN, isExecuting: BOOLEAN, wasExecuted: BOOLEAN,
           waiting: BOOLEAN,              \* _isWaitingForResponse
           current: Arg \cup {NULL},      \* the arguments of _currentApiCall
           invalidated: BOOLEAN,          \* _isInvalidated
           calls: [Arg -> Result \cup {NULL}],  \* _apiCalls, or the one ApiCall of a Request
           args: Seq(Arg),                \* the arguments of the executions so far
           inflight: SUBSET Execution,    \* the executions _method has not answered
           timers: Seq(Timer)]

NewObject == [result |-> NoResult, error |-> FALSE, isExecuting |-> FALSE,
              wasExecuted |-> FALSE, waiting |-> FALSE, current |-> NULL,
              invalidated |-> TRUE, calls |-> [a \in Arg |-> NULL], args |-> <<>>,
              inflight |-> {}, timers |-> <<>>]

\* The calls once the value v was stored in _currentApiCall, if there is one.
Store(q, v) == IF q.current = NULL THEN q.calls ELSE [q.calls EXCEPT ![q.current] = v]

\* Call _method; isExecuting, and the cached result to show, wait for a timer.
Issue(q, a, show) ==
    [q EXCEPT !.waiting = TRUE, !.args = Append(@, a),
              !.inflight = @ \cup {Len(q.args) + 1},
              !.timers = Append(@, [delay |-> 0, what |-> "started", show |-> show,
                                    of |-> NoResult])]

ExecutePlain(q, a) ==
    IF q.waiting THEN q
    ELSE [Issue(q, a, NULL) EXCEPT !.current = a, !.calls[a] = NoResult]

\* Mutants of ExecuteCached: it does not look whether a call is under way; it does not
\* show the cached result of the call it switches to; it forgets an invalidation.
ExecuteUnguarded(q, a) ==
    LET known == q.calls[a] # NULL
    IN  Issue([q EXCEPT !.current = a, !.calls[a] = IF known THEN @ ELSE NoResult], a,
              IF known THEN a ELSE NULL)
ExecuteShowsOld(q, a) ==
    LET known == q.calls[a] # NULL
    IN  IF q.waiting THEN q
        ELSE Issue([q EXCEPT !.current = a, !.calls[a] = IF known THEN @ ELSE NoResult],
                   a, NULL)

ExecuteForgets(q, a) ==
    LET known    == q.calls[a] # NULL
        switched == [q EXCEPT !.invalidated = ~known \/ q.current # a, !.current = a,
                              !.calls[a] = IF known THEN @ ELSE NoResult]
    IN  IF q.waiting THEN q
        ELSE IF ~switched.invalidated THEN switched
        ELSE Issue(switched, a, IF known THEN a ELSE NULL)

ExecuteCached(q, a) ==
    LET known    == q.calls[a] # NULL
        switched == [q EXCEPT !.invalidated = @ \/ ~known \/ q.current # a, !.current = a,
                              !.calls[a] = IF known THEN @ ELSE NoResult]
    IN  IF q.waiting THEN q
        ELSE IF ~switched.invalidated THEN switched
        ELSE Issue(switched, a, IF known THEN a ELSE NULL)

Execute(q, a) == IF Cached THEN ExecuteCached(q, a) ELSE ExecutePlain(q, a)

CanExecute(q) == Len(q.args) < MaxCalls

Invalidate(q) == [q EXCEPT !.invalidated = TRUE]

\* Mutant of Reset: the result becomes undefined, which is not the null it starts with.
ResetUndefined(q) ==
    [q EXCEPT !.result = NULL, !.error = FALSE, !.isExecuting = FALSE,
              !.wasExecuted = FALSE, !.waiting = FALSE, !.current = NULL]
Reset(q) ==
    [q EXCEPT !.result = NoResult, !.error = FALSE, !.isExecuting = FALSE,
              !.wasExecuted = FALSE, !.waiting = FALSE, !.current = NULL,
              !.invalidated = IF Cached THEN TRUE ELSE @]

Cancel(q) == [q EXCEPT !.isExecuting = FALSE, !.waiting = FALSE, !.current = NULL]

Patch(q) == [q EXCEPT !.timers = Append(@, [delay |-> 0, what |-> "patch", show |-> NULL,
                                             of |-> NoResult])]

\* Mutant of Respond: there is no catch.
RespondUncaught(q, n, ok) ==
    [q EXCEPT !.inflight = @ \ {n},
              !.timers = IF ok THEN Append(@, [delay |-> 1, what |-> "done", show |-> NULL,
                                               of |-> n]) ELSE @]

\* _method answers execution n.  The execution is in currentlyExecuting whatever
\* happened since: only this answer removes it.
Respond(q, n, ok) ==
    [q EXCEPT !.inflight = @ \ {n},
              !.timers = Append(@, [delay |-> 1, what |-> IF ok THEN "done" ELSE "failed",
                                    show |-> NULL, of |-> n])]

\* Timers fire in the order they were set, except that one of delay 0 may overtake.
MayFire(q, i) == \A j \in 1..(i - 1) : q.timers[j].delay > q.timers[i].delay

\* Mutant of Settle: isExecuting is left to the next call.
SettleBusy(q) == [q EXCEPT !.wasExecuted = TRUE, !.waiting = FALSE]
Settle(q) == [q EXCEPT !.isExecuting = FALSE, !.wasExecuted = TRUE, !.waiting = FALSE]

Callback(q, timer) ==
    CASE timer.what = "started" ->
           [q EXCEPT !.isExecuting = TRUE,
                     !.result = IF timer.show = NULL THEN @ ELSE q.calls[timer.show]]
      [] timer.what = "patch" -> [q EXCEPT !.calls = Store(q, q.result)]
      [] timer.what = "done" ->
           [Settle(q) EXCEPT !.result = timer.of, !.calls = Store(q, timer.of),
                             !.error = Cached /\ @,
                             !.invalidated = ~Cached /\ @]
      [] timer.what = "failed" ->
           [Settle(q) EXCEPT !.error = TRUE, !.result = IF Cached THEN @ ELSE NoResult]

\* Mutant of Fire: the timer is an interval.
FireInterval(q, i) == Callback(q, q.timers[i])

Fire(q, i) == Callback([q EXCEPT !.timers = RemoveAt(@, i)], q.timers[i])

\* Nothing is under way.
Quiet(q) == q.inflight = {} /\ q.timers = <<>>
===============================================================================
