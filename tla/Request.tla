-------------------------------- MODULE Request --------------------------------
(***************************************************************************)
(* One Request or CachedRequest (app/stores/lib) used by a store: any      *)
(* order of calls, of the answers of its _method and of its timers.  The   *)
(* operations the stores do not use everywhere are switched on by Env.     *)
(***************************************************************************)
EXTENDS RequestOps, Naturals, Sequences

CONSTANT Env   \* the operations used besides execute

ASSUME EnvAssumption == Env \subseteq {"invalidate", "reset", "cancel", "patch"}

VARIABLES
    request,   \* the object
    outdated,  \* history: the executions made before the last invalidate() that came
               \* while no call was under way
    plain      \* history: only execute and invalidate were used so far

vars == <<request, outdated, plain>>

TypeOK ==
    /\ request \in Object
    /\ outdated \subseteq Execution
    /\ plain \in BOOLEAN

Init ==
    /\ request = NewObject
    /\ outdated = {}
    /\ plain = TRUE

DoExecute(a) ==
    /\ CanExecute(request)
    /\ request' = Execute(request, a)
    /\ UNCHANGED <<outdated, plain>>

\* invalidate(); immediately: execute again with the current arguments.
DoInvalidate(immediately) ==
    /\ "invalidate" \in Env /\ CanExecute(request)
    /\ request' = IF immediately /\ request.current # NULL
                  THEN Execute(Invalidate(request), request.current)
                  ELSE Invalidate(request)
    /\ outdated' = IF request.waiting THEN outdated ELSE 1..Len(request.args)
    /\ UNCHANGED plain

DoReset ==
    /\ "reset" \in Env
    /\ request' = Reset(request)
    /\ plain' = FALSE
    /\ UNCHANGED outdated

DoCancel ==
    /\ "cancel" \in Env
    /\ request' = Cancel(request)
    /\ plain' = FALSE
    /\ UNCHANGED outdated

\* One patch at a time (a bound).
DoPatch ==
    /\ "patch" \in Env
    /\ \A i \in 1..Len(request.timers) : request.timers[i].what # "patch"
    /\ request' = Patch(request)
    /\ plain' = FALSE
    /\ UNCHANGED outdated

MethodAnswers ==
    /\ \E n \in request.inflight, ok \in BOOLEAN : request' = Respond(request, n, ok)
    /\ UNCHANGED <<outdated, plain>>

TimerFires(i) ==
    /\ i \in 1..Len(request.timers) /\ MayFire(request, i)
    /\ request' = Fire(request, i)
    /\ UNCHANGED <<outdated, plain>>

Next ==
    \/ \E a \in Arg : DoExecute(a)
    \/ \E immediately \in BOOLEAN : DoInvalidate(immediately)
    \/ DoReset \/ DoCancel \/ DoPatch
    \/ MethodAnswers
    \/ \E i \in 1..Len(request.timers) : TimerFires(i)

Spec == Init /\ [][Next]_vars

\* Calls of the API end, one way or the other, and the browser runs each timer in the
\* end, however many others are set.
FairSpec == Spec /\ WF_vars(MethodAnswers) /\ WF_vars(TimerFires(1))

-----------------------------------------------------------------------------

\* What is cached for some arguments is what _method returned for these arguments, as
\* long as the request is only executed and invalidated.
CacheKeyed ==
    plain => \A a \in Arg : request.calls[a] \in Execution => request.args[request.calls[a]] = a

\* Once a CachedRequest is at rest, what it shows is what it has for its current call,
\* also if a later call failed or the current call changed back and forth.
ShownIsCurrent ==
    LET q == request
    IN  plain /\ Quiet(q) /\ q.current # NULL => q.calls[q.current] \in {NoResult, q.result}

\* A request at rest does not look busy: neither the spinner of its page nor the guard
\* that ignores calls outlives the last response, whatever was reset or cancelled.
RestsWhenQuiet == Quiet(request) => ~request.isExecuting /\ ~request.waiting

\* Every call that was let through ends with the guard lifted.
Returns == request.waiting ~> ~request.waiting

\* An invalidation that comes while no call is under way is never lost: no call is
\* answered from the cache with what was fetched before it (CachedRequest.invalidate:
\* "Invalidate cache so the request can get reissued").  One that comes while a call is
\* under way is lost, whenever that call was made: its response clears _isInvalidated.
Reissued ==
    LET q == request
    IN  plain /\ ~q.waiting /\ q.current # NULL /\ q.calls[q.current] \in outdated
            => q.invalidated
===============================================================================
