--------------------------- MODULE TransactionBuilder ---------------------------
(***************************************************************************)
(* The send page: app/stores/toplevel/TransactionBuilderStore.js, the      *)
(* Request createUnsignedTx it owns, and the form and the preview step of  *)
(* WalletSendFormRevamp.js.  Whenever the amounts or the history of the    *)
(* wallet change, reactions throw away the planned transaction and have it *)
(* built again; the user reviews a copy of it, the tentative transaction.  *)
(*                                                                         *)
(* The awaits of _updateTxBuilder before it calls execute end in the same  *)
(* task, so that a reaction is one step.                                   *)
(***************************************************************************)
EXTENDS Naturals, Sequences

CONSTANTS
    Receiver,  \* addresses the user may enter
    Amount,    \* contents of plannedTxInfoMap the user may enter
    Env,       \* what users and the API may do besides (see EnvKind)
    MaxHash,   \* bound: changes of the history
    MaxSlot,   \* bound: slots that begin
    MaxCalls,  \* bound: builds
    NULL

EnvKind == {"edit_receiver", \* the receiver is changed after the amount was entered
            "impatient",     \* the amount is cleared, or the page left, during a build
            "fails",         \* builds fail
            "reorder"}       \* a later build may be answered first

ASSUME ConstantsAssumption ==
    /\ Env \subseteq EnvKind
    /\ {MaxHash, MaxSlot, MaxCalls} \subseteq Nat
    /\ NULL \notin Receiver \cup Amount

\* What a build depends on.  The slot is the time to live of the transaction.
Draft == [receiver: Receiver, amount: Amount, hash: 0..MaxHash, slot: 0..MaxSlot]

ASSUME NullAssumption == NULL \notin Draft \cup 0..MaxCalls

R == INSTANCE RequestOps WITH Arg <- Draft, Cached <- FALSE

VARIABLES
    receiver, amount,  \* the form; NULL is an empty or invalid field
    hash,              \* stores.transactions.hash
    slot,              \* absSlotNumber
    request,           \* createUnsignedTx
    planned,           \* plannedTx: the build it is from
    tentative,         \* tentativeTx
    mismatch,          \* txMismatch
    step,              \* what the page shows
    regular            \* history: nothing of Env happened so far

vars == <<receiver, amount, hash, slot, request, planned, tentative, mismatch, step, regular>>

TypeOK ==
    /\ receiver \in Receiver \cup {NULL} /\ amount \in Amount \cup {NULL}
    /\ hash \in 0..MaxHash /\ slot \in 0..MaxSlot
    /\ request \in R!Object
    /\ {planned, tentative} \subseteq R!Result
    /\ mismatch \in BOOLEAN
    /\ step \in {"form", "preview"}
    /\ regular \in BOOLEAN

Init ==
    /\ receiver = NULL /\ amount = NULL
    /\ hash = 0 /\ slot = 0
    /\ request = R!NewObject
    /\ planned = R!NoResult /\ tentative = R!NoResult
    /\ mismatch = FALSE
    /\ step = "form"
    /\ regular = TRUE

-----------------------------------------------------------------------------
(* The store *)

\* isEqual compares the bytes of the two transactions.
SameTx(m, n) == request.args[m] = request.args[n]

\* Mutant of TxMismatch: there is no answer while a transaction is recalculated.
TxMismatchUndefined(p, t) == IF R!NoResult \in {p, t} THEN NULL ELSE ~SameTx(p, t)

\* _txMismatch
TxMismatch(p, t) ==
    IF R!NoResult \in {p, t} THEN mismatch ELSE ~SameTx(p, t)

\* Mutant of ResultIs: no reaction compares the new plannedTx.
ResultUnseen(q) == request' = q /\ planned' = q.result /\ UNCHANGED mismatch

\* The reactions to a new result of createUnsignedTx and to a new plannedTx.
ResultIs(q) ==
    /\ request' = q
    /\ planned' = q.result
    /\ mismatch' = IF planned' = planned THEN mismatch ELSE TxMismatch(planned', tentative)

CanCompute(r, a) == r # NULL /\ a # NULL

\* Mutant of UpdateTxBuilder: the request is not reset, so a build under way is kept.
UpdateTxBuilderKeeps(a, h) ==
    ResultIs(IF CanCompute(receiver, a)
             THEN R!Execute(request, [receiver |-> receiver, amount |-> a, hash |-> h,
                                      slot |-> slot])
             ELSE R!Reset(request))

\* _updateTxBuilder, run by its reaction with the new amount and history.
UpdateTxBuilder(a, h) ==
    LET q == R!Reset(request)
    IN  ResultIs(IF CanCompute(receiver, a)
                 THEN R!Execute(q, [receiver |-> receiver, amount |-> a, hash |-> h,
                                    slot |-> slot])
                 ELSE q)

-----------------------------------------------------------------------------
(* Steps *)

\* A step that is of the kind k of Env if condition holds.
Unless(condition, k) ==
    /\ condition => k \in Env
    /\ regular' = (regular /\ ~condition)

\* _updateReceiver: no reaction reads the receiver.
UpdateReceiver(r) ==
    /\ step = "form" /\ r # receiver
    /\ Unless(amount # NULL, "edit_receiver")
    /\ receiver' = r
    /\ UNCHANGED <<amount, hash, slot, request, planned, tentative, mismatch, step>>

UpdateAmount(a) ==
    /\ step = "form" /\ a # amount
    /\ Unless(a = NULL /\ ~R!Quiet(request), "impatient")
    /\ R!CanExecute(request)
    /\ amount' = a
    /\ UpdateTxBuilder(a, hash)
    /\ UNCHANGED <<receiver, hash, slot, tentative, step>>

\* The wallet was synchronised and its transactions changed.
HistoryChanges ==
    /\ hash < MaxHash /\ R!CanExecute(request)
    /\ hash' = hash + 1
    /\ UpdateTxBuilder(amount, hash + 1)
    /\ UNCHANGED <<receiver, amount, slot, tentative, step, regular>>

SlotBegins ==
    /\ slot < MaxSlot
    /\ slot' = slot + 1
    /\ UNCHANGED <<receiver, amount, hash, request, planned, tentative, mismatch, step, regular>>

\* createUnsignedTx of the API answers.
Built ==
    /\ \E n \in request.inflight :
          \/ /\ Unless(\E m \in request.inflight : m < n, "reorder")
             /\ ResultIs(R!Respond(request, n, TRUE))
          \/ /\ Unless(TRUE, "fails")
             /\ ResultIs(R!Respond(request, n, FALSE))
    /\ UNCHANGED <<receiver, amount, hash, slot, tentative, step>>

TimerFires(i) ==
    /\ i \in 1..Len(request.timers) /\ R!MayFire(request, i)
    /\ ResultIs(R!Fire(request, i))
    /\ UNCHANGED <<receiver, amount, hash, slot, tentative, step, regular>>

\* The Next button, enabled once there is a fee: _updateTentativeTx.
Submit ==
    /\ step = "form" /\ planned # R!NoResult
    /\ step' = "preview"
    /\ tentative' = planned
    /\ mismatch' = TxMismatch(planned, planned)
    /\ UNCHANGED <<receiver, amount, hash, slot, request, planned, regular>>

\* The header of the form leads back.
Back ==
    /\ step = "preview"
    /\ step' = "form"
    /\ UNCHANGED <<receiver, amount, hash, slot, request, planned, tentative, mismatch, regular>>

\* The page is left and opened again: _reset.  The receiver stays.
Leave ==
    /\ Unless(~R!Quiet(request), "impatient")
    /\ amount' = NULL
    /\ request' = R!Reset(R!Cancel(request))
    /\ planned' = R!NoResult /\ tentative' = R!NoResult
    /\ step' = "form"
    /\ UNCHANGED <<receiver, hash, slot, mismatch>>

Next ==
    \/ \E r \in Receiver \cup {NULL} : UpdateReceiver(r)
    \/ \E a \in Amount \cup {NULL} : UpdateAmount(a)
    \/ HistoryChanges \/ SlotBegins
    \/ Built
    \/ \E i \in 1..Len(request.timers) : TimerFires(i)
    \/ Submit \/ Back \/ Leave

Spec == Init /\ [][Next]_vars

\* Builds end, and the browser runs each timer in the end.
FairSpec == Spec /\ WF_vars(Built) /\ WF_vars(TimerFires(1))

-----------------------------------------------------------------------------
(* Properties *)

\* Build n is what would be built from the form and the history as they are now.
UpToDate(n) ==
    LET d == request.args[n]
    IN  d.receiver = receiver /\ d.amount = amount /\ d.hash = hash

\* Once nothing is under way, a complete form has its transaction and the fee shown is
\* the one of this form, and an incomplete form has none: however the amounts and the
\* history changed while builds were under way.
FormSettles ==
    regular /\ R!Quiet(request) =>
       IF CanCompute(receiver, amount)
       THEN planned # R!NoResult /\ UpToDate(planned)
       ELSE planned = R!NoResult

\* A user who reviews a transaction that would not be built any more is told so
\* (_txMismatch: "Check if tx in the confirm dialog matches what the tx would be if they
\* tries to send again").
StaleFlagged ==
    R!Quiet(request) /\ step = "preview" /\ ~mismatch =>
       planned # R!NoResult /\ UpToDate(tentative)

\* It holds as long as nothing of Env happens.
StaleFlaggedRegularly == regular => StaleFlagged

\* The fee does not stay under calculation for ever, whatever users and the API do.
Calculated == request.isExecuting ~> ~request.isExecuting
===============================================================================
