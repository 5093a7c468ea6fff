-------------------------- MODULE OperationTracker --------------------------
(***************************************************************************)
(* GameOperationTracker: the one slot that serialises the game mutations.  *)
(* A save, a load, a calendar advance, a wait or a sleep owns the slot     *)
(* from TryBegin until something marks it terminal; the last operation     *)
(* stays readable as the latest status.  Every method is one critical      *)
(* section, given here as the value the slot has after it.                 *)
(*                                                                         *)
(* An operation id is the request it was given to, and success follows     *)
(* from the phase: TRUE when succeeded, FALSE when failed or cancelled,    *)
(* absent otherwise.                                                       *)
(***************************************************************************)
EXTENDS Integers

CONSTANTS
    Requests,   \* the calls that ask for an operation
    Name,       \* Name[r]: the save's name
    NoRequest,  \* no operation yet
    NoName      \* a name the message did not carry, or not legibly

ASSUME TrackerAssumption ==
    /\ NoRequest \notin Requests
    /\ \A r \in Requests : Name[r] # NoName

ActivePhases == {"reserved", "dispatching", "queued", "started"}
TerminalPhases == {"completed", "succeeded", "failed", "cancelled"}

Kinds == {"save", "load", "advanceTime", "wait", "sleep"}

\* The slot is active exactly while its operation is not terminal.
Operations ==
    [id : Requests, kind : Kinds, phase : ActivePhases, cursor : Nat, active : {TRUE}]
    \union
    [id : Requests \union {NoRequest}, kind : Kinds, phase : TerminalPhases, cursor : Nat,
     active : {FALSE}]

NoOperation ==
    [id |-> NoRequest, kind |-> "save", phase |-> "cancelled", cursor |-> 0, active |-> FALSE]

Holds(op, r) == op.active /\ op.id = r

\* TryBegin fails, and changes nothing, while another operation is active.
TryBegin(op, r, kind, cursor) ==
    IF op.active THEN op
    ELSE [id |-> r, kind |-> kind, phase |-> "reserved", cursor |-> cursor, active |-> TRUE]

\* Slip: a terminal operation still holds the slot.
EndKeepsActive(op, phase) == [op EXCEPT !.phase = phase]

End(op, phase) == [op EXCEPT !.phase = phase, !.active = FALSE]

CanDispatch(op, r) == Holds(op, r) /\ op.phase = "reserved"

MarkDispatching(op, r) ==
    IF CanDispatch(op, r) THEN [op EXCEPT !.phase = "dispatching"] ELSE op

\* Slip: queued is recorded over whatever the engine reported meanwhile.
MarkQueuedLate(op, r) == IF Holds(op, r) THEN [op EXCEPT !.phase = "queued"] ELSE op

\* The native start may have been observed before the dispatcher gets here.
MarkQueued(op, r) ==
    IF Holds(op, r) /\ op.phase = "dispatching" THEN [op EXCEPT !.phase = "queued"] ELSE op

MarkDispatchFailed(op, r) ==
    IF Holds(op, r) THEN End(op, "failed") ELSE op

MarkCancelled(op, r) ==
    IF Holds(op, r) /\ op.phase = "reserved" THEN End(op, "cancelled") ELSE op

CanComplete(op, r) == Holds(op, r) /\ op.phase # "reserved"

MarkCompleted(op, r, success) ==
    IF CanComplete(op, r) THEN End(op, IF success THEN "succeeded" ELSE "failed") ELSE op

\* Slip: a reservation is taken for a dispatched operation.
ConcernsReserved(op, kind, name, cursor) ==
    /\ op.active
    /\ op.kind = kind
    /\ cursor > op.cursor
    /\ name # NoName => name = Name[op.id]

\* The operation a native notification can be about: active, of the same kind,
\* begun before the notification, dispatched, and not of another name.
Concerns(op, kind, name, cursor) ==
    /\ op.active
    /\ op.kind = kind
    /\ cursor > op.cursor
    /\ op.phase # "reserved"
    /\ name # NoName => name = Name[op.id]

ObserveStarted(op, kind, name, cursor) ==
    IF Concerns(op, kind, name, cursor) THEN [op EXCEPT !.phase = "started"] ELSE op

\* A notification without a name completes only what was seen to start.
ObserveCompleted(op, kind, name, outcome, cursor) ==
    IF Concerns(op, kind, name, cursor) /\ (name = NoName => op.phase = "started")
    THEN End(op, outcome) ELSE op
=============================================================================
