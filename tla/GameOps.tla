------------------------------ MODULE GameOps -------------------------------
(***************************************************************************)
(* The game tool's mutations, save, load and advanceTime, on Fallout 4 or  *)
(* on Skyrim: their back ends differ only in what the engine reports.      *)
(* Three threads meet in the operation slot.  A listener thread reserves   *)
(* the slot and queues a main-thread task, then waits; the main thread     *)
(* dispatches the request to the engine; the engine works it off on its    *)
(* own time and lifecycle messages report it, in between with saves and    *)
(* loads of the player's own.                                              *)
(*                                                                         *)
(* A lifecycle message is published on the event bus first and its cursor  *)
(* read back in a second step, so that other events may come in between.   *)
(***************************************************************************)
EXTENDS OperationTracker, Sequences

CONSTANTS
    Asks,           \* Asks[r]: the kinds of mutation r may ask for
    UserNames,      \* the names of the saves the player saves or loads
    User,           \* the player, as the owner of a save or a load
    MaxPlayer       \* bound on what the player does: saves, loads, new games, loading menus opened

ASSUME AsksAssumption == Asks \in [Requests -> SUBSET {"save", "load", "advanceTime"}]
ASSUME UserAssumption == User \notin Requests \union {NoRequest}
ASSUME BoundsAssumption == MaxPlayer \in Nat

VARIABLES
    game,       \* the game the plugin is built for
    op,         \* g_operations
    head,       \* the event bus's head sequence
    loading,    \* g_state.loadInProgress
    menu,       \* g_state.inLoadingMenu
    pc,         \* pc[r]: where r's listener thread is
    kind,       \* kind[r]: what r asks for
    cursor,     \* cursor[r]: the head r read before TryBegin, 0 once used
    work,       \* work[r]: the atomic phase of r's DispatchWork
    result,     \* result[r]: "none", "accepted", "completed" or "rejected"
    ready,      \* ready[r]: the promise is set
    reply,      \* reply[r]: what r's caller was told
    queue,      \* the script extender's task queue
    mpc,        \* where the main thread is in the task at the queue's head
    native,     \* the engine's save/load manager: idle, or the request in it
    npc,        \* how far the engine is with it
    ncursor,    \* the cursor Publish returned for the message under way, or 0
    player,     \* what the player has done, counted against MaxPlayer
    stuck       \* history: requests the engine accepted and then dropped

listenerVars == <<pc, kind, cursor, reply>>
workVars     == <<work, result, ready>>
mainVars     == <<queue, mpc>>
stateVars    == <<loading, menu>>
nativeVars   == <<native, npc, ncursor, stuck>>
vars == <<game, op, head, loading, menu, pc, kind, cursor, work, result, ready, reply, queue, mpc,
          native, npc, ncursor, player, stuck>>

Idle == [owner |-> NoRequest, kind |-> "none", name |-> NoName]

Init ==
    /\ game \in {"fallout4", "skyrimse"}
    /\ op = NoOperation
    /\ head = 0
    /\ loading = FALSE
    /\ menu = FALSE
    /\ pc = [r \in Requests |-> "idle"]
    /\ kind = [r \in Requests |-> "none"]
    /\ cursor = [r \in Requests |-> 0]
    /\ work = [r \in Requests |-> "pending"]
    /\ result = [r \in Requests |-> "none"]
    /\ ready = [r \in Requests |-> FALSE]
    /\ reply = [r \in Requests |-> "none"]
    /\ queue = <<>>
    /\ mpc = "idle"
    /\ native = Idle
    /\ npc = "idle"
    /\ ncursor = 0
    /\ player = 0
    /\ stuck = {}

-----------------------------------------------------------------------------
(* The listener thread: DispatchTracked.                                   *)

Goto(r, from, to) == pc[r] = from /\ pc' = [pc EXCEPT ![r] = to]

Return(r, answer) == /\ pc' = [pc EXCEPT ![r] = "done"]
                     /\ reply' = [reply EXCEPT ![r] = answer]

\* BeginOperation reads the head first and enters the tracker afterwards.
ReadCursor(r) ==
    /\ Goto(r, "idle", "begin")
    /\ \E k \in Asks[r] : kind' = [kind EXCEPT ![r] = k]
    /\ cursor' = [cursor EXCEPT ![r] = head]
    /\ UNCHANGED <<game, op, head, stateVars, workVars, reply, mainVars, nativeVars, player>>

Begin(r) ==
    /\ pc[r] = "begin"
    /\ op' = TryBegin(op, r, kind[r], cursor[r])
    /\ IF op.active
       THEN Return(r, "refused")
       ELSE pc' = [pc EXCEPT ![r] = "submit"] /\ UNCHANGED reply
    /\ cursor' = [cursor EXCEPT ![r] = 0]
    /\ UNCHANGED <<game, head, stateVars, kind, workVars, mainVars, nativeVars, player>>

Submit(r) ==
    /\ Goto(r, "submit", "wait")
    /\ queue' = Append(queue, r)
    /\ UNCHANGED <<game, op, head, stateVars, kind, cursor, reply, workVars, mpc, nativeVars,
                   player>>

\* Slip: the caller is told, the slot is not.
SubmitFailsSilently(r) ==
    /\ pc[r] = "submit"
    /\ Return(r, "refused")
    /\ UNCHANGED <<game, op, head, stateVars, kind, cursor, workVars, mainVars, nativeVars,
                   player>>

\* No task interface, or AddTask threw.
SubmitFails(r) ==
    /\ pc[r] = "submit"
    /\ op' = MarkDispatchFailed(op, r)
    /\ Return(r, "refused")
    /\ UNCHANGED <<game, head, stateVars, kind, cursor, workVars, mainVars, nativeVars, player>>

\* wait_for ends ready: the receipt, the calendar result, or the error.
Answer(r) ==
    /\ pc[r] = "wait"
    /\ ready[r]
    /\ Return(r, "result")
    /\ UNCHANGED <<game, op, head, stateVars, kind, cursor, workVars, mainVars, nativeVars,
                   player>>

\* wait_for ends at the deadline.
Timeout(r) ==
    /\ Goto(r, "wait", "cancel")
    /\ ~ready[r]
    /\ UNCHANGED <<game, op, head, stateVars, kind, cursor, reply, workVars, mainVars,
                   nativeVars, player>>

\* Slip: a store in place of the compare-and-swap.
CancelStores(r) ==
    /\ Goto(r, "cancel", "release")
    /\ work' = [work EXCEPT ![r] = "cancelled"]
    /\ UNCHANGED <<game, op, head, stateVars, kind, cursor, reply, result, ready, mainVars,
                   nativeVars, player>>

\* Revoke the work if it is still pending; otherwise leave the slot with it.
Cancel(r) ==
    /\ pc[r] = "cancel"
    /\ IF work[r] = "pending"
       THEN /\ work' = [work EXCEPT ![r] = "cancelled"]
            /\ pc' = [pc EXCEPT ![r] = "release"]
            /\ UNCHANGED reply
       ELSE Return(r, "uncertain") /\ UNCHANGED work
    /\ UNCHANGED <<game, op, head, stateVars, kind, cursor, result, ready, mainVars, nativeVars,
                   player>>

Release(r) ==
    /\ pc[r] = "release"
    /\ op' = MarkCancelled(op, r)
    /\ Return(r, "notStarted")
    /\ UNCHANGED <<game, head, stateVars, kind, cursor, workVars, mainVars, nativeVars, player>>

DispatchTracked(r) ==
    \/ ReadCursor(r) \/ Begin(r) \/ Submit(r) \/ SubmitFails(r)
    \/ Answer(r) \/ Timeout(r) \/ Cancel(r) \/ Release(r)

-----------------------------------------------------------------------------
(* The main thread: the task of the request at the head of the queue.      *)

Task == Head(queue)

\* The compare-and-swap; a cancelled task is over.
Claim ==
    /\ mpc = "idle"
    /\ queue # <<>>
    /\ IF work[Task] = "pending"
       THEN /\ work' = [work EXCEPT ![Task] = "running"]
            /\ mpc' = "mark"
            /\ UNCHANGED queue
       ELSE /\ queue' = Tail(queue)
            /\ UNCHANGED <<work, mpc>>
    /\ UNCHANGED <<game, op, head, stateVars, listenerVars, result, ready, nativeVars, player>>

MarkTask ==
    /\ mpc = "mark"
    /\ op' = MarkDispatching(op, Task)
    /\ IF CanDispatch(op, Task)
       THEN mpc' = "dispatch" /\ UNCHANGED result
       ELSE mpc' = "settle" /\ result' = [result EXCEPT ![Task] = "rejected"]
    /\ UNCHANGED <<game, head, stateVars, listenerVars, work, ready, queue, nativeVars, player>>

\* DispatchNative or DispatchCalendarAdvance finds a reason to refuse: not
\* ready, no world, the file is there or is not, the date is bad, it threw.
DispatchRefused ==
    /\ mpc = "dispatch"
    /\ result' = [result EXCEPT ![Task] = "rejected"]
    /\ mpc' = "settle"
    /\ UNCHANGED <<game, op, head, stateVars, listenerVars, work, ready, queue, nativeVars,
                   player>>

\* The data is there before the first request is; Skyrim's Reset takes it back.
GameDataReady == game = "fallout4" \/ op # NoOperation

\* QueueNativeOperation hands the request to an engine that is not busy; the
\* messages will carry one of the names.
QueueNativeOperation(names) ==
    /\ mpc = "dispatch"
    /\ kind[Task] \in {"save", "load"}
    /\ GameDataReady /\ ~loading /\ ~menu
    /\ native = Idle
    /\ \E n \in names :
           native' = [owner |-> Task, kind |-> kind[Task], name |-> n]
    /\ npc' = "queued"
    /\ result' = [result EXCEPT ![Task] = "accepted"]
    /\ mpc' = "settle"
    /\ UNCHANGED <<game, op, head, stateVars, listenerVars, work, ready, queue, ncursor, stuck,
                   player>>

\* Fallout 4's messages lose a name that is too long or not plain text.
FalloutDispatchNative == game = "fallout4" /\ QueueNativeOperation({Name[Task], NoName})

SkyrimDispatchNative == game = "skyrimse" /\ QueueNativeOperation({Name[Task]})

\* DispatchCalendarAdvance writes the calendar and is done.
DispatchCalendar ==
    /\ mpc = "dispatch"
    /\ kind[Task] = "advanceTime"
    /\ GameDataReady /\ ~loading /\ ~menu
    /\ result' = [result EXCEPT ![Task] = "completed"]
    /\ mpc' = "settle"
    /\ UNCHANGED <<game, op, head, stateVars, listenerVars, work, ready, queue, nativeVars,
                   player>>

\* The outcome goes into the slot; a completion that lost the slot is an error.
Settle ==
    /\ mpc = "settle"
    /\ CASE result[Task] = "accepted" ->
              op' = MarkQueued(op, Task) /\ UNCHANGED result
         [] result[Task] = "completed" /\ CanComplete(op, Task) ->
              op' = MarkCompleted(op, Task, TRUE) /\ UNCHANGED result
         [] OTHER ->
              /\ op' = MarkDispatchFailed(op, Task)
              /\ result' = [result EXCEPT ![Task] = "rejected"]
    /\ mpc' = "set"
    /\ UNCHANGED <<game, head, stateVars, listenerVars, work, ready, queue, nativeVars, player>>

\* The phase is stored before the promise is set; a waiting listener acts on
\* neither alone, so they are one step.
SetValue ==
    /\ mpc = "set"
    /\ work' = [work EXCEPT ![Task] = "finished"]
    /\ ready' = [ready EXCEPT ![Task] = TRUE]
    /\ queue' = Tail(queue)
    /\ mpc' = "idle"
    /\ UNCHANGED <<game, op, head, stateVars, listenerVars, result, nativeVars, player>>

Main == \/ Claim \/ MarkTask \/ DispatchRefused \/ FalloutDispatchNative
        \/ SkyrimDispatchNative \/ DispatchCalendar \/ Settle \/ SetValue

-----------------------------------------------------------------------------
(* The engine and its messages: OnF4SEMessage, OnSKSEMessage.              *)

\* The player saves or loads from the game's own menus.
UserRequest ==
    /\ native = Idle
    /\ player < MaxPlayer
    /\ player' = player + 1
    /\ \E k \in {"save", "load"}, n \in UserNames \union {NoName} :
           native' = [owner |-> User, kind |-> k, name |-> n]
    /\ npc' = "queued"
    /\ UNCHANGED <<game, op, head, stateVars, listenerVars, workVars, mainVars, ncursor, stuck>>

\* A content-mismatch dialog the player answers with no: nothing is reported.
EngineDrops ==
    /\ npc = "queued"
    /\ native.kind = "load"
    /\ native' = Idle
    /\ npc' = "idle"
    /\ stuck' = stuck \union ({native.owner} \intersect Requests)
    /\ UNCHANGED <<game, op, head, stateVars, listenerVars, workVars, mainVars, ncursor, player>>

\* kPreLoadGame, and Fallout 4's kPreSaveGame: the flag, then Publish.  SKSE
\* has no message for the start of a save.
PreMessage ==
    /\ npc = "queued"
    /\ game = "fallout4" \/ native.kind = "load"
    /\ loading' = IF native.kind = "load" THEN TRUE ELSE loading
    /\ head' = head + 1
    /\ npc' = "preHead"
    /\ UNCHANGED <<game, op, menu, listenerVars, workVars, mainVars, native, ncursor, stuck,
                   player>>

\* The HeadSeq of Publish, for either message.
MessageCursor ==
    /\ \/ npc = "preHead" /\ npc' = "pre"
       \/ npc = "postHead" /\ npc' = "post"
    /\ ncursor' = head
    /\ UNCHANGED <<game, op, head, stateVars, listenerVars, workVars, mainVars, native, stuck,
                   player>>

PreObserve ==
    /\ npc = "pre"
    /\ op' = ObserveStarted(op, native.kind, native.name, ncursor)
    /\ npc' = "running"
    /\ ncursor' = 0
    /\ UNCHANGED <<game, head, stateVars, listenerVars, workVars, mainVars, native, stuck,
                   player>>

\* Skyrim's kSaveGame, the only message of a save.
SaveMessage ==
    /\ game = "skyrimse"
    /\ npc = "queued"
    /\ native.kind = "save"
    /\ head' = head + 1
    /\ npc' = "postHead"
    /\ UNCHANGED <<game, op, stateVars, listenerVars, workVars, mainVars, native, ncursor, stuck,
                   player>>

\* kPostLoadGame, and Fallout 4's kPostSaveGame.
PostMessage ==
    /\ npc = "running"
    /\ loading' = IF native.kind = "load" THEN FALSE ELSE loading
    /\ head' = head + 1
    /\ npc' = "postHead"
    /\ UNCHANGED <<game, op, menu, listenerVars, workVars, mainVars, native, ncursor, stuck,
                   player>>

\* A load reports success or failure and no name, a save a name and no outcome.
PostObserve ==
    /\ npc = "post"
    /\ IF native.kind = "load"
       THEN \E outcome \in {"succeeded", "failed"} :
                op' = ObserveCompleted(op, "load", NoName, outcome, ncursor)
       ELSE op' = ObserveCompleted(op, "save", native.name, "completed", ncursor)
    /\ native' = Idle
    /\ npc' = "idle"
    /\ ncursor' = 0
    /\ UNCHANGED <<game, head, stateVars, listenerVars, workVars, mainVars, stuck, player>>

\* What MenuSink does when the loading menu opens or closes: it opens for a
\* load, for a new game and whenever the player changes cells.
MenuSink(inProgress) ==
    /\ \/ menu /\ UNCHANGED player
       \/ ~menu /\ player < MaxPlayer /\ player' = player + 1
    /\ menu' = ~menu
    /\ loading' = inProgress
    /\ head' = head + 2
    /\ UNCHANGED <<game, op, listenerVars, workVars, mainVars, nativeVars>>

FalloutLoadingMenu == game = "fallout4" /\ MenuSink(~menu)

\* The end of the menu leaves the flag to kPostLoadGame and kNewGame.
SkyrimLoadingMenu == game = "skyrimse" /\ MenuSink(loading \/ ~menu)

\* The player begins a new game.
NewGame(inProgress) ==
    /\ player < MaxPlayer
    /\ player' = player + 1
    /\ loading' = inProgress
    /\ head' = head + 1
    /\ UNCHANGED <<game, op, menu, listenerVars, workVars, mainVars, nativeVars>>

\* The loading menu that follows ends what the message begins.
FalloutNewGame == game = "fallout4" /\ NewGame(TRUE)

SkyrimNewGame == game = "skyrimse" /\ NewGame(FALSE)

\* Lifecycle::Reset when the host shuts down, after the server has joined the
\* listener threads.  A task left in the queue finds its slot gone.
Reset ==
    /\ \A r \in Requests : pc[r] = "done"
    /\ op # NoOperation
    /\ op' = NoOperation
    /\ UNCHANGED <<game, head, listenerVars, workVars, mainVars, nativeVars, player>>

FalloutReset == game = "fallout4" /\ Reset /\ UNCHANGED stateVars

\* Skyrim forgets its flags too.
SkyrimReset == game = "skyrimse" /\ Reset /\ loading' = FALSE /\ menu' = FALSE

Player == \/ UserRequest
          \/ FalloutLoadingMenu \/ SkyrimLoadingMenu
          \/ FalloutNewGame \/ SkyrimNewGame

Engine == PreMessage \/ SaveMessage \/ MessageCursor \/ PreObserve \/ PostMessage \/ PostObserve

-----------------------------------------------------------------------------
Next == \/ \E r \in Requests : DispatchTracked(r)
        \/ Main
        \/ Engine
        \/ Player
        \/ EngineDrops \/ FalloutReset \/ SkyrimReset

Spec == Init /\ [][Next]_vars

\* Listener threads, the main thread and the engine are scheduled.  The player
\* need do nothing.
FairSpec == /\ Spec
            /\ \A r \in Requests : WF_vars(DispatchTracked(r))
            /\ WF_vars(Main)
            /\ WF_vars(Engine)

-----------------------------------------------------------------------------
SaveNames == {Name[r] : r \in Requests} \union UserNames \union {NoName}

NativeRequests ==
    [owner : Requests \union {User, NoRequest}, kind : {"none", "save", "load"}, name : SaveNames]

\* The shape of every variable.
TypeOK ==
    /\ game \in {"fallout4", "skyrimse"}
    /\ op \in Operations
    /\ head \in Nat
    /\ loading \in BOOLEAN /\ menu \in BOOLEAN
    /\ pc \in [Requests -> {"idle", "begin", "submit", "wait", "cancel", "release", "done"}]
    /\ kind \in [Requests -> Kinds \union {"none"}]
    /\ cursor \in [Requests -> Nat]
    /\ work \in [Requests -> {"pending", "running", "cancelled", "finished"}]
    /\ result \in [Requests -> {"none", "accepted", "completed", "rejected"}]
    /\ ready \in [Requests -> BOOLEAN]
    /\ reply \in [Requests -> {"none", "result", "notStarted", "uncertain", "refused"}]
    /\ queue \in Seq(Requests)
    /\ mpc \in {"idle", "mark", "dispatch", "settle", "set"}
    /\ native \in NativeRequests
    /\ npc \in {"idle", "queued", "preHead", "pre", "running", "postHead", "post"}
    /\ ncursor \in Nat
    /\ player \in 0..MaxPlayer
    /\ stuck \in SUBSET Requests

\* The dispatch protocol keeps the promise of DeferredCall: "cancelled before
\* execution" is never said of a request the main thread dispatches.
Abstract == INSTANCE DeferredCall
            WITH Calls <- Requests,
                 body <- [r \in Requests |-> CASE work[r] = "running"  -> "running"
                                               [] work[r] = "finished" -> "done"
                                               [] OTHER                -> "none"]
ImplementsDeferredCall == Abstract!Spec

\* A caller that was refused, rejected or cancelled leaves the slot free: a
\* slot held by nobody would refuse every later mutation with 409.
NoLeakedSlot == \A r \in Requests :
    \/ reply[r] \in {"refused", "notStarted"}
    \/ reply[r] = "result" /\ result[r] # "accepted"
    => ~Holds(op, r)

\* The status of an operation only moves forward, though the engine may report
\* its start and its end before the dispatcher records that it was queued.
PhaseRank(phase) == CASE phase = "reserved"    -> 0
                      [] phase = "dispatching" -> 1
                      [] phase = "queued"      -> 2
                      [] phase = "started"     -> 3
                      [] OTHER                 -> 4
PhaseForward ==
    [][op'.id = op.id /\ op' # op => PhaseRank(op'.phase) >= PhaseRank(op.phase) /\ op.active]_op

\* A caller told "cancelled before execution" reads the same in the status: no
\* notification of the engine, early or late, about this or another save or
\* load, revives or completes an operation that was not dispatched.
CancelledStaysCancelled == \A r \in Requests :
    reply[r] = "notStarted" /\ op.id = r => op.phase = "cancelled"

\* The slot is given back, although a caller times out at any point, unless the
\* engine drops the load without a word.
SlotReleased == \A r \in Requests :
    Holds(op, r) ~> (~Holds(op, r) \/ r \in stuck)
=============================================================================
