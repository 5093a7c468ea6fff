-------------------------------- MODULE Rest --------------------------------
(***************************************************************************)
(* The wait and sleep tools.  RestService keeps the one rest operation and *)
(* answers the listener; the game's back end keeps the same operation a    *)
(* second time under a lock of its own and follows the native menu with a  *)
(* poll thread and main-thread tasks; and the tracker's slot, shared with  *)
(* every other game mutation, must be held from the start to the end.      *)
(*                                                                         *)
(* A completion visits the three in turn (back end, service, tracker),     *)
(* each under its own lock, on whichever thread learns of the outcome: the *)
(* listener whose submission fails, the main thread, or the poll thread.   *)
(* Both back ends are modelled; game says which one is loaded.             *)
(*                                                                         *)
(* Sections of one thread that no other thread can tell apart are one step *)
(* here: entering active_ and AddTask, a poll's look and the request for   *)
(* the next one, the poll thread's flags and its AddTask.                  *)
(***************************************************************************)
EXTENDS OperationTracker, Sequences

CONSTANT Rests  \* the start calls of wait and sleep; other requests compete for the slot

\* A rest is a request, and neither "no request" nor one of the other threads.
RestsAssumption ==
    /\ Rests \subseteq Requests
    /\ NoRequest \notin Requests /\ {"main", "poll"} \cap Requests = {}

Rivals == Requests \ Rests
Threads == Rests \union {"main", "poll"}

VARIABLES
    game,       \* the back end that is loaded
    slot,       \* the tracker's operation
    srv,        \* RestService's operation
    accepting,  \* RestService's accepting
    gate,       \* gate[r]: the DispatchGate
    pc,         \* pc[r]: the listener thread of r
    reply,      \* reply[r]: what r's caller was told
    active,     \* the back end's active_
    stopping,   \* the back end's stopping_
    poll,       \* "idle", "requested" or "queued": pollRequested_, pollQueued_
    ppc,        \* where the poll thread is
    queue,      \* the script extender's task queue
    mpc,        \* where the main thread is
    task,       \* the task the main thread runs
    end,        \* end[t]: the completion thread t carries, and to where
    spc,        \* where the thread that shuts down is
    menu,       \* the native menu: "closed", "opening" or "open"
    passing,    \* the rest for which the engine passes time
    pressed,    \* the rest whose OK the open menu took, before time passes
    accepted,   \* the active operation's menu was accepted
    started,    \* Skyrim: its time was seen to pass
    blind       \* history: the back end gave up a rest that the engine goes on with

listenerVars == <<pc, reply>>
serviceVars == <<srv, accepting, gate>>
backVars == <<active, stopping, poll, ppc>>
mainVars == <<queue, mpc, task>>
nativeVars == <<menu, passing, pressed, accepted, started, blind>>
vars == <<game, slot, serviceVars, listenerVars, backVars, mainVars, end, spc, nativeVars>>

\* RestResultStatus.  What is refused, unavailable, failed or interrupted differs
\* only in its wording: none is a success for the tracker.
Outcomes == {"completed", "cancelled", "failed"}

\* No completion under way on a thread.
Nothing == [op |-> NoRequest, outcome |-> "failed", at |-> "done", dispatched |-> FALSE]

Carry(r, outcome, at) == [op |-> r, outcome |-> outcome, at |-> at, dispatched |-> FALSE]

NoRest == [id |-> NoRequest, phase |-> "cancelled", dispatched |-> FALSE, active |-> FALSE]

NewRest(r) == [id |-> r, phase |-> "reserved", dispatched |-> FALSE, active |-> TRUE]

\* The service's operation is r and not over.
Ongoing(r) == srv.id = r /\ srv.active

Init ==
    /\ game \in {"fallout4", "skyrimse"}
    /\ slot = NoOperation
    /\ srv = NoRest
    /\ accepting = TRUE
    /\ gate = [r \in Rests |-> "queued"]
    /\ pc = [r \in Requests |-> "idle"]
    /\ reply = [r \in Rests |-> "none"]
    /\ active = NoRequest
    /\ stopping = FALSE
    /\ poll = "idle"
    /\ ppc = "wait"
    /\ queue = <<>>
    /\ mpc = "idle"
    /\ task = NoRequest
    /\ end = [t \in Threads |-> Nothing]
    /\ spc = "idle"
    /\ menu = "closed"
    /\ passing = NoRequest /\ pressed = NoRequest
    /\ accepted = FALSE /\ started = FALSE /\ blind = FALSE

-----------------------------------------------------------------------------
(* The listener thread: RestService::Start.                                *)

Goto(r, from, to) == pc[r] = from /\ pc' = [pc EXCEPT ![r] = to]

Return(r, answer) == /\ pc' = [pc EXCEPT ![r] = "done"]
                     /\ reply' = [reply EXCEPT ![r] = answer]

\* FinishResponse: the outcome, or the status of an operation without one.
FinishResponse == IF srv.phase = "cancelled" THEN "cancelled"
                  ELSE IF srv.phase \in Outcomes THEN "outcome"
                  ELSE "status"

\* The first look, under the lock and before the tracker is asked.
Enter(r) ==
    /\ pc[r] = "idle"
    /\ IF ~accepting \/ srv.active
       THEN Return(r, "refused")
       ELSE pc' = [pc EXCEPT ![r] = "reserve"] /\ UNCHANGED reply
    /\ UNCHANGED <<game, slot, serviceVars, backVars, mainVars, end, spc, nativeVars>>

\* tryBegin, outside the lock.
Reserve(r) ==
    /\ pc[r] = "reserve"
    /\ slot' = TryBegin(slot, r, "wait", 0)
    /\ IF slot.active
       THEN Return(r, "refused")
       ELSE pc' = [pc EXCEPT ![r] = "install"] /\ UNCHANGED reply
    /\ UNCHANGED <<game, serviceVars, backVars, mainVars, end, spc, nativeVars>>

\* The second look, which gives the reservation back or installs the operation.
Install(r) ==
    /\ pc[r] = "install"
    /\ IF ~accepting \/ srv.active
       THEN /\ slot' = MarkCancelled(slot, r)
            /\ Return(r, "refused")
            /\ UNCHANGED srv
       ELSE /\ srv' = NewRest(r)
            /\ pc' = [pc EXCEPT ![r] = "dispatch"]
            /\ UNCHANGED <<slot, reply>>
    /\ UNCHANGED <<game, accepting, gate, backVars, mainVars, end, spc, nativeVars>>

\* NativeBackendState::Dispatch: an immediate result (no task interface,
\* stopping, or another operation); the operation becomes the active one and is
\* queued; or AddTask throws.
Dispatch(r) ==
    /\ Goto(r, "dispatch", "wait")
    /\ \/ end' = [end EXCEPT ![r] = Carry(r, "failed", "service")] /\ UNCHANGED <<active, queue>>
       \/ /\ ~stopping /\ active = NoRequest
          /\ active' = r
          /\ \/ queue' = Append(queue, <<"begin", r>>) /\ UNCHANGED end
             \/ end' = [end EXCEPT ![r] = Carry(r, "failed", "backend")] /\ UNCHANGED queue
    /\ UNCHANGED <<game, slot, serviceVars, reply, stopping, poll, ppc, mpc, task, spc, nativeVars>>

Terminal(r) == ~accepting \/ srv.id # r \/ ~srv.active

Waits(r, at) == pc[r] = at /\ end[r].at = "done"

\* wait_for ends with its condition true.
Woken(r) ==
    /\ Waits(r, "wait") /\ Terminal(r)
    /\ Return(r, IF srv.id = r THEN FinishResponse ELSE "lost")
    /\ UNCHANGED <<game, slot, serviceVars, backVars, mainVars, end, spc, nativeVars>>

\* wait_for ends at the deadline.
Timeout(r) ==
    /\ Waits(r, "wait") /\ ~Terminal(r)
    /\ pc' = [pc EXCEPT ![r] = "revoke"]
    /\ UNCHANGED <<game, slot, serviceVars, reply, backVars, mainVars, end, spc, nativeVars>>

\* DispatchGate::Cancel succeeds only on what has not begun.
CancelGate(r) == gate' = [gate EXCEPT ![r] = IF @ = "queued" THEN "cancelled" ELSE @]

Revoke(r) ==
    /\ pc[r] = "revoke"
    /\ CancelGate(r)
    /\ pc' = [pc EXCEPT ![r] = IF gate[r] = "queued" THEN "cancelled" ELSE "uncertain"]
    /\ UNCHANGED <<game, slot, srv, accepting, reply, backVars, mainVars, end, spc, nativeVars>>

\* The operation is closed by whoever revoked its gate, and only marked otherwise.
CloseRevoked == /\ slot' = MarkCancelled(slot, srv.id)
                /\ srv' = [srv EXCEPT !.phase = "cancelled", !.active = FALSE]

MarkUncertain == /\ srv' = [srv EXCEPT !.phase = "uncertain"]
                 /\ UNCHANGED slot

\* Back under the lock after the deadline: the operation may be over by now.
SettleTimeout(r) ==
    /\ pc[r] \in {"cancelled", "uncertain"}
    /\ IF ~Ongoing(r)
       THEN UNCHANGED <<slot, srv>> /\ Return(r, IF srv.id = r THEN FinishResponse ELSE "lost")
       ELSE IF pc[r] = "cancelled"
       THEN CloseRevoked /\ Return(r, "cancelled")
       ELSE MarkUncertain /\ Return(r, "uncertain")
    /\ UNCHANGED <<game, accepting, gate, backVars, mainVars, end, spc, nativeVars>>

Start(r) == \/ Enter(r) \/ Reserve(r) \/ Install(r) \/ Dispatch(r)
            \/ Woken(r) \/ Timeout(r) \/ Revoke(r) \/ SettleTimeout(r)

-----------------------------------------------------------------------------
(* A completion, on any thread.                                            *)

\* The back end's Complete: only of its active operation, and only once.
CompleteBackend(t) ==
    /\ end[t].at = "backend"
    /\ IF active # end[t].op
       THEN end' = [end EXCEPT ![t] = Nothing] /\ UNCHANGED <<active, poll, accepted, started>>
       ELSE /\ end' = [end EXCEPT ![t].at = "service"]
            /\ active' = NoRequest
            /\ poll' = "idle"
            /\ accepted' = FALSE /\ started' = FALSE
    /\ UNCHANGED <<game, slot, serviceVars, listenerVars, stopping, ppc, mainVars, spc, menu, passing,
                   pressed, blind>>

\* RestService::Complete under the lock: the operation is over for the service.
CompleteService(t) ==
    /\ end[t].at = "service"
    /\ IF ~Ongoing(end[t].op)
       THEN end' = [end EXCEPT ![t] = Nothing] /\ UNCHANGED srv
       ELSE /\ end' = [end EXCEPT ![t].at = "tracker", ![t].dispatched = srv.dispatched]
            /\ srv' = [srv EXCEPT !.phase = end[t].outcome, !.active = FALSE]
    /\ UNCHANGED <<game, slot, accepting, gate, listenerVars, backVars, mainVars, spc, nativeVars>>

\* Slip: an operation that was never dispatched is finished like the others,
\* which the tracker refuses for a reservation.
EndTrackerFinishes(t) == MarkCompleted(slot, end[t].op, end[t].outcome = "completed")

\* finish, cancelReserved or fail, after the lock.
EndTracker(t) ==
    IF end[t].dispatched
    THEN MarkCompleted(slot, end[t].op, end[t].outcome = "completed")
    ELSE IF end[t].outcome = "cancelled"
    THEN MarkCancelled(slot, end[t].op)
    ELSE MarkDispatchFailed(slot, end[t].op)

CompleteTracker(t) ==
    /\ end[t].at = "tracker"
    /\ slot' = EndTracker(t)
    /\ end' = [end EXCEPT ![t] = Nothing]
    /\ UNCHANGED <<game, serviceVars, listenerVars, backVars, mainVars, spc, nativeVars>>

Complete(t) == CompleteBackend(t) \/ CompleteService(t) \/ CompleteTracker(t)

-----------------------------------------------------------------------------
(* The main thread: BeginOnMain and PollOnMain.                            *)

Free == mpc = "idle" /\ end["main"].at = "done"

op == task

\* The task ends with an outcome.
Give(r, outcome) == end' = [end EXCEPT !["main"] = Carry(r, outcome, "backend")]

Fail(outcome) == mpc' = "idle" /\ task' = NoRequest /\ Give(op, outcome)

\* RequestPoll, the other end of a task.
RequestPoll == poll' = IF stopping THEN poll ELSE "requested"

\* BeginOnMain takes its task and passes the gate, once.
PassGate ==
    /\ Free /\ queue # <<>> /\ Head(queue)[1] = "begin"
    /\ queue' = Tail(queue)
    /\ LET r == Head(queue)[2]
       IN IF gate[r] = "queued"
          THEN /\ gate' = [gate EXCEPT ![r] = "running"]
               /\ mpc' = "dispatching" /\ task' = r
               /\ UNCHANGED end
          ELSE Give(r, "cancelled") /\ UNCHANGED <<gate, mpc, task>>
    /\ UNCHANGED <<game, slot, srv, accepting, listenerVars, backVars, spc, nativeVars>>

\* MarkDispatching and MarkQueued: the tracker first, then the service's copy.
MarkTracker ==
    /\ mpc \in {"dispatching", "queued"}
    /\ slot' = IF mpc = "queued" THEN MarkQueued(slot, op) ELSE MarkDispatching(slot, op)
    /\ IF slot' # slot
       THEN mpc' = (IF mpc = "queued" THEN "queuedService" ELSE "service")
            /\ UNCHANGED <<task, end>>
       ELSE Fail(IF mpc = "queued" THEN "failed" ELSE "cancelled")
    /\ UNCHANGED <<game, serviceVars, listenerVars, backVars, queue, spc, nativeVars>>

MarkService ==
    /\ mpc \in {"service", "queuedService"}
    /\ srv' = IF ~Ongoing(op) THEN srv
              ELSE [srv EXCEPT !.phase = IF mpc = "service" THEN "dispatching" ELSE "queued",
                               !.dispatched = TRUE]
    /\ IF mpc = "queuedService" /\ game = "fallout4"
       THEN mpc' = "idle" /\ task' = NoRequest /\ RequestPoll
       ELSE /\ mpc' = IF mpc = "service" THEN "native" ELSE "toggle"
            /\ UNCHANGED <<task, poll>>
    /\ UNCHANGED <<game, slot, accepting, gate, listenerVars, active, stopping, ppc, queue, end, spc,
                   nativeVars>>

\* BeginNative's checks: runtime, readiness, player, target, the game's own gate.
\* A menu or a rest that is already there is always refused.
Refuse ==
    /\ mpc = "native"
    /\ Fail("failed")
    /\ UNCHANGED <<game, slot, serviceVars, listenerVars, backVars, queue, spc, nativeVars>>

CanRest == mpc = "native" /\ passing = NoRequest /\ menu # "open"

\* Fallout 4 opens the menu and then marks the operation queued, Skyrim the
\* other way round.
ToggleFallout ==
    /\ CanRest /\ game = "fallout4"
    /\ menu' = "opening"
    /\ mpc' = "queued"
    /\ UNCHANGED <<game, slot, serviceVars, listenerVars, backVars, queue, task, end, spc, passing,
                   pressed, accepted, started, blind>>

QueueSkyrim ==
    /\ CanRest /\ game = "skyrimse"
    /\ mpc' = "queued"
    /\ UNCHANGED <<game, slot, serviceVars, listenerVars, backVars, queue, task, end, spc, nativeVars>>

ToggleSkyrim ==
    /\ mpc = "toggle"
    /\ menu' = "opening"
    /\ mpc' = "idle" /\ task' = NoRequest
    /\ RequestPoll
    /\ UNCHANGED <<game, slot, serviceVars, listenerVars, active, stopping, ppc, queue, end, spc,
                   passing, pressed, accepted, started, blind>>

-----------------------------------------------------------------------------
(* PollOnMain: one look at the native menu and at the player, and then the *)
(* next poll ("again") or the outcome.                                     *)

Polled(outcome) ==
    /\ Free /\ queue # <<>> /\ Head(queue)[1] = "poll"
    /\ queue' = Tail(queue)
    /\ IF outcome = "again"
       THEN RequestPoll /\ UNCHANGED end
       ELSE poll' = "idle" /\ Give(Head(queue)[2], outcome)
    /\ UNCHANGED <<game, slot, serviceVars, listenerVars, active, stopping, ppc, mpc, task, spc>>

\* The menu is asked to close, which a replacement menu need not obey.
CloseMenu == /\ menu' \in {menu, "closed"}
             /\ pressed' = IF menu' = "closed" THEN NoRequest ELSE pressed

\* The engine passes time, or is about to, for a rest that is now given up.
GoesOn == passing # NoRequest \/ pressed # NoRequest

\* No player, or an exception: the engine goes on with what it does.
PollFails ==
    /\ Polled("failed")
    /\ blind' = GoesOn
    /\ UNCHANGED <<menu, passing, pressed, accepted, started>>

\* Not open yet; refused at the menu's deadline.
PollMenu ==
    /\ ~accepted /\ menu # "open"
    /\ \E outcome \in {"again", "failed"} : Polled(outcome)
    /\ UNCHANGED nativeVars

\* The hours cannot be set, are clamped to fewer, or the menu rejects them.
PollRejected ==
    /\ ~accepted /\ menu = "open"
    /\ Polled("failed")
    /\ CloseMenu
    /\ UNCHANGED <<passing, accepted, started, blind>>

\* Fallout 4's OnAccept passes time at once or not at all (PollRejected).
AcceptFallout ==
    /\ game = "fallout4" /\ ~accepted /\ menu = "open"
    /\ Polled("again")
    /\ accepted' = TRUE
    /\ passing' = active
    /\ UNCHANGED <<menu, pressed, started, blind>>

\* Over when no time passes and the menu is gone.
FinishFallout ==
    /\ game = "fallout4" /\ accepted
    /\ IF passing # NoRequest \/ menu = "open"
       THEN Polled("again")
       ELSE \E outcome \in {"completed", "failed"} : Polled(outcome)
    /\ UNCHANGED nativeVars

\* Skyrim's ConfigureAndAccept: time may start to pass later than the call.
AcceptSkyrim ==
    /\ game = "skyrimse" /\ ~accepted /\ menu = "open"
    /\ Polled("again")
    /\ accepted' = TRUE
    /\ \/ passing' = active /\ started' = TRUE /\ UNCHANGED pressed
       \/ pressed' = active /\ UNCHANGED <<passing, started>>
    /\ UNCHANGED <<menu, blind>>

\* Slip: a rest not seen to start is over although its menu is open.
FinishSkyrimUnseen ==
    /\ game = "skyrimse" /\ accepted
    /\ started' = (started \/ passing # NoRequest)
    /\ IF passing # NoRequest
       THEN Polled("again")
       ELSE \E outcome \in {"completed", "failed"} : Polled(outcome)
    /\ UNCHANGED <<menu, passing, pressed, accepted, blind>>

\* Over when the menu is gone and no time passes, seen to start or not.
FinishSkyrim ==
    /\ game = "skyrimse" /\ accepted
    /\ started' = (started \/ passing # NoRequest)
    /\ IF passing # NoRequest \/ menu = "open"
       THEN Polled("again")
       ELSE \E outcome \in {"completed", "failed"} : Polled(outcome)
    /\ UNCHANGED <<menu, passing, pressed, accepted, blind>>

\* Accepted, but time did not start to pass before its deadline.
NeverStarts ==
    /\ game = "skyrimse" /\ accepted /\ ~started
    /\ passing = NoRequest /\ menu = "open"
    /\ Polled("failed")
    /\ CloseMenu
    /\ blind' = (pressed' # NoRequest)
    /\ UNCHANGED <<passing, accepted, started>>

PollNative == \/ PollFails \/ PollMenu \/ PollRejected \/ AcceptFallout \/ FinishFallout
              \/ AcceptSkyrim \/ FinishSkyrim \/ NeverStarts

Main == \/ PassGate \/ MarkTracker \/ MarkService \/ Refuse
        \/ ToggleFallout \/ QueueSkyrim \/ ToggleSkyrim
        \/ PollNative \/ Complete("main")

-----------------------------------------------------------------------------
(* The poll thread.                                                        *)

CanPoll == /\ ppc = "wait" /\ end["poll"].at = "done"
           /\ ~stopping /\ active # NoRequest

\* Slip: a poll that cannot be queued is dropped.
PollDropped ==
    /\ CanPoll /\ poll = "requested"
    /\ poll' = "queued"
    /\ queue' \in {queue, Append(queue, <<"poll", active>>)}
    /\ UNCHANGED <<game, slot, serviceVars, listenerVars, active, stopping, ppc, mpc, task, end, spc,
                   nativeVars>>

\* The poll is due: queued, or else the operation is given up.
Poll ==
    /\ CanPoll /\ poll = "requested"
    /\ poll' = "queued"
    /\ \/ queue' = Append(queue, <<"poll", active>>) /\ UNCHANGED <<end, blind>>
       \/ /\ end' = [end EXCEPT !["poll"] = Carry(active, "failed", "backend")]
          /\ blind' = GoesOn
          /\ UNCHANGED queue
    /\ UNCHANGED <<game, slot, serviceVars, listenerVars, active, stopping, ppc, mpc, task, spc,
                   menu, passing, pressed, accepted, started>>

\* Slip: the poll thread leaves only when its operation is over.
PollExitLast ==
    /\ ppc = "wait" /\ end["poll"].at = "done"
    /\ stopping /\ active = NoRequest
    /\ ppc' = "exited"
    /\ UNCHANGED <<game, slot, serviceVars, listenerVars, active, stopping, poll, mainVars, end, spc,
                   nativeVars>>

PollExit ==
    /\ ppc = "wait" /\ end["poll"].at = "done"
    /\ stopping
    /\ ppc' = "exited"
    /\ UNCHANGED <<game, slot, serviceVars, listenerVars, active, stopping, poll, mainVars, end, spc,
                   nativeVars>>

PollLoop == Poll \/ PollExit \/ Complete("poll")

-----------------------------------------------------------------------------
(* RestService::Shutdown, which ends with the back end's.                  *)

\* Stop accepting, and take the gate of the operation under way.
ShutdownClose ==
    /\ spc = "idle"
    /\ accepting' = FALSE
    /\ spc' = IF srv.active THEN "revoke" ELSE "backend"
    /\ UNCHANGED <<game, slot, srv, gate, listenerVars, backVars, mainVars, end, nativeVars>>

ShutdownRevoke ==
    /\ spc = "revoke"
    /\ CancelGate(srv.id)
    /\ spc' = IF gate[srv.id] = "queued" THEN "cancelled" ELSE "uncertain"
    /\ UNCHANGED <<game, slot, srv, accepting, listenerVars, backVars, mainVars, end, nativeVars>>

ShutdownSettle ==
    /\ spc \in {"cancelled", "uncertain"}
    /\ IF ~srv.active THEN UNCHANGED <<slot, srv>>
       ELSE IF spc = "cancelled" THEN CloseRevoked
       ELSE MarkUncertain
    /\ spc' = "backend"
    /\ UNCHANGED <<game, accepting, gate, listenerVars, backVars, mainVars, end, nativeVars>>

\* NativeBackendState::Shutdown: the gate once more, then the poll thread.
ShutdownBackend ==
    /\ spc = "backend"
    /\ stopping' = TRUE
    /\ IF active # NoRequest THEN CancelGate(active) ELSE UNCHANGED gate
    /\ spc' = "join"
    /\ UNCHANGED <<game, slot, srv, accepting, listenerVars, active, poll, ppc, mainVars, end,
                   nativeVars>>

ShutdownJoin ==
    /\ spc = "join" /\ ppc = "exited"
    /\ spc' = "done"
    /\ UNCHANGED <<game, slot, serviceVars, listenerVars, backVars, mainVars, end, nativeVars>>

Shutdown == ShutdownRevoke \/ ShutdownSettle \/ ShutdownBackend \/ ShutdownJoin

-----------------------------------------------------------------------------
(* The engine, and the other mutations of the game.                        *)

MenuOpens ==
    /\ menu = "opening"
    /\ menu' \in {"open", "closed"}
    /\ UNCHANGED <<game, slot, serviceVars, listenerVars, backVars, mainVars, end, spc, passing,
                   pressed, accepted, started, blind>>

\* Skyrim begins to pass time some frames after the menu was accepted.
TimeStarts ==
    /\ pressed # NoRequest /\ passing = NoRequest
    /\ passing' = pressed
    /\ pressed' = NoRequest
    /\ UNCHANGED <<game, slot, serviceVars, listenerVars, backVars, mainVars, end, spc, menu,
                   accepted, started, blind>>

TimeEnds ==
    /\ passing # NoRequest
    /\ passing' = NoRequest
    /\ blind' = FALSE
    /\ UNCHANGED <<game, slot, serviceVars, listenerVars, backVars, mainVars, end, spc, menu,
                   pressed, accepted, started>>

\* By the engine after a rest, or by the player.
MenuCloses ==
    /\ menu = "open" /\ passing = NoRequest
    /\ menu' = "closed"
    /\ pressed' = NoRequest /\ blind' = FALSE
    /\ UNCHANGED <<game, slot, serviceVars, listenerVars, backVars, mainVars, end, spc, passing,
                   accepted, started>>

Engine == MenuOpens \/ TimeStarts \/ TimeEnds \/ MenuCloses

\* A save, a load or a calendar advance takes the slot, and gives it back.
RivalBegins(r) ==
    /\ Goto(r, "idle", "holds")
    /\ ~slot.active
    /\ slot' = TryBegin(slot, r, "advanceTime", 0)
    /\ UNCHANGED <<game, serviceVars, reply, backVars, mainVars, end, spc, nativeVars>>

RivalEnds(r) ==
    /\ Goto(r, "holds", "done")
    /\ slot' = MarkDispatchFailed(slot, r)
    /\ UNCHANGED <<game, serviceVars, reply, backVars, mainVars, end, spc, nativeVars>>

Rival(r) == RivalBegins(r) \/ RivalEnds(r)

-----------------------------------------------------------------------------
Next == \/ \E r \in Rests : Start(r) \/ Complete(r)
        \/ Main
        \/ PollLoop
        \/ ShutdownClose \/ Shutdown
        \/ Engine
        \/ \E r \in Rivals : Rival(r)

Spec == Init /\ [][Next]_vars

\* Threads are scheduled, the main thread among them, deadlines pass, and a
\* native rest comes to its end.  Nobody has to call or to shut down.
FairSpec == /\ Spec
            /\ \A r \in Rests : WF_vars((pc[r] # "idle" /\ Start(r)) \/ Complete(r))
            /\ WF_vars(Main) /\ SF_vars(PollMenu /\ poll' = "idle")
            /\ WF_vars(PollLoop)
            /\ WF_vars(Shutdown)
            /\ WF_vars(MenuOpens) /\ WF_vars(TimeEnds) /\ WF_vars(MenuCloses)

-----------------------------------------------------------------------------
\* The service's operation, and what a thread may carry.
RestOperations ==
    [id : Rests, dispatched : BOOLEAN, active : {TRUE},
     phase : {"reserved", "dispatching", "queued", "uncertain"}]
    \union
    [id : Rests \union {NoRequest}, dispatched : BOOLEAN, active : {FALSE}, phase : Outcomes]

Completions == [op : Rests \union {NoRequest}, outcome : Outcomes, dispatched : BOOLEAN,
                at : {"backend", "service", "tracker", "done"}]

\* The shape of every variable.
TypeOK ==
    /\ game \in {"fallout4", "skyrimse"}
    /\ slot \in Operations
    /\ srv \in RestOperations
    /\ accepting \in BOOLEAN
    /\ gate \in [Rests -> {"queued", "running", "cancelled"}]
    /\ pc \in [Requests -> {"idle", "reserve", "install", "dispatch", "wait", "revoke",
                            "cancelled", "uncertain", "holds", "done"}]
    /\ reply \in [Rests -> {"none", "refused", "outcome", "cancelled", "uncertain", "status", "lost"}]
    /\ active \in Rests \union {NoRequest}
    /\ stopping \in BOOLEAN
    /\ poll \in {"idle", "requested", "queued"}
    /\ ppc \in {"wait", "exited"}
    /\ queue \in Seq({"begin", "poll"} \X Rests)
    /\ mpc \in {"idle", "dispatching", "service", "native", "queued", "queuedService", "toggle"}
    /\ task \in Rests \union {NoRequest}
    /\ end \in [Threads -> Completions]
    /\ spc \in {"idle", "revoke", "cancelled", "uncertain", "backend", "join", "done"}
    /\ menu \in {"closed", "opening", "open"}
    /\ {passing, pressed} \subseteq Rests \union {NoRequest}
    /\ accepted \in BOOLEAN /\ started \in BOOLEAN /\ blind \in BOOLEAN

\* The three copies of "which rest runs" agree although no lock covers them: a
\* rest the service believes in holds the slot, and a rest that holds the slot
\* is the service's, or about to be installed or to give the slot back.
CopiesAgree ==
    /\ srv.active => Holds(slot, srv.id)
    /\ \A r \in Rests : Holds(slot, r) =>
          Ongoing(r) \/ pc[r] = "install" \/ \E t \in Threads : end[t].at = "tracker" /\ end[t].op = r

\* While the engine passes time for a rest no other mutation can take the slot,
\* unless the back end had to give the rest up without knowing how it went on.
RestCovered == passing # NoRequest => Holds(slot, passing) \/ blind

\* A caller told that its rest was cancelled before native execution may ask
\* again: the main thread has not begun it, and never will.
CancelledNeverRests == \A r \in Rests : reply[r] = "cancelled" => gate[r] # "running"

\* No outcome is lost: a rest that goes on after its caller was told that it is
\* uncertain still reaches its outcome and gives the slot back, unless the
\* service is shut down.
RestEnds == \A r \in Rests : Holds(slot, r) ~> (~Holds(slot, r) \/ stopping)

\* Shutdown and the caller that waits both return, whatever the other does.
ShutdownEnds == spc # "idle" ~> (spc = "done" /\ \A r \in Rests : pc[r] \in {"idle", "done"})
=============================================================================
