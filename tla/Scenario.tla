------------------------------ MODULE Scenario ------------------------------
(***************************************************************************)
(* The scenario tool: callers submit plans, one at a time, to one worker   *)
(* that runs their steps through the other tools, waits for events and     *)
(* values, and undoes what a run still holds; Cancel and Shutdown stop it  *)
(* cooperatively, from their own threads.                                  *)
(***************************************************************************)
EXTENDS Integers, Sequences, FiniteSets, SequencesExt

CONSTANTS
    Runs,          \* the run requests, each submitted once
    Cancellable,   \* the runs that someone cancels
    ShutsDown,     \* whether the host shuts down
    Plan,          \* Plan[r]: [steps, repeat, continueOnError, throws]; throws: whether
                   \* the run has a finalizeResult that does
    HistoryLimit,
    MaxRing,       \* the events the bus retains
    MaxNoise,      \* bound on the events of others
    None

VARIABLES
    stopping, active, pending, runs, completed,  \* under the service's mutex
    phase, cancel, status,  \* of the runs' records
    caller,   \* caller[r]: the thread that submits r
    canceller,\* canceller[r]: a thread that cancels r
    shutter,  \* the thread that shuts down
    pc, run,  \* the worker: where it is, and its record
    at, rep,  \* currentIndex, from 1, and the repetition
    late, over,     \* the run's and the step's deadlines have passed
    failed, stop,   \* anyFailure; "none", "aborted", "cancelled" or "timedOut"
    owns, acquired, uncertain,  \* ownsInput, cameraFreecamAcquired, cameraReleaseUncertain
    incomplete,     \* the cleanup's verdict on the camera
    action,   \* the last tool step, [cursor, operation], or None
    cursor,   \* waitFor: the last event read
    ring, head, noise,  \* the event bus
    operation,\* the game's operation
    owed, cause,    \* the act's event is still to come; its number, or 0
    held, free,     \* the runs whose keys are down; the run whose free camera is on
    stuck,    \* history: the runs whose releaseAll failed
    first     \* history: first[r]: what was published of r first

serviceVars == <<stopping, active, pending, runs, completed>>
recordVars == <<phase, cancel, status>>
threadVars == <<caller, canceller, shutter>>
stepVars == <<run, at, rep, late, over, failed, stop>>
ownVars == <<owns, acquired, uncertain, incomplete>>
waitVars == <<action, cursor>>
busVars == <<ring, head>>
worldVars == <<operation, owed, cause, held, free, stuck>>
vars == <<serviceVars, recordVars, threadVars, pc, stepVars, ownVars, waitVars, busVars, noise,
          worldVars, first>>

Init ==
    /\ stopping = FALSE /\ active = None /\ pending = None /\ runs = {} /\ completed = <<>>
    /\ phase = [r \in Runs |-> "pending"] /\ cancel = [r \in Runs |-> FALSE]
    /\ status = [r \in Runs |-> None]
    /\ caller = [r \in Runs |-> "idle"] /\ canceller = [r \in Runs |-> "idle"] /\ shutter = "idle"
    /\ pc = "look" /\ run = None /\ at = 0 /\ rep = 1 /\ late = FALSE /\ over = FALSE
    /\ failed = FALSE /\ stop = "none"
    /\ owns = FALSE /\ acquired = FALSE /\ uncertain = FALSE /\ incomplete = FALSE
    /\ action = None /\ cursor = 0 /\ ring = <<>> /\ head = 0 /\ noise = 0
    /\ operation = None /\ owed = FALSE /\ cause = 0 /\ held = {} /\ free = None /\ stuck = {}
    /\ first = [r \in Runs |-> None]

-----------------------------------------------------------------------------
Says(r, what) == first' = [first EXCEPT ![r] = IF @ = None THEN what ELSE @]

\* Publish of the bus: the scenario's own topics match no waitFor.
Publish(matches) ==
    LET all == Append(ring, [seq |-> head + 1, matches |-> matches])
    IN /\ ring' = SubSeq(all, Max({1, Len(all) - MaxRing + 1}), Len(all))
       /\ head' = head + 1

Step == Plan[run].steps[at]
Stopped == stopping \/ cancel[run]

\* workerCv.notify: the worker checks its predicate again, if it is blocked.
NotifyWorker == pc' = CASE pc = "blocked" -> "look" [] pc = "asleep" -> "falling" [] OTHER -> pc

-----------------------------------------------------------------------------
(* The callers: Submit and Handle.                                         *)

Submit(r) ==
    /\ caller[r] = "idle"
    /\ IF stopping \/ active # None
       THEN /\ caller' = [caller EXCEPT ![r] = "refused"]
            /\ UNCHANGED <<active, pending, runs>>
       ELSE /\ caller' = [caller EXCEPT ![r] = "accepted"]
            /\ active' = r /\ pending' = r /\ runs' = runs \union {r}
    /\ UNCHANGED <<stopping, completed, recordVars, canceller, shutter, pc, stepVars, ownVars,
                   waitVars, busVars, worldVars, first>>

\* onSubmitted, outside of the mutex.
OnSubmitted(r) ==
    /\ caller[r] = "accepted"
    /\ caller' = [caller EXCEPT ![r] = "told"]
    /\ Says(r, "submitted")
    /\ UNCHANGED <<serviceVars, recordVars, canceller, shutter, pc, stepVars, ownVars, waitVars,
                   busVars, worldVars>>

\* Slip: the worker is not notified.
SubmittedSilently(r) ==
    /\ caller[r] = "told"
    /\ caller' = [caller EXCEPT ![r] = "waiting"]
    /\ UNCHANGED <<serviceVars, recordVars, canceller, shutter, pc, stepVars, ownVars, waitVars,
                   busVars, worldVars, first>>

Submitted(r) ==
    /\ caller[r] = "told"
    /\ caller' = [caller EXCEPT ![r] = "waiting"]
    /\ NotifyWorker
    /\ UNCHANGED <<serviceVars, recordVars, canceller, shutter, stepVars, ownVars, waitVars,
                   busVars, worldVars, first>>

\* The wait on doneCv of a run that is not asynchronous.
Answer(r) ==
    /\ caller[r] = "waiting" /\ phase[r] = "done"
    /\ caller' = [caller EXCEPT ![r] = "answered"]
    /\ UNCHANGED <<serviceVars, recordVars, canceller, shutter, pc, stepVars, ownVars, waitVars,
                   busVars, worldVars, first>>

\* Cancel looks at the phase and sets the flag under the record's mutex ...
Cancel(r) ==
    /\ canceller[r] = "idle" /\ r \in runs \intersect Cancellable
    /\ IF phase[r] = "done"
       THEN canceller' = [canceller EXCEPT ![r] = "done"] /\ UNCHANGED cancel
       ELSE /\ canceller' = [canceller EXCEPT ![r] = "flagged"]
            /\ cancel' = [cancel EXCEPT ![r] = TRUE]
    /\ UNCHANGED <<serviceVars, phase, status, caller, shutter, pc, stepVars, ownVars, waitVars,
                   busVars, worldVars, first>>

\* ... and notifies without the mutex that the worker waits with.
Cancelled(r) ==
    /\ canceller[r] = "flagged"
    /\ canceller' = [canceller EXCEPT ![r] = "told"]
    /\ NotifyWorker
    /\ UNCHANGED <<serviceVars, recordVars, caller, shutter, stepVars, ownVars, waitVars, busVars,
                   worldVars, first>>

\* Shutdown.
Shutdown ==
    /\ shutter = "idle" /\ ShutsDown
    /\ stopping' = TRUE
    /\ cancel' = [r \in Runs |-> cancel[r] \/ r \in {active, pending}]
    /\ shutter' = "flagged"
    /\ UNCHANGED <<active, pending, runs, completed, phase, status, caller, canceller, pc,
                   stepVars, ownVars, waitVars, busVars, worldVars, first>>

ShutdownNotifies ==
    /\ shutter = "flagged"
    /\ shutter' = "joining"
    /\ NotifyWorker
    /\ UNCHANGED <<serviceVars, recordVars, caller, canceller, stepVars, ownVars, waitVars,
                   busVars, worldVars, first>>

ShutdownJoins ==
    /\ shutter = "joining" /\ pc = "exited"
    /\ shutter' = "joined"
    /\ UNCHANGED <<serviceVars, recordVars, caller, canceller, pc, stepVars, ownVars, waitVars,
                   busVars, worldVars, first>>

-----------------------------------------------------------------------------
(* WorkerLoop and Execute.                                                 *)

\* A pending run is taken even when the service stops: it ends as cancelled.
Look ==
    /\ pc = "look"
    /\ pc' = IF pending # None THEN "begin" ELSE IF stopping THEN "exited" ELSE "blocked"
    /\ run' = IF pending # None THEN pending ELSE run
    /\ pending' = None
    /\ UNCHANGED <<stopping, active, runs, completed, recordVars, threadVars, at, rep, late, over,
                   failed, stop, ownVars, waitVars, busVars, worldVars, first>>

Begin ==
    /\ pc = "begin"
    /\ pc' = "next"
    /\ phase' = [phase EXCEPT ![run] = "running"]
    /\ Publish(FALSE)
    /\ Says(run, "started")
    /\ UNCHANGED <<serviceVars, cancel, status, threadVars, stepVars, ownVars, waitVars, worldVars>>

\* CheckStop.
StopReason == IF Stopped THEN "cancelled" ELSE IF late THEN "timedOut" ELSE "none"

\* The head of the loops, which a plan may leave empty; a repetition begins
\* without a correlation.
NextStep ==
    /\ pc = "next"
    /\ LET last == at = Len(Plan[run].steps)
           again == last /\ at > 0 /\ rep < Plan[run].repeat
       IN IF stop # "none" \/ (last /\ ~again)
          THEN /\ pc' = "summary" /\ UNCHANGED <<at, rep, stop, action>>
          ELSE /\ stop' = StopReason
               /\ pc' = IF StopReason = "none" THEN "step" ELSE "summary"
               /\ at' = IF again THEN 1 ELSE at + 1
               /\ rep' = IF again THEN rep + 1 ELSE rep
               /\ action' = IF again THEN None ELSE action
    /\ over' = FALSE
    /\ UNCHANGED <<serviceVars, recordVars, threadVars, run, late, failed, ownVars, cursor,
                   busVars, worldVars, first>>

\* A step's outcome: a failure ends the run unless it goes on after errors, a
\* transcript that has grown too large ends it in any case.
EndStep(outcome) ==
    /\ pc' = "next"
    /\ failed' = (failed \/ outcome # "ok")
    /\ stop' = CASE outcome \in {"cancelled", "timedOut"} -> outcome
                 [] outcome = "tooLarge" \/ (outcome = "failed" /\ ~Plan[run].continueOnError) -> "aborted"
                 [] OTHER -> stop

-----------------------------------------------------------------------------
(* ExecuteStep: the tools.                                                 *)

\* Input and camera steps and the game's operations; "pressAs" names an owner
\* of its own, to whom the keys belong, not to the run.
Tools == {"press", "pressAs", "freecam", "freecamOff", "act"}
EventWaits == {"waitFor", "waitForModal"}
Waits == EventWaits \union {"wait", "until", "untilState", "scene"}

\* Slip: the bus's head is read when the tool has returned.
DispatchWithoutCursor ==
    /\ pc = "step" /\ Step \in Tools
    /\ pc' = "invoking"
    /\ action' = [cursor |-> head + 1, operation |-> None]
    /\ owns' = (owns \/ Step = "press")
    /\ UNCHANGED <<serviceVars, recordVars, threadVars, stepVars, acquired, uncertain, incomplete,
                   cursor, busVars, worldVars, first>>

Dispatch ==
    /\ pc = "step" /\ Step \in Tools
    /\ pc' = "invoking"
    /\ action' = [cursor |-> head, operation |-> None]
    /\ owns' = (owns \/ Step = "press")
    /\ UNCHANGED <<serviceVars, recordVars, threadVars, stepVars, acquired, uncertain, incomplete,
                   cursor, busVars, worldVars, first>>

\* The game takes an operation over; its event comes some time later.
Acts ==
    /\ pc = "invoking" /\ Step = "act"
    /\ pc' = "acted"
    /\ operation' = run
    /\ owed' = TRUE /\ cause' = 0
    /\ UNCHANGED <<serviceVars, recordVars, threadVars, stepVars, ownVars, waitVars, busVars,
                   held, free, stuck, first>>

\* The answer of a tool may name the event number from which to look, one read
\* before its event came; what lies outside of the dispatch and the present is
\* ignored.
ActReturns ==
    /\ pc = "acted"
    /\ \E receipt \in 0..head + 1 :
        /\ cause = 0 \/ receipt < cause \/ receipt > head
        /\ action' = [cursor |-> IF receipt >= action.cursor /\ receipt <= head THEN receipt ELSE action.cursor,
                      operation |-> run]
    /\ \E outcome \in {"ok", "tooLarge"} : EndStep(outcome)
    /\ UNCHANGED <<serviceVars, recordVars, threadVars, run, at, rep, late, over, ownVars, cursor,
                   busVars, worldVars, first>>

\* The outcomes of the other tools: 504 leaves open whether it has happened.
Returns ==
    /\ pc = "invoking"
    /\ \/ /\ Step \in {"press", "pressAs"}
          /\ held' = (IF Step = "press" THEN held \union {run} ELSE held) /\ EndStep("ok")
          /\ UNCHANGED <<free, acquired, uncertain>>
       \/ /\ Step \in {"freecam", "freecamOff"}
          /\ free' = (IF Step = "freecam" THEN run ELSE None) /\ acquired' = (Step = "freecam")
          /\ EndStep("ok")
          /\ UNCHANGED <<held, uncertain>>
       \/ /\ Step \in {"freecam", "freecamOff"}
          /\ free' \in {free, IF Step = "freecam" THEN run ELSE None}
          /\ uncertain' = TRUE /\ EndStep("failed")
          /\ UNCHANGED <<held, acquired>>
       \/ /\ EndStep("failed")
          /\ held' \in {held, IF Step = "press" THEN held \union {run} ELSE held}
          /\ UNCHANGED <<free, acquired, uncertain>>
    /\ UNCHANGED <<serviceVars, recordVars, threadVars, run, at, rep, late, over, owns, incomplete,
                   waitVars, busVars, operation, owed, cause, stuck, first>>

-----------------------------------------------------------------------------
(* ExecuteStep: the waits.                                                 *)

\* The correlation is used up by the first waitFor.
BeginWait ==
    /\ pc = "step" /\ Step \in Waits
    /\ pc' = IF Step = "wait" THEN "falling" ELSE "poll"
    /\ cursor' = IF Step \notin EventWaits THEN cursor
                 ELSE IF action # None THEN action.cursor ELSE head
    /\ UNCHANGED <<serviceVars, recordVars, threadVars, stepVars, ownVars, action, busVars,
                   worldVars, first>>

\* A look that did not find what it is for: the run's deadline ends the run,
\* the step's the step.
NotYet ==
    \/ late /\ EndStep("timedOut")
    \/ ~late /\ over /\ EndStep("failed")
    \/ ~late /\ ~over /\ pc' = "falling" /\ UNCHANGED <<failed, stop>>

\* One look of waitFor: a gap in the numbers is an error of the step; a match
\* after a game operation counts only while that is the game's operation.
LookForEvent ==
    /\ pc = "poll" /\ Step \in EventWaits
    /\ LET fresh == {e \in Range(ring) : e.seq > cursor}
           matching == {e \in fresh : e.matches}
           gap == fresh # {} /\ \A e \in fresh : e.seq > cursor + 1
           expected == IF action = None THEN None ELSE action.operation
       IN /\ cursor' = IF fresh = {} THEN cursor ELSE Last(ring).seq
          /\ IF gap THEN EndStep("failed")
             ELSE IF matching # {}
             THEN EndStep(IF expected \in {None, operation} THEN "ok" ELSE "failed")
             ELSE IF Step = "waitForModal" THEN pc' = "modal" /\ UNCHANGED <<failed, stop>>
             ELSE NotYet
    /\ action' = IF pc' = "next" THEN None ELSE action
    /\ UNCHANGED <<serviceVars, recordVars, threadVars, run, at, rep, late, over, ownVars, busVars,
                   worldVars, first>>

\* Between two looks a message box may be accepted, though not for a run that
\* is to stop.
AcceptModal ==
    /\ pc = "modal"
    /\ IF StopReason # "none" THEN EndStep(StopReason) ELSE (NotYet \/ EndStep("failed"))
    /\ action' = IF pc' = "next" THEN None ELSE action
    /\ UNCHANGED <<serviceVars, recordVars, threadVars, run, at, rep, late, over, ownVars, cursor,
                   busVars, worldVars, first>>

\* One look of a predicate; without a value, or with a refusal that may pass,
\* it goes on.
LookForValue ==
    /\ pc = "poll" /\ Step = "until"
    /\ \E seen \in {"satisfied", "not", "refused"} :
        CASE seen = "satisfied" -> EndStep("ok")
          [] seen = "refused" -> EndStep("failed")
          [] seen = "not" -> NotYet
    /\ UNCHANGED <<serviceVars, recordVars, threadVars, run, at, rep, late, over, ownVars, waitVars,
                   busVars, worldVars, first>>

\* A look at the menus or at whether the player is loaded; 503 and 504 are no
\* answer.
LookForState ==
    /\ pc = "poll" /\ Step = "untilState"
    /\ \E seen \in {"yes", "no", "unavailable", "error"} :
        CASE seen = "yes" -> EndStep("ok")
          [] seen = "error" -> EndStep("failed")
          [] seen \in {"no", "unavailable"} -> NotYet
    /\ UNCHANGED <<serviceVars, recordVars, threadVars, run, at, rep, late, over, ownVars, waitVars,
                   busVars, worldVars, first>>

\* The scene is awaited only until it is loaded; where it is a soft condition
\* another one is no failure, and a deadline is seen by CheckStop.
LookForScene ==
    /\ pc = "poll" /\ Step = "scene"
    /\ \/ \E outcome \in {"ok", "failed"} : EndStep(outcome)
       \/ ~late /\ ~over /\ pc' = "falling" /\ UNCHANGED <<failed, stop>>
    /\ UNCHANGED <<serviceVars, recordVars, threadVars, run, at, rep, late, over, ownVars, waitVars,
                   busVars, worldVars, first>>

\* An assertion of a value or of the absence of blocking menus looks once; what
\* cannot be looked at throws, past the loops, and ends the run.
Asserts ==
    /\ pc = "step" /\ Step = "assert"
    /\ \/ \E outcome \in {"ok", "failed"} : EndStep(outcome)
       \/ pc' = "release" /\ failed' = TRUE /\ stop' = "aborted"
    /\ UNCHANGED <<serviceVars, recordVars, threadVars, run, at, rep, late, over, ownVars, waitVars,
                   busVars, worldVars, first>>

\* The console commands of a pose, any of which may fail, and its pause.
Pose ==
    /\ pc = "step" /\ Step = "pose"
    /\ EndStep("failed") \/ (pc' = "falling" /\ UNCHANGED <<failed, stop>>)
    /\ UNCHANGED <<serviceVars, recordVars, threadVars, run, at, rep, late, over, ownVars, waitVars,
                   busVars, worldVars, first>>

\* WaitInterruptibly finds its predicate false, with the mutex ...
Falls ==
    /\ pc = "falling"
    /\ pc' = IF Stopped THEN "woken" ELSE "dozing"
    /\ UNCHANGED <<serviceVars, recordVars, threadVars, stepVars, ownVars, waitVars, busVars,
                   worldVars, first>>

\* ... and blocks: what Cancel, without it, notifies in between is lost.
Sleeps ==
    /\ pc = "dozing"
    /\ pc' = "asleep"
    /\ UNCHANGED <<serviceVars, recordVars, threadVars, stepVars, ownVars, waitVars, busVars,
                   worldVars, first>>

WakesAt ==
    /\ pc = "asleep"
    /\ pc' = "woken"
    /\ UNCHANGED <<serviceVars, recordVars, threadVars, stepVars, ownVars, waitVars, busVars,
                   worldVars, first>>

Wakes ==
    /\ pc = "woken"
    /\ IF StopReason # "none" THEN EndStep(StopReason)
       ELSE IF Step \in {"wait", "pose"} THEN EndStep("ok") ELSE pc' = "poll" /\ UNCHANGED <<failed, stop>>
    /\ UNCHANGED <<serviceVars, recordVars, threadVars, run, at, rep, late, over, ownVars, waitVars,
                   busVars, worldVars, first>>

-----------------------------------------------------------------------------
(* The end of a run: Finalize.                                             *)

\* Execute looks once more; anything that ends it early is told.
Summary ==
    /\ pc = "summary"
    /\ pc' = "release"
    /\ stop' = IF stop \in {"none", "aborted"} /\ StopReason # "none" THEN StopReason ELSE stop
    /\ UNCHANGED <<serviceVars, recordVars, threadVars, run, at, rep, late, over, failed, ownVars,
                   waitVars, busVars, worldVars, first>>

\* CleanupOwned: the keys, whatever comes of it ...
ReleaseInput ==
    /\ pc = "release"
    /\ pc' = "restore"
    /\ \/ held' = (IF owns THEN held \ {run} ELSE held) /\ UNCHANGED stuck
       \/ owns /\ stuck' = stuck \union {run} /\ UNCHANGED held
    /\ UNCHANGED <<serviceVars, recordVars, threadVars, stepVars, ownVars, waitVars, busVars,
                   operation, owed, cause, free, first>>

\* ... and the camera, which an uncertain mutation leaves alone.  A release
\* may fail, or the point of view may not come back.
RestoreCamera ==
    /\ pc = "restore"
    /\ pc' = "commit"
    /\ \/ ~acquired /\ UNCHANGED <<free, incomplete>>
       \/ acquired /\ ~uncertain /\ free' = None /\ incomplete' \in BOOLEAN
       \/ acquired /\ incomplete' = TRUE /\ UNCHANGED free
    /\ UNCHANGED <<serviceVars, recordVars, threadVars, stepVars, owns, acquired, uncertain,
                   waitVars, busVars, operation, owed, cause, held, stuck, first>>

\* The status: a cancellation that was accepted before the result is committed,
\* or a stop, counts; then a deadline that was not noticed; then the cleanup, and
\* what Execute found.  A finalizeResult that throws overrides it.
Committed ==
    IF Plan[run].throws THEN "failed"
    ELSE IF cancel[run] \/ (stopping /\ stop # "cancelled") THEN "cancelled"
    ELSE IF late /\ stop # "timedOut" THEN "timedOut"
    ELSE IF incomplete THEN "failed"
    ELSE IF stop \in {"cancelled", "timedOut"} THEN stop
    ELSE IF failed THEN "failed"
    ELSE "completed"

Commit ==
    /\ pc = "commit"
    /\ pc' = "forget"
    /\ status' = [status EXCEPT ![run] = Committed]
    /\ phase' = [phase EXCEPT ![run] = "done"]
    /\ Publish(FALSE)
    /\ Says(run, "finished")
    /\ UNCHANGED <<serviceVars, cancel, threadVars, stepVars, ownVars, waitVars, worldVars>>

\* The next run is admitted from here on.
Forget ==
    /\ pc = "forget"
    /\ pc' = "callback"
    /\ active' = IF active = run THEN None ELSE active
    /\ LET all == Append(completed, run)
           gone == Max({0, Len(all) - HistoryLimit})
       IN /\ completed' = SubSeq(all, gone + 1, Len(all))
          /\ runs' = runs \ {all[i] : i \in 1..gone}
    /\ UNCHANGED <<stopping, pending, recordVars, threadVars, stepVars, ownVars, waitVars, busVars,
                   worldVars, first>>

\* With the callback the run's locals are gone; the events are numbered from a
\* run's start, none of its cursors lies before.
OnCompleted ==
    /\ pc = "callback"
    /\ pc' = "look"
    /\ Says(run, "completed")
    /\ run' = None /\ at' = 0 /\ rep' = 1 /\ late' = FALSE /\ over' = FALSE /\ failed' = FALSE
    /\ stop' = "none" /\ owns' = FALSE /\ acquired' = FALSE /\ uncertain' = FALSE
    /\ incomplete' = FALSE /\ action' = None /\ cursor' = 0 /\ owed' = FALSE /\ cause' = 0
    /\ ring' = <<>> /\ head' = 0
    /\ UNCHANGED <<serviceVars, recordVars, threadVars, operation, held, free, stuck>>

-----------------------------------------------------------------------------
(* Time, the game, and everyone else.                                      *)

Waiting == pc \in {"poll", "modal", "falling", "dozing", "asleep", "woken"}

\* What the worker does of a run that is running: its deadline may pass anywhere.
Mid == {"next", "step", "invoking", "acted", "poll", "modal", "falling", "dozing", "asleep", "woken",
        "summary", "release", "restore", "commit"}

RunDeadline ==
    /\ pc \in Mid /\ ~late
    /\ late' = TRUE
    /\ UNCHANGED <<serviceVars, recordVars, threadVars, pc, run, at, rep, over, failed, stop, ownVars,
                   waitVars, busVars, worldVars, first>>

StepDeadline ==
    /\ Waiting /\ ~over
    /\ over' = TRUE
    /\ UNCHANGED <<serviceVars, recordVars, threadVars, pc, run, at, rep, late, failed, stop, ownVars,
                   waitVars, busVars, worldVars, first>>

Occurs ==
    /\ owed
    /\ owed' = FALSE /\ cause' = head + 1
    /\ Publish(TRUE)
    /\ UNCHANGED <<serviceVars, recordVars, threadVars, pc, stepVars, ownVars, waitVars, operation,
                   held, free, stuck, first>>

\* Other events; another caller's operation may take the game's place.
Others ==
    /\ noise < MaxNoise /\ action # None
    /\ noise' = noise + 1
    /\ \E same \in BOOLEAN :
        /\ Publish(same)
        /\ operation' \in {operation, IF same THEN None ELSE operation}
    /\ UNCHANGED <<serviceVars, recordVars, threadVars, pc, stepVars, ownVars, waitVars, owed, cause,
                   held, free, stuck, first>>

Worker ==
    \/ Look \/ Begin \/ NextStep \/ Dispatch \/ Acts \/ ActReturns \/ Returns
    \/ BeginWait \/ LookForEvent \/ AcceptModal \/ LookForValue \/ LookForState \/ LookForScene
    \/ Asserts \/ Pose \/ Falls \/ Sleeps \/ WakesAt \/ Wakes
    \/ Summary \/ ReleaseInput \/ RestoreCamera \/ Commit \/ Forget \/ OnCompleted

Next ==
    \/ \E r \in Runs : (\/ Submit(r) \/ OnSubmitted(r) \/ Submitted(r) \/ Answer(r)
                        \/ Cancel(r) \/ Cancelled(r)) /\ UNCHANGED noise
    \/ (Shutdown \/ ShutdownNotifies \/ ShutdownJoins \/ Worker \/ RunDeadline \/ StepDeadline
        \/ Occurs) /\ UNCHANGED noise
    \/ Others

Spec == Init /\ [][Next]_vars

\* Threads that can run do, a tool that was called returns, and time passes.
FairSpec ==
    /\ Spec
    /\ WF_vars(Worker /\ UNCHANGED noise)
    /\ WF_vars((RunDeadline \/ StepDeadline) /\ UNCHANGED noise)
    /\ \A r \in Runs : WF_vars((OnSubmitted(r) \/ Submitted(r) \/ Answer(r)) /\ UNCHANGED noise)
    /\ WF_vars((ShutdownNotifies \/ ShutdownJoins) /\ UNCHANGED noise)

-----------------------------------------------------------------------------
Resting == {"look", "blocked", "exited"}
Statuses == {"cancelled", "timedOut", "failed", "completed"}
Events == [seq : Nat, matches : BOOLEAN]
Receipts == [cursor : Nat, operation : Runs \union {None}]

\* What is assumed of the constants: plans are made of steps, and the bus retains
\* something.
ScenarioAssumption ==
    /\ None \notin Runs \union Statuses \union Receipts /\ HistoryLimit \in Nat /\ MaxRing \in Nat \ {0}
    /\ Plan \in [Runs -> [steps : Seq(Tools \union Waits \union {"assert", "pose"}),
                          repeat : Nat \ {0}, continueOnError : BOOLEAN, throws : BOOLEAN]]

\* Every run that is not done can be found.
ServiceOK ==
    /\ active \in Runs \union {None} /\ pending \in {None, active}
    /\ completed \in Seq(Runs) /\ Len(completed) <= HistoryLimit
    /\ runs = Range(completed) \union ({active} \ {None})
    /\ phase \in [Runs -> {"pending", "running", "done"}] /\ cancel \in [Runs -> BOOLEAN]
    /\ status \in [Runs -> Statuses \union {None}]
    /\ \A r \in Runs : phase[r] = "done" <=> status[r] # None
    /\ caller \in [Runs -> {"idle", "refused", "accepted", "told", "waiting", "answered"}]
    /\ canceller \in [Runs -> {"idle", "done", "flagged", "told"}]
    /\ stopping \in BOOLEAN /\ shutter \in {"idle", "flagged", "joining", "joined"}

StepOK ==
    /\ pc \in Resting \union {"begin"} \union Mid \union {"forget", "callback"}
    /\ run \in Runs \union {None}
    /\ IF pc \in Resting THEN at = 0 ELSE run \in Runs /\ at \in 0..Len(Plan[run].steps)
    /\ {late, over, failed, owns, acquired, uncertain, incomplete} \subseteq BOOLEAN
    /\ stop \in {"none", "aborted", "cancelled", "timedOut"}
    /\ {at, rep, cursor} \subseteq Nat

WorldOK ==
    /\ action \in Receipts \union {None}
    /\ ring \in Seq(Events) /\ Len(ring) <= MaxRing
    /\ {head, noise, cause} \subseteq Nat /\ owed \in BOOLEAN
    /\ operation \in Runs \union {None} /\ free \in Runs \union {None}
    /\ held \subseteq Runs /\ stuck \subseteq Runs
    /\ first \in [Runs -> {"submitted", "started", "finished", "completed", None}]

\* The shape of every variable.
TypeOK == ServiceOK /\ StepOK /\ WorldOK

\* A cancellation that was accepted is the run's outcome, even if it comes
\* when the last step is done: nobody is told both.  Only a finalizeResult that
\* throws may still call the run failed.
CancelTrue ==
    \A r \in Runs : phase[r] = "done" /\ canceller[r] \in {"flagged", "told"} =>
        status[r] = IF Plan[r].throws THEN "failed" ELSE "cancelled"

\* However a run ends, it holds no key down that it could release, and its
\* free camera stays on only in a run that does not call itself completed.
LeavesClean ==
    \A r \in Runs : phase[r] = "done" =>
        /\ r \in held => r \in stuck
        /\ free = r => status[r] # "completed"

\* What an operation of the game sets off is not missed by the waitFor after it:
\* while that waits, the event is still to come or to be read.
WaitForMissesNothing ==
    /\ Waiting /\ Step \in EventWaits /\ cause > 0
    /\ action # None /\ action.operation # None
    => cause > cursor

\* "Called after the run is entered into history and before the worker is
\* notified": nothing of a run is published before onSubmitted.
OnSubmittedFirst == \A r \in Runs : first[r] \in {None, "submitted"}

\* Every accepted run ends and its caller is answered, also when the wake-up of
\* a cancellation is lost; and a shutdown ends.
ScenarioEnds ==
    /\ \A r \in Runs : caller[r] = "accepted" ~> caller[r] = "answered"
    /\ stopping ~> shutter = "joined"
=============================================================================
