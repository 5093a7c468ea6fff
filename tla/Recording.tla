----------------------------- MODULE Recording -----------------------------
(***************************************************************************)
(* The recorder: callers start, mark and stop a recording and replay one   *)
(* through the scenario tool; a thread samples the player, the event bus   *)
(* delivers later than it numbers, and what a replay does must not be      *)
(* recorded as the player's.                                               *)
(***************************************************************************)
EXTENDS Integers, Sequences, FiniteSets

CONSTANTS
    Clients,       \* the callers
    MaxCalls,      \* bound on the calls of the tool
    MaxEvents,     \* bound on the published events
    MaxSamples,    \* kMaximumTrajectorySamples
    MaxActivity,   \* kMaximumActivityEvents
    Budget,        \* kReplayPlanningBudget
    None

VARIABLES
    phase, stopping, stopRequested, generation,  \* under the service's mutex
    replaying, startCursor, suppressionEnd,      \* replayStartCursor, replaySuppressionEnd
    samples, activity, checkpoints,   \* the recording
    entry,         \* entry: the event that the player is taken to have come by
    joinable, joining,   \* of the std::thread: who is in its join()
    sampler,       \* the thread: [pc, generation, snapshot]
    at,            \* at[c]: where the call of c is
    shutter,       \* the thread that shuts down
    run, round,    \* the replay's scenario, and the number of the replay
    commands,      \* the replays' console commands that the main thread has still to run
    queue, head,   \* the bus: events not yet delivered, the last number
    calls          \* how many calls there were

phaseVars == <<phase, stopping, stopRequested, generation>>
replayVars == <<replaying, startCursor, suppressionEnd>>
recordingVars == <<samples, activity, checkpoints>>
threadVars == <<joinable, joining, sampler>>
busVars == <<commands, queue, head>>
vars == <<phaseVars, replayVars, recordingVars, entry, threadVars, at, shutter, run, round, busVars,
          calls>>

Init ==
    /\ phase = "idle" /\ stopping = FALSE /\ stopRequested = FALSE /\ generation = 0
    /\ replaying = FALSE /\ startCursor = None /\ suppressionEnd = None
    /\ samples = <<>> /\ activity = {} /\ checkpoints = 0 /\ entry = None
    /\ joinable = FALSE /\ joining = {}
    /\ sampler = [pc |-> "none", generation |-> 0, snapshot |-> None]
    /\ at = [c \in Clients |-> "idle"] /\ shutter = "idle"
    /\ run = None /\ round = 0 /\ commands = <<>> /\ queue = <<>> /\ head = 0 /\ calls = 0

-----------------------------------------------------------------------------
\* ProjectedReplayUnits.
Units(s, a, c) == s + 4 * a + 4 * c

Goes(c, from, to) == at[c] = from /\ at' = [at EXCEPT ![c] = to]

\* HandleRecord looks at `stopping' once, before the call goes on.
Admit(c) ==
    /\ at[c] = "idle" /\ calls < MaxCalls /\ ~stopping
    /\ calls' = calls + 1
    /\ \E call \in {"start", "stop", "checkpoint", "replay"} : at' = [at EXCEPT ![c] = call]
    /\ UNCHANGED <<phaseVars, replayVars, recordingVars, entry, threadVars, shutter, run, round, busVars>>

-----------------------------------------------------------------------------
(* Start.                                                                  *)

StartBegins(c) ==
    /\ IF phase = "idle" THEN Goes(c, "start", "starting") /\ phase' = "starting"
                         ELSE Goes(c, "start", "idle") /\ UNCHANGED phase
    /\ UNCHANGED <<stopping, stopRequested, generation, replayVars, recordingVars, entry, threadVars,
                   shutter, run, round, busVars, calls>>

\* No snapshot, or no player in it.
StartFails(c) ==
    /\ Goes(c, "starting", "idle")
    /\ phase' = "idle"
    /\ UNCHANGED <<stopping, stopRequested, generation, replayVars, recordingVars, entry, threadVars,
                   shutter, run, round, busVars, calls>>

\* `stopping' is not looked at again.
StartRecords(c) ==
    /\ Goes(c, "starting", "idle")
    /\ phase' = "recording" /\ stopRequested' = FALSE /\ generation' = generation + 1
    /\ samples' = <<>> /\ activity' = {} /\ checkpoints' = 0
    /\ joinable' = TRUE
    /\ sampler' = [pc |-> "waiting", generation |-> generation + 1, snapshot |-> None]
    /\ UNCHANGED <<stopping, replayVars, entry, joining, shutter, run, round, busVars, calls>>

-----------------------------------------------------------------------------
(* SampleLoop.                                                             *)

\* Slip: the loop only looks whether it is still the latest.
StoppedSlip == generation # sampler.generation

Stopped ==
    stopping \/ stopRequested \/ generation # sampler.generation \/ phase # "recording"

\* The interval has passed, or the wait was notified.
SampleWaits ==
    /\ sampler.pc = "waiting"
    /\ \/ /\ sampler' = [sampler EXCEPT !.pc = IF Stopped THEN "ended" ELSE "snapping"]
          /\ UNCHANGED stopRequested
       \/ /\ ~Stopped
          /\ sampler' = [sampler EXCEPT !.pc = "ended"] /\ stopRequested' = TRUE
    /\ UNCHANGED <<phase, stopping, generation, replayVars, recordingVars, entry, joinable, joining, at,
                   shutter, run, round, busVars, calls>>

\* The snapshot is taken without the mutex; while a replay runs it shows what
\* that does.
Snapshot ==
    /\ sampler.pc = "snapping"
    /\ sampler' = [sampler EXCEPT !.pc = "taken", !.snapshot = IF run = None THEN "player" ELSE "replay"]
    /\ UNCHANGED <<phaseVars, replayVars, recordingVars, entry, joinable, joining, at, shutter, run,
                   round, busVars, calls>>

SnapshotFails ==
    /\ sampler.pc = "snapping"
    /\ sampler' = [sampler EXCEPT !.pc = "waiting"]
    /\ UNCHANGED <<phaseVars, replayVars, recordingVars, entry, joinable, joining, at, shutter, run,
                   round, busVars, calls>>

\* Another cell, the next entry of the activity.
Cell(by) == [kind |-> "cell", by |-> by, nr |-> Cardinality(activity)]

\* A sample with a pose that fits is kept; another cell is noted beyond the
\* budget too.
Sample ==
    /\ sampler.pc = "taken"
    /\ IF phase # "recording" \/ generation # sampler.generation \/ replaying
       THEN /\ sampler' = [sampler EXCEPT !.pc = "waiting", !.snapshot = None]
            /\ UNCHANGED <<stopRequested, samples, activity>>
       ELSE \E moved, pose \in BOOLEAN :
            LET fits == /\ Len(samples) < MaxSamples
                        /\ Units(Len(samples) + 1, Cardinality(activity'), checkpoints) <= Budget
            IN /\ activity' = IF moved /\ Cardinality(activity) < MaxActivity
                               THEN activity \union {Cell(sampler.snapshot)} ELSE activity
               /\ samples' = IF pose /\ fits THEN Append(samples, sampler.snapshot) ELSE samples
               /\ stopRequested' = (stopRequested \/ (pose /\ ~fits))
               /\ sampler' = [sampler EXCEPT !.pc = IF pose => fits THEN "waiting" ELSE "ended",
                                             !.snapshot = None]
    /\ UNCHANGED <<phase, stopping, generation, replayVars, checkpoints, entry, joinable, joining, at,
                   shutter, run, round, busVars, calls>>

-----------------------------------------------------------------------------
(* Checkpoint and Stop.                                                    *)

Checkpoint(c) ==
    /\ Goes(c, "checkpoint", "idle")
    /\ checkpoints' =
        IF phase = "recording" /\ Units(Len(samples), Cardinality(activity), checkpoints + 1) <= Budget
        THEN checkpoints + 1 ELSE checkpoints
    /\ UNCHANGED <<phaseVars, replayVars, samples, activity, entry, threadVars, shutter, run, round,
                   busVars, calls>>

StopBegins(c) ==
    /\ IF phase = "recording"
       THEN Goes(c, "stop", "stopping") /\ phase' = "stopping" /\ stopRequested' = TRUE
       ELSE Goes(c, "stop", "idle") /\ UNCHANGED <<phase, stopRequested>>
    /\ UNCHANGED <<stopping, generation, replayVars, recordingVars, entry, threadVars, shutter, run,
                   round, busVars, calls>>

\* worker.joinable(), and join().
StopJoins(c) ==
    /\ Goes(c, "stopping", IF joinable THEN "joining" ELSE "writing")
    /\ joining' = IF joinable THEN joining \union {c} ELSE joining
    /\ UNCHANGED <<phaseVars, replayVars, recordingVars, entry, joinable, sampler, shutter, run, round,
                   busVars, calls>>

\* Of two threads in join() one finds a handle that is no longer valid: it may
\* throw, and leaves the phase as it is.
StopJoined(c) ==
    /\ c \in joining /\ sampler.pc = "ended"
    /\ at' \in {[at EXCEPT ![c] = next] : next \in IF joinable THEN {"writing"} ELSE {"writing", "failed"}}
    /\ joining' = joining \ {c} /\ joinable' = FALSE
    /\ UNCHANGED <<phaseVars, replayVars, recordingVars, entry, sampler, shutter, run, round, busVars, calls>>

\* The document is parsed and written, or not.
StopWrites(c) ==
    /\ Goes(c, "writing", "idle")
    /\ phase' = "idle"
    /\ UNCHANGED <<stopping, stopRequested, generation, replayVars, recordingVars, entry, threadVars,
                   shutter, run, round, busVars, calls>>

-----------------------------------------------------------------------------
(* Shutdown.                                                               *)

Shutdown ==
    /\ shutter = "idle"
    /\ stopping' = TRUE /\ stopRequested' = TRUE
    /\ shutter' = "flagged"
    /\ UNCHANGED <<phase, generation, replayVars, recordingVars, entry, threadVars, at, run, round,
                   busVars, calls>>

ShutdownJoins ==
    /\ shutter = "flagged"
    /\ shutter' = IF joinable THEN "joining" ELSE "unsubscribed"
    /\ joining' = IF joinable THEN joining \union {"shutdown"} ELSE joining
    /\ UNCHANGED <<phaseVars, replayVars, recordingVars, entry, joinable, sampler, at, run, round,
                   busVars, calls>>

\* Shutdown is noexcept: a second join that throws ends the process.
ShutdownJoined ==
    /\ shutter = "joining" /\ sampler.pc = "ended"
    /\ shutter' \in IF joinable THEN {"unsubscribed"} ELSE {"unsubscribed", "terminated"}
    /\ joining' = joining \ {"shutdown"} /\ joinable' = FALSE
    /\ UNCHANGED <<phaseVars, replayVars, recordingVars, entry, sampler, at, run, round, busVars, calls>>

-----------------------------------------------------------------------------
(* Replay.                                                                 *)

ReplayBegins(c) ==
    /\ IF replaying
       THEN Goes(c, "replay", "idle") /\ UNCHANGED replayVars
       ELSE /\ Goes(c, "replay", "submitting")
            /\ replaying' = TRUE /\ startCursor' = head /\ suppressionEnd' = None
    /\ round' = IF replaying THEN round ELSE round + 1
    /\ UNCHANGED <<phaseVars, recordingVars, entry, threadVars, shutter, run, busVars, calls>>

\* ScenarioService::Run refuses; the cursor stays.
ReplayRefused(c) ==
    /\ Goes(c, "submitting", "idle")
    /\ replaying' = FALSE /\ suppressionEnd' = head
    /\ UNCHANGED <<phaseVars, startCursor, recordingVars, entry, threadVars, shutter, run, round,
                   busVars, calls>>

ReplaySubmitted(c) ==
    /\ Goes(c, "submitting", "idle")
    /\ run' = c
    /\ UNCHANGED <<phaseVars, replayVars, recordingVars, entry, threadVars, shutter, round, busVars,
                   calls>>

\* onCompleted, when the run's last step and its cleanup are done.
Completed ==
    /\ run # None
    /\ run' = None
    /\ replaying' = FALSE /\ suppressionEnd' = head
    /\ UNCHANGED <<phaseVars, startCursor, recordingVars, entry, threadVars, at, shutter, round,
                   busVars, calls>>

-----------------------------------------------------------------------------
(* The event bus.                                                          *)

\* A lifecycle, menu or input event, a console command, or another topic; the
\* commands of a replay come through the broker.
Publish(kind, by, nr) ==
    /\ head < MaxEvents
    /\ head' = head + 1
    /\ queue' = Append(queue, [kind |-> kind, by |-> by, during |-> replaying, round |-> nr,
                              seq |-> head + 1])

PlayerActs ==
    /\ \E kind \in {"console", "lifecycle", "other"} : Publish(kind, "player", round)
    /\ UNCHANGED <<phaseVars, replayVars, recordingVars, entry, threadVars, at, shutter, run, round,
                   commands, calls>>

ReplayActs ==
    /\ run # None
    /\ \E kind \in {"lifecycle", "other"} : Publish(kind, "replay", round)
    /\ UNCHANGED <<phaseVars, replayVars, recordingVars, entry, threadVars, at, shutter, run, round,
                   commands, calls>>

\* The console tool answers once the command is queued: the step is over.
ReplayQueues ==
    /\ run # None /\ head + Len(commands) < MaxEvents
    /\ commands' = Append(commands, round)
    /\ UNCHANGED <<phaseVars, replayVars, recordingVars, entry, threadVars, at, shutter, run, round,
                   queue, head, calls>>

\* The main thread comes to it, in the replay or after it; it may load a game.
CommandRuns ==
    /\ commands # <<>> /\ commands' = Tail(commands)
    /\ \E kind \in {"console", "lifecycle"} : Publish(kind, "replay", Head(commands))
    /\ UNCHANGED <<phaseVars, replayVars, recordingVars, entry, threadVars, at, shutter, run, round, calls>>

\* Slip: the start of the range is forgotten.
InReplayRangeSlip(event) ==
    replaying \/ (suppressionEnd # None /\ event.seq <= suppressionEnd)

InReplayRange(event) ==
    /\ startCursor # None /\ event.seq > startCursor
    /\ replaying \/ (suppressionEnd # None /\ event.seq <= suppressionEnd)

\* ObserveEvent, on the bus's thread: what the range covers is as if it had not
\* happened, but for a command that the player typed.
ObserveEvent ==
    /\ queue # <<>> /\ shutter \notin {"unsubscribed", "terminated"}
    /\ queue' = Tail(queue)
    /\ LET event == Head(queue)
           typed == event.kind = "console" /\ event.by = "player"
           known == event.kind # "other"
           records == phase = "recording" /\ ~replaying
           full == Cardinality(activity) >= MaxActivity
           fits == Units(Len(samples), Cardinality(activity) + 1, checkpoints) <= Budget
       IN IF InReplayRange(event) /\ ~typed
          THEN UNCHANGED <<replayVars, entry, activity, stopRequested>>
          ELSE /\ IF suppressionEnd # None /\ event.seq > suppressionEnd
                  THEN startCursor' = None /\ suppressionEnd' = None
                  ELSE UNCHANGED <<startCursor, suppressionEnd>>
               /\ entry' = IF known THEN [by |-> event.by, round |-> event.round, during |-> event.during]
                                    ELSE entry
               /\ activity' = IF records /\ known /\ ~full /\ fits THEN activity \union {event} ELSE activity
               /\ stopRequested' = (stopRequested \/ (records /\ (full \/ (known /\ ~fits))))
               /\ UNCHANGED replaying
    /\ UNCHANGED <<phase, stopping, generation, samples, checkpoints, threadVars, at, shutter, run,
                   round, commands, head, calls>>

Next ==
    \/ \E c \in Clients :
        \/ Admit(c) \/ StartBegins(c) \/ StartFails(c) \/ StartRecords(c)
        \/ Checkpoint(c) \/ StopBegins(c) \/ StopJoins(c) \/ StopJoined(c) \/ StopWrites(c)
        \/ ReplayBegins(c) \/ ReplayRefused(c) \/ ReplaySubmitted(c)
    \/ SampleWaits \/ Snapshot \/ SnapshotFails \/ Sample
    \/ Shutdown \/ ShutdownJoins \/ ShutdownJoined
    \/ Completed \/ PlayerActs \/ ReplayActs \/ ReplayQueues \/ CommandRuns \/ ObserveEvent

Spec == Init /\ [][Next]_vars

\* Calls go on, the sampling thread runs, and a snapshot returns.
FairSpec ==
    /\ Spec
    /\ \A c \in Clients : WF_vars(StopBegins(c) \/ StopJoins(c) \/ StopJoined(c) \/ StopWrites(c))
    /\ WF_vars(SampleWaits \/ Snapshot \/ Sample)
    /\ WF_vars(ShutdownJoins \/ ShutdownJoined)

-----------------------------------------------------------------------------
\* What is assumed of the constants: the bounds are numbers and None is not.
RecorderAssumption ==
    {MaxCalls, MaxEvents, MaxSamples, MaxActivity, Budget} \subseteq Nat /\ None \notin Nat

By == {"player", "replay"}
Events == [kind : {"console", "lifecycle", "other"}, by : By, during : BOOLEAN, round : Nat, seq : Nat]
Cells == [kind : {"cell"}, by : By, nr : Nat]
Calls == {"start", "stop", "checkpoint", "replay", "starting", "stopping", "joining", "writing",
          "submitting", "failed", "idle"}

\* The shape of every variable; the recording keeps the budget that a replay
\* of it needs, but for a change of cell, which is noted beyond it.
TypeOK ==
    /\ phase \in {"idle", "starting", "recording", "stopping"}
    /\ {stopping, stopRequested, replaying, joinable} \subseteq BOOLEAN
    /\ {generation, checkpoints, round, head, calls} \subseteq Nat
    /\ {startCursor, suppressionEnd} \subseteq Nat \union {None}
    /\ samples \in Seq(By) /\ Len(samples) <= MaxSamples
    /\ activity \subseteq Events \union Cells /\ IsFiniteSet(activity)
    /\ Cardinality(activity) <= MaxActivity
    /\ entry \in [by : By, round : Nat, during : BOOLEAN] \union {None}
    /\ joining \subseteq Clients \union {"shutdown"} /\ run \in Clients \union {None}
    /\ sampler \in [pc : {"none", "waiting", "snapping", "taken", "ended"}, generation : Nat,
                    snapshot : By \union {None}]
    /\ sampler.pc = "taken" => sampler.snapshot \in By
    /\ at \in [Clients -> Calls]
    /\ shutter \in {"idle", "flagged", "joining", "unsubscribed", "terminated"}
    /\ queue \in Seq(Events) /\ commands \in Seq(Nat)
    /\ Units(Len(samples), Cardinality({a \in activity : a.kind # "cell"}), checkpoints) <= Budget
    /\ replaying => startCursor \in 0..head /\ suppressionEnd = None
    /\ run # None => replaying

\* An event of the latest replay from before its end is not recorded as the
\* player's, nor taken for how the player came here, however late the bus
\* delivers it.  The range is the latest replay's: what an earlier one did is
\* not in it.
TailSuppressed ==
    \A e \in {a \in activity : a.kind # "cell"} \union ({entry} \ {None}) :
        e.by = "replay" => e.round < round \/ ~e.during

\* What the player does while no replay is active is not taken for one: it is
\* recorded when it is delivered to a recorder that records.
KeepsPlayer ==
    queue # <<>> /\ queue' = Tail(queue) /\ phase = "recording" /\ ~replaying /\ ~stopRequested'
            /\ Head(queue).by = "player" /\ Head(queue).kind # "other" /\ ~Head(queue).during
        => Head(queue) \in activity'

PlayerKept == [][KeepsPlayer]_vars

\* "suppress feedback recording": nothing that a replay did is recorded.  Not so
\* of a command that the main thread runs when the replay is over, nor of what
\* a snapshot shows that was taken while it ran.
ReplayNotRecorded ==
    /\ \A a \in activity : a.by = "player"
    /\ \A i \in DOMAIN samples : samples[i] = "player"

\* Stop and Shutdown return from the sampling thread's join.
JoinsReturn ==
    /\ \A c \in Clients : at[c] = "joining" ~> at[c] # "joining"
    /\ shutter = "flagged" ~> shutter \in {"unsubscribed", "terminated"}
=============================================================================
