--------------------------- MODULE MCServicesEnd ---------------------------
(***************************************************************************)
(* What the rest tool, the scenario tool, the recorder and the tracked     *)
(* sets of Skyrim VR promise to bring to an end, each by itself: `which'   *)
(* chooses the one that a behaviour is of, and the others have no state.   *)
(***************************************************************************)
EXTENDS Rest, TLC

CONSTANTS ours, theirs  \* a rest, and another mutation of the game

ASSUME EndAssumption == RestsAssumption

Self == [r \in {ours, theirs} |-> r]

\* A run that pauses and then looks for a value.
Plans == "a" :> [steps |-> <<"wait", "until">>, repeat |-> 1, continueOnError |-> FALSE, throws |-> TRUE]

\* A sequence that swaps the hands.
Tracks == {<<[at |-> 0, seq |-> 1, origin |-> 1, hmd |-> 0, left |-> 2, right |-> 1]>>}
Held == [left |-> 1, right |-> 2]

VARIABLES
    which,  \* the component that runs
    scenario_stopping, scenario_active, scenario_pending, scenario_runs, scenario_completed,
    scenario_phase, scenario_cancel, scenario_status, scenario_caller, scenario_canceller,
    scenario_shutter, scenario_pc, scenario_run, scenario_at, scenario_rep, scenario_late,
    scenario_over, scenario_failed, scenario_stop, scenario_owns, scenario_acquired,
    scenario_uncertain, scenario_incomplete, scenario_action, scenario_cursor, scenario_ring,
    scenario_head, scenario_noise, scenario_operation, scenario_owed, scenario_cause, scenario_held,
    scenario_free, scenario_stuck, scenario_first,
    recorder_phase, recorder_stopping, recorder_stopRequested, recorder_generation,
    recorder_replaying, recorder_startCursor, recorder_suppressionEnd, recorder_samples,
    recorder_activity, recorder_checkpoints, recorder_entry, recorder_joinable, recorder_joining,
    recorder_sampler, recorder_at, recorder_shutter, recorder_run, recorder_round, recorder_commands,
    recorder_queue,
    recorder_head, recorder_calls,
    vr_ready, vr_hooked, vr_events, vr_txn, vr_current, vr_pendingEvent, vr_published, vr_recovery,
    vr_game, vr_previous, vr_thread, vr_frames, vr_tasks, vr_running, vr_silent, vr_fails

scenarioVars ==
    <<scenario_stopping, scenario_active, scenario_pending, scenario_runs, scenario_completed,
      scenario_phase, scenario_cancel, scenario_status, scenario_caller, scenario_canceller,
      scenario_shutter, scenario_pc, scenario_run, scenario_at, scenario_rep, scenario_late,
      scenario_over, scenario_failed, scenario_stop, scenario_owns, scenario_acquired,
      scenario_uncertain, scenario_incomplete, scenario_action, scenario_cursor, scenario_ring,
      scenario_head, scenario_noise, scenario_operation, scenario_owed, scenario_cause,
      scenario_held, scenario_free, scenario_stuck, scenario_first>>
recorderVars ==
    <<recorder_phase, recorder_stopping, recorder_stopRequested, recorder_generation,
      recorder_replaying, recorder_startCursor, recorder_suppressionEnd, recorder_samples,
      recorder_activity, recorder_checkpoints, recorder_entry, recorder_joinable, recorder_joining,
      recorder_sampler, recorder_at, recorder_shutter, recorder_run, recorder_round, recorder_commands,
    recorder_queue,
      recorder_head, recorder_calls>>
vrVars ==
    <<vr_ready, vr_hooked, vr_events, vr_txn, vr_current, vr_pendingEvent, vr_published,
      vr_recovery, vr_game, vr_previous, vr_thread, vr_frames, vr_tasks, vr_running, vr_silent,
      vr_fails>>

S == INSTANCE Scenario WITH
    Runs <- {"a"}, Cancellable <- {"a"}, ShutsDown <- TRUE, Plan <- Plans, HistoryLimit <- 1,
    MaxRing <- 1, MaxNoise <- 0, None <- NoName, stopping <- scenario_stopping, active <-
    scenario_active, pending <- scenario_pending, runs <- scenario_runs, completed <-
    scenario_completed, phase <- scenario_phase, cancel <- scenario_cancel, status <-
    scenario_status, caller <- scenario_caller, canceller <- scenario_canceller, shutter <-
    scenario_shutter, pc <- scenario_pc, run <- scenario_run, at <- scenario_at, rep <-
    scenario_rep, late <- scenario_late, over <- scenario_over, failed <- scenario_failed, stop <-
    scenario_stop, owns <- scenario_owns, acquired <- scenario_acquired, uncertain <-
    scenario_uncertain, incomplete <- scenario_incomplete, action <- scenario_action, cursor <-
    scenario_cursor, ring <- scenario_ring, head <- scenario_head, noise <- scenario_noise,
    operation <- scenario_operation, owed <- scenario_owed, cause <- scenario_cause, held <-
    scenario_held, free <- scenario_free, stuck <- scenario_stuck, first <- scenario_first
D == INSTANCE Recording WITH
    Clients <- {"c"}, MaxCalls <- 2, MaxEvents <- 0, MaxSamples <- 1, MaxActivity <- 2, Budget <- 9, None <- NoName,
    phase <- recorder_phase, stopping <- recorder_stopping, stopRequested <- recorder_stopRequested,
    generation <- recorder_generation, replaying <- recorder_replaying, startCursor <-
    recorder_startCursor, suppressionEnd <- recorder_suppressionEnd, samples <- recorder_samples,
    activity <- recorder_activity, checkpoints <- recorder_checkpoints, entry <- recorder_entry,
    joinable <- recorder_joinable, joining <- recorder_joining, sampler <- recorder_sampler, at <-
    recorder_at, shutter <- recorder_shutter, run <- recorder_run, round <- recorder_round,
    commands <- recorder_commands, queue <-
    recorder_queue, head <- recorder_head, calls <- recorder_calls
V == INSTANCE VRInput WITH
    Starts <- {"a"}, Stops <- {}, Lifecycles <- {"l"}, Submitted <- Tracks, Owner <- [c \in {"a"}
    |-> "o"], Internal <- {}, Survives <- {}, Force <- {}, Token <- <<>>, Reason <- [c \in {"l"} |->
    "load"], Space <- 1, Own <- Held, Attempts <- 2, Fails <- 2, Exhausted <- FALSE, None <- NoName,
    ready <- vr_ready, hooked <- vr_hooked, events <- vr_events, txn <- vr_txn, current <-
    vr_current, pendingEvent <- vr_pendingEvent, published <- vr_published, recovery <- vr_recovery,
    game <- vr_game, previous <- vr_previous, thread <- vr_thread, frames <- vr_frames, tasks <-
    vr_tasks, running <- vr_running, silent <- vr_silent, fails <- vr_fails

\* A component that does not run has no state.
NoRestTool ==
    game = NoName /\ slot = NoName /\ srv = NoName /\ accepting = NoName /\ gate = NoName /\ pc =
    NoName /\ reply = NoName /\ active = NoName /\ stopping = NoName /\ poll = NoName /\ ppc =
    NoName /\ queue = NoName /\ mpc = NoName /\ task = NoName /\ end = NoName /\ spc = NoName /\
    menu = NoName /\ passing = NoName /\ pressed = NoName /\ accepted = NoName /\ started = NoName
    /\ blind = NoName
NoScenario ==
    scenario_stopping = NoName /\ scenario_active = NoName /\ scenario_pending = NoName /\
    scenario_runs = NoName /\ scenario_completed = NoName /\ scenario_phase = NoName /\
    scenario_cancel = NoName /\ scenario_status = NoName /\ scenario_caller = NoName /\
    scenario_canceller = NoName /\ scenario_shutter = NoName /\ scenario_pc = NoName /\ scenario_run
    = NoName /\ scenario_at = NoName /\ scenario_rep = NoName /\ scenario_late = NoName /\
    scenario_over = NoName /\ scenario_failed = NoName /\ scenario_stop = NoName /\ scenario_owns =
    NoName /\ scenario_acquired = NoName /\ scenario_uncertain = NoName /\ scenario_incomplete =
    NoName /\ scenario_action = NoName /\ scenario_cursor = NoName /\ scenario_ring = NoName /\
    scenario_head = NoName /\ scenario_noise = NoName /\ scenario_operation = NoName /\
    scenario_owed = NoName /\ scenario_cause = NoName /\ scenario_held = NoName /\ scenario_free =
    NoName /\ scenario_stuck = NoName /\ scenario_first = NoName
NoRecorder ==
    recorder_phase = NoName /\ recorder_stopping = NoName /\ recorder_stopRequested = NoName /\
    recorder_generation = NoName /\ recorder_replaying = NoName /\ recorder_startCursor = NoName /\
    recorder_suppressionEnd = NoName /\ recorder_samples = NoName /\ recorder_activity = NoName /\
    recorder_checkpoints = NoName /\ recorder_entry = NoName /\ recorder_joinable = NoName /\
    recorder_joining = NoName /\ recorder_sampler = NoName /\ recorder_at = NoName /\
    recorder_shutter = NoName /\ recorder_run = NoName /\ recorder_round = NoName /\
    recorder_commands = NoName /\ recorder_queue
    = NoName /\ recorder_head = NoName /\ recorder_calls = NoName
NoVr ==
    vr_ready = NoName /\ vr_hooked = NoName /\ vr_events = NoName /\ vr_txn = NoName /\ vr_current =
    NoName /\ vr_pendingEvent = NoName /\ vr_published = NoName /\ vr_recovery = NoName /\ vr_game =
    NoName /\ vr_previous = NoName /\ vr_thread = NoName /\ vr_frames = NoName /\ vr_tasks = NoName
    /\ vr_running = NoName /\ vr_silent = NoName /\ vr_fails = NoName

MCInit ==
    /\ which \in {"rest", "scenario", "recorder", "vr"}
    /\ IF which = "rest" THEN Init ELSE NoRestTool
    /\ IF which = "scenario" THEN S!Init ELSE NoScenario
    /\ IF which = "recorder" THEN D!Init ELSE NoRecorder
    /\ IF which = "vr" THEN V!Init ELSE NoVr

allVars == <<which, vars, scenarioVars, recorderVars, vrVars>>

\* A step of one component leaves the others alone.
RestTool(step) == which = "rest" /\ step /\ UNCHANGED <<which, scenarioVars, recorderVars, vrVars>>
Scenarios(step) == which = "scenario" /\ step /\ UNCHANGED <<which, vars, recorderVars, vrVars>>
Recorder(step) == which = "recorder" /\ step /\ UNCHANGED <<which, vars, scenarioVars, vrVars>>
VR(step) == which = "vr" /\ step /\ UNCHANGED <<which, vars, scenarioVars, recorderVars>>

MCNext == RestTool(Next) \/ Scenarios(S!Next) \/ Recorder(D!Next) \/ VR(V!Next)

\* The fairness of the four modules.  A behaviour has one component, so that
\* one condition on a step of several components is a condition on each.
MCSpec ==
    /\ MCInit /\ [][MCNext]_allVars
    /\ WF_allVars(\/ RestTool((pc[ours] # "idle" /\ Start(ours)) \/ Complete(ours))
                  \/ Scenarios(S!Worker /\ UNCHANGED scenario_noise)
                  \/ Recorder(D!StopBegins("c") \/ D!StopJoins("c") \/ D!StopJoined("c") \/ D!StopWrites("c"))
                  \/ VR(V!Begin("a") \/ V!Apply("a") \/ V!Commit("a") \/ V!Spawn("a") \/ V!Proceeds(V!Start("a"))))
    /\ WF_allVars(\/ RestTool(Main)
                  \/ Scenarios((S!RunDeadline \/ S!StepDeadline) /\ UNCHANGED scenario_noise)
                  \/ Recorder(D!SampleWaits \/ D!Snapshot \/ D!Sample)
                  \/ VR(V!MainStarts \/ V!MainApplies \/ V!MainRestores))
    /\ WF_allVars(\/ RestTool(PollLoop)
                  \/ Scenarios((S!ShutdownNotifies \/ S!ShutdownJoins) /\ UNCHANGED scenario_noise)
                  \/ Recorder(D!ShutdownJoins \/ D!ShutdownJoined)
                  \/ VR(V!Plays("a") \/ V!Proceeds(V!Playback("a"))))
    /\ WF_allVars(\/ RestTool(Shutdown)
                  \/ Scenarios((S!OnSubmitted("a") \/ S!Submitted("a") \/ S!Answer("a")) /\ UNCHANGED scenario_noise)
                  \/ VR(V!Detach("l") \/ V!Proceeds(V!Caller("l"))))
    /\ WF_allVars(RestTool(MenuOpens) \/ VR(V!Proceeds(V!Cleanup("l"))))
    /\ WF_allVars(RestTool(TimeEnds) \/ VR(V!Wakes(1) \/ V!Recovers(1) \/ V!Proceeds(V!Recovery(1))))
    /\ WF_allVars(RestTool(MenuCloses))
    /\ SF_allVars(RestTool(PollMenu /\ poll' = "idle"))

-----------------------------------------------------------------------------
\* No outcome of a rest is lost: one that goes on after its caller was told that
\* it is uncertain still gives the slot back, unless the service shuts down;
\* and a shutdown and the caller that waits return.
RestsEnd ==
    /\ which = "rest" /\ Holds(slot, ours) ~> (which = "rest" => ~Holds(slot, ours) \/ stopping)
    /\ which = "rest" /\ spc # "idle" ~>
          (which = "rest" => spc = "done" /\ pc[ours] \in {"idle", "done"})

\* Every accepted run ends and its caller is answered, also when the wake-up of
\* a cancellation is lost; and a shutdown ends.
ScenarioEnds ==
    /\ which = "scenario" /\ scenario_caller["a"] = "accepted" ~>
          (which = "scenario" => scenario_caller["a"] = "answered")
    /\ which = "scenario" /\ scenario_stopping ~> (which = "scenario" => scenario_shutter = "joined")

\* Stop and Shutdown return from the sampling thread's join, whoever joins it.
StopJoining == which = "recorder" /\ recorder_at["c"] = "joining"
JoinsReturn ==
    /\ StopJoining ~> ~StopJoining
    /\ which = "recorder" /\ recorder_shutter = "flagged" ~>
          (which = "recorder" => recorder_shutter \in {"unsubscribed", "terminated"})

\* Whatever the controllers and the main thread fail in, and whoever gives up on
\* them, a sequence that nobody stops ends and the game gets its own controllers
\* back, by the recovery if by nothing else.  There are no stops and no refused
\* threads here: a failed stop (VRInput.cpp 337-344) schedules no recovery and
\* leaves the sequence to the next stop or lifecycle.
RestorationsEnd ==
    which = "vr" /\ vr_txn.generation > 0 ~>
        (which = "vr" => vr_game = Held /\ ~vr_txn.starting /\ ~vr_txn.active /\ ~vr_txn.restoring)
=============================================================================
