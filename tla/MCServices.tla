------------------------------ MODULE MCServices ------------------------------
(***************************************************************************)
(* The services of the plugin and the launch shim, each by itself: `which' *)
(* chooses the one that a behaviour is of, and the others have no state.   *)
(***************************************************************************)
EXTENDS ValuePredicate, Sequences, TLC

\* The value predicates: integers at both ends of both types, and the floats
\* around them.
MCFloats == [kind : {"float"}, value : -6..10]
MCActual == Signed \union Unsigned \union MCFloats \union NotFinite \union Other
MCExpected == {v \in Signed : v.value < 0} \union Unsigned \union MCFloats \union Other

\* The Papyrus tool: a function without a self and a member of two forms, with
\* arrays, structs that refer to themselves, forms, and an integer too wide.
Plain(kind) == [kind |-> kind, name |-> "", array |-> FALSE]
ArrayOf(kind) == [kind |-> kind, name |-> "", array |-> TRUE]
Object(name) == [kind |-> "object", name |-> name, array |-> FALSE]
Struct(name) == [kind |-> "struct", name |-> name, array |-> FALSE]
Json(kind) == [json |-> kind]
JsonForm(form) == [json |-> "form", form |-> form]
JsonArray(items) == [json |-> "array", items |-> items]
JsonNull(type) == [json |-> "null", type |-> type]
JsonStruct(name, fields) == [json |-> "struct", name |-> name, fields |-> fields]

Forms == "npc" :> "Actor" @@ "door" :> "Reference"
Structs == "Pair" :> ("left" :> Plain("int") @@ "right" :> Struct("Pair"))
Pair == JsonStruct("Pair", "left" :> Json("int") @@ "right" :> JsonNull(Struct("Pair")))
Either(types) == [isBound \in BOOLEAN |-> types]
Members == "npc" :> Either(<<Plain("float"), Object("Actor")>>)
        @@ "door" :> (TRUE :> <<Plain("int")>> @@ FALSE :> <<Plain("float"), Plain("string")>>)
Signatures == "fallout4" :> (None :> Either(<<ArrayOf("int"), Struct("Pair")>>) @@ Members)
           @@ "skyrimse" :> (None :> Either(<<ArrayOf("int")>>) @@ Members)
PapyrusRequests == {
    [self |-> None, args |-> <<JsonArray(<<Json("int"), Json("int")>>)>>],
    [self |-> None, args |-> <<JsonArray(<<Json("int"), Json("int")>>), Pair>>],
    [self |-> None, args |-> <<JsonNull(ArrayOf("int")), JsonNull(Struct("Pair"))>>],
    [self |-> None, args |-> <<Json("int"), JsonStruct("Pair", "left" :> JsonForm("npc"))>>],
    [self |-> "selected", args |-> <<Json("wide"), JsonForm("npc")>>],
    [self |-> "selected", args |-> <<Json("int"), JsonForm("ghost")>>],
    [self |-> "door", args |-> <<Json("float"), Json("string")>>]}

\* The game saves its screenshots with the extension that providers are given.
Images == [kind \in {"provider", "native"} |-> "png"]

\* A scenario that presses a key, acts and waits for what comes of it among the
\* events of others; and one, by itself, with every other kind of step.
Plans == "a" :> [steps |-> <<"press", "act", "waitForModal">>, repeat |-> 1, continueOnError |-> TRUE,
                 throws |-> FALSE]
AlonePlans ==
    "a" :> [steps |-> <<"until", "untilState", "scene", "pose", "assert", "press", "pressAs",
                        "freecam", "freecamOff">>,
            repeat |-> 1, continueOnError |-> TRUE, throws |-> FALSE]

\* The recordings: no more than two events but for saves, in order.
Events == [kind : {"save", "preSaveGame", "cell", "console", "menu", "down", "up"}, at : 0..3]
InOrder(events) == \A i, j \in DOMAIN events : i < j => events[i].at <= events[j].at
Activities == {events \in UNION {[1..n -> Events] : n \in 0..3} :
    InOrder(events) /\ (Len(events) = 3 => \A i \in 1..3 : events[i].kind \in {"save", "preSaveGame"})}
Recorded == [samples : {<<>>, <<0, 2>>}, activity : Activities, checkpoints : {<<1>>},
             tracked : {0, 4}]

\* The tracked sets of Skyrim VR: a sequence that swaps the hands, and one that
\* changes them on the way.
Hands(at, left, right) == [at |-> at, seq |-> at + 1, origin |-> 1, hmd |-> 0, left |-> left, right |-> right]
Tracks == {<<Hands(0, 2, 1)>>, <<Hands(0, 2, 1), Hands(1, 1, 2)>>}
Held == [left |-> 1, right |-> 2]
Off == [left |-> 0, right |-> 0]
Owners == [c \in {"a", "b", "s", "f"} |-> IF c = "b" THEN "p" ELSE "o"]
Tokens == "s" :> "a" @@ "f" :> None
Reasons == "l" :> "load" @@ "m" :> "shutdown"

\* Two samples, with and without the buttons, and no more than two events.
SampleOf(at, right, exact) == [at |-> at, left |-> 1, right |-> right, exact |-> exact]
Exacts == {None} \union [left : {{}, {1}}, right : {{}}]
OneEvent == [at : 0..3, wand : {1, None}, label : {"primary", "secondary", "other"}, button : {1}, down : BOOLEAN]
TwoEvents == {e \in [1..2 -> [at : 1..3, wand : {1}, label : {"primary"}, button : {1, 2}, down : BOOLEAN]] :
    e[1].at <= e[2].at}
TrackedRecordings == [
    samples : {<<SampleOf(first, 2, e), SampleOf(second, right, f)>> :
                   first \in {0, 1}, second \in {1, 2}, right \in {2, 3}, e \in Exacts, f \in Exacts},
    events : {<<>>} \union {<<e>> : e \in OneEvent} \union TwoEvents]

VARIABLES
    which,  \* the component that runs
    rest_game, rest_slot, rest_srv, rest_accepting, rest_gate, rest_pc, rest_reply, rest_active,
    rest_stopping, rest_poll, rest_ppc, rest_queue, rest_mpc, rest_task, rest_end, rest_spc,
    rest_menu, rest_passing, rest_pressed, rest_accepted, rest_started, rest_blind,
    shim_procs, shim_born, shim_expired, shim_broker, shim_toShim, shim_toBroker, shim_retained,
    shim_shim, shim_loader, shim_snapshot, shim_seen, shim_candidate, shim_owned, shim_code, shim_children,
    papyrus_game, papyrus_request, papyrus_mode, papyrus_frozen, papyrus_selected, papyrus_bound,
    papyrus_switches, papyrus_tasks, papyrus_at, papyrus_snapshot, papyrus_outcome, papyrus_told,
    papyrus_running, papyrus_asked, papyrus_touched, papyrus_dispatched,
    console_observer, console_captures, console_pending, console_at, console_tasks, console_log,
    console_brokered, console_typed, console_lines, console_reading, console_read, console_window,
    console_events,
    capture_kind, capture_at, capture_cursor, capture_told, capture_gap, capture_sampled,
    capture_answer, capture_ring, capture_head, capture_noise, capture_asked, capture_images,
    capture_sidecars, capture_slot, capture_shots, capture_before, capture_abandoned,
    scenario_stopping, scenario_active, scenario_pending, scenario_runs, scenario_completed,
    scenario_phase, scenario_cancel, scenario_status, scenario_caller, scenario_canceller,
    scenario_shutter, scenario_pc, scenario_run, scenario_at, scenario_rep, scenario_late,
    scenario_over, scenario_failed, scenario_stop, scenario_owns, scenario_acquired,
    scenario_uncertain, scenario_incomplete, scenario_action, scenario_cursor, scenario_ring,
    scenario_head, scenario_noise, scenario_operation, scenario_owed, scenario_cause, scenario_held,
    scenario_free, scenario_stuck, scenario_first,
    recorder_phase, recorder_stopping, recorder_stopRequested, recorder_generation,
    recorder_replaying, recorder_startCursor, recorder_suppressionEnd, recorder_samples,
    recorder_activity, recorder_checkpoints, recorder_entry, recorder_joinable, recorder_joining,
    recorder_sampler, recorder_at, recorder_shutter, recorder_run, recorder_round, recorder_commands,
    recorder_queue,
    recorder_head, recorder_calls,
    vr_ready, vr_hooked, vr_events, vr_txn, vr_current, vr_pendingEvent, vr_published, vr_recovery,
    vr_game, vr_previous, vr_thread, vr_frames, vr_tasks, vr_running, vr_silent, vr_fails,
    tracked_samples, tracked_events, tracked_pc, tracked_timeline, tracked_placed, tracked_state,
    tracked_frames,
    camera_scene, camera_world, camera_loading, camera_session, camera_load, camera_call,
    camera_calls, camera_tasks, camera_by, camera_lost, camera_touched, camera_loads, camera_others,
    planner_recording, planner_restoration, planner_pc, planner_index, planner_steps

restVars ==
    <<rest_game, rest_slot, rest_srv, rest_accepting, rest_gate, rest_pc, rest_reply, rest_active,
      rest_stopping, rest_poll, rest_ppc, rest_queue, rest_mpc, rest_task, rest_end, rest_spc,
      rest_menu, rest_passing, rest_pressed, rest_accepted, rest_started, rest_blind>>
shimVars ==
    <<shim_procs, shim_born, shim_expired, shim_broker, shim_toShim, shim_toBroker, shim_retained,
      shim_shim, shim_loader, shim_snapshot, shim_seen, shim_candidate, shim_owned, shim_code, shim_children>>
papyrusVars ==
    <<papyrus_game, papyrus_request, papyrus_mode, papyrus_frozen, papyrus_selected, papyrus_bound,
      papyrus_switches, papyrus_tasks, papyrus_at, papyrus_snapshot, papyrus_outcome, papyrus_told,
      papyrus_running, papyrus_asked, papyrus_touched, papyrus_dispatched>>
consoleVars ==
    <<console_observer, console_captures, console_pending, console_at, console_tasks, console_log,
      console_brokered, console_typed, console_lines, console_reading, console_read, console_window,
      console_events>>
captureVars ==
    <<capture_kind, capture_at, capture_cursor, capture_told, capture_gap, capture_sampled,
      capture_answer, capture_ring, capture_head, capture_noise, capture_asked, capture_images,
      capture_sidecars, capture_slot, capture_shots, capture_before, capture_abandoned>>
scenarioVars ==
    <<scenario_stopping, scenario_active, scenario_pending, scenario_runs, scenario_completed,
      scenario_phase, scenario_cancel, scenario_status, scenario_caller, scenario_canceller,
      scenario_shutter, scenario_pc, scenario_run, scenario_at, scenario_rep, scenario_late,
      scenario_over, scenario_failed, scenario_stop, scenario_owns, scenario_acquired,
      scenario_uncertain, scenario_incomplete, scenario_action, scenario_cursor, scenario_ring,
      scenario_head, scenario_noise, scenario_operation, scenario_owed, scenario_cause,
      scenario_held, scenario_free, scenario_stuck, scenario_first>>
recorderVars ==
    <<recorder_phase, recorder_stopping, recorder_stopRequested, recorder_generation,
      recorder_replaying, recorder_startCursor, recorder_suppressionEnd, recorder_samples,
      recorder_activity, recorder_checkpoints, recorder_entry, recorder_joinable, recorder_joining,
      recorder_sampler, recorder_at, recorder_shutter, recorder_run, recorder_round, recorder_commands,
    recorder_queue,
      recorder_head, recorder_calls>>
vrVars ==
    <<vr_ready, vr_hooked, vr_events, vr_txn, vr_current, vr_pendingEvent, vr_published,
      vr_recovery, vr_game, vr_previous, vr_thread, vr_frames, vr_tasks, vr_running, vr_silent,
      vr_fails>>
trackedVars ==
    <<tracked_samples, tracked_events, tracked_pc, tracked_timeline, tracked_placed, tracked_state,
      tracked_frames>>
cameraVars ==
    <<camera_scene, camera_world, camera_loading, camera_session, camera_load, camera_call,
      camera_calls, camera_tasks, camera_by, camera_lost, camera_touched, camera_loads,
      camera_others>>
plannerVars ==
    <<planner_recording, planner_restoration, planner_pc, planner_index, planner_steps>>

R == INSTANCE Rest WITH
    Requests <- {"w", "s"}, Rests <- {"w", "s"}, NoRequest <- "noRequest", NoName <- "noName", Name
    <- [r \in {"w", "s"} |-> r], game <- rest_game, slot <- rest_slot, srv <- rest_srv, accepting <-
    rest_accepting, gate <- rest_gate, pc <- rest_pc, reply <- rest_reply, active <- rest_active,
    stopping <- rest_stopping, poll <- rest_poll, ppc <- rest_ppc, queue <- rest_queue, mpc <-
    rest_mpc, task <- rest_task, end <- rest_end, spc <- rest_spc, menu <- rest_menu, passing <-
    rest_passing, pressed <- rest_pressed, accepted <- rest_accepted, started <- rest_started, blind
    <- rest_blind
L == INSTANCE LaunchShim WITH
    Pids <- {1, 2, 3}, MaxBorn <- 4, procs <- shim_procs, born <- shim_born, expired <-
    shim_expired, broker <- shim_broker, toShim <- shim_toShim, toBroker <- shim_toBroker, retained
    <- shim_retained, shim <- shim_shim, loader <- shim_loader,
    snapshot <- shim_snapshot, seen <- shim_seen, candidate <- shim_candidate, owned
    <- shim_owned, code <- shim_code, children <- shim_children
PapyrusValues == INSTANCE PapyrusTypes WITH
    FormClass <- Forms, StructFields <- Structs, MaxDepth <- 1, MaxNodes <- 6, MaxElements <- 2,
    SkyrimMaxElements <- 1
P == INSTANCE Papyrus WITH
    Calls <- {"p", "q"}, Requests <- PapyrusRequests, GameForms <- DOMAIN Forms, Signature <- Signatures,
    ArgumentErrors <- PapyrusValues!ArgumentErrors, Faults <- PapyrusValues!Faults,
    ArgForms <- PapyrusValues!ArgForms,
    MaxSwitches <- 1, game <- papyrus_game, request <- papyrus_request, mode <- papyrus_mode, frozen
    <- papyrus_frozen, selected <- papyrus_selected, bound <- papyrus_bound, switches <-
    papyrus_switches, tasks <- papyrus_tasks, at <- papyrus_at, snapshot <- papyrus_snapshot,
    outcome <- papyrus_outcome, told <- papyrus_told, running <- papyrus_running, asked <-
    papyrus_asked, touched <- papyrus_touched, dispatched <- papyrus_dispatched
C == INSTANCE Console WITH
    Requests <- {"x", "y", "z"}, Captured <- {"x", "y"}, MaxCaptures <- 1, MaxPending <- 2, MaxLines
    <- 1, MaxLog <- 5, MaxTyped <- 1, observer <- console_observer, captures <- console_captures,
    pending <- console_pending, at <- console_at, tasks <- console_tasks, log <- console_log,
    brokered <- console_brokered, typed <- console_typed, lines <- console_lines, reading <-
    console_reading, read <- console_read, window <- console_window, events <- console_events
A == INSTANCE Capture WITH
    Requests <- {"x", "y"}, Stem <- [r \in {"x", "y"} |-> "s"], Extension <- Images, MaxRing <- 1,
    MaxNoise <- 0, Player <- "player", kind <- capture_kind, at <- capture_at, cursor <-
    capture_cursor, told <- capture_told, gap <- capture_gap, sampled <- capture_sampled, answer <-
    capture_answer, ring <- capture_ring, head <- capture_head, noise <- capture_noise, asked <-
    capture_asked, images <- capture_images, sidecars <- capture_sidecars, slot <- capture_slot,
    shots <- capture_shots, before <- capture_before, abandoned <- capture_abandoned
S == INSTANCE Scenario WITH
    Runs <- {"a"}, Cancellable <- {"a"}, ShutsDown <- FALSE, Plan <- Plans, HistoryLimit <- 1,
    MaxRing <- 1, MaxNoise <- 1, stopping <- scenario_stopping, active <- scenario_active, pending
    <- scenario_pending, runs <- scenario_runs, completed <- scenario_completed, phase <-
    scenario_phase, cancel <- scenario_cancel, status <- scenario_status, caller <- scenario_caller,
    canceller <- scenario_canceller, shutter <- scenario_shutter, pc <- scenario_pc, run <-
    scenario_run, at <- scenario_at, rep <- scenario_rep, late <- scenario_late, over <-
    scenario_over, failed <- scenario_failed, stop <- scenario_stop, owns <- scenario_owns, acquired
    <- scenario_acquired, uncertain <- scenario_uncertain, incomplete <- scenario_incomplete, action
    <- scenario_action, cursor <- scenario_cursor, ring <- scenario_ring, head <- scenario_head,
    noise <- scenario_noise, operation <- scenario_operation, owed <- scenario_owed, cause <-
    scenario_cause, held <- scenario_held, free <- scenario_free, stuck <- scenario_stuck, first <-
    scenario_first
D == INSTANCE Recording WITH
    Clients <- {"c"}, MaxCalls <- 3, MaxEvents <- 1, MaxSamples <- 1, MaxActivity <- 2, Budget <- 9, phase <-
    recorder_phase, stopping <- recorder_stopping, stopRequested <- recorder_stopRequested,
    generation <- recorder_generation, replaying <- recorder_replaying, startCursor <-
    recorder_startCursor, suppressionEnd <- recorder_suppressionEnd, samples <- recorder_samples,
    activity <- recorder_activity, checkpoints <- recorder_checkpoints, entry <- recorder_entry,
    joinable <- recorder_joinable, joining <- recorder_joining, sampler <- recorder_sampler, at <-
    recorder_at, shutter <- recorder_shutter, run <- recorder_run, round <- recorder_round,
    commands <- recorder_commands, queue <-
    recorder_queue, head <- recorder_head, calls <- recorder_calls
V == INSTANCE VRInput WITH
    Starts <- {"a", "b"}, Stops <- {"s"}, Lifecycles <- {}, Submitted <- Tracks, Owner <- Owners,
    Internal <- {"b", "f"}, Survives <- {"b"}, Force <- {"f"}, Token <- Tokens, Reason <- Reasons,
    Space <- 1, Own <- Held, Attempts <- 2, Fails <- 2, Exhausted <- TRUE, ready <- vr_ready, hooked
    <- vr_hooked, events <- vr_events, txn <- vr_txn, current <- vr_current, pendingEvent <-
    vr_pendingEvent, published <- vr_published, recovery <- vr_recovery, game <- vr_game, previous
    <- vr_previous, thread <- vr_thread, frames <- vr_frames, tasks <- vr_tasks, running <-
    vr_running, silent <- vr_silent, fails <- vr_fails
T == INSTANCE TrackedReplay WITH
    Recordings <- TrackedRecordings, MaxFrames <- 5, MaxTime <- 5, samples <- tracked_samples,
    events <- tracked_events, pc <- tracked_pc, timeline <- tracked_timeline, placed <-
    tracked_placed, state <- tracked_state, frames <- tracked_frames
F == INSTANCE FreeCamera WITH
    VR <- TRUE, Callers <- {"x", "y"}, MaxCalls <- 3, MaxLoads <- 1, MaxOthers <- 2, scene <-
    camera_scene, world <- camera_world, loading <- camera_loading, session <- camera_session, load
    <- camera_load, call <- camera_call, calls <- camera_calls, tasks <- camera_tasks, by <-
    camera_by, lost <- camera_lost, touched <- camera_touched, loads <- camera_loads, others <-
    camera_others
Y == INSTANCE ReplayPlan WITH
    Recordings <- Recorded, Restorations <- {"none", "save", "clean"}, Window <- 1, MaxHold <- 2,
    Settle <- 1, LoadSettle <- 1, Limit <- 30, Budget <- 20, recording <- planner_recording,
    restoration <- planner_restoration, pc <- planner_pc, index <- planner_index, steps <-
    planner_steps

K == INSTANCE Scenario WITH
    Runs <- {"a"}, Cancellable <- {"a"}, ShutsDown <- FALSE, Plan <- AlonePlans, HistoryLimit <- 1,
    MaxRing <- 1, MaxNoise <- 0, stopping <- scenario_stopping, active <- scenario_active, pending
    <- scenario_pending, runs <- scenario_runs, completed <- scenario_completed, phase <-
    scenario_phase, cancel <- scenario_cancel, status <- scenario_status, caller <- scenario_caller,
    canceller <- scenario_canceller, shutter <- scenario_shutter, pc <- scenario_pc, run <-
    scenario_run, at <- scenario_at, rep <- scenario_rep, late <- scenario_late, over <-
    scenario_over, failed <- scenario_failed, stop <- scenario_stop, owns <- scenario_owns, acquired
    <- scenario_acquired, uncertain <- scenario_uncertain, incomplete <- scenario_incomplete, action
    <- scenario_action, cursor <- scenario_cursor, ring <- scenario_ring, head <- scenario_head,
    noise <- scenario_noise, operation <- scenario_operation, owed <- scenario_owed, cause <-
    scenario_cause, held <- scenario_held, free <- scenario_free, stuck <- scenario_stuck, first <-
    scenario_first
W == INSTANCE VRInput WITH
    Starts <- {"a", "b"}, Stops <- {}, Lifecycles <- {"m"}, Submitted <- Tracks, Owner <- Owners,
    Internal <- {"b", "f"}, Survives <- {"b"}, Force <- {"f"}, Token <- Tokens, Reason <- Reasons,
    Space <- 1, Own <- Held, Attempts <- 2, Fails <- 1, Exhausted <- TRUE, ready <- vr_ready, hooked
    <- vr_hooked, events <- vr_events, txn <- vr_txn, current <- vr_current, pendingEvent <-
    vr_pendingEvent, published <- vr_published, recovery <- vr_recovery, game <- vr_game, previous
    <- vr_previous, thread <- vr_thread, frames <- vr_frames, tasks <- vr_tasks, running <-
    vr_running, silent <- vr_silent, fails <- vr_fails
U == INSTANCE VRInput WITH
    Starts <- {"a"}, Stops <- {"f"}, Lifecycles <- {"l"}, Submitted <- Tracks, Owner <- Owners,
    Internal <- {"b", "f"}, Survives <- {"b"}, Force <- {"f"}, Token <- Tokens, Reason <- Reasons,
    Space <- 1, Own <- Off, Attempts <- 2, Fails <- 2, Exhausted <- TRUE, ready <- vr_ready, hooked
    <- vr_hooked, events <- vr_events, txn <- vr_txn, current <- vr_current, pendingEvent <-
    vr_pendingEvent, published <- vr_published, recovery <- vr_recovery, game <- vr_game, previous
    <- vr_previous, thread <- vr_thread, frames <- vr_frames, tasks <- vr_tasks, running <-
    vr_running, silent <- vr_silent, fails <- vr_fails
G == INSTANCE FreeCamera WITH
    VR <- FALSE, Callers <- {"x", "y"}, MaxCalls <- 3, MaxLoads <- 1, MaxOthers <- 1, scene <-
    camera_scene, world <- camera_world, loading <- camera_loading, session <- camera_session, load
    <- camera_load, call <- camera_call, calls <- camera_calls, tasks <- camera_tasks, by <-
    camera_by, lost <- camera_lost, touched <- camera_touched, loads <- camera_loads, others <-
    camera_others

\* A component that does not run has no state.
NoRest ==
    rest_game = None /\ rest_slot = None /\ rest_srv = None /\ rest_accepting = None /\ rest_gate =
    None /\ rest_pc = None /\ rest_reply = None /\ rest_active = None /\ rest_stopping = None /\
    rest_poll = None /\ rest_ppc = None /\ rest_queue = None /\ rest_mpc = None /\ rest_task = None
    /\ rest_end = None /\ rest_spc = None /\ rest_menu = None /\ rest_passing = None /\ rest_pressed
    = None /\ rest_accepted = None /\ rest_started = None /\ rest_blind = None
NoShim ==
    shim_procs = None /\ shim_born = None /\ shim_expired = None /\ shim_broker = None /\
    shim_toShim = None /\ shim_toBroker = None /\ shim_retained = None /\ shim_shim = None /\
    shim_loader = None /\ shim_snapshot = None /\ shim_seen = None /\ shim_candidate = None /\ shim_owned = None /\ shim_code = None /\
    shim_children = None
NoPapyrus ==
    papyrus_game = None /\ papyrus_request = None /\ papyrus_mode = None /\ papyrus_frozen = None /\
    papyrus_selected = None /\ papyrus_bound = None /\ papyrus_switches = None /\ papyrus_tasks =
    None /\ papyrus_at = None /\ papyrus_snapshot = None /\ papyrus_outcome = None /\ papyrus_told =
    None /\ papyrus_running = None /\ papyrus_asked = None /\ papyrus_touched = None /\
    papyrus_dispatched = None
NoConsole ==
    console_observer = None /\ console_captures = None /\ console_pending = None /\ console_at =
    None /\ console_tasks = None /\ console_log = None /\ console_brokered = None /\ console_typed =
    None /\ console_lines = None /\ console_reading = None /\ console_read = None /\ console_window
    = None /\ console_events = None
NoCapture ==
    capture_kind = None /\ capture_at = None /\ capture_cursor = None /\ capture_told = None /\
    capture_gap = None /\ capture_sampled = None /\ capture_answer = None /\ capture_ring = None /\
    capture_head = None /\ capture_noise = None /\ capture_asked = None /\ capture_images = None /\
    capture_sidecars = None /\ capture_slot = None /\ capture_shots = None /\ capture_before = None
    /\ capture_abandoned = None
NoScenario ==
    scenario_stopping = None /\ scenario_active = None /\ scenario_pending = None /\ scenario_runs =
    None /\ scenario_completed = None /\ scenario_phase = None /\ scenario_cancel = None /\
    scenario_status = None /\ scenario_caller = None /\ scenario_canceller = None /\
    scenario_shutter = None /\ scenario_pc = None /\ scenario_run = None /\ scenario_at = None /\
    scenario_rep = None /\ scenario_late = None /\ scenario_over = None /\ scenario_failed = None /\
    scenario_stop = None /\ scenario_owns = None /\ scenario_acquired = None /\ scenario_uncertain =
    None /\ scenario_incomplete = None /\ scenario_action = None /\ scenario_cursor = None /\
    scenario_ring = None /\ scenario_head = None /\ scenario_noise = None /\ scenario_operation =
    None /\ scenario_owed = None /\ scenario_cause = None /\ scenario_held = None /\ scenario_free =
    None /\ scenario_stuck = None /\ scenario_first = None
NoRecorder ==
    recorder_phase = None /\ recorder_stopping = None /\ recorder_stopRequested = None /\
    recorder_generation = None /\ recorder_replaying = None /\ recorder_startCursor = None /\
    recorder_suppressionEnd = None /\ recorder_samples = None /\ recorder_activity = None /\
    recorder_checkpoints = None /\ recorder_entry = None /\ recorder_joinable = None /\
    recorder_joining = None /\ recorder_sampler = None /\ recorder_at = None /\ recorder_shutter =
    None /\ recorder_run = None /\ recorder_round = None /\
    recorder_commands = None /\ recorder_queue = None /\ recorder_head =
    None /\ recorder_calls = None
NoVr ==
    vr_ready = None /\ vr_hooked = None /\ vr_events = None /\ vr_txn = None /\ vr_current = None /\
    vr_pendingEvent = None /\ vr_published = None /\ vr_recovery = None /\ vr_game = None /\
    vr_previous = None /\ vr_thread = None /\ vr_frames = None /\ vr_tasks = None /\ vr_running =
    None /\ vr_silent = None /\ vr_fails = None
NoTracked ==
    tracked_samples = None /\ tracked_events = None /\ tracked_pc = None /\ tracked_timeline = None
    /\ tracked_placed = None /\ tracked_state = None /\ tracked_frames = None
NoCamera ==
    camera_scene = None /\ camera_world = None /\ camera_loading = None /\ camera_session = None /\
    camera_load = None /\ camera_call = None /\ camera_calls = None /\ camera_tasks = None /\
    camera_by = None /\ camera_lost = None /\ camera_touched = None /\ camera_loads = None /\
    camera_others = None
NoPlanner ==
    planner_recording = None /\ planner_restoration = None /\ planner_pc = None /\ planner_index =
    None /\ planner_steps = None
NoPredicate == predicate = None /\ pc = None /\ seen = None /\ outcome = None

MCInit ==
    /\ which \in {"rest", "shim", "papyrus", "console", "capture", "scenario", "recorder", "vr",
                  "tracked", "camera", "planner", "predicate", "scenarioAlone", "vrReleased",
                  "vrStopped", "cameraFlat"}
    /\ IF which = "rest" THEN R!Init ELSE NoRest
    /\ IF which = "shim" THEN L!Init ELSE NoShim
    /\ IF which = "papyrus" THEN P!Init ELSE NoPapyrus
    /\ IF which = "console" THEN C!Init ELSE NoConsole
    /\ IF which = "capture" THEN A!Init ELSE NoCapture
    /\ CASE which = "scenario" -> S!Init
         [] which = "scenarioAlone" -> K!Init
         [] OTHER -> NoScenario
    /\ IF which = "recorder" THEN D!Init ELSE NoRecorder
    /\ CASE which = "vr" -> V!Init
         [] which = "vrReleased" -> W!Init
         [] which = "vrStopped" -> U!Init
         [] OTHER -> NoVr
    /\ IF which = "tracked" THEN T!Init ELSE NoTracked
    /\ CASE which = "camera" -> F!Init
         [] which = "cameraFlat" -> G!Init
         [] OTHER -> NoCamera
    /\ IF which = "planner" THEN Y!Init ELSE NoPlanner
    /\ IF which = "predicate" THEN Init ELSE NoPredicate

MCNext ==
    /\ UNCHANGED which
    /\ \/ which = "predicate" /\ Next
          /\ UNCHANGED <<restVars, shimVars, papyrusVars, consoleVars, captureVars, scenarioVars,
                        recorderVars, vrVars, trackedVars, cameraVars, plannerVars>>
       \/ which = "rest" /\ R!Next
          /\ UNCHANGED <<vars, shimVars, papyrusVars, consoleVars, captureVars, scenarioVars,
                        recorderVars, vrVars, trackedVars, cameraVars, plannerVars>>
       \/ which = "shim" /\ L!Next
          /\ UNCHANGED <<vars, restVars, papyrusVars, consoleVars, captureVars, scenarioVars,
                        recorderVars, vrVars, trackedVars, cameraVars, plannerVars>>
       \/ which = "papyrus" /\ P!Next
          /\ UNCHANGED <<vars, restVars, shimVars, consoleVars, captureVars, scenarioVars,
                        recorderVars, vrVars, trackedVars, cameraVars, plannerVars>>
       \/ which = "console" /\ C!Next
          /\ UNCHANGED <<vars, restVars, shimVars, papyrusVars, captureVars, scenarioVars,
                        recorderVars, vrVars, trackedVars, cameraVars, plannerVars>>
       \/ which = "capture" /\ A!Next
          /\ UNCHANGED <<vars, restVars, shimVars, papyrusVars, consoleVars, scenarioVars,
                        recorderVars, vrVars, trackedVars, cameraVars, plannerVars>>
       \/ which = "scenario" /\ S!Next
          /\ UNCHANGED <<vars, restVars, shimVars, papyrusVars, consoleVars, captureVars,
                        recorderVars, vrVars, trackedVars, cameraVars, plannerVars>>
       \/ which = "recorder" /\ D!Next
          /\ UNCHANGED <<vars, restVars, shimVars, papyrusVars, consoleVars, captureVars,
                        scenarioVars, vrVars, trackedVars, cameraVars, plannerVars>>
       \/ which = "vr" /\ V!Next
          /\ UNCHANGED <<vars, restVars, shimVars, papyrusVars, consoleVars, captureVars,
                        scenarioVars, recorderVars, trackedVars, cameraVars, plannerVars>>
       \/ which = "tracked" /\ T!Next
          /\ UNCHANGED <<vars, restVars, shimVars, papyrusVars, consoleVars, captureVars,
                        scenarioVars, recorderVars, vrVars, cameraVars, plannerVars>>
       \/ which = "camera" /\ F!Next
          /\ UNCHANGED <<vars, restVars, shimVars, papyrusVars, consoleVars, captureVars,
                        scenarioVars, recorderVars, vrVars, trackedVars, plannerVars>>
       \/ which = "planner" /\ Y!Next
          /\ UNCHANGED <<vars, restVars, shimVars, papyrusVars, consoleVars, captureVars,
                        scenarioVars, recorderVars, vrVars, trackedVars, cameraVars>>
       \/ which = "scenarioAlone" /\ K!Next
          /\ UNCHANGED <<vars, restVars, shimVars, papyrusVars, consoleVars, captureVars,
                        recorderVars, vrVars, trackedVars, cameraVars, plannerVars>>
       \/ which = "vrReleased" /\ W!Next
          /\ UNCHANGED <<vars, restVars, shimVars, papyrusVars, consoleVars, captureVars,
                        scenarioVars, recorderVars, trackedVars, cameraVars, plannerVars>>
       \/ which = "vrStopped" /\ U!Next
          /\ UNCHANGED <<vars, restVars, shimVars, papyrusVars, consoleVars, captureVars,
                        scenarioVars, recorderVars, trackedVars, cameraVars, plannerVars>>
       \/ which = "cameraFlat" /\ G!Next
          /\ UNCHANGED <<vars, restVars, shimVars, papyrusVars, consoleVars, captureVars,
                        scenarioVars, recorderVars, vrVars, trackedVars, plannerVars>>

MCSpec ==
    MCInit /\ [][MCNext]_<<which, vars, restVars, shimVars, papyrusVars, consoleVars, captureVars, scenarioVars, recorderVars, vrVars, trackedVars, cameraVars, plannerVars>>

-----------------------------------------------------------------------------
\* What the theorems about these services assume of their constants.
ASSUME ServicesAssumption ==
    /\ L!ShimAssumption /\ F!CameraAssumption /\ G!CameraAssumption
    /\ C!ConsoleAssumption /\ A!CaptureAssumption /\ R!RestsAssumption
    /\ V!VRAssumption /\ W!VRAssumption /\ U!VRAssumption /\ D!RecorderAssumption
    /\ S!ScenarioAssumption /\ K!ScenarioAssumption /\ P!PapyrusAssumption

\* The shape of the variables of whatever runs.
TypesOK ==
    CASE which = "rest" -> R!TypeOK
      [] which = "shim" -> L!TypeOK
      [] which = "papyrus" -> P!TypeOK
      [] which = "console" -> C!TypeOK
      [] which = "capture" -> A!TypeOK
      [] which = "scenario" -> S!TypeOK
      [] which = "scenarioAlone" -> K!TypeOK
      [] which = "recorder" -> D!TypeOK
      [] which = "vr" -> V!TypeOK
      [] which = "vrReleased" -> W!TypeOK
      [] which = "vrStopped" -> U!TypeOK
      [] which = "tracked" -> T!TypeOK
      [] which = "camera" -> F!TypeOK
      [] which = "cameraFlat" -> G!TypeOK
      [] which = "planner" -> Y!TypeOK
      [] which = "predicate" -> TypeOK

\* RestTool.cpp, RestBackend.cpp: the service, the back end and the tracker
\* agree about a rest except within the handover between them, and what the
\* game still does is covered by one of them; and a caller who was told that its
\* rest is cancelled gets none.
RestAccounted ==
    which = "rest" => R!CopiesAgree /\ R!RestCovered /\ R!CancelledNeverRests

\* native-launch-shim.cpp: no process is taken or kept that the own loader did
\* not create, and the shim lives as long as the game it answers for.
ShimKeepsItsGame == which = "shim" => L!ShimKeepsItsGame

\* PapyrusBackend.cpp, PapyrusTool.cpp: the machine is changed only for a call
\* that was checked against what the forms are at that moment, and no answer
\* contradicts what became of the call, however late.
PapyrusTrue == which = "papyrus" => P!TouchesValidated /\ P!AnswersTrue

\* ConsoleTool.cpp: the count of submissions is exact on every path, and a
\* capture reads the lines between its own fences.
ConsoleAccounted == which = "console" => C!PendingExact /\ C!ReadsOwnWindow

\* CaptureTool.cpp: a conclusive answer is about one's own image, and a saved
\* image is described by its own sidecar.
CapturesOwn == which = "capture" => A!ConclusiveIsOwn /\ A!SavedIsDescribed

\* ScenarioTool.cpp: an accepted cancellation is the run's outcome, no run ends
\* holding what it could have given back, and a waitFor does not miss what the
\* tool step before it set off.
RunsTrue ==
    /\ which = "scenario" => S!CancelTrue /\ S!LeavesClean /\ S!WaitForMissesNothing
    /\ which = "scenarioAlone" => K!CancelTrue /\ K!LeavesClean

\* RecordingTool.cpp: what the player does outside of replays is recorded.
PlayerKept == [][which = "recorder" => D!KeepsPlayer]_recorderVars

\* RecordingTool.cpp, RecordingActivity.cpp: a replay plays all of its
\* recording, in order, at the recorded times, each save once, and the tracked
\* hands with every transition of their buttons; and what the latest replay did
\* is not taken for the player's.
ReplaysFaithful ==
    /\ which = "recorder" => D!TailSuppressed
    /\ which = "planner" => Y!KeepsPace /\ Y!SavesPlayed
    /\ which = "tracked" => T!TransitionsShown /\ T!StatesKept

\* VRInput.cpp: whoever ends a sequence, and however late, the game gets its own
\* controllers back before another begins, what the hooks tell agrees with what
\* the game was given, the end is told once, and a stop tells the truth.
SequencesOwned ==
    /\ which = "vr" => V!GivesBack /\ V!HooksAgree /\ V!Announced /\ V!StoppedTrue
    /\ which = "vrReleased" => W!GivesBack /\ W!HooksAgree /\ W!Announced
    /\ which = "vrStopped" => U!GivesBack /\ U!HooksAgree /\ U!Announced /\ U!StoppedTrue

\* VRFreeCamera.cpp, CameraTool.cpp: only an own free camera is left or moved,
\* and every own one can be left, whatever others and loads did in between.
CameraOwned ==
    /\ which = "camera" => F!OnlyOwnTouched /\ F!NotStranded
    /\ which = "cameraFlat" => G!OnlyOwnTouched /\ G!NotStranded
===============================================================================
