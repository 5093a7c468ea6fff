----------------------------- MODULE FreeCamera -----------------------------
(***************************************************************************)
(* Skyrim's free camera.  The plugin may only leave and move one that it   *)
(* has entered; other mods, the player and loads change the camera at any  *)
(* time, and all that the plugin knows of it is what it finds when one of  *)
(* its commands gets to the main thread.  In VR it enters the state by     *)
(* hand, keeps the state to return to, and must not carry it over a load.  *)
(* ShutdownCamera is a CameraPreLoad without the load.                     *)
(***************************************************************************)
EXTENDS Integers, Sequences, SequencesExt

CONSTANTS
    VR,         \* REL::Module::IsVR
    Callers,    \* who calls the camera tool
    MaxCalls,   \* bound on the calls
    MaxLoads,   \* bound on loads and new games
    MaxOthers,  \* bound on what others do with the camera
    None

VARIABLES
    scene,             \* whose camera states are registered
    world,             \* [current, own, recover]: the camera's state, what is kept of the state
                       \* entered and of the one before, and g_loadRecoveryPending
    loading, session,  \* g_loading, g_session
    load,              \* where the game is: "none", "begun", "loaded"
    call, calls,       \* call[c]: [pc, op, session, loads], and how many there were
    tasks,             \* the main thread's queue
    by, lost,          \* whose the free camera is ("kept": a command's that a new game kept),
                       \* and whether another left it unseen
    touched,           \* whose free camera was last left or moved by a command
    loads, others      \* how many loads and changes by others there were

commandVars == <<call, calls, tasks>>
gateVars == <<loading, session, load, loads>>
vars == <<scene, world, gateVars, commandVars, by, lost, touched, others>>

State(kind) == [scene |-> scene, kind |-> kind]
Free == State("free")
IsFree(w) == w.current.kind = "free"
Kinds == {"normal", "pov", "free"}
Idle == [pc |-> "idle", op |-> None, session |-> 0, loads |-> 0]

Init ==
    /\ scene = 0 /\ loading = FALSE /\ session = 0 /\ load = "none"
    /\ world = [current |-> [scene |-> 0, kind |-> "normal"], own |-> None, recover |-> FALSE]
    /\ call = [c \in Callers |-> Idle] /\ calls = 0 /\ tasks = <<>>
    /\ by = "none" /\ lost = FALSE /\ touched = "none" /\ loads = 0 /\ others = 0

-----------------------------------------------------------------------------
(* What a look at the camera tells, and changes.                           *)

Registered(state) == state.scene = scene

\* ReconcileLoadRecovery: nothing is to be recovered once the camera is not free.
Reconciled(w) == IF IsFree(w) THEN w ELSE [w EXCEPT !.recover = FALSE]

Owned(w) ==
    /\ w.own # None
    /\ IF VR THEN w.current = w.own.free /\ w.own.free = Free /\ Registered(w.own.previous)
       ELSE IsFree(w)

\* IsOwned and FreeCameraOwnership::Observe: what is not owned any more is dropped.
Observed(w) ==
    LET r == Reconciled(w) IN IF Owned(r) THEN r ELSE [r EXCEPT !.own = None]

\* RecoverAfterLoad: leave the free camera that the load has brought along.  The
\* scene may not be ready, and the camera may not follow.
Recovered(w) ==
    LET r == IF w.recover THEN Reconciled(w) ELSE w
    IN {r} \union
       (IF r.recover /\ r.current = Free
        THEN {[r EXCEPT !.current = State("normal"), !.recover = FALSE]} ELSE {})

\* VR's SetEnabled and the toggle of the flat game: only one's own is left, one
\* that is on already is not taken, and the game may not follow.
Enabled(w, on) ==
    LET o == Observed(w)
        active == IF VR THEN o.current = Free ELSE IsFree(o)
    IN IF active = on \/ (active /\ ~Owned(o)) THEN {o}
       ELSE IF ~on THEN {o, [o EXCEPT !.current = o.own.previous, !.own = None]}
       ELSE {o} \union (IF VR => Registered(o.current)
                        THEN {[o EXCEPT !.current = Free, !.own = [previous |-> o.current, free |-> Free]]}
                        ELSE {})

-----------------------------------------------------------------------------
(* The tool's calls.                                                       *)

Answered(c) == call' = [call EXCEPT ![c] = Idle]

\* HandleCamera: all but freecam look first.
Call(c) ==
    /\ call[c].pc = "idle" /\ calls < MaxCalls /\ calls' = calls + 1
    /\ \E op \in {"get", "setPov", "drive", "on", "off"} :
        IF op \in {"on", "off"}
        THEN call' = [call EXCEPT ![c].pc = "ask", ![c].op = op] /\ UNCHANGED tasks
        ELSE call' = [call EXCEPT ![c].pc = "look", ![c].op = op] /\ tasks' = Append(tasks, c)
    /\ UNCHANGED <<scene, world, gateVars, by, lost, touched, others>>

\* The session is read when the mutation is made, and the mutation is queued.
Ask(c) ==
    /\ call[c].pc = "ask"
    /\ \/ /\ call' = [call EXCEPT ![c].pc = "queued", ![c].session = session, ![c].loads = loads]
          /\ tasks' = Append(tasks, c)
       \/ Answered(c) /\ UNCHANGED tasks
    /\ UNCHANGED <<scene, calls, world, gateVars, by, lost, touched, others>>

\* Neither runs once its caller gave up on it.
TimesOut(c) ==
    /\ call[c].pc \in {"look", "queued"}
    /\ Answered(c)
    /\ \E i \in DOMAIN tasks : tasks[i] = c /\ tasks' = RemoveAt(tasks, i)
    /\ UNCHANGED <<scene, calls, world, gateVars, by, lost, touched, others>>

\* Ghosts: whoever looks and finds the camera not free has seen that it was left.
Looks == lost' = (lost /\ IsFree(world))
Whose(c) ==
    IF call[c].loads # loads THEN "stale"
    ELSE IF by = "devbench" THEN "own" ELSE IF lost THEN "lost" ELSE "other"

\* ReadCamera, and what the tool makes of its snapshot.
MainLooks ==
    /\ tasks # <<>> /\ call[Head(tasks)].pc = "look"
    /\ LET c == Head(tasks)
           op == call[c].op
           may == CASE op = "setPov" -> ~IsFree(world)
                    [] op = "drive" -> IsFree(world) /\ Owned(world)
                    [] OTHER -> FALSE
       IN IF may THEN call' = [call EXCEPT ![c].pc = "ask"] ELSE Answered(c)
    /\ world' = Observed(world) /\ Looks
    /\ tasks' = Tail(tasks)
    /\ UNCHANGED <<scene, calls, gateVars, by, touched, others>>

\* Slip: a request that waited for a load is taken for one made after it.
LoadingOnly(c) == VR => ~loading

\* ValidateSession.
Valid(c) == VR => ~loading /\ call[c].session = session

Runs(c, op) ==
    /\ tasks # <<>> /\ c = Head(tasks) /\ call[c].pc = "queued" /\ call[c].op = op
    /\ tasks' = Tail(tasks) /\ Answered(c)
    /\ UNCHANGED <<scene, calls, gateVars, others>>

\* setPov: not in the free camera; the game may not follow.
MainSetsPov(c) ==
    /\ Runs(c, "setPov") /\ UNCHANGED <<by, touched>>
    /\ IF IsFree(world) THEN UNCHANGED <<world, lost>>
       ELSE /\ \E current \in {world.current, State("pov")} :
                world' = Observed([world EXCEPT !.current = current])
            /\ Looks

MainToggles(c, on) ==
    /\ Runs(c, IF on THEN "on" ELSE "off")
    /\ IF ~Valid(c) THEN UNCHANGED <<world, by, lost, touched>>
       ELSE \E r \in Recovered(world) :
            /\ IF r.recover THEN world' = r
               ELSE world' \in Enabled(r, on)
            /\ LET left == IsFree(world) /\ ~IsFree(world')
                   entered == ~IsFree(r) /\ IsFree(world')
               IN /\ by' = IF entered THEN "devbench" ELSE IF left THEN "none" ELSE by
                  /\ touched' = IF left THEN (IF world.recover /\ by = "devbench" THEN "own" ELSE Whose(c))
                                ELSE touched
            /\ Looks

\* drive: only one's own free camera.
MainDrives(c) ==
    /\ Runs(c, "drive") /\ UNCHANGED by
    /\ IF ~Valid(c) THEN UNCHANGED <<world, lost, touched>>
       ELSE /\ world' = Observed(world) /\ Looks
            /\ touched' = IF IsFree(world) /\ Owned(world) THEN Whose(c) ELSE touched

-----------------------------------------------------------------------------
(* The game, its loads, and others.                                        *)

\* CameraPreLoad: in VR the free camera is left ahead of the load, if it follows.
PreLoad ==
    /\ load = "none" /\ loads < MaxLoads /\ loads' = loads + 1
    /\ load' = "begun"
    /\ IF ~VR THEN UNCHANGED <<world, loading, session, by, lost>>
       ELSE /\ loading' = TRUE /\ session' = session + 1
            /\ LET o == Observed(world)
                   drops(w) == [w EXCEPT !.own = None]
               IN IF Owned(world)
                  THEN \/ world' = drops([o EXCEPT !.current = o.own.previous, !.recover = FALSE])
                          /\ by' = "none"
                       \/ world' = drops([o EXCEPT !.recover = TRUE]) /\ UNCHANGED by
                  ELSE world' = drops(o) /\ UNCHANGED by
            /\ Looks
    /\ UNCHANGED <<scene, commandVars, touched, others>>

\* The next scene has states of its own; the free camera may come along.
NextScene == {[scene |-> scene + 1, kind |-> k] : k \in {"normal", world.current.kind}}
                 \union (IF IsFree(world) THEN {world.current} ELSE {})

GameLoads ==
    /\ load = "begun" /\ load' = "loaded"
    /\ scene' = scene + 1
    /\ \E current \in NextScene :
        /\ world' = [world EXCEPT !.current = current]
        /\ by' = IF current.kind = "free" THEN by ELSE "none"
        /\ lost' = (lost \/ (by = "devbench" /\ current.kind # "free"))
    /\ UNCHANGED <<loading, session, loads, commandVars, touched, others>>

\* CameraPostLoad.
Ended(w) == Recovered([w EXCEPT !.own = None])

PostLoad ==
    /\ load \in {"begun", "loaded"} /\ load' = "none"
    /\ IF ~VR THEN UNCHANGED <<world, loading, session, by, lost>>
       ELSE /\ world' \in Ended(world)
            /\ by' = IF IsFree(world') THEN by ELSE "none"
            /\ session' = session + 1 /\ loading' = FALSE /\ Looks
    /\ UNCHANGED <<scene, loads, commandVars, touched, others>>

\* A new game comes without a CameraPreLoad: in VR nothing is left ahead of it, and
\* its CameraPostLoad forgets whose the free camera is.  A recovery that works is
\* the case of a normal camera.
NewGame ==
    /\ load = "none" /\ loads < MaxLoads /\ loads' = loads + 1
    /\ scene' = scene + 1
    /\ \E current \in NextScene :
        LET fresh == [world EXCEPT !.current = current]
        IN /\ by' = IF ~IsFree(fresh) THEN "none"
                    ELSE IF VR /\ by = "devbench" /\ ~world.recover THEN "kept" ELSE by
           /\ IF VR THEN /\ world' = [Reconciled(fresh) EXCEPT !.own = None]
                         /\ session' = session + 1 /\ lost' = (lost /\ IsFree(fresh))
              ELSE /\ world' = fresh /\ UNCHANGED session
                   /\ lost' = (lost \/ (by = "devbench" /\ ~IsFree(fresh)))
    /\ UNCHANGED <<loading, load, commandVars, touched, others>>

\* Another mod, or the player.
OtherMoves ==
    /\ others < MaxOthers /\ others' = others + 1
    /\ \E kind \in Kinds \ {world.current.kind} :
        /\ world' = [world EXCEPT !.current = State(kind)]
        /\ by' = IF kind = "free" THEN "other" ELSE "none"
        /\ lost' = (lost \/ by = "devbench")
    /\ UNCHANGED <<scene, gateVars, commandVars, touched>>

Next ==
    \/ \E c \in Callers : Call(c) \/ Ask(c) \/ TimesOut(c) \/ MainSetsPov(c) \/ MainDrives(c)
    \/ \E c \in Callers, on \in BOOLEAN : MainToggles(c, on)
    \/ MainLooks
    \/ PreLoad \/ GameLoads \/ PostLoad \/ NewGame
    \/ OtherMoves

Spec == Init /\ [][Next]_vars

-----------------------------------------------------------------------------
CameraStates == [scene : 0..MaxLoads, kind : Kinds]
Kept == [previous : CameraStates, free : CameraStates]

CameraAssumption == MaxLoads \in Nat /\ VR \in BOOLEAN /\ None \notin Kept

\* The shape of every variable: nobody's camera is free, and a command is in the
\* queue, once, exactly while it waits for the main thread.
TypeOK ==
    /\ scene \in 0..MaxLoads
    /\ world \in [current : CameraStates, own : Kept \union {None}, recover : BOOLEAN]
    /\ loading \in BOOLEAN /\ session \in 0..2 * MaxLoads /\ load \in {"none", "begun", "loaded"}
    /\ by \in {"none", "devbench", "other", "kept"} /\ (by = "none" <=> ~IsFree(world))
    /\ lost \in BOOLEAN /\ touched \in {"none", "own", "lost", "other", "stale"}
    /\ call \in [Callers -> [pc : {"idle", "ask", "look", "queued"}, session : 0..2 * MaxLoads,
                             op : {"get", "setPov", "drive", "on", "off", None}, loads : 0..MaxLoads]]
    /\ tasks \in Seq(Callers) /\ IsInjective(tasks)
    /\ \A c \in Callers : Contains(tasks, c) <=> call[c].pc \in {"look", "queued"}

\* VRFreeCamera.cpp 94-179, CameraTool.cpp 189-226: a command leaves or moves no
\* free camera of another, and in VR none of a scene other than it was asked in;
\* but for the case the code names, that another left it and entered it again
\* with no command looking in between.
OnlyOwnTouched == touched # "other" /\ (VR => touched # "stale")

\* A command "off" that gets to the main thread in w may leave the free camera.
Leavable(w) ==
    \E r \in Recovered(w) : ~IsFree(r) \/ (~r.recover /\ \E after \in Enabled(r, FALSE) : ~IsFree(after))

\* VRFreeCamera.cpp 56-86, 181-206: a free camera that was entered by a command can
\* be left by one as well, whatever loads came between - unless, in VR, the game
\* still is in the state of a scene that it has unloaded, or a new game kept it.
NotStranded ==
    /\ IsFree(world) /\ by = "devbench" /\ ~loading
    /\ VR => Registered(world.current)
    => Leavable(world)

\* The same without the exceptions, which does not hold; no run checks it.
NeverStranded == IsFree(world) /\ by \in {"devbench", "kept"} /\ ~loading => Leavable(world)
=============================================================================
