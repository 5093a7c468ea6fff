--------------------------- MODULE Services_proofs ---------------------------
(***************************************************************************)
(* Proofs about seven services that the plugin and the bridge keep beside *)
(* their queues: Skyrim's free camera, for any callers, any number of      *)
(* loads and whatever others do with the camera, in VR and not; the launch *)
(* shim, for any set of process ids and any number of processes; the       *)
(* console tool, for any requests, any limits and any size of the game's   *)
(* log; the capture tool, for any requests under any names; the rest tool, *)
(* for any rests and whatever competes with them for the game; the         *)
(* recorder, for any callers and any limits; and the Papyrus tool, for any *)
(* calls and signatures. They share this module and nothing else.          *)
(***************************************************************************)
EXTENDS FreeCamera, SeqLemmas, TLAPS

-----------------------------------------------------------------------------
(***************************************************************************)
(* The free camera. What is kept of a state entered is of a free camera    *)
(* that a command has entered, for as long as nobody leaves it unseen;     *)
(* what a load brings along is to be recovered; and in VR every load ends  *)
(* the session that a waiting command was asked in.                        *)
(***************************************************************************)

Worlds == [current : CameraStates, own : Kept \union {None}, recover : BOOLEAN]

\* What the camera w is to its owner: what is kept is of a free camera that a
\* command has entered, and one that a command entered is kept or to be recovered.
Fits(w, whose, unseen) ==
    /\ whose = "none" <=> ~IsFree(w)
    /\ w.own # None \/ w.recover => whose = "devbench" \/ unseen
    /\ IsFree(w) /\ whose = "devbench" => Owned(w) \/ w.recover
    /\ w.own # None => w.own.previous.kind # "free"
    /\ VR /\ w.own # None => w.own.free = Free /\ Registered(w.own.previous)
    /\ w.recover => VR

WorldInv ==
    /\ world \in Worlds
    /\ by \in {"none", "devbench", "other", "kept"} /\ lost \in BOOLEAN
    /\ Fits(world, by, lost)
    /\ VR /\ loading => world.own = None

\* Where the game is with its loads.
GateInv ==
    /\ scene \in 0..MaxLoads /\ loads \in 0..MaxLoads /\ session \in 0..2 * MaxLoads
    /\ load \in {"none", "begun", "loaded"} /\ loading \in BOOLEAN
    /\ VR => (loading <=> load # "none")
    /\ session <= 2 * loads /\ (load # "none" => session < 2 * loads)
    /\ scene <= loads /\ (load = "begun" => scene < loads)

\* A command is in the queue, once, exactly while it waits.
CallSet == [pc : {"idle", "ask", "look", "queued"}, session : 0..2 * MaxLoads,
            op : {"get", "setPov", "drive", "on", "off", None}, loads : 0..MaxLoads]
Waits(c) == call[c].pc \in {"look", "queued"}

QueueInv ==
    /\ call \in [Callers -> CallSet]
    /\ tasks \in Seq(Callers) /\ IsInjective(tasks)
    /\ \A c \in Callers : c \in Range(tasks) <=> Waits(c)

\* In VR every load ends the session, so that a command of this session was asked
\* for after the latest load.
AskedInv ==
    VR => \A c \in Callers : call[c].pc = "queued" =>
              call[c].session <= session /\ (call[c].session = session => call[c].loads = loads)

TouchedInv == touched \in {"none", "own", "lost", "other", "stale"} /\ OnlyOwnTouched

CameraInv == WorldInv /\ GateInv /\ QueueInv /\ AskedInv /\ TouchedInv

-----------------------------------------------------------------------------
(* What a look at the camera tells, and changes.                           *)

LEMMA StatesTyped ==
  ASSUME CameraAssumption, scene \in 0..MaxLoads
  PROVE  /\ \A kind \in Kinds : State(kind) \in CameraStates
         /\ Free \in CameraStates /\ Free.kind = "free" /\ Free.scene = scene
         /\ \A s \in CameraStates : s.scene = scene /\ s.kind = "free" => s = Free
         /\ \A a, b \in CameraStates : [previous |-> a, free |-> b] \in Kept
BY DEF State, Free, CameraStates, Kept, Kinds

LEMMA ObservedWhat ==
  ASSUME NEW w \in Worlds
  PROVE  /\ Observed(w) \in Worlds /\ Observed(w).current = w.current
         /\ Observed(w).own = IF Owned(w) THEN w.own ELSE None
         /\ Observed(w).recover = (w.recover /\ IsFree(w))
         /\ Owned(Observed(w)) <=> Owned(w)
<1> DEFINE r == Reconciled(w)
<1>1. /\ r \in Worlds /\ r.current = w.current /\ r.own = w.own
      /\ r.recover = (w.recover /\ IsFree(w))
  <2>1. CASE IsFree(w)
    BY <2>1 DEF Reconciled, Worlds
  <2>2. CASE ~IsFree(w)
    BY <2>2 DEF Reconciled, Worlds
  <2> QED BY <2>1, <2>2
<1>2. Owned(r) <=> Owned(w)
  BY <1>1 DEF Owned, IsFree
<1>3. Observed(w) = IF Owned(r) THEN r ELSE [r EXCEPT !.own = None]
  BY DEF Observed
<1> HIDE DEF r
<1>4. CASE Owned(w)
  BY <1>1, <1>2, <1>3, <1>4
<1>5. CASE ~Owned(w)
  <2>1. /\ Observed(w) \in Worlds /\ Observed(w).current = w.current /\ Observed(w).own = None
        /\ Observed(w).recover = r.recover
    BY <1>1, <1>2, <1>3, <1>5 DEF Worlds
  <2>2. ~Owned(Observed(w))
    BY <2>1 DEF Owned
  <2> QED BY <1>1, <1>5, <2>1, <2>2
<1> QED BY <1>4, <1>5

LEMMA RecoveredWhat ==
  ASSUME CameraAssumption, scene \in 0..MaxLoads, NEW w \in Worlds, NEW r \in Recovered(w)
  PROVE  /\ r \in Worlds /\ r.own = w.own
         /\ \/ r.current = w.current /\ r.recover = (w.recover /\ IsFree(w))
            \/ /\ w.recover /\ w.current = Free
               /\ r.current = State("normal") /\ ~r.recover
<1> DEFINE s == IF w.recover THEN Reconciled(w) ELSE w
<1>1. /\ s \in Worlds /\ s.own = w.own /\ s.current = w.current
      /\ s.recover = (w.recover /\ IsFree(w))
  <2>1. CASE w.recover /\ ~IsFree(w)
    BY <2>1 DEF Reconciled, Worlds
  <2>2. CASE ~(w.recover /\ ~IsFree(w))
    BY <2>2 DEF Reconciled, Worlds
  <2> QED BY <2>1, <2>2
<1>2. \/ r = s
      \/ s.recover /\ s.current = Free /\ r = [s EXCEPT !.current = State("normal"), !.recover = FALSE]
  BY DEF Recovered
<1> HIDE DEF s
<1>3. State("normal") \in CameraStates
  BY StatesTyped DEF Kinds
<1>4. CASE r = s
  BY <1>1, <1>4
<1>5. CASE s.recover /\ s.current = Free /\ r = [s EXCEPT !.current = State("normal"), !.recover = FALSE]
  BY <1>1, <1>3, <1>5 DEF Worlds
<1> QED BY <1>2, <1>4, <1>5

\* A command to enter or leave finds the camera so already, leaves its own, or
\* enters where the camera was none.
LEMMA EnabledWhat ==
  ASSUME CameraAssumption, scene \in 0..MaxLoads, NEW w \in Worlds, NEW on \in BOOLEAN,
         NEW e \in Enabled(w, on)
  PROVE  /\ e \in Worlds
         /\ \/ e = Observed(w)
            \/ /\ IsFree(w) /\ Owned(w)
               /\ e.current = w.own.previous /\ e.own = None /\ e.recover = w.recover
            \/ /\ ~IsFree(w)
               /\ e.current = Free /\ e.own = [previous |-> w.current, free |-> Free] /\ ~e.recover
               /\ VR => Registered(w.current)
<1> DEFINE o == Observed(w)
           active == IF VR THEN o.current = Free ELSE IsFree(o)
<1>1. /\ o \in Worlds /\ o.current = w.current /\ o.own = (IF Owned(w) THEN w.own ELSE None)
      /\ o.recover = (w.recover /\ IsFree(w)) /\ (Owned(o) <=> Owned(w))
  BY ObservedWhat
<1>2. \/ e = o
      \/ active /\ Owned(o) /\ e = [o EXCEPT !.current = o.own.previous, !.own = None]
      \/ /\ ~active /\ (VR => Registered(o.current))
         /\ e = [o EXCEPT !.current = Free, !.own = [previous |-> o.current, free |-> Free]]
  <2>1. e \in IF active = on \/ (active /\ ~Owned(o)) THEN {o}
              ELSE IF ~on THEN {o, [o EXCEPT !.current = o.own.previous, !.own = None]}
              ELSE {o} \union (IF VR => Registered(o.current)
                        THEN {[o EXCEPT !.current = Free, !.own = [previous |-> o.current, free |-> Free]]}
                        ELSE {})
    BY DEF Enabled
  <2>2. active \in BOOLEAN
    BY DEF IsFree
  <2> HIDE DEF active, o
  <2> QED BY <2>1, <2>2
<1>3. active => IsFree(w)
  BY <1>1, StatesTyped DEF IsFree
<1>4. ~active /\ (VR => Registered(o.current)) => ~IsFree(w)
  <2>1. w.current \in CameraStates
    BY DEF Worlds
  <2> QED BY <1>1, <2>1, StatesTyped DEF IsFree, Registered
<1> HIDE DEF o, active
<1>5. CASE e = o
  BY <1>1, <1>5 DEF o
<1>6. CASE active /\ Owned(o) /\ e = [o EXCEPT !.current = o.own.previous, !.own = None]
  <2>1. o.own = w.own /\ o.own \in Kept /\ IsFree(w) /\ Owned(w)
    BY <1>1, <1>3, <1>6 DEF Worlds, Owned
  <2>2. o.own.previous \in CameraStates
    BY <2>1 DEF Kept
  <2> QED BY <1>1, <1>6, <2>1, <2>2 DEF Worlds
<1>7. CASE /\ ~active /\ (VR => Registered(o.current))
           /\ e = [o EXCEPT !.current = Free, !.own = [previous |-> o.current, free |-> Free]]
  <2>1. ~IsFree(w) /\ ~o.recover
    BY <1>1, <1>4, <1>7
  <2>2. [previous |-> o.current, free |-> Free] \in Kept /\ Free \in CameraStates
    BY <1>1, StatesTyped DEF Worlds
  <2> QED BY <1>1, <1>7, <2>1, <2>2 DEF Worlds
<1> QED BY <1>2, <1>5, <1>6, <1>7

\* What was kept of an own camera names it.
LEMMA OwnedWhat ==
  ASSUME CameraAssumption, NEW w \in Worlds
  PROVE  Owned(w) => IsFree(w) /\ w.own # None /\ w.own \in Kept
BY DEF Owned, IsFree, Worlds, Free, State

\* Whoever looks keeps what fits.
LEMMA LookFits ==
  ASSUME CameraAssumption, NEW w \in Worlds, NEW whose, NEW unseen, Fits(w, whose, unseen)
  PROVE  Fits(Observed(w), whose, unseen /\ IsFree(w))
<1>1. /\ Observed(w) \in Worlds /\ Observed(w).current = w.current
      /\ Observed(w).own = IF Owned(w) THEN w.own ELSE None
      /\ Observed(w).recover = (w.recover /\ IsFree(w))
      /\ Owned(Observed(w)) <=> Owned(w)
  BY ObservedWhat
<1>2. Owned(w) => IsFree(w) /\ w.own # None
  BY OwnedWhat
<1>3. IsFree(Observed(w)) <=> IsFree(w)
  BY <1>1 DEF IsFree
<1> QED BY <1>1, <1>2, <1>3 DEF Fits

-----------------------------------------------------------------------------
(* The camera, step by step.                                               *)

\* As long as the scene stays, what fits is a matter of the camera alone.
LEMMA SameScene ==
  ASSUME scene' = scene, world' \in Worlds, by' \in {"none", "devbench", "other", "kept"}, lost' \in BOOLEAN,
         Fits(world', by', lost'), VR /\ loading' => world'.own = None
  PROVE  WorldInv'
<1>1. State("free")' = State("free")
  BY DEF State
<1>2. Owned(world)' <=> Owned(world')
  BY <1>1 DEF Owned, IsFree, Free, Registered
<1>3. Fits(world, by, lost)'
  BY <1>1, <1>2 DEF Fits, IsFree, Free, Registered
<1> QED BY <1>3 DEF WorldInv, Worlds, CameraStates, Kept

\* What a command of a caller may have touched.
LEMMA WhoseTrue ==
  ASSUME WorldInv, NEW c, Owned(world) \/ (world.recover /\ IsFree(world)),
         VR => call[c].loads = loads
  PROVE  Whose(c) \in {"own", "lost", "stale"} /\ (VR => Whose(c) # "stale")
<1>1. by = "devbench" \/ lost
  BY DEF WorldInv, Fits, Owned
<1> QED BY <1>1 DEF Whose

\* A look, and no more.
LEMMA LooksKeeps ==
  ASSUME CameraAssumption, WorldInv, world' = Observed(world), Looks, UNCHANGED <<scene, by, loading>>
  PROVE  WorldInv'
<1>1. Observed(world) \in Worlds /\ Observed(world).own \in {world.own, None}
  BY ObservedWhat DEF WorldInv
<1>2. Fits(world', by', lost')
  BY LookFits DEF WorldInv, Looks
<1>3. lost' \in BOOLEAN
  BY DEF Looks, WorldInv, IsFree
<1> QED BY <1>1, <1>2, <1>3, SameScene DEF WorldInv

LEMMA SetsPovKeeps ==
  ASSUME CameraAssumption, WorldInv, GateInv, NEW c \in Callers, MainSetsPov(c)
  PROVE  WorldInv'
<1>1. UNCHANGED <<scene, loading, by>>
  BY DEF MainSetsPov, Runs, gateVars
<1>2. CASE IsFree(world)
  BY <1>1, <1>2, SameScene DEF MainSetsPov, WorldInv
<1>3. CASE ~IsFree(world)
  <2>1. PICK current \in {world.current, State("pov")} :
            world' = Observed([world EXCEPT !.current = current])
    BY <1>3 DEF MainSetsPov
  <2> DEFINE w == [world EXCEPT !.current = current]
  <2>2. current \in CameraStates /\ current.kind # "free"
    BY <1>3, StatesTyped DEF WorldInv, GateInv, Worlds, IsFree, Kinds, State
  <2>3. w \in Worlds /\ ~IsFree(w)
    BY <2>2 DEF WorldInv, Worlds, IsFree
  <2>4. ~Owned(w)
    BY <2>3, OwnedWhat
  <2>5. world' = Observed(w)
    BY <2>1
  <2> HIDE DEF w
  <2>6. world' \in Worlds /\ world'.own = None /\ ~world'.recover /\ ~IsFree(world')
    BY <2>3, <2>4, <2>5, ObservedWhat DEF IsFree
  <2>7. by = "none"
    BY <1>3 DEF WorldInv, Fits
  <2>8. lost' \in BOOLEAN
    BY <1>3 DEF MainSetsPov, Looks, WorldInv
  <2>9. Fits(world', by', lost')
    BY <1>1, <2>6, <2>7 DEF Fits
  <2> QED BY <1>1, <2>6, <2>8, <2>9, SameScene DEF WorldInv
<1> QED BY <1>2, <1>3

LEMMA TogglesKeeps ==
  ASSUME CameraAssumption, WorldInv, GateInv, AskedInv, TouchedInv,
         NEW c \in Callers, NEW on \in BOOLEAN, MainToggles(c, on)
  PROVE  WorldInv' /\ TouchedInv'
<1>1. UNCHANGED <<scene, loading, session, loads>>
  BY DEF MainToggles, Runs, gateVars
<1>2. CASE ~Valid(c)
  <2>1. UNCHANGED <<world, by, lost, touched>>
    BY <1>2 DEF MainToggles
  <2> QED BY <1>1, <2>1, SameScene DEF WorldInv, TouchedInv, OnlyOwnTouched
<1>3. CASE Valid(c)
  <2> DEFINE left == IsFree(world) /\ ~IsFree(world')
             entered(r) == ~IsFree(r) /\ IsFree(world')
  <2>1. PICK r \in Recovered(world) :
            /\ IF r.recover THEN world' = r ELSE world' \in Enabled(r, on)
            /\ by' = IF entered(r) THEN "devbench" ELSE IF left THEN "none" ELSE by
            /\ touched' = IF left THEN (IF world.recover /\ by = "devbench" THEN "own" ELSE Whose(c))
                          ELSE touched
            /\ Looks
    BY <1>3 DEF MainToggles
  <2>2. world \in Worlds /\ Fits(world, by, lost) /\ scene \in 0..MaxLoads /\ (VR => ~loading)
    BY <1>3 DEF WorldInv, GateInv, Valid
  <2>3. /\ r \in Worlds /\ r.own = world.own
        /\ \/ r.current = world.current /\ r.recover = (world.recover /\ IsFree(world))
           \/ /\ world.recover /\ world.current = Free
              /\ r.current = State("normal") /\ ~r.recover
    BY <2>2, RecoveredWhat
  <2>4. lost' = (lost /\ IsFree(world)) /\ lost' \in BOOLEAN
    BY <2>1 DEF Looks, IsFree, WorldInv
  <2>5. VR => call[c].loads = loads
    BY <1>3 DEF MainToggles, Runs, AskedInv, Valid
  <2>6. left => Owned(world) \/ (world.recover /\ IsFree(world))
    <3>1. CASE r.recover
      BY <2>1, <2>3, <3>1 DEF IsFree, Free, State
    <3>2. CASE ~r.recover /\ r.current = world.current
      <4>1. Owned(r) <=> Owned(world)
        BY <2>3, <3>2 DEF Owned, IsFree
      <4>2. \/ world' = Observed(r) \/ Owned(r) \/ ~IsFree(r)
        BY <2>1, <2>2, <2>3, <3>2, EnabledWhat
      <4>3. Observed(r).current = world.current
        BY <2>3, <3>2, ObservedWhat
      <4> QED BY <3>2, <4>1, <4>2, <4>3 DEF IsFree
    <3> QED BY <2>3, <3>1, <3>2 DEF IsFree, Free, State
  <2>7. TouchedInv'
    <3>1. CASE ~left
      BY <2>1, <3>1 DEF TouchedInv, OnlyOwnTouched
    <3>2. CASE left
      <4>1. Whose(c) \in {"own", "lost", "stale"} /\ (VR => Whose(c) # "stale")
        BY <2>5, <2>6, <3>2, WhoseTrue
      <4> QED BY <2>1, <3>2, <4>1 DEF TouchedInv, OnlyOwnTouched
    <3> QED BY <3>1, <3>2
  <2>8. world' \in Worlds /\ Fits(world', by', lost') /\ by' \in {"none", "devbench", "other", "kept"}
    <3>0. by \in {"none", "devbench", "other", "kept"}
      BY DEF WorldInv
    <3>1. CASE r.recover
      <4>1. world' = r /\ r.current = world.current /\ IsFree(world) /\ world.recover
        BY <2>1, <2>3, <3>1
      <4>2. IsFree(r) /\ IsFree(world')
        BY <4>1 DEF IsFree
      <4>3. by' = by
        BY <2>1, <4>1, <4>2
      <4>4. lost' = lost
        BY <2>4, <4>1 DEF WorldInv
      <4> QED BY <2>2, <2>3, <3>0, <3>1, <4>1, <4>2, <4>3, <4>4 DEF Fits
    <3>2. CASE ~r.recover
      <4>1. /\ world' \in Worlds
            /\ \/ world' = Observed(r)
               \/ /\ IsFree(r) /\ Owned(r)
                  /\ world'.current = r.own.previous /\ world'.own = None /\ world'.recover = r.recover
               \/ /\ ~IsFree(r)
                  /\ world'.current = Free /\ world'.own = [previous |-> r.current, free |-> Free]
                  /\ ~world'.recover
                  /\ VR => Registered(r.current)
        BY <2>1, <2>2, <2>3, <3>2, EnabledWhat
      <4>2. CASE world' = Observed(r)
        <5>1. /\ world'.current = r.current /\ world'.own = (IF Owned(r) THEN r.own ELSE None)
              /\ ~world'.recover /\ (Owned(world') <=> Owned(r))
          BY <2>3, <3>2, <4>2, ObservedWhat
        <5>2. CASE r.current = world.current
          <6>1. (Owned(r) <=> Owned(world)) /\ (IsFree(r) <=> IsFree(world)) /\ (IsFree(world') <=> IsFree(world))
            BY <2>3, <5>1, <5>2 DEF Owned, IsFree
          <6>2. by' = by
            BY <2>1, <6>1
          <6>3. Owned(world) => IsFree(world) /\ world.own # None
            BY <2>2, OwnedWhat
          <6>4. IsFree(world) => ~world.recover
            <7>1. State("normal") # Free
              BY DEF Free, State
            <7> QED BY <2>3, <3>2, <5>2, <7>1
          <6> QED BY <2>2, <2>3, <2>4, <3>0, <4>1, <5>1, <6>1, <6>2, <6>3, <6>4 DEF Fits
        <5>3. CASE world.current = Free /\ r.current = State("normal")
          <6>1. IsFree(world) /\ ~IsFree(r) /\ ~IsFree(world')
            BY <5>1, <5>3 DEF IsFree, Free, State
          <6>2. by' = "none" /\ ~Owned(r)
            BY <2>1, <2>3, <6>1, OwnedWhat
          <6> QED BY <4>1, <5>1, <6>1, <6>2 DEF Fits
        <5> QED BY <2>3, <5>2, <5>3
      <4>3. CASE /\ IsFree(r) /\ Owned(r)
                 /\ world'.current = r.own.previous /\ world'.own = None /\ world'.recover = r.recover
        <5>1. r.own # None
          BY <2>3, <4>3, OwnedWhat
        <5>2. ~IsFree(world') /\ IsFree(world)
          BY <2>2, <2>3, <4>3, <5>1 DEF Fits, IsFree, State
        <5> QED BY <2>1, <3>2, <4>1, <4>3, <5>2 DEF Fits
      <4>4. CASE /\ ~IsFree(r)
                 /\ world'.current = Free /\ world'.own = [previous |-> r.current, free |-> Free]
                 /\ ~world'.recover
                 /\ VR => Registered(r.current)
        <5>1. IsFree(world') /\ by' = "devbench"
          BY <2>1, <4>4 DEF IsFree, Free, State
        <5>2. world'.own # None
          <6>1. r.current \in CameraStates
            BY <2>3 DEF Worlds
          <6> QED BY <2>2, <4>4, <6>1, StatesTyped DEF CameraAssumption
        <5>3. Owned(world')
          BY <4>4, <5>1, <5>2 DEF Owned
        <5> QED BY <4>1, <4>4, <5>1, <5>3 DEF Fits, IsFree
      <4> QED BY <4>1, <4>2, <4>3, <4>4
    <3> QED BY <3>1, <3>2
  <2> QED BY <1>1, <2>2, <2>4, <2>7, <2>8, SameScene
<1> QED BY <1>2, <1>3

\* A command that moves the camera looks at it, and moves its own.
LEMMA DrivesKeeps ==
  ASSUME CameraAssumption, WorldInv, AskedInv, TouchedInv, NEW c \in Callers, MainDrives(c)
  PROVE  WorldInv' /\ TouchedInv'
<1>1. UNCHANGED <<scene, loading, session, loads, by>>
  BY DEF MainDrives, Runs, gateVars
<1>2. CASE ~Valid(c)
  <2>1. UNCHANGED <<world, by, lost, touched>>
    BY <1>2 DEF MainDrives
  <2> QED BY <1>1, <2>1, SameScene DEF WorldInv, TouchedInv, OnlyOwnTouched
<1>3. CASE Valid(c)
  <2>1. /\ world' = Observed(world) /\ Looks
        /\ touched' = IF IsFree(world) /\ Owned(world) THEN Whose(c) ELSE touched
    BY <1>3 DEF MainDrives
  <2>2. VR => call[c].loads = loads
    BY <1>3 DEF MainDrives, Runs, AskedInv, Valid
  <2>3. CASE IsFree(world) /\ Owned(world)
    <3>1. Whose(c) \in {"own", "lost", "stale"} /\ (VR => Whose(c) # "stale")
      BY <2>2, <2>3, WhoseTrue
    <3>2. TouchedInv'
      BY <2>1, <2>3, <3>1 DEF TouchedInv, OnlyOwnTouched
    <3> QED BY <1>1, <2>1, <3>2, LooksKeeps
  <2>4. CASE ~(IsFree(world) /\ Owned(world))
    <3>1. TouchedInv'
      BY <2>1, <2>4 DEF TouchedInv, OnlyOwnTouched
    <3> QED BY <1>1, <2>1, <3>1, LooksKeeps
  <2> QED BY <2>3, <2>4
<1> QED BY <1>2, <1>3

\* Ahead of a load the camera that is owned is left or is to be recovered.
LEMMA PreLoadKeeps ==
  ASSUME CameraAssumption, WorldInv, PreLoad
  PROVE  WorldInv'
<1>1. scene' = scene
  BY DEF PreLoad
<1>2. CASE ~VR
  BY <1>1, <1>2, SameScene DEF PreLoad, WorldInv
<1>3. CASE VR
  <2> DEFINE o == Observed(world)
             drops(w) == [w EXCEPT !.own = None]
  <2>1. Looks /\ IF Owned(world)
                 THEN \/ world' = drops([o EXCEPT !.current = o.own.previous, !.recover = FALSE]) /\ by' = "none"
                      \/ world' = drops([o EXCEPT !.recover = TRUE]) /\ UNCHANGED by
                 ELSE world' = drops(o) /\ UNCHANGED by
    BY <1>3 DEF PreLoad
  <2>2. /\ world \in Worlds /\ Fits(world, by, lost) /\ by \in {"none", "devbench", "other", "kept"}
        /\ lost \in BOOLEAN
    BY DEF WorldInv
  <2>3. lost' = (lost /\ IsFree(world)) /\ lost' \in BOOLEAN
    BY <2>1, <2>2 DEF Looks, IsFree
  <2>4. /\ o \in Worlds /\ o.current = world.current
        /\ o.own = (IF Owned(world) THEN world.own ELSE None)
        /\ o.recover = (world.recover /\ IsFree(world))
    BY <2>2, ObservedWhat
  <2> HIDE DEF o
  <2>5. CASE Owned(world)
    <3>1. /\ IsFree(world) /\ world.own # None /\ o.own = world.own /\ o.own \in Kept
          /\ o.own.previous \in CameraStates /\ o.own.previous.kind # "free"
      BY <2>2, <2>4, <2>5, OwnedWhat DEF Fits, Kept
    <3>2. CASE /\ world' = drops([o EXCEPT !.current = o.own.previous, !.recover = FALSE])
               /\ by' = "none"
      <4>1. /\ world' \in Worlds /\ ~IsFree(world') /\ world'.own = None /\ ~world'.recover
        BY <2>4, <3>1, <3>2 DEF Worlds, IsFree
      <4>2. Fits(world', by', lost')
        BY <3>2, <4>1 DEF Fits
      <4> QED BY <1>1, <2>3, <3>2, <4>1, <4>2, SameScene
    <3>3. CASE world' = drops([o EXCEPT !.recover = TRUE]) /\ UNCHANGED by
      <4>1. /\ world' \in Worlds /\ world'.current = world.current /\ world'.own = None /\ world'.recover
        BY <2>4, <3>3 DEF Worlds
      <4>2. IsFree(world')
        BY <3>1, <4>1 DEF IsFree
      <4>3. lost' = lost
        BY <2>2, <2>3, <3>1
      <4>4. Fits(world', by', lost')
        BY <1>3, <2>2, <3>1, <3>3, <4>1, <4>2, <4>3 DEF Fits
      <4> QED BY <1>1, <2>2, <2>3, <3>3, <4>1, <4>4, SameScene
    <3> QED BY <2>1, <2>5, <3>2, <3>3
  <2>6. CASE ~Owned(world)
    <3>1. world' = drops(o) /\ UNCHANGED by
      BY <2>1, <2>6
    <3>2. /\ world' \in Worlds /\ world'.current = world.current /\ world'.own = None
          /\ world'.recover = (world.recover /\ IsFree(world))
      BY <2>4, <3>1 DEF Worlds
    <3>3. IsFree(world') <=> IsFree(world)
      BY <3>2 DEF IsFree
    <3>4. Fits(world', by', lost')
      BY <2>2, <2>3, <2>6, <3>1, <3>2, <3>3 DEF Fits
    <3> QED BY <1>1, <2>2, <2>3, <3>1, <3>2, <3>4, SameScene
  <2> QED BY <2>5, <2>6
<1> QED BY <1>2, <1>3

\* What the next scene's camera may be.
LEMMA NextTyped ==
  ASSUME CameraAssumption, world \in Worlds, scene + 1 \in 0..MaxLoads, NEW current \in NextScene
  PROVE  current \in CameraStates /\ (current.kind = "free" => IsFree(world))
<1>1. world.current \in CameraStates /\ world.current.kind \in Kinds /\ "normal" \in Kinds
  BY DEF Worlds, CameraStates, Kinds
<1>2. CASE current = world.current
  BY <1>1, <1>2 DEF IsFree
<1>3. ASSUME NEW k \in {"normal", world.current.kind}, current = [scene |-> scene + 1, kind |-> k]
      PROVE current \in CameraStates /\ (current.kind = "free" => IsFree(world))
  BY <1>1, <1>3 DEF CameraStates, IsFree
<1> QED BY <1>2, <1>3 DEF NextScene

\* In the loaded scene a command's camera is the one it was, or was left unseen.
LEMMA GameLoadsKeeps ==
  ASSUME CameraAssumption, WorldInv, GateInv, GameLoads
  PROVE  WorldInv'
<1>1. PICK current \in NextScene :
        /\ world' = [world EXCEPT !.current = current]
        /\ by' = IF current.kind = "free" THEN by ELSE "none"
        /\ lost' = (lost \/ (by = "devbench" /\ current.kind # "free"))
  BY DEF GameLoads
<1>2. loading' = loading /\ (VR => loading) /\ scene + 1 \in 0..MaxLoads
  BY DEF GameLoads, GateInv, CameraAssumption
<1>3. /\ world \in Worlds /\ Fits(world, by, lost) /\ by \in {"none", "devbench", "other", "kept"}
      /\ lost \in BOOLEAN /\ (VR => world.own = None)
  BY <1>2 DEF WorldInv
<1>4. current \in CameraStates /\ (current.kind = "free" => IsFree(world))
  BY <1>2, <1>3, NextTyped
<1>5. /\ world' \in Worlds /\ world'.current = current /\ world'.own = world.own
      /\ world'.recover = world.recover
  BY <1>1, <1>3, <1>4 DEF Worlds
<1>6. IsFree(world)' <=> current.kind = "free"
  BY <1>5 DEF IsFree
<1>7. IsFree(world)' /\ Owned(world) => Owned(world)'
  BY <1>3, <1>5 DEF Owned
<1>8. Fits(world, by, lost)'
  BY <1>1, <1>3, <1>4, <1>5, <1>6, <1>7 DEF Fits
<1> QED BY <1>1, <1>2, <1>3, <1>5, <1>8 DEF WorldInv, Worlds, CameraStates, Kept

\* After the load what came along is left, or stays to be recovered.
LEMMA PostLoadKeeps ==
  ASSUME CameraAssumption, WorldInv, GateInv, PostLoad
  PROVE  WorldInv'
<1>1. scene' = scene
  BY DEF PostLoad
<1>2. CASE ~VR
  BY <1>1, <1>2, SameScene DEF PostLoad, WorldInv
<1>3. CASE VR
  <2> DEFINE w == [world EXCEPT !.own = None]
  <2>1. /\ world' \in Recovered(w) /\ Looks /\ ~loading'
        /\ by' = IF IsFree(world') THEN by ELSE "none"
    BY <1>3 DEF PostLoad, Ended
  <2>2. /\ world \in Worlds /\ Fits(world, by, lost) /\ by \in {"none", "devbench", "other", "kept"}
        /\ lost \in BOOLEAN /\ world.own = None /\ scene \in 0..MaxLoads
    BY <1>3 DEF WorldInv, GateInv, PostLoad
  <2>3. lost' = (lost /\ IsFree(world)) /\ lost' \in BOOLEAN
    BY <2>1, <2>2 DEF Looks, IsFree
  <2>4. w \in Worlds /\ w.own = None /\ w.current = world.current /\ w.recover = world.recover
    BY <2>2 DEF Worlds
  <2> HIDE DEF w
  <2>5. IsFree(w) <=> IsFree(world)
    BY <2>4 DEF IsFree
  <2>6. /\ world' \in Worlds /\ world'.own = None
        /\ \/ world'.current = world.current /\ world'.recover = (world.recover /\ IsFree(world))
           \/ world'.current = State("normal") /\ ~world'.recover
    BY <2>1, <2>2, <2>4, <2>5, RecoveredWhat
  <2>7. CASE world'.current = world.current /\ world'.recover = (world.recover /\ IsFree(world))
    <3>1. IsFree(world') <=> IsFree(world)
      BY <2>7 DEF IsFree
    <3>2. ~Owned(world)
      BY <2>2 DEF Owned
    <3>3. by' = by
      BY <2>1, <2>2, <3>1 DEF Fits
    <3>4. Fits(world', by', lost')
      BY <2>2, <2>3, <2>6, <2>7, <3>1, <3>2, <3>3 DEF Fits
    <3> QED BY <1>1, <2>2, <2>3, <2>6, <3>3, <3>4, SameScene
  <2>8. CASE world'.current = State("normal") /\ ~world'.recover
    <3>1. ~IsFree(world')
      BY <2>8 DEF IsFree, State
    <3>2. by' = "none"
      BY <2>1, <3>1
    <3>3. Fits(world', by', lost')
      BY <2>6, <2>8, <3>1, <3>2 DEF Fits
    <3> QED BY <1>1, <2>3, <2>6, <3>2, <3>3, SameScene
  <2> QED BY <2>6, <2>7, <2>8
<1> QED BY <1>2, <1>3

\* A new game may keep the free camera, and in VR forgets whose it is.
LEMMA NewGameKeeps ==
  ASSUME CameraAssumption, WorldInv, GateInv, NewGame
  PROVE  WorldInv'
<1> DEFINE fresh(current) == [world EXCEPT !.current = current]
<1>1. PICK current \in NextScene :
        /\ by' = IF ~IsFree(fresh(current)) THEN "none"
                 ELSE IF VR /\ by = "devbench" /\ ~world.recover THEN "kept" ELSE by
        /\ IF VR THEN /\ world' = [Reconciled(fresh(current)) EXCEPT !.own = None]
                      /\ session' = session + 1 /\ lost' = (lost /\ IsFree(fresh(current)))
           ELSE /\ world' = fresh(current) /\ UNCHANGED session
                /\ lost' = (lost \/ (by = "devbench" /\ ~IsFree(fresh(current))))
  BY DEF NewGame
<1>2. /\ world \in Worlds /\ Fits(world, by, lost) /\ lost \in BOOLEAN
      /\ by \in {"none", "devbench", "other", "kept"} /\ (VR /\ loading => world.own = None)
  BY DEF WorldInv
<1>3. loading' = loading /\ scene + 1 \in 0..MaxLoads
  BY DEF NewGame, GateInv, CameraAssumption
<1>4. current \in CameraStates /\ (current.kind = "free" => IsFree(world))
  BY <1>2, <1>3, NextTyped
<1> DEFINE f == fresh(current)
<1>5. /\ f \in Worlds /\ f.current = current /\ f.own = world.own /\ f.recover = world.recover
      /\ (IsFree(f) <=> current.kind = "free")
  BY <1>2, <1>4 DEF Worlds, IsFree
<1>6. /\ by' = IF ~IsFree(f) THEN "none"
               ELSE IF VR /\ by = "devbench" /\ ~world.recover THEN "kept" ELSE by
      /\ IF VR THEN world' = [Reconciled(f) EXCEPT !.own = None] /\ lost' = (lost /\ IsFree(f))
         ELSE world' = f /\ lost' = (lost \/ (by = "devbench" /\ ~IsFree(f)))
  BY <1>1
<1> HIDE DEF f, fresh
<1>7. by' \in {"none", "devbench", "other", "kept"} /\ (by' = "none" <=> ~IsFree(f))
  BY <1>2, <1>4, <1>5, <1>6 DEF Fits
<1>8. lost' \in BOOLEAN
  BY <1>2, <1>6 DEF IsFree
<1>9. CASE VR
  <2>1. Reconciled(f) \in Worlds /\ Reconciled(f).current = current
        /\ Reconciled(f).recover = (world.recover /\ IsFree(f))
    <3>1. CASE IsFree(f)
      BY <1>5, <3>1 DEF Reconciled, Worlds
    <3>2. CASE ~IsFree(f)
      BY <1>5, <3>2 DEF Reconciled, Worlds
    <3> QED BY <3>1, <3>2
  <2>2. /\ world' \in Worlds /\ world'.current = current /\ world'.own = None
        /\ world'.recover = (world.recover /\ IsFree(f))
    BY <1>6, <1>9, <2>1 DEF Worlds
  <2>3. IsFree(world)' <=> IsFree(f)
    BY <1>5, <2>2 DEF IsFree
  <2>4. world.recover /\ IsFree(f) => by' = "devbench" \/ lost'
    BY <1>2, <1>6, <1>9 DEF Fits
  <2>5. IsFree(f) /\ by' = "devbench" => world.recover
    BY <1>2, <1>6, <1>9
  <2>6. Fits(world, by, lost)'
    BY <1>7, <1>9, <2>2, <2>3, <2>4, <2>5 DEF Fits
  <2> QED BY <1>7, <1>8, <2>2, <2>6 DEF WorldInv, Worlds, CameraStates, Kept
<1>10. CASE ~VR
  <2>1. /\ world' = f /\ lost' = (lost \/ (by = "devbench" /\ ~IsFree(f)))
        /\ by' = (IF IsFree(f) THEN by ELSE "none")
    BY <1>6, <1>10
  <2>2. (IsFree(world)' <=> IsFree(f)) /\ (IsFree(f) => IsFree(world))
    BY <1>4, <1>5, <2>1 DEF IsFree
  <2>3. IsFree(world)' /\ Owned(world) => Owned(world)'
    BY <1>5, <1>10, <2>1 DEF Owned
  <2>4. Fits(world, by, lost)'
    BY <1>2, <1>5, <1>7, <1>10, <2>1, <2>2, <2>3 DEF Fits
  <2> QED BY <1>5, <1>7, <1>8, <1>10, <2>1, <2>4 DEF WorldInv, Worlds, CameraStates, Kept
<1> QED BY <1>9, <1>10

LEMMA OtherMovesKeeps ==
  ASSUME CameraAssumption, WorldInv, GateInv, OtherMoves
  PROVE  WorldInv'
<1>1. PICK kind \in Kinds \ {world.current.kind} :
        /\ world' = [world EXCEPT !.current = State(kind)]
        /\ by' = IF kind = "free" THEN "other" ELSE "none"
        /\ lost' = (lost \/ by = "devbench")
  BY DEF OtherMoves
<1>2. scene' = scene /\ loading' = loading
  BY DEF OtherMoves, gateVars
<1>3. /\ world \in Worlds /\ Fits(world, by, lost) /\ lost \in BOOLEAN
      /\ (VR /\ loading => world.own = None)
  BY DEF WorldInv
<1>4. State(kind) \in CameraStates /\ State(kind).kind = kind
  BY StatesTyped DEF GateInv, State
<1>5. /\ world' \in Worlds /\ world'.current = State(kind) /\ world'.own = world.own
      /\ world'.recover = world.recover
  BY <1>1, <1>3, <1>4 DEF Worlds
<1>6. IsFree(world') <=> kind = "free"
  BY <1>4, <1>5 DEF IsFree
<1>7. by' \in {"none", "other"} /\ lost' \in BOOLEAN
  BY <1>1, <1>3
<1>8. Fits(world', by', lost')
  BY <1>1, <1>3, <1>5, <1>6 DEF Fits
<1> QED BY <1>2, <1>3, <1>5, <1>7, <1>8, SameScene

-----------------------------------------------------------------------------
(* The gate of the loads, and the commands that wait.                      *)

\* A load begins, loads and ends, and each ends a session at most twice.
LEMMA GateKeeps ==
  ASSUME CameraAssumption, GateInv, Next
  PROVE  GateInv'
<1>1. CASE UNCHANGED <<scene, gateVars>>
  BY <1>1 DEF GateInv, gateVars
<1>2. CASE PreLoad
  <2>1. /\ loads < MaxLoads /\ loads' = loads + 1 /\ load' = "begun" /\ scene' = scene
        /\ IF VR THEN loading' = TRUE /\ session' = session + 1 ELSE UNCHANGED <<loading, session>>
    BY <1>2 DEF PreLoad
  <2>2. CASE VR
    BY <2>1, <2>2 DEF GateInv, CameraAssumption
  <2>3. CASE ~VR
    BY <2>1, <2>3 DEF GateInv, CameraAssumption
  <2> QED BY <2>2, <2>3
<1>3. CASE GameLoads
  BY <1>3 DEF GameLoads, GateInv, CameraAssumption
<1>4. CASE PostLoad
  <2>1. /\ load # "none" /\ load' = "none" /\ UNCHANGED <<scene, loads>>
        /\ IF VR THEN loading' = FALSE /\ session' = session + 1 ELSE UNCHANGED <<loading, session>>
    BY <1>4 DEF PostLoad
  <2>2. CASE VR
    <3>1. loading' \in BOOLEAN /\ ~loading' /\ load' = "none"
      BY <2>1, <2>2
    <3>2. session' = session + 1
      BY <2>1, <2>2
    <3> QED BY <2>1, <3>1, <3>2 DEF GateInv, CameraAssumption
  <2>3. CASE ~VR
    BY <2>1, <2>3 DEF GateInv, CameraAssumption
  <2> QED BY <2>2, <2>3
<1>5. CASE NewGame
  <2>1. /\ loads < MaxLoads /\ loads' = loads + 1 /\ load = "none" /\ scene' = scene + 1
        /\ session' = (IF VR THEN session + 1 ELSE session) /\ UNCHANGED <<loading, load>>
    BY <1>5 DEF NewGame
  <2>2. CASE VR
    BY <2>1, <2>2 DEF GateInv, CameraAssumption
  <2>3. CASE ~VR
    BY <2>1, <2>3 DEF GateInv, CameraAssumption
  <2> QED BY <2>2, <2>3
<1> QED BY <1>1, <1>2, <1>3, <1>4, <1>5
        DEF Next, Call, Ask, TimesOut, MainSetsPov, MainDrives, MainToggles, MainLooks,
            OtherMoves, Runs

LEMMA IdleFits ==
  ASSUME CameraAssumption
  PROVE  Idle \in CallSet
BY DEF CameraAssumption, Idle, CallSet

\* A command that comes to wait goes into the queue, behind the others.
LEMMA EntersKeeps ==
  ASSUME QueueInv, NEW c \in Callers, ~Waits(c), NEW d \in CallSet, d.pc \in {"look", "queued"},
         call' = [call EXCEPT ![c] = d], tasks' = Append(tasks, c)
  PROVE  QueueInv'
<1>1. call' \in [Callers -> CallSet]
  BY DEF QueueInv, CallSet
<1>2. tasks' \in Seq(Callers) /\ IsInjective(tasks') /\ Range(tasks') = Range(tasks) \union {c}
  <2>1. tasks \in Seq(Callers) /\ IsInjective(tasks) /\ c \notin Range(tasks)
    BY DEF QueueInv, Waits
  <2> QED BY <2>1, AppendDistinct
<1>3. \A e \in Callers : Waits(e)' <=> Waits(e) \/ e = c
  BY DEF QueueInv, Waits
<1> QED BY <1>1, <1>2, <1>3 DEF QueueInv, CallSet, Waits

\* One that does not wait any more is out of it.
LEMMA LeavesKeeps ==
  ASSUME QueueInv, NEW c \in Callers, NEW d \in CallSet, d.pc \notin {"look", "queued"},
         call' = [call EXCEPT ![c] = d],
         tasks' \in Seq(Callers), IsInjective(tasks'), Range(tasks') = Range(tasks) \ {c}
  PROVE  QueueInv'
<1>1. call' \in [Callers -> CallSet]
  BY DEF QueueInv, CallSet
<1>2. \A e \in Callers : Waits(e)' <=> Waits(e) /\ e # c
  BY DEF QueueInv, Waits
<1> QED BY <1>1, <1>2 DEF QueueInv, CallSet, Waits

LEMMA HeadLeaves ==
  ASSUME QueueInv, tasks # <<>>, NEW d \in CallSet, d.pc \notin {"look", "queued"},
         call' = [call EXCEPT ![Head(tasks)] = d], tasks' = Tail(tasks)
  PROVE  QueueInv'
<1>1. tasks \in Seq(Callers) /\ IsInjective(tasks) /\ Head(tasks) \in Callers
  BY DEF QueueInv
<1>2. /\ Tail(tasks) \in Seq(Callers) /\ IsInjective(Tail(tasks))
      /\ Range(Tail(tasks)) = Range(tasks) \ {Head(tasks)}
  BY <1>1, TailDistinct
<1> QED BY <1>1, <1>2, LeavesKeeps

LEMMA QueueKeeps ==
  ASSUME CameraAssumption, GateInv, QueueInv, Next
  PROVE  QueueInv'
<1> USE IdleFits
<1>0. call \in [Callers -> CallSet]
  BY DEF QueueInv, CallSet
<1>1. CASE UNCHANGED <<call, tasks>>
  BY <1>1 DEF QueueInv, Waits
<1>2. ASSUME NEW c \in Callers, Call(c) PROVE QueueInv'
  <2>1. PICK op \in {"get", "setPov", "drive", "on", "off"} :
          IF op \in {"on", "off"}
          THEN call' = [call EXCEPT ![c].pc = "ask", ![c].op = op] /\ UNCHANGED tasks
          ELSE call' = [call EXCEPT ![c].pc = "look", ![c].op = op] /\ tasks' = Append(tasks, c)
    BY <1>2 DEF Call
  <2>2. ~Waits(c)
    BY <1>2 DEF Call, Waits
  <2>3. CASE op \in {"on", "off"}
    <3> DEFINE d == [call[c] EXCEPT !.pc = "ask", !.op = op]
    <3>1. d \in CallSet /\ d.pc \notin {"look", "queued"} /\ call' = [call EXCEPT ![c] = d]
      BY <1>0, <2>1, <2>3 DEF CallSet
    <3>2. tasks' \in Seq(Callers) /\ IsInjective(tasks') /\ Range(tasks') = Range(tasks) \ {c}
      BY <2>1, <2>2, <2>3 DEF QueueInv, Waits
    <3> HIDE DEF d
    <3> QED BY <3>1, <3>2, LeavesKeeps
  <2>4. CASE op \notin {"on", "off"}
    <3> DEFINE d == [call[c] EXCEPT !.pc = "look", !.op = op]
    <3>1. d \in CallSet /\ d.pc = "look" /\ call' = [call EXCEPT ![c] = d] /\ tasks' = Append(tasks, c)
      BY <1>0, <2>1, <2>4 DEF CallSet
    <3> HIDE DEF d
    <3> QED BY <2>2, <3>1, EntersKeeps
  <2> QED BY <2>3, <2>4
<1>3. ASSUME NEW c \in Callers, Ask(c) PROVE QueueInv'
  <2>1. call[c].pc = "ask" /\ ~Waits(c)
    BY <1>3 DEF Ask, Waits
  <2>2. CASE /\ call' = [call EXCEPT ![c].pc = "queued", ![c].session = session, ![c].loads = loads]
             /\ tasks' = Append(tasks, c)
    <3> DEFINE d == [call[c] EXCEPT !.pc = "queued", !.session = session, !.loads = loads]
    <3>1. d \in CallSet /\ d.pc = "queued" /\ call' = [call EXCEPT ![c] = d]
      BY <1>0, <2>2 DEF CallSet, GateInv
    <3> HIDE DEF d
    <3> QED BY <2>1, <2>2, <3>1, EntersKeeps
  <2>3. CASE Answered(c) /\ UNCHANGED tasks
    <3>1. tasks' \in Seq(Callers) /\ IsInjective(tasks') /\ Range(tasks') = Range(tasks) \ {c}
      BY <2>1, <2>3 DEF QueueInv, Waits
    <3>2. Idle.pc \notin {"look", "queued"}
      BY DEF Idle
    <3> QED BY <2>3, <3>1, <3>2, LeavesKeeps DEF Answered
  <2> QED BY <1>3, <2>2, <2>3 DEF Ask
<1>4. ASSUME NEW c \in Callers, TimesOut(c) PROVE QueueInv'
  <2>1. PICK i \in DOMAIN tasks : tasks[i] = c /\ tasks' = RemoveAt(tasks, i)
    BY <1>4 DEF TimesOut
  <2>2. tasks \in Seq(Callers) /\ IsInjective(tasks)
    BY DEF QueueInv
  <2>3. tasks' \in Seq(Callers) /\ IsInjective(tasks') /\ Range(tasks') = Range(tasks) \ {c}
    BY <2>1, <2>2, RemoveElements, RemoveDistinct
  <2>4. Idle.pc \notin {"look", "queued"}
    BY DEF Idle
  <2> QED BY <1>4, <2>3, <2>4, LeavesKeeps DEF TimesOut, Answered
<1>5. ASSUME MainLooks PROVE QueueInv'
  <2> DEFINE c == Head(tasks)
             e == [call[c] EXCEPT !.pc = "ask"]
  <2>1. tasks # <<>> /\ tasks' = Tail(tasks) /\ c \in Callers
    BY <1>5 DEF MainLooks, QueueInv
  <2>2. call' = [call EXCEPT ![c] = e] \/ call' = [call EXCEPT ![c] = Idle]
    BY <1>5 DEF MainLooks, Answered
  <2>3. e \in CallSet /\ e.pc = "ask" /\ Idle.pc = "idle"
    BY <1>0, <2>1 DEF CallSet, Idle
  <2> HIDE DEF e
  <2> QED BY <2>1, <2>2, <2>3, HeadLeaves
<1>6. ASSUME NEW c \in Callers, NEW op, Runs(c, op) PROVE QueueInv'
  <2>1. Idle.pc = "idle"
    BY DEF Idle
  <2> QED BY <1>6, <2>1, HeadLeaves DEF Runs, Answered
<1>7. \/ UNCHANGED <<call, tasks>> \/ MainLooks
      \/ \E c \in Callers : Call(c) \/ Ask(c) \/ TimesOut(c) \/ \E op \in {"on", "off", "setPov", "drive"} : Runs(c, op)
  BY DEF Next, MainSetsPov, MainDrives, MainToggles, PreLoad, GameLoads, PostLoad, NewGame,
         OtherMoves,
         commandVars
<1> QED BY <1>1, <1>2, <1>3, <1>4, <1>5, <1>6, <1>7

\* Every load has a session of its own.
LEMMA AskedKeeps ==
  ASSUME CameraAssumption, GateInv, QueueInv, AskedInv, Next
  PROVE  AskedInv'
<1> SUFFICES ASSUME VR, NEW c \in Callers, call'[c].pc = "queued"
             PROVE  /\ call'[c].session <= session'
                    /\ call'[c].session = session' => call'[c].loads = loads'
  BY DEF AskedInv
<1>0. /\ call \in [Callers -> CallSet] /\ call[c] \in CallSet /\ call[c].session \in Int /\ session \in Int
      /\ Idle.pc = "idle"
  BY DEF QueueInv, CallSet, GateInv, Idle
<1>1. CASE UNCHANGED gateVars /\ call'[c] = call[c]
  BY <1>1 DEF AskedInv, gateVars
<1>2. CASE UNCHANGED gateVars /\ call'[c].session = session /\ call'[c].loads = loads
  BY <1>0, <1>2 DEF gateVars
<1>3. CASE PreLoad \/ PostLoad \/ NewGame
  <2>1. session' = session + 1 /\ UNCHANGED call
    BY <1>3 DEF PreLoad, PostLoad, NewGame, commandVars
  <2> QED BY <1>0, <2>1 DEF AskedInv
<1>4. CASE GameLoads
  BY <1>4 DEF GameLoads, AskedInv, commandVars
<1>5. ASSUME NEW d \in Callers, Call(d) PROVE UNCHANGED gateVars /\ call'[c] = call[c]
  BY <1>0, <1>5 DEF Call, CallSet
<1>6. ASSUME NEW d \in Callers, Ask(d)
      PROVE  /\ UNCHANGED gateVars
             /\ call'[c] = call[c] \/ (call'[c].session = session /\ call'[c].loads = loads)
  <2>1. UNCHANGED gateVars
    BY <1>6 DEF Ask
  <2>2. CASE call' = [call EXCEPT ![d].pc = "queued", ![d].session = session, ![d].loads = loads]
    BY <1>0, <2>1, <2>2 DEF CallSet
  <2>3. CASE Answered(d)
    BY <1>0, <2>1, <2>3 DEF Answered
  <2> QED BY <1>6, <2>2, <2>3 DEF Ask
<1>7. ASSUME NEW d, Answered(d), UNCHANGED gateVars PROVE UNCHANGED gateVars /\ call'[c] = call[c]
  BY <1>0, <1>7 DEF Answered
<1>8. ASSUME MainLooks PROVE UNCHANGED gateVars /\ call'[c] = call[c]
  <2>1. \/ call' = [call EXCEPT ![Head(tasks)].pc = "ask"]
        \/ call' = [call EXCEPT ![Head(tasks)] = Idle]
    BY <1>8 DEF MainLooks, Answered
  <2>2. UNCHANGED gateVars
    BY <1>8 DEF MainLooks
  <2> QED BY <1>0, <2>1, <2>2 DEF CallSet
<1>9. CASE OtherMoves
  BY <1>1, <1>9 DEF OtherMoves, commandVars
<1>10. \/ MainLooks \/ PreLoad \/ GameLoads \/ PostLoad \/ NewGame \/ OtherMoves
       \/ \E d \in Callers : Call(d) \/ Ask(d) \/ (Answered(d) /\ UNCHANGED gateVars)
  BY DEF Next, MainSetsPov, MainDrives, MainToggles, TimesOut, Runs
<1> QED BY <1>1, <1>2, <1>3, <1>4, <1>5, <1>6, <1>7, <1>8, <1>9, <1>10

-----------------------------------------------------------------------------
(* The invariant.                                                          *)

LEMMA CameraInit ==
  ASSUME CameraAssumption, Init
  PROVE  CameraInv
<1>1. world.current \in CameraStates /\ ~IsFree(world) /\ world.own = None /\ ~world.recover /\ world \in Worlds
  BY DEF Init, CameraAssumption, CameraStates, Kinds, IsFree, Worlds
<1>2. WorldInv
  BY <1>1 DEF Init, WorldInv, Fits
<1>3. GateInv
  <2>1. scene = 0 /\ loads = 0 /\ session = 0 /\ load = "none" /\ loading \in BOOLEAN /\ ~loading
    BY DEF Init
  <2> QED BY <2>1 DEF GateInv, CameraAssumption
<1>4. QueueInv
  <2>1. call \in [Callers -> CallSet] /\ \A c \in Callers : ~Waits(c)
    BY IdleFits DEF Init, Waits, Idle
  <2>2. tasks \in Seq(Callers) /\ IsInjective(tasks) /\ Range(tasks) = {}
    BY DEF Init, IsInjective, Range
  <2> QED BY <2>1, <2>2 DEF QueueInv, CallSet, Waits
<1>5. AskedInv /\ TouchedInv
  BY DEF Init, AskedInv, TouchedInv, OnlyOwnTouched, Idle
<1> QED BY <1>2, <1>3, <1>4, <1>5 DEF CameraInv

LEMMA CameraStep ==
  ASSUME CameraAssumption, CameraInv, [Next]_vars
  PROVE  CameraInv'
<1> USE DEF CameraInv
<1>1. CASE UNCHANGED vars
  <2>1. WorldInv'
    BY <1>1, SameScene DEF vars, gateVars, WorldInv
  <2>2. GateInv' /\ QueueInv'
    BY <1>1 DEF vars, gateVars, commandVars, GateInv, QueueInv, Waits
  <2>3. AskedInv' /\ TouchedInv'
    BY <1>1 DEF vars, gateVars, commandVars, AskedInv, TouchedInv, OnlyOwnTouched
  <2> QED BY <2>1, <2>2, <2>3
<1>2. CASE Next
  <2>1. GateInv' /\ QueueInv' /\ AskedInv'
    BY <1>2, GateKeeps, QueueKeeps, AskedKeeps
  <2>2. ASSUME UNCHANGED <<scene, world, by, lost, loading, touched>> PROVE WorldInv' /\ TouchedInv'
    BY <2>2, SameScene DEF WorldInv, TouchedInv, OnlyOwnTouched
  <2>3. ASSUME NEW c \in Callers, Call(c) \/ Ask(c) \/ TimesOut(c)
        PROVE UNCHANGED <<scene, world, by, lost, loading, touched>>
    BY <2>3 DEF Call, Ask, TimesOut, gateVars
  <2>4. ASSUME NEW c \in Callers, MainSetsPov(c) PROVE WorldInv' /\ TouchedInv'
    <3>1. touched' = touched
      BY <2>4 DEF MainSetsPov
    <3> QED BY <2>4, <3>1, SetsPovKeeps DEF TouchedInv, OnlyOwnTouched
  <2>5. ASSUME NEW c \in Callers, MainDrives(c) PROVE WorldInv' /\ TouchedInv'
    BY <2>5, DrivesKeeps
  <2>6. ASSUME NEW c \in Callers, NEW on \in BOOLEAN, MainToggles(c, on)
        PROVE WorldInv' /\ TouchedInv'
    BY <2>6, TogglesKeeps
  <2>7. ASSUME MainLooks PROVE WorldInv' /\ TouchedInv'
    <3>1. world' = Observed(world) /\ Looks /\ UNCHANGED <<scene, by, loading, touched>>
      BY <2>7 DEF MainLooks, gateVars
    <3> QED BY <3>1, LooksKeeps DEF TouchedInv, OnlyOwnTouched
  <2>8. ASSUME PreLoad \/ GameLoads \/ PostLoad \/ NewGame \/ OtherMoves
        PROVE WorldInv' /\ TouchedInv'
    <3>1. touched' = touched
      BY <2>8 DEF PreLoad, GameLoads, PostLoad, NewGame, OtherMoves
    <3>2. WorldInv'
      BY <2>8, PreLoadKeeps, GameLoadsKeeps, PostLoadKeeps, NewGameKeeps, OtherMovesKeeps
    <3> QED BY <3>1, <3>2 DEF TouchedInv, OnlyOwnTouched
  <2> QED BY <1>2, <2>1, <2>2, <2>3, <2>4, <2>5, <2>6, <2>7, <2>8 DEF Next
<1> QED BY <1>1, <1>2

\* What is known of the camera holds from the start and in every step of a load, of the
\* tool and of others.
THEOREM CameraInvariant ==
  ASSUME CameraAssumption
  PROVE  Spec => []CameraInv
BY CameraInit, CameraStep, PTL DEF Spec

LEMMA InvTyped ==
  ASSUME CameraAssumption, CameraInv
  PROVE  TypeOK
<1>1. \A c \in Callers : Contains(tasks, c) <=> c \in Range(tasks)
  BY DEF CameraInv, QueueInv, Contains, Range
<1> QED BY <1>1 DEF TypeOK, CameraInv, WorldInv, GateInv, QueueInv, TouchedInv, Worlds, Fits,
                    CallSet, Waits

\* Every reachable state of the camera, of what is kept of it, of the loads and of the
\* commands that wait is well typed, and a command is in the queue exactly while it waits.
THEOREM CameraTypeCorrect ==
  ASSUME CameraAssumption
  PROVE  Spec => []TypeOK
BY CameraInvariant, InvTyped, PTL

\* VRFreeCamera.cpp, CameraTool.cpp: whatever loads, other mods and refusals of the game
\* come between, no command leaves or moves the free camera of another, and in VR none
\* that was asked for ahead of the latest load.
THEOREM OwnTouched ==
  ASSUME CameraAssumption
  PROVE  Spec => []OnlyOwnTouched
<1>1. CameraInv => OnlyOwnTouched
  BY DEF CameraInv, TouchedInv
<1> QED BY <1>1, CameraInvariant, PTL

\* A command "off" leaves what is owned, and what is to be recovered if it is the
\* free camera of this scene.
LEMMA CanLeave ==
  ASSUME CameraAssumption, WorldInv, scene \in 0..MaxLoads, IsFree(world), by = "devbench",
         VR => Registered(world.current)
  PROVE  Leavable(world)
<1>1. /\ world \in Worlds /\ (Owned(world) \/ world.recover)
      /\ (world.recover => VR) /\ (world.own # None => world.own.previous.kind # "free")
  BY DEF WorldInv, Fits
<1>2. CASE world.recover
  <2>1. world.current = Free
    BY <1>1, <1>2 DEF IsFree, Free, State, Registered, Worlds, CameraStates
  <2>2. Reconciled(world) = world
    BY DEF Reconciled
  <2> DEFINE r == [world EXCEPT !.current = State("normal"), !.recover = FALSE]
  <2>3. r \in Recovered(world)
    BY <1>2, <2>1, <2>2 DEF Recovered
  <2>4. ~IsFree(r)
    BY <1>1 DEF IsFree, State, Worlds
  <2> QED BY <2>3, <2>4 DEF Leavable
<1>3. CASE ~world.recover
  <2>1. world \in Recovered(world) /\ Owned(world)
    BY <1>1, <1>3 DEF Recovered
  <2>2. world.own # None /\ world.own \in Kept
    BY <1>1, <2>1, OwnedWhat
  <2> DEFINE o == Observed(world)
             e == [o EXCEPT !.current = o.own.previous, !.own = None]
  <2>3. /\ o \in Worlds /\ o.current = world.current /\ o.own = world.own /\ Owned(o)
    BY <1>1, <2>1, ObservedWhat
  <2>4. (IF VR THEN o.current = Free ELSE IsFree(o)) = TRUE
    BY <2>1, <2>3 DEF Owned, IsFree
  <2>5. e \in Enabled(world, FALSE)
    BY <2>3, <2>4 DEF Enabled
  <2>6. ~IsFree(e)
    BY <1>1, <2>2, <2>3 DEF IsFree, Worlds
  <2> QED BY <1>3, <2>1, <2>5, <2>6 DEF Leavable
<1> QED BY <1>2, <1>3

\* VRFreeCamera.cpp 56-86, 181-206: a free camera that a command entered can be left by
\* a command, unless a load or a new game has brought it along from a scene that is gone.
THEOREM NoneStranded ==
  ASSUME CameraAssumption
  PROVE  Spec => []NotStranded
<1>1. CameraInv => NotStranded
  BY CanLeave DEF CameraInv, WorldInv, GateInv, NotStranded
<1> QED BY <1>1, CameraInvariant, PTL

-----------------------------------------------------------------------------
(***************************************************************************)
(* The launch shim. What it takes is the game of its own loader because    *)
(* the handle to the loader keeps the loader's pid from being used again,  *)
(* so that a later child of that pid is the loader's, while an earlier one *)
(* was created before the loader; what a snapshot tells of a parent is so  *)
(* of the process that runs under the id with the creation time it had in  *)
(* the snapshot; and the shim's handle to the game keeps the game's pid,   *)
(* so that a game seen to be over stays over.                              *)
(***************************************************************************)
CONSTANTS Pids, MaxBorn

VARIABLES procs, born, expired, broker, toShim, toBroker, retained,
          shim, loader, snapshot, seen, candidate, owned, code, children

Launch == INSTANCE LaunchShim

\* A process was created by now, and runs under its pid.
BornInv == \A p \in Pids : procs[p] # None => procs[p].born <= born /\ procs[p].pid = p

\* What the shim was told by a snapshot: of the process that had the pid then.
Told == (IF snapshot = None THEN {} ELSE snapshot) \union seen \union ({candidate} \ {None})
Holds(x) == /\ x.was <= born
            /\ procs[x.pid] # None /\ procs[x.pid].born = x.was => procs[x.pid].parent = x.parent
SnapInv == \A x \in Told : Holds(x)

\* There is one child at most, and none before the loader.
ChildInv ==
    /\ \A game, other \in children : game = other
    /\ loader = None => children = {}

\* A game that passes the shim's test is the child of the shim's loader.
ParentInv == loader # None => \A game \in Launch!Games : Launch!IsOurs(game) => game \in children

\* The handles to the game, by where the shim is.
OwnedInv ==
    /\ owned # None => owned \in children \/ Launch!Mixed
    /\ retained # None => retained = owned
    /\ shim \in {"connect", "offer", "launch", "start", "create", "find", "retain",
                 "cleanup", "search", "reopen"} => owned = None
    /\ shim \in {"handoff", "ack", "wait", "linger"} => owned # None
    /\ shim \in {"find", "cleanup", "search"} => loader # None
    /\ shim \in {"retain", "reopen"} => loader # None /\ candidate # None /\ Launch!IsOurs(candidate)

\* How the shim may have ended.
EndInv == shim = "exited" =>
    \/ code = "manual" /\ owned = None
    \/ loader = None \/ code = "unwaited"
    \/ owned # None /\ ~Launch!Runs(owned)

LaunchInv == Launch!TypeOK /\ BornInv /\ SnapInv /\ ChildInv /\ ParentInv /\ OwnedInv /\ EndInv

-----------------------------------------------------------------------------
\* A new process has the shape of one, and is none of those before it.
LEMMA NewProcess ==
  ASSUME Launch!ShimAssumption, Launch!TypeOK, born < MaxBorn,
         NEW p \in Pids, NEW image \in {"game", "loader"}, NEW parent \in Pids \union {None}
  PROVE  /\ Launch!Process(p, image, parent) \in Launch!Processes
         /\ Launch!Process(p, image, parent) # None
         /\ Launch!Process(p, image, parent).pid = p
         /\ Launch!Process(p, image, parent).born = born + 1
         /\ Launch!Process(p, image, parent).image = image
         /\ Launch!Process(p, image, parent).parent = parent
         /\ born \in Int /\ born + 1 \in 0..MaxBorn
<1>1. born + 1 \in 1..MaxBorn /\ born \in Int /\ born + 1 \in 0..MaxBorn
  BY DEF Launch!ShimAssumption, Launch!TypeOK
<1>2. Launch!Process(p, image, parent) \in Launch!Processes
  BY <1>1 DEF Launch!Process, Launch!Processes
<1>3. Launch!Process(p, image, parent) # None
  BY <1>2 DEF Launch!ShimAssumption
<1> QED BY <1>1, <1>2, <1>3 DEF Launch!Process

\* What a snapshot shows are processes, and what is opened of it are identities.
LEMMA GamesTypeOK ==
  ASSUME Launch!TypeOK
  PROVE  /\ Launch!Games \subseteq Launch!Processes
         /\ \A game \in Launch!Games : Launch!Entry(game) \in Launch!Entries
         /\ \A game \in Launch!Games, entry \in Launch!Entries : Launch!Identity(entry, game) \in Launch!Identities
BY DEF Launch!TypeOK, Launch!Games, Launch!Processes, Launch!Entry, Launch!Entries,
       Launch!Identity, Launch!Identities

\* The broker reads one message and writes one.
LEMMA AnswersTypeOK ==
  ASSUME Launch!TypeOK,
         NEW message \in {"connected", "nonce", "owned"},
         NEW answer \in {"offer", "launch", "retained"},
         NEW from, NEW to, Launch!Answers(from, message, to, <<answer>>)
  PROVE  /\ toShim' \in Seq({"offer", "launch", "retained"})
         /\ toBroker' \in Seq({"connected", "nonce", "owned"})
<1>1. toBroker' = Tail(toBroker) /\ toBroker # <<>> /\ toShim' = toShim \o <<answer>>
  BY DEF Launch!Answers
<1>2. <<answer>> \in Seq({"offer", "launch", "retained"})
  OBVIOUS
<1>3. toShim \o <<answer>> \in Seq({"offer", "launch", "retained"})
  <2>1. toShim \in Seq({"offer", "launch", "retained"})
    BY DEF Launch!TypeOK
  <2> HIDE DEF Launch!TypeOK
  <2> QED BY <1>2, <2>1, ConcatProperties
<1>4. Tail(toBroker) \in Seq({"connected", "nonce", "owned"})
  BY <1>1 DEF Launch!TypeOK
<1> QED BY <1>1, <1>3, <1>4

\* A step keeps the shape of every variable.
LEMMA LaunchNextTypeOK ==
    Launch!ShimAssumption /\ Launch!TypeOK /\ [Launch!Next]_Launch!vars => Launch!TypeOK'
<1> SUFFICES ASSUME Launch!ShimAssumption, Launch!TypeOK, [Launch!Next]_Launch!vars
             PROVE Launch!TypeOK'
  OBVIOUS
<1> USE DEF Launch!TypeOK, Launch!envVars, Launch!pipeVars, Launch!brokerVars, Launch!shimVars,
    Launch!lookVars
<1>1. CASE Launch!Connect
  BY <1>1 DEF Launch!Connect, Launch!Guarded
<1>2. CASE Launch!ReadOffer
  BY <1>2 DEF Launch!ReadOffer, Launch!Receives, Launch!Guarded
<1>3. CASE Launch!ReadLaunch
  BY <1>3 DEF Launch!ReadLaunch, Launch!Receives, Launch!Guarded
<1>4. CASE Launch!CheckNoGame
  BY <1>4 DEF Launch!CheckNoGame, Launch!ForgetLook, Launch!Guarded
<1>5. CASE Launch!StartLoader
  <2>1. PICK p \in Launch!Free : LET process == Launch!Process(p, "loader", None)
                          IN Launch!Create(process) /\ loader' = process
    BY <1>5 DEF Launch!StartLoader
  <2>2. /\ loader' \in Launch!Processes
        /\ procs' \in [Pids -> Launch!Processes \union {None}]
        /\ born' \in 0..MaxBorn
    BY <1>5, <2>1, NewProcess DEF Launch!StartLoader, Launch!Create, Launch!Free
  <2> QED BY <1>5, <2>2 DEF Launch!StartLoader, Launch!Guarded
<1>6. CASE Launch!FindGame
  <2>1. candidate' \in Launch!Identities
    BY <1>6 DEF Launch!FindGame
  <2> QED BY <1>6, <2>1 DEF Launch!FindGame, Launch!ForgetLook, Launch!Guarded
<1>7. CASE Launch!RetainGame \/ Launch!Reopen
  BY <1>7, GamesTypeOK DEF Launch!RetainGame, Launch!Reopen, Launch!Retain, Launch!Guarded
<1>8. CASE Launch!HandOver
  BY <1>8 DEF Launch!HandOver, Launch!Guarded
<1>9. CASE Launch!ReadRetained
  BY <1>9 DEF Launch!ReadRetained, Launch!Receives, Launch!Guarded
<1>10. CASE Launch!Fails
  <2>1. /\ shim' \in {"linger", "cleanup", "exited"}
        /\ code' \in {code, "error"}
    BY <1>10 DEF Launch!Fails, Launch!Catch, Launch!Exit
  <2> QED BY <1>10, <2>1 DEF Launch!Fails, Launch!ForgetLook
<1>11. CASE Launch!GameEnds
  BY <1>11 DEF Launch!GameEnds, Launch!Exit
<1>12. CASE Launch!LoaderEnds
  BY <1>12 DEF Launch!LoaderEnds
<1>13. CASE Launch!Search
  <2>1. /\ candidate' \in Launch!Identities \union {None}
        /\ shim' \in {"reopen", "exited"}
        /\ code' \in {code, "manual"}
    BY <1>13 DEF Launch!Search, Launch!Exit, Launch!Direct
  <2> QED BY <1>13, <2>1 DEF Launch!Search, Launch!ForgetLook
<1>14. CASE Launch!CleanupFails
  BY <1>14 DEF Launch!CleanupFails, Launch!Exit, Launch!ForgetLook
<1>15. CASE Launch!BrokerOffers \/ Launch!BrokerLaunches
  <2>1. CASE Launch!BrokerOffers
    BY <2>1, AnswersTypeOK DEF Launch!BrokerOffers, Launch!Answers
  <2>2. CASE Launch!BrokerLaunches
    BY <2>2, AnswersTypeOK DEF Launch!BrokerLaunches, Launch!Answers
  <2> QED BY <1>15, <2>1, <2>2
<1>16. CASE Launch!BrokerRetains
  BY <1>16, AnswersTypeOK DEF Launch!BrokerRetains, Launch!Answers
<1>17. CASE Launch!BrokerFails
  BY <1>17 DEF Launch!BrokerFails
<1>18. CASE Launch!LoaderSpawns
  <2>1. PICK p \in Launch!Free : LET game == Launch!Process(p, "game", loader.pid)
                          IN Launch!Create(game) /\ children' = {game}
    BY <1>18 DEF Launch!LoaderSpawns
  <2>2. loader.pid \in Pids
    BY <1>18 DEF Launch!LoaderSpawns, Launch!Runs, Launch!Processes
  <2>3. /\ children' \in SUBSET Launch!Processes
        /\ procs' \in [Pids -> Launch!Processes \union {None}]
        /\ born' \in 0..MaxBorn
    BY <1>18, <2>1, <2>2, NewProcess DEF Launch!LoaderSpawns, Launch!Create, Launch!Free
  <2> QED BY <1>18, <2>3 DEF Launch!LoaderSpawns
<1>19. CASE Launch!ForeignGame
  <2>1. PICK p \in Launch!Free, parent \in Launch!Free : Launch!Create(Launch!Process(p, "game", parent))
    BY <1>19 DEF Launch!ForeignGame
  <2>2. /\ procs' \in [Pids -> Launch!Processes \union {None}]
        /\ born' \in 0..MaxBorn
    BY <1>19, <2>1, NewProcess DEF Launch!ForeignGame, Launch!Create, Launch!Free
  <2> QED BY <1>19, <2>2 DEF Launch!ForeignGame
<1>20. CASE Launch!Exits
  BY <1>20 DEF Launch!Exits
<1>21. CASE Launch!Expires
  BY <1>21 DEF Launch!Expires
<1>22. CASE Launch!TakeSnapshot
  <2>1. snapshot' \in SUBSET Launch!Entries
    BY <1>22, GamesTypeOK DEF Launch!TakeSnapshot
  <2> QED BY <1>22, <2>1 DEF Launch!TakeSnapshot
<1>23. CASE Launch!OpenEntry
  <2>1. PICK entry \in snapshot :
          /\ snapshot' = snapshot \ {entry}
          /\ seen' = seen \union {Launch!Identity(entry, game) : game \in {g \in Launch!Games : g.pid = entry.pid}}
    BY <1>23 DEF Launch!OpenEntry
  <2>2. snapshot \in SUBSET Launch!Entries
    BY <1>23 DEF Launch!OpenEntry
  <2>3. snapshot' \in SUBSET Launch!Entries /\ seen' \in SUBSET Launch!Identities
    BY <2>1, <2>2, GamesTypeOK
  <2> QED BY <1>23, <2>3 DEF Launch!OpenEntry
<1>24. CASE Launch!LookAgain
  BY <1>24 DEF Launch!LookAgain, Launch!ForgetLook
<1>25. CASE Launch!WaitFails
  <2>1. shim' = "exited" /\ code' \in {"manual", "unwaited"}
    BY <1>25 DEF Launch!WaitFails, Launch!Exit
  <2> QED BY <1>25, <2>1 DEF Launch!WaitFails
<1>26. CASE UNCHANGED Launch!vars
  BY <1>26 DEF Launch!vars
<1> QED
  BY <1>1, <1>2, <1>3, <1>4, <1>5, <1>6, <1>7, <1>8, <1>9, <1>10, <1>11, <1>12, <1>13, <1>14,
     <1>15, <1>16, <1>17, <1>18, <1>19, <1>20, <1>21, <1>22, <1>23, <1>24, <1>25, <1>26
         DEF Launch!Next, Launch!Shim, Launch!Broker

-----------------------------------------------------------------------------
\* A process that ran under a pid that is held is not replaced.
LEMMA CreateElsewhere ==
  ASSUME Launch!ShimAssumption, Launch!TypeOK, NEW p \in Launch!Free, NEW process, Launch!Create(process), process.pid = p
  PROVE  /\ procs'[p] = process
         /\ \A q \in Pids : q # p => procs'[q] = procs[q]
         /\ \A handle \in {loader, owned} : handle # None =>
                handle.pid # p /\ (Launch!Runs(handle) <=> procs'[handle.pid] = handle)
<1>1. /\ procs'[p] = process
      /\ \A q \in Pids : q # p => procs'[q] = procs[q]
  BY DEF Launch!TypeOK, Launch!Create, Launch!Free
<1>2. ASSUME NEW handle \in {loader, owned}, handle # None
      PROVE  handle.pid # p /\ handle.pid \in Pids
  BY <1>2 DEF Launch!TypeOK, Launch!Free, Launch!Held, Launch!Processes
<1> QED BY <1>1, <1>2 DEF Launch!Runs

\* Every process was created by now: only a creation adds one, and it counts.
LEMMA LaunchNextBornInv ==
    Launch!ShimAssumption /\ LaunchInv /\ [Launch!Next]_Launch!vars => BornInv'
<1> SUFFICES ASSUME Launch!ShimAssumption, Launch!TypeOK, BornInv, [Launch!Next]_Launch!vars
             PROVE BornInv'
  BY DEF LaunchInv
<1> USE DEF Launch!envVars, Launch!pipeVars, Launch!brokerVars, Launch!shimVars, Launch!lookVars
<1>1. ASSUME NEW p \in Launch!Free, NEW image \in {"game", "loader"}, NEW parent \in Pids \union {None},
             born < MaxBorn, Launch!Create(Launch!Process(p, image, parent))
      PROVE  BornInv'
  <2> DEFINE process == Launch!Process(p, image, parent)
  <2>0. process.pid = p /\ process.born = born + 1 /\ born \in Int
    BY <1>1, NewProcess DEF Launch!Free
  <2>1. /\ procs'[p].born = born + 1 /\ procs'[p].pid = p /\ born' = born + 1 /\ born \in Int
        /\ \A q \in Pids : q # p => procs'[q] = procs[q]
    <3> HIDE DEF process
    <3> QED BY <1>1, <2>0, CreateElsewhere DEF Launch!Create, process
  <2>2. \A q \in Pids : procs[q] # None => procs[q].born \in Int
    BY DEF Launch!TypeOK, Launch!Processes
  <2> QED BY <2>1, <2>2 DEF BornInv
<1>2. CASE Launch!StartLoader
  BY <1>1, <1>2 DEF Launch!StartLoader
<1>3. CASE Launch!LoaderSpawns
  <2>1. loader.pid \in Pids
    BY <1>3 DEF Launch!LoaderSpawns, Launch!Runs, Launch!TypeOK, Launch!Processes
  <2> QED BY <1>1, <1>3, <2>1 DEF Launch!LoaderSpawns
<1>4. CASE Launch!ForeignGame
  BY <1>1, <1>4 DEF Launch!ForeignGame, Launch!Free
<1>5. CASE Launch!Exits
  BY <1>5 DEF Launch!Exits, BornInv, Launch!TypeOK
<1>6. CASE UNCHANGED <<procs, born>>
  BY <1>6 DEF BornInv
<1>7. CASE Launch!Next /\ ~(Launch!StartLoader \/ Launch!LoaderSpawns \/ Launch!ForeignGame \/ Launch!Exits)
  <2>1. UNCHANGED <<procs, born>>
    BY <1>7, ZenonT(60) DEF Launch!Next, Launch!Shim, Launch!Broker, Launch!Connect,
                            Launch!ReadOffer, Launch!ReadLaunch, Launch!CheckNoGame,
                            Launch!FindGame, Launch!TakeSnapshot, Launch!OpenEntry,
           Launch!LookAgain, Launch!WaitFails,
           Launch!RetainGame, Launch!Retain, Launch!HandOver, Launch!ReadRetained, Launch!Fails,
           Launch!GameEnds, Launch!LoaderEnds, Launch!Search, Launch!Reopen,
           Launch!CleanupFails, Launch!BrokerOffers, Launch!BrokerLaunches, Launch!BrokerRetains,
           Launch!BrokerFails, Launch!Answers, Launch!Expires
  <2> QED BY <1>6, <2>1
<1>8. CASE UNCHANGED Launch!vars
  BY <1>6, <1>8 DEF Launch!vars
<1> QED BY <1>2, <1>3, <1>4, <1>5, <1>7, <1>8

\* What a snapshot told stays so: a process that takes the pid is younger.
LEMMA LaunchNextSnapInv ==
    Launch!ShimAssumption /\ LaunchInv /\ [Launch!Next]_Launch!vars => SnapInv'
<1> SUFFICES ASSUME Launch!ShimAssumption, Launch!TypeOK, BornInv, SnapInv, [Launch!Next]_Launch!vars
             PROVE SnapInv'
  BY DEF LaunchInv
<1> USE DEF Launch!envVars, Launch!pipeVars, Launch!brokerVars, Launch!shimVars, Launch!lookVars
<1>0. \A x \in Told : x.pid \in Pids /\ x.was \in Int /\ Holds(x)
  BY DEF Told, SnapInv, Launch!TypeOK, Launch!Entries, Launch!Identities
<1>1. ASSUME NEW p \in Launch!Free, NEW image \in {"game", "loader"}, NEW parent \in Pids \union {None},
             born < MaxBorn, Launch!Create(Launch!Process(p, image, parent)),
             UNCHANGED <<snapshot, seen, candidate>>
      PROVE  SnapInv'
  <2> DEFINE process == Launch!Process(p, image, parent)
  <2>0. process.pid = p /\ process.born = born + 1 /\ born \in Int
    BY <1>1, NewProcess DEF Launch!Free
  <2>1. /\ procs'[p].born = born + 1 /\ born' = born + 1
        /\ \A q \in Pids : q # p => procs'[q] = procs[q]
    <3> HIDE DEF process
    <3> QED BY <1>1, <2>0, CreateElsewhere DEF Launch!Create, process
  <2>2. Told' = Told
    BY <1>1 DEF Told
  <2>3. ASSUME NEW x \in Told PROVE Holds(x)'
    BY <1>0, <2>0, <2>1, <2>3 DEF Holds
  <2> QED BY <2>2, <2>3 DEF SnapInv
<1>2. CASE Launch!StartLoader
  BY <1>1, <1>2 DEF Launch!StartLoader
<1>3. CASE Launch!LoaderSpawns
  <2>1. loader.pid \in Pids
    BY <1>3 DEF Launch!LoaderSpawns, Launch!Runs, Launch!TypeOK, Launch!Processes
  <2> QED BY <1>1, <1>3, <2>1 DEF Launch!LoaderSpawns
<1>4. CASE Launch!ForeignGame
  BY <1>1, <1>4 DEF Launch!ForeignGame, Launch!Free
<1>5. CASE Launch!Exits
  <2>1. PICK p \in Pids : procs' = [procs EXCEPT ![p] = None]
    BY <1>5 DEF Launch!Exits
  <2>2. Told' = Told /\ born' = born
    BY <1>5 DEF Launch!Exits, Told
  <2>3. ASSUME NEW x \in Told PROVE Holds(x)'
    <3>1. procs'[x.pid] = None \/ procs'[x.pid] = procs[x.pid]
      BY <1>0, <2>1 DEF Launch!TypeOK
    <3> QED BY <1>0, <2>2, <3>1 DEF Holds
  <2> QED BY <2>2, <2>3 DEF SnapInv
<1>6. ASSUME Told' \subseteq Told, UNCHANGED <<procs, born>> PROVE SnapInv'
  BY <1>6 DEF SnapInv, Holds
<1>7. CASE Launch!TakeSnapshot
  <2>1. /\ snapshot' = {Launch!Entry(game) : game \in Launch!Games}
        /\ UNCHANGED <<seen, candidate, procs, born>>
    BY <1>7 DEF Launch!TakeSnapshot
  <2>2. ASSUME NEW game \in Launch!Games PROVE Holds(Launch!Entry(game))'
    <3>1. procs[game.pid] = game /\ game.born <= born
      BY DEF Launch!Games, BornInv
    <3> QED BY <2>1, <3>1 DEF Holds, Launch!Entry
  <2>3. ASSUME NEW x \in Told', x \notin Told PROVE Holds(x)'
    BY <2>1, <2>2, <2>3 DEF Told
  <2>4. ASSUME NEW x \in Told PROVE Holds(x)'
    BY <1>0, <2>1 DEF Holds
  <2> QED BY <2>3, <2>4 DEF SnapInv
<1>8. CASE Launch!OpenEntry
  <2>1. PICK entry \in snapshot :
          /\ snapshot' = snapshot \ {entry}
          /\ seen' = seen \union {Launch!Identity(entry, game) : game \in {g \in Launch!Games : g.pid = entry.pid}}
    BY <1>8 DEF Launch!OpenEntry
  <2>2. snapshot # None /\ UNCHANGED <<candidate, procs, born>>
    BY <1>8 DEF Launch!OpenEntry
  <2>3. entry \in Told /\ Holds(entry)
    BY <1>0, <2>2 DEF Told
  <2>4. ASSUME NEW game PROVE Holds(Launch!Identity(entry, game))
    BY <2>3 DEF Holds, Launch!Identity
  <2>5. ASSUME NEW x \in Told' PROVE x \in Told \/ \E game : x = Launch!Identity(entry, game)
    <3>1. CASE x \in seen'
      BY <2>1, <3>1 DEF Told
    <3>2. CASE x \notin seen'
      BY <2>1, <2>2, <3>2 DEF Told
    <3> QED BY <3>1, <3>2
  <2>6. ASSUME NEW x \in Told' PROVE Holds(x)
    BY <1>0, <2>4, <2>5
  <2> QED BY <2>2, <2>6 DEF SnapInv, Holds
<1>9. CASE Launch!CheckNoGame \/ Launch!LookAgain \/ Launch!Fails \/ Launch!CleanupFails
  <2>1. seen' = {} /\ snapshot' = None /\ UNCHANGED <<candidate, procs, born>>
    BY <1>9 DEF Launch!CheckNoGame, Launch!LookAgain, Launch!Fails, Launch!CleanupFails,
        Launch!ForgetLook
  <2>2. Told' \subseteq Told
    BY <2>1 DEF Told
  <2> QED BY <1>6, <2>1, <2>2
<1>10. CASE Launch!FindGame \/ Launch!Search
  <2>1. /\ seen' = {} /\ snapshot' = None /\ UNCHANGED <<procs, born>>
        /\ candidate' \in seen \union {candidate}
    BY <1>10 DEF Launch!FindGame, Launch!Search, Launch!Direct, Launch!ForgetLook
  <2>2. Told' \subseteq Told
    BY <2>1 DEF Told
  <2> QED BY <1>6, <2>1, <2>2
<1>11. CASE UNCHANGED <<procs, born, snapshot, seen, candidate>>
  BY <1>6, <1>11 DEF Told
<1>12. CASE /\ Launch!Next
            /\ ~(Launch!StartLoader \/ Launch!LoaderSpawns \/ Launch!ForeignGame \/ Launch!Exits)
            /\ ~(Launch!TakeSnapshot \/ Launch!OpenEntry \/ Launch!FindGame \/ Launch!Search)
            /\ ~(Launch!CheckNoGame \/ Launch!LookAgain \/ Launch!Fails \/ Launch!CleanupFails)
  <2>1. UNCHANGED <<procs, born, snapshot, seen, candidate>>
    BY <1>12, ZenonT(60) DEF Launch!Next, Launch!Shim, Launch!Broker, Launch!Connect,
           Launch!ReadOffer, Launch!ReadLaunch, Launch!RetainGame, Launch!Retain,
           Launch!HandOver, Launch!ReadRetained, Launch!GameEnds, Launch!WaitFails,
           Launch!LoaderEnds, Launch!Reopen, Launch!BrokerOffers, Launch!BrokerLaunches,
           Launch!BrokerRetains, Launch!BrokerFails, Launch!Answers, Launch!Expires
  <2> QED BY <1>11, <2>1
<1>13. CASE UNCHANGED Launch!vars
  BY <1>11, <1>13 DEF Launch!vars
<1> QED BY <1>2, <1>3, <1>4, <1>5, <1>7, <1>8, <1>9, <1>10, <1>12, <1>13

\* The loader makes one game, and the shim starts one loader at a time.
LEMMA LaunchNextChildInv ==
    Launch!ShimAssumption /\ LaunchInv /\ [Launch!Next]_Launch!vars => ChildInv'
<1> SUFFICES ASSUME Launch!ShimAssumption, Launch!TypeOK, ChildInv, [Launch!Next]_Launch!vars
             PROVE ChildInv'
  BY DEF LaunchInv
<1> USE DEF Launch!envVars, Launch!pipeVars, Launch!brokerVars, Launch!shimVars, Launch!lookVars
<1>1. CASE Launch!StartLoader
  <2>1. children' = children /\ loader' # None
    BY <1>1, NewProcess DEF Launch!StartLoader, Launch!Free
  <2> QED BY <2>1 DEF ChildInv
<1>2. CASE Launch!LoaderSpawns
  BY <1>2 DEF Launch!LoaderSpawns, Launch!Runs, ChildInv
<1>3. CASE UNCHANGED <<loader, children>>
  BY <1>3 DEF ChildInv
<1>4. CASE Launch!Next /\ ~(Launch!StartLoader \/ Launch!LoaderSpawns)
  <2>1. UNCHANGED <<loader, children>>
    BY <1>4, ZenonT(60) DEF Launch!Next, Launch!Shim, Launch!Broker, Launch!Connect,
                            Launch!ReadOffer, Launch!ReadLaunch, Launch!CheckNoGame,
           Launch!TakeSnapshot, Launch!OpenEntry, Launch!LookAgain, Launch!WaitFails,
           Launch!FindGame, Launch!RetainGame, Launch!Retain, Launch!HandOver,
           Launch!ReadRetained, Launch!Fails, Launch!GameEnds, Launch!LoaderEnds,
           Launch!Search, Launch!Reopen, Launch!CleanupFails, Launch!BrokerOffers,
           Launch!BrokerLaunches, Launch!BrokerRetains, Launch!BrokerFails,
           Launch!Answers, Launch!ForeignGame, Launch!Exits, Launch!Expires
  <2> QED BY <1>3, <2>1
<1>5. CASE UNCHANGED Launch!vars
  BY <1>3, <1>5 DEF Launch!vars
<1> QED BY <1>1, <1>2, <1>4, <1>5

\* A game that comes up while the shim holds the loader is the loader's own or
\* has another parent; one from before is older than the loader.
LEMMA LaunchNextParentInv ==
    Launch!ShimAssumption /\ LaunchInv /\ [Launch!Next]_Launch!vars => ParentInv'
<1> SUFFICES ASSUME Launch!ShimAssumption, Launch!TypeOK, BornInv, ParentInv, [Launch!Next]_Launch!vars, loader' # None,
                    NEW game \in Launch!Games', Launch!IsOurs(game)'
             PROVE  game \in children'
  BY DEF LaunchInv, ParentInv
<1> USE DEF Launch!envVars, Launch!pipeVars, Launch!brokerVars, Launch!shimVars, Launch!lookVars
<1>1. PICK q \in Pids : procs'[q] = game /\ game # None /\ game.image = "game"
  BY DEF Launch!Games
<1>2. game.parent = loader'.pid /\ game.born >= loader'.born
  BY DEF Launch!IsOurs
<1>3. ASSUME procs[q] = game, loader' = loader PROVE game \in children
  BY <1>1, <1>2, <1>3 DEF ParentInv, Launch!Games, Launch!IsOurs
<1>4. CASE Launch!StartLoader
  <2>1. PICK p \in Launch!Free : Launch!Create(Launch!Process(p, "loader", None)) /\ loader' = Launch!Process(p, "loader", None)
    BY <1>4 DEF Launch!StartLoader
  <2> DEFINE process == Launch!Process(p, "loader", None)
  <2>2. process.pid = p /\ process.born = born + 1 /\ process.image = "loader" /\ born \in Int
    BY <1>4, NewProcess DEF Launch!StartLoader, Launch!Free
  <2>3. Launch!Create(process) /\ loader' = process
    BY <2>1
  <2> HIDE DEF process
  <2>4. q # p /\ procs[q] = game
    BY <1>1, <2>2, <2>3, CreateElsewhere
  <2>5. game.born <= born /\ game.born \in Int
    BY <1>1, <2>4 DEF BornInv, Launch!TypeOK, Launch!Processes
  <2> QED BY <1>2, <2>2, <2>3, <2>5
<1>5. CASE Launch!LoaderSpawns
  <2>1. PICK p \in Launch!Free : /\ Launch!Create(Launch!Process(p, "game", loader.pid))
                          /\ children' = {Launch!Process(p, "game", loader.pid)}
    BY <1>5 DEF Launch!LoaderSpawns
  <2> DEFINE process == Launch!Process(p, "game", loader.pid)
  <2>2. loader.pid \in Pids /\ process.pid = p
    BY <1>5, NewProcess
       DEF Launch!LoaderSpawns, Launch!Runs, Launch!TypeOK, Launch!Processes, Launch!Free
  <2>3. Launch!Create(process) /\ children' = {process}
    BY <2>1
  <2> HIDE DEF process
  <2>4. q = p => procs'[q] = process
    BY <2>2, <2>3, CreateElsewhere
  <2>5. q # p => procs'[q] = procs[q]
    BY <2>2, <2>3, CreateElsewhere
  <2>6. children = {} /\ loader' = loader
    BY <1>5 DEF Launch!LoaderSpawns
  <2> QED BY <1>1, <1>3, <2>3, <2>4, <2>5, <2>6
<1>6. CASE Launch!ForeignGame
  <2>1. PICK p \in Launch!Free, parent \in Launch!Free : Launch!Create(Launch!Process(p, "game", parent))
    BY <1>6 DEF Launch!ForeignGame
  <2> DEFINE process == Launch!Process(p, "game", parent)
  <2>2. process.pid = p /\ process.parent = parent
    BY <1>6, NewProcess DEF Launch!ForeignGame, Launch!Free
  <2>3. Launch!Create(process)
    BY <2>1
  <2> HIDE DEF process
  <2>4. q = p => procs'[q] = process
    BY <2>2, <2>3, CreateElsewhere
  <2>5. q # p => procs'[q] = procs[q]
    BY <2>2, <2>3, CreateElsewhere
  <2>6. loader' = loader /\ children' = children
    BY <1>6 DEF Launch!ForeignGame
  <2>7. parent # loader.pid
    BY <2>6 DEF Launch!Free, Launch!Held
  <2> QED BY <1>1, <1>2, <1>3, <2>2, <2>4, <2>5, <2>6, <2>7
<1>7. CASE Launch!Exits
  <2>1. procs[q] = game /\ loader' = loader /\ children' = children
    BY <1>1, <1>7 DEF Launch!Exits, Launch!TypeOK
  <2> QED BY <1>3, <2>1
<1>8. CASE UNCHANGED <<procs, loader, children>>
  BY <1>1, <1>3, <1>8
<1>9. CASE Launch!Next /\ ~(Launch!StartLoader \/ Launch!LoaderSpawns \/ Launch!ForeignGame \/ Launch!Exits)
  <2>1. UNCHANGED <<procs, loader, children>>
    BY <1>9, ZenonT(60) DEF Launch!Next, Launch!Shim, Launch!Broker, Launch!Connect,
                            Launch!ReadOffer, Launch!ReadLaunch, Launch!CheckNoGame,
           Launch!TakeSnapshot, Launch!OpenEntry, Launch!LookAgain, Launch!WaitFails,
           Launch!FindGame, Launch!RetainGame, Launch!Retain, Launch!HandOver,
           Launch!ReadRetained, Launch!Fails, Launch!GameEnds, Launch!LoaderEnds,
           Launch!Search, Launch!Reopen, Launch!CleanupFails, Launch!BrokerOffers,
           Launch!BrokerLaunches, Launch!BrokerRetains, Launch!BrokerFails,
           Launch!Answers, Launch!Expires
  <2> QED BY <1>8, <2>1
<1>10. CASE UNCHANGED Launch!vars
  BY <1>8, <1>10 DEF Launch!vars
<1> QED BY <1>4, <1>5, <1>6, <1>7, <1>9, <1>10

\* The shim takes a game once, a child of its loader, and only what it took is
\* handed over.
LEMMA LaunchNextOwnedInv ==
    Launch!ShimAssumption /\ LaunchInv /\ [Launch!Next]_Launch!vars => OwnedInv'
<1> SUFFICES ASSUME Launch!ShimAssumption, Launch!TypeOK, BornInv, SnapInv, ChildInv, ParentInv, OwnedInv,
                    [Launch!Next]_Launch!vars
             PROVE  OwnedInv'
  BY DEF LaunchInv
<1> USE DEF Launch!envVars, Launch!pipeVars, Launch!brokerVars, Launch!shimVars, Launch!lookVars
<1>0. None \notin children
  BY DEF Launch!TypeOK, Launch!ShimAssumption
<1> USE DEF Launch!Mixed, Launch!IsOurs
<1>1. CASE Launch!Connect
  BY <1>1 DEF Launch!Connect, OwnedInv
<1>2. CASE Launch!ReadOffer \/ Launch!ReadLaunch
  BY <1>2 DEF Launch!ReadOffer, Launch!ReadLaunch, Launch!Receives, OwnedInv
<1>3. CASE Launch!CheckNoGame
  BY <1>3 DEF Launch!CheckNoGame, OwnedInv
<1>4. CASE Launch!StartLoader
  <2>1. loader' # None
    BY <1>4, NewProcess DEF Launch!StartLoader, Launch!Free
  <2> QED BY <1>4, <2>1 DEF Launch!StartLoader, OwnedInv
<1>5. CASE Launch!FindGame
  <2>1. candidate' # None /\ Launch!IsOurs(candidate') /\ loader # None
    BY <1>5 DEF Launch!FindGame, OwnedInv, Launch!TypeOK, Launch!ShimAssumption
  <2> QED BY <1>5, <2>1 DEF Launch!FindGame, OwnedInv
<1>6. CASE Launch!RetainGame \/ Launch!Reopen
  <2>0. PICK game \in Launch!Games : Launch!Same(game, candidate) /\ owned' = game
    BY <1>6 DEF Launch!RetainGame, Launch!Reopen, Launch!Retain
  <2>1. /\ retained = None /\ loader # None /\ candidate # None /\ Launch!IsOurs(candidate)
        /\ UNCHANGED candidate
    BY <1>6 DEF Launch!RetainGame, Launch!Reopen, Launch!Retain, OwnedInv
  <2>2. procs[candidate.pid] = game /\ game # None
    BY <2>0 DEF Launch!Games, Launch!Same, BornInv
  <2>3. ASSUME ~Launch!Mixed PROVE game \in children
    <3>1. Holds(candidate) /\ candidate.was = candidate.born
      BY <2>1, <2>3 DEF SnapInv, Told, Launch!Mixed
    <3>2. game.parent = candidate.parent /\ game.born = candidate.born
      BY <2>0, <2>2, <3>1 DEF Holds, Launch!Same
    <3>3. Launch!IsOurs(game)
      BY <2>1, <3>2 DEF Launch!IsOurs
    <3> QED BY <2>1, <3>3 DEF ParentInv
  <2>4. owned' # None /\ (owned' \in children' \/ Launch!Mixed')
    BY <1>6, <2>0, <2>1, <2>2, <2>3 DEF Launch!RetainGame, Launch!Reopen, Launch!Retain,
        Launch!Mixed
  <2> QED BY <1>6, <2>1, <2>4 DEF Launch!RetainGame, Launch!Reopen, Launch!Retain, OwnedInv
<1>7. CASE Launch!HandOver
  BY <1>7 DEF Launch!HandOver, OwnedInv
<1>8. CASE Launch!ReadRetained
  BY <1>8 DEF Launch!ReadRetained, Launch!Receives, OwnedInv
<1>9. CASE Launch!Fails
  <2>1. CASE owned # None
    BY <1>9, <2>1 DEF Launch!Fails, Launch!Catch, OwnedInv
  <2>2. CASE owned = None /\ loader # None
    BY <1>9, <2>2 DEF Launch!Fails, Launch!Catch, OwnedInv
  <2>3. CASE owned = None /\ loader = None
    BY <1>9, <2>3 DEF Launch!Fails, Launch!Catch, Launch!Exit, OwnedInv
  <2> QED BY <2>1, <2>2, <2>3
<1>10. CASE Launch!GameEnds \/ Launch!WaitFails \/ Launch!CleanupFails
  BY <1>10 DEF Launch!GameEnds, Launch!WaitFails, Launch!CleanupFails, Launch!Exit, OwnedInv
<1>11. CASE Launch!LoaderEnds
  BY <1>11 DEF Launch!LoaderEnds, OwnedInv
<1>12. CASE Launch!Search
  <2>1. \/ shim' = "exited"
        \/ shim' = "reopen" /\ candidate' # None /\ Launch!IsOurs(candidate') /\ loader # None
    BY <1>12 DEF Launch!Search, Launch!Exit, Launch!Direct, OwnedInv, Launch!TypeOK,
                 Launch!ShimAssumption
  <2> QED BY <1>12, <2>1 DEF Launch!Search, OwnedInv
<1>13. CASE Launch!BrokerRetains
  <2>1. retained' = owned /\ owned' = owned
    BY <1>13 DEF Launch!BrokerRetains, Launch!Answers
  <2> QED BY <1>13, <2>1 DEF Launch!BrokerRetains, Launch!Answers, OwnedInv
<1>14. CASE Launch!BrokerOffers \/ Launch!BrokerLaunches \/ Launch!BrokerFails
  BY <1>14
     DEF Launch!BrokerOffers, Launch!BrokerLaunches, Launch!BrokerFails, Launch!Answers, OwnedInv
<1>15. CASE Launch!LoaderSpawns
  <2>1. /\ owned # None => Launch!Mixed
        /\ UNCHANGED <<retained, shim, loader, candidate, owned>>
    BY <1>15 DEF Launch!LoaderSpawns, OwnedInv
  <2> QED BY <2>1 DEF OwnedInv
<1>16. CASE Launch!ForeignGame \/ Launch!Exits \/ Launch!Expires
  BY <1>16 DEF Launch!ForeignGame, Launch!Exits, Launch!Expires, OwnedInv
<1>17. CASE Launch!TakeSnapshot \/ Launch!OpenEntry \/ Launch!LookAgain
  BY <1>17 DEF Launch!TakeSnapshot, Launch!OpenEntry, Launch!LookAgain, OwnedInv
<1>18. CASE UNCHANGED Launch!vars
  BY <1>18 DEF Launch!vars, OwnedInv
<1> QED
  BY <1>1, <1>2, <1>3, <1>4, <1>5, <1>6, <1>7, <1>8, <1>9, <1>10, <1>11, <1>12, <1>13, <1>14,
     <1>15, <1>16, <1>17, <1>18 DEF Launch!Next, Launch!Shim, Launch!Broker

\* The shim ends before it started anything, after the game it owns, or with the
\* error that asks for a cleanup; and its handle keeps an ended game from being
\* taken for a running one.
LEMMA LaunchNextEndInv == Launch!ShimAssumption /\ LaunchInv /\ [Launch!Next]_Launch!vars => EndInv'
<1> SUFFICES ASSUME Launch!ShimAssumption, Launch!TypeOK, OwnedInv, EndInv, [Launch!Next]_Launch!vars, shim' = "exited"
             PROVE  \/ code' = "manual" /\ owned' = None
                    \/ loader' = None \/ code' = "unwaited"
                    \/ owned' # None /\ ~Launch!Runs(owned)'
  BY DEF LaunchInv, EndInv
<1> USE DEF Launch!envVars, Launch!pipeVars, Launch!brokerVars, Launch!shimVars, Launch!lookVars
<1>1. CASE Launch!Fails
  BY <1>1 DEF Launch!Fails, Launch!Catch, Launch!Exit
<1>2. CASE Launch!GameEnds
  <2>1. owned # None /\ ~Launch!Runs(owned) /\ UNCHANGED <<owned, procs>>
    BY <1>2 DEF Launch!GameEnds, OwnedInv
  <2> QED BY <2>1 DEF Launch!Runs
<1>3. CASE Launch!Search \/ Launch!CleanupFails
  BY <1>3 DEF Launch!Search, Launch!CleanupFails, Launch!Exit, OwnedInv
<1>4. CASE Launch!Connect \/ Launch!ReadOffer \/ Launch!ReadLaunch \/ Launch!CheckNoGame \/ Launch!StartLoader \/ Launch!FindGame \/ Launch!RetainGame
           \/ Launch!HandOver \/ Launch!ReadRetained \/ Launch!LoaderEnds \/ Launch!Reopen
  BY <1>4 DEF Launch!Connect, Launch!ReadOffer, Launch!ReadLaunch, Launch!Receives,
              Launch!CheckNoGame, Launch!StartLoader, Launch!FindGame,
              Launch!RetainGame, Launch!Retain, Launch!HandOver, Launch!ReadRetained,
              Launch!LoaderEnds, Launch!Reopen
<1>5. ASSUME NEW p \in Launch!Free, NEW image \in {"game", "loader"}, NEW parent \in Pids \union {None},
             born < MaxBorn, Launch!Create(Launch!Process(p, image, parent)),
             UNCHANGED <<shim, code, loader, owned>>
      PROVE  owned # None /\ ~Launch!Runs(owned) => owned' # None /\ ~Launch!Runs(owned)'
  <2> DEFINE process == Launch!Process(p, image, parent)
  <2>1. process.pid = p
    BY <1>5, NewProcess DEF Launch!Free
  <2>2. Launch!Create(process)
    BY <1>5
  <2> HIDE DEF process
  <2>3. owned # None => (Launch!Runs(owned) <=> procs'[owned.pid] = owned)
    BY <2>1, <2>2, CreateElsewhere
  <2> QED BY <1>5, <2>3 DEF Launch!Runs
<1>6. CASE Launch!LoaderSpawns
  <2>1. loader.pid \in Pids
    BY <1>6 DEF Launch!LoaderSpawns, Launch!Runs, Launch!TypeOK, Launch!Processes
  <2>2. owned # None /\ ~Launch!Runs(owned) => owned' # None /\ ~Launch!Runs(owned)'
    BY <1>5, <1>6, <2>1 DEF Launch!LoaderSpawns
  <2> QED BY <1>6, <2>2 DEF Launch!LoaderSpawns, EndInv
<1>7. CASE Launch!ForeignGame
  <2>1. owned # None /\ ~Launch!Runs(owned) => owned' # None /\ ~Launch!Runs(owned)'
    BY <1>5, <1>7 DEF Launch!ForeignGame, Launch!Free
  <2> QED BY <1>7, <2>1 DEF Launch!ForeignGame, EndInv
<1>8. CASE Launch!Exits
  <2>1. PICK p \in Pids : procs' = [procs EXCEPT ![p] = None]
    BY <1>8 DEF Launch!Exits
  <2>2. owned # None => owned.pid \in Pids
    BY DEF Launch!TypeOK, Launch!Processes
  <2>3. owned # None /\ ~Launch!Runs(owned) => procs'[owned.pid] # owned
    BY <2>1, <2>2 DEF Launch!Runs, Launch!TypeOK
  <2>4. UNCHANGED <<shim, code, loader, owned>>
    BY <1>8 DEF Launch!Exits
  <2> QED BY <2>3, <2>4 DEF EndInv, Launch!Runs
<1>9. CASE Launch!Broker \/ Launch!Expires
  <2>1. UNCHANGED <<procs, shim, code, loader, owned>>
    BY <1>9 DEF Launch!Broker, Launch!BrokerOffers, Launch!BrokerLaunches, Launch!BrokerRetains,
                Launch!BrokerFails, Launch!Answers, Launch!Expires
  <2> QED BY <2>1 DEF EndInv, Launch!Runs
<1>10. CASE Launch!TakeSnapshot \/ Launch!OpenEntry \/ Launch!LookAgain
  <2>1. UNCHANGED <<procs, shim, code, loader, owned>>
    BY <1>10 DEF Launch!TakeSnapshot, Launch!OpenEntry, Launch!LookAgain
  <2> QED BY <2>1 DEF EndInv, Launch!Runs
<1>11. CASE Launch!WaitFails
  BY <1>11 DEF Launch!WaitFails, Launch!Exit, OwnedInv
<1>12. CASE UNCHANGED Launch!vars
  BY <1>12 DEF Launch!vars, EndInv, Launch!Runs
<1> QED
  BY <1>1, <1>2, <1>3, <1>4, <1>6, <1>7, <1>8, <1>9, <1>10, <1>11, <1>12 DEF Launch!Next,
      Launch!Shim

-----------------------------------------------------------------------------
\* At the start nothing is launched, and every step keeps the invariant.
THEOREM LaunchInvariant ==
  ASSUME Launch!ShimAssumption
  PROVE  Launch!Spec => []LaunchInv
<1>1. Launch!Init => LaunchInv
  <2> SUFFICES ASSUME Launch!Init PROVE LaunchInv
    OBVIOUS
  <2>1. Launch!TypeOK
    <3>1. procs \in [Pids -> Launch!Processes \union {None}]
      BY DEF Launch!Init
    <3>2. toShim \in Seq({"offer", "launch", "retained"}) /\ toBroker \in Seq({"connected", "nonce", "owned"})
      BY DEF Launch!Init
    <3>3. /\ {retained, loader, owned} \subseteq Launch!Processes \union {None}
          /\ candidate \in Launch!Identities \union {None} /\ seen \in SUBSET Launch!Identities
      BY DEF Launch!Init
    <3>4. born \in 0..MaxBorn
      BY DEF Launch!Init, Launch!ShimAssumption
    <3> QED BY <3>1, <3>2, <3>3, <3>4 DEF Launch!Init, Launch!TypeOK, Launch!Guarded
  <2>2. Launch!Games = {}
    BY DEF Launch!Init, Launch!Games
  <2>3. BornInv /\ SnapInv /\ ChildInv /\ ParentInv /\ OwnedInv /\ EndInv
    BY <2>2 DEF Launch!Init, BornInv, SnapInv, Told, ChildInv, ParentInv, OwnedInv, EndInv
  <2> QED BY <2>1, <2>3 DEF LaunchInv
<1>2. LaunchInv /\ [Launch!Next]_Launch!vars => LaunchInv'
  BY LaunchNextTypeOK, LaunchNextBornInv, LaunchNextSnapInv, LaunchNextChildInv,
      LaunchNextParentInv,
     LaunchNextOwnedInv, LaunchNextEndInv DEF LaunchInv
<1> QED BY <1>1, <1>2, PTL DEF Launch!Spec

\* Every variable keeps its shape: handles name processes of this run, and the
\* pipe carries the protocol's messages, each way its own.
THEOREM LaunchTypeCorrect ==
  ASSUME Launch!ShimAssumption
  PROVE  Launch!Spec => []Launch!TypeOK
<1>1. LaunchInv => Launch!TypeOK
  BY DEF LaunchInv
<1> QED BY <1>1, LaunchInvariant, PTL

\* native-launch-shim.cpp, for any number of processes and any reuse of their
\* ids: the shim takes, hands over and waits for the game of its own loader, and
\* ends before it only with the error that asks for a cleanup by hand or because
\* Windows refused the wait.  Excepted is the one case that its checks cannot
\* tell: a process of the snapshot ended, and another got its id ahead of the open.
THEOREM KeepsItsGame ==
  ASSUME Launch!ShimAssumption
  PROVE  Launch!Spec => []Launch!ShimKeepsItsGame
<1>1. LaunchInv => Launch!OwnsOnlyItsGame
  BY DEF LaunchInv, OwnedInv, Launch!OwnsOnlyItsGame
<1>2. LaunchInv => Launch!ShimOutlivesGame
  <2> SUFFICES ASSUME LaunchInv, shim = "exited", NEW game \in children, Launch!Runs(game)
               PROVE  (code = "manual" /\ owned = None) \/ code = "unwaited" \/ Launch!Mixed
    BY DEF Launch!ShimOutlivesGame
  <2>1. loader # None
    BY DEF LaunchInv, ChildInv
  <2>2. owned # None => owned = game \/ Launch!Mixed
    BY DEF LaunchInv, OwnedInv, ChildInv
  <2> QED BY <2>1, <2>2 DEF LaunchInv, EndInv
<1>3. LaunchInv => Launch!ShimKeepsItsGame
  BY <1>1, <1>2 DEF Launch!ShimKeepsItsGame
<1> QED BY <1>3, LaunchInvariant, PTL

-----------------------------------------------------------------------------
(***************************************************************************)
(* The console tool. The log may drop any number of its oldest entries and *)
(* lines of others come in between, so the invariant speaks of what is     *)
(* left: what follows a begin fence that the log still has are the lines   *)
(* of its window, then the end fence or, while the command runs, the end   *)
(* of the log. Only the first submission of the queue runs, so that no two *)
(* windows are open at once.                                               *)
(***************************************************************************)
CONSTANTS Requests, Captured, MaxCaptures, MaxPending, MaxLines, MaxLog, MaxTyped

VARIABLES observer, captures, pending, at, submissions, log, brokered, typed, lines,
          reading, read, window, events

Tool == INSTANCE Console WITH tasks <- submissions

UnderWay == {"admitted", "queued", "fenced", "executed"}
Running == {"fenced", "executed"}
Open(r) == at[r] \in Running

\* A submission is in the queue, once, from its queueing to its end, and what runs
\* is the first; what is captured was admitted.
SubmittedInv ==
    /\ IsInjective(submissions)
    /\ \A r \in Requests : r \in Range(submissions) <=> at[r] \in {"queued", "fenced", "executed"}
    /\ \A r \in Requests : Open(r) => submissions # <<>> /\ r = Head(submissions)
    /\ \A r \in Range(captures) : at[r] \notin {"idle", "refused"}

\* What is left of the begin fence of r is followed by the lines of its window, and
\* these by the end fence once it has run, by the end of the log while it runs.
FencedBy(r, buffer, cut, state) ==
    /\ \A b, c \in Tool!Places(buffer, Tool!Begin(r)) : b = c
    /\ \A b, c \in Tool!Places(buffer, Tool!End(r)) : b = c
    /\ Tool!Places(buffer, Tool!Begin(r)) # {} => r \in Captured /\ (state \in Running \/ state = "run")
    /\ Tool!Places(buffer, Tool!End(r)) # {} => state = "run"
    /\ \A b \in Tool!Places(buffer, Tool!Begin(r)) :
        /\ \A i \in 1..Len(cut) : buffer[b + i] = cut[i]
        /\ state \in Running => Len(buffer) = b + Len(cut)
        /\ state = "run" => b + Len(cut) + 1 \in Tool!Places(buffer, Tool!End(r))

WindowInv ==
    /\ \A r \in Requests : window[r] # None <=> Open(r) \/ at[r] = "run"
    /\ \A r \in Requests : FencedBy(r, log, window[r], at[r])

\* What a read has returned is of a window that does not change any more.
ReadInv == \A r \in Requests : read[r] # None => at[r] = "run" /\ read[r] = Tool!Latest(window[r])

\* A command is published as it runs.
EventsInv ==
    /\ IsInjective(events.broker)
    /\ \A r \in Requests : r \in Range(events.broker) <=> at[r] \in {"executed", "run"}
    /\ Len(events.typed) = typed

ConsoleInv ==
    Tool!TypeOK /\ Tool!PendingExact /\ SubmittedInv /\ WindowInv /\ ReadInv /\ EventsInv

-----------------------------------------------------------------------------
(* Maxima, and the latest elements of a sequence.                          *)

LEMMA MaxOfTwo ==
  ASSUME NEW m \in Int, NEW n \in Int
  PROVE  Tool!Max({m, n}) = IF m >= n THEN m ELSE n
<1> DEFINE k == IF m >= n THEN m ELSE n
<1>1. k \in {m, n} /\ \A y \in {m, n} : k >= y
  OBVIOUS
<1>2. \A x \in {m, n} : (\A y \in {m, n} : x >= y) => x = k
  BY <1>1
<1> HIDE DEF k
<1>3. (CHOOSE x \in {m, n} : \A y \in {m, n} : x >= y) = k
  BY <1>1, <1>2
<1> QED BY <1>3 DEF Tool!Max, k

LEMMA MaxOfOne ==
  ASSUME NEW m \in Int
  PROVE  Tool!Max({m}) = m /\ Tool!Min({m}) = m
BY DEF Tool!Max, Tool!Min

\* The latest m elements of a sequence are a rest of it.
LEMMA LatestElements ==
  ASSUME NEW S, NEW q \in Seq(S), NEW m \in Nat,
         NEW t, t = SubSeq(q, Tool!Max({1, Len(q) - m + 1}), Len(q))
  PROVE  t \in Seq(S) /\ \E k \in 0..Len(q) : IsRest(t, q, k) /\ Len(q) - k <= m
<1>1. Len(q) \in Nat
  OBVIOUS
<1>2. \E k \in 0..Len(q) : Tool!Max({1, Len(q) - m + 1}) = k + 1 /\ Len(q) - k <= m
  <2>1. CASE 1 >= Len(q) - m + 1
    <3>1. Tool!Max({1, Len(q) - m + 1}) = 0 + 1
      BY <1>1, <2>1, MaxOfTwo
    <3> QED BY <1>1, <2>1, <3>1
  <2>2. CASE ~(1 >= Len(q) - m + 1)
    <3>1. Tool!Max({1, Len(q) - m + 1}) = (Len(q) - m) + 1
      BY <1>1, <2>2, MaxOfTwo
    <3>2. Len(q) - m \in 0..Len(q) /\ Len(q) - (Len(q) - m) <= m
      BY <1>1, <2>2
    <3> QED BY <3>1, <3>2
  <2> QED BY <2>1, <2>2
<1>3. PICK k \in 0..Len(q) : Tool!Max({1, Len(q) - m + 1}) = k + 1 /\ Len(q) - k <= m
  BY <1>2
<1>4. t = SubSeq(q, k + 1, Len(q))
  BY <1>3
<1> QED BY <1>3, <1>4, SuffixElements

\* So it is with the latest elements.
LEMMA LatestDistinct ==
  ASSUME NEW S, NEW q \in Seq(S), NEW m \in Nat, IsInjective(q),
         NEW t, t = SubSeq(q, Tool!Max({1, Len(q) - m + 1}), Len(q))
  PROVE  t \in Seq(S) /\ Len(t) <= m /\ IsInjective(t) /\ Range(t) \subseteq Range(q)
<1>1. t \in Seq(S)
  BY LatestElements
<1>2. PICK k \in 0..Len(q) : IsRest(t, q, k) /\ Len(q) - k <= m
  BY LatestElements
<1>3. Len(t) <= m
  BY <1>2 DEF IsRest
<1>4. IsInjective(t) /\ Range(t) \subseteq Range(q)
  <2>1. IsRest(t, q, k) /\ k \in 0..Len(q)
    BY <1>2
  <2>2. \A u \in Seq(S), j \in 0..Len(q) :
            IsRest(u, q, j) => IsInjective(u) /\ Range(u) \subseteq Range(q)
    BY RestDistinct
  <2> QED BY <1>1, <2>1, <2>2, Zenon
<1> QED BY <1>1, <1>3, <1>4

\* An entry taken out of a sequence that has it once, or has it not.
LEMMA FirstRemoved ==
  ASSUME NEW S, NEW q \in Seq(S), NEW x, IsInjective(q)
  PROVE  /\ Tool!RemoveFirst(q, x) \in Seq(S) /\ Len(Tool!RemoveFirst(q, x)) <= Len(q)
         /\ IsInjective(Tool!RemoveFirst(q, x)) /\ Range(Tool!RemoveFirst(q, x)) = Range(q) \ {x}
<1>1. Len(q) \in Nat /\ DOMAIN q = 1..Len(q)
  OBVIOUS
<1>2. CASE \E i \in 1..Len(q) : q[i] = x
  <2>1. PICK i \in 1..Len(q) : q[i] = x
    BY <1>2
  <2>2. {j \in 1..Len(q) : q[j] = x} = {i}
    BY <1>1, <2>1 DEF IsInjective
  <2>3. Tool!Min({j \in 1..Len(q) : q[j] = x}) = i
    <3>1. Tool!Min({i}) = i
      BY <1>1, <2>1, i \in Int, MaxOfOne
    <3> QED BY <2>2, <3>1
  <2>4. Tool!RemoveFirst(q, x) = Tool!RemoveAt(q, Tool!Min({j \in 1..Len(q) : q[j] = x}))
    BY <1>2, <2>2 DEF Tool!RemoveFirst, Tool!SelectInSeq
  <2>5. Tool!RemoveFirst(q, x) = RemoveAt(q, i)
    BY <2>3, <2>4 DEF Tool!RemoveAt, RemoveAt
  <2> QED BY <1>1, <2>1, <2>5, RemoveElements, RemoveDistinct
<1>3. CASE ~\E i \in 1..Len(q) : q[i] = x
  <2>1. Tool!RemoveFirst(q, x) = q
    BY <1>3 DEF Tool!RemoveFirst
  <2> QED BY <1>1, <1>3, <2>1 DEF Range
<1> QED BY <1>2, <1>3

\* What the back end has just marked is found again.
LEMMA MarkedConsumed ==
  ASSUME NEW x
  PROVE  Tool!ConsumeBroker(Append(<<>>, x), x) = <<>>
<1> DEFINE q == Append(<<>>, x)
<1>1. q \in Seq({x}) /\ Len(q) = 1 /\ q[1] = x /\ DOMAIN q = {1}
  OBVIOUS
<1> HIDE DEF q
<1>2. IsInjective(q) /\ Range(q) = {x}
  BY <1>1 DEF IsInjective, Range
<1>3. Tool!RemoveFirst(q, x) \in Seq({x}) /\ Range(Tool!RemoveFirst(q, x)) = {}
  BY <1>1, <1>2, FirstRemoved
<1>4. ASSUME NEW p \in Seq({x}), Range(p) = {} PROVE p = <<>>
  <2>1. DOMAIN p = 1..Len(p) /\ Len(p) \in Nat
    OBVIOUS
  <2>2. DOMAIN p = {}
    BY <1>4, Zenon DEF Range
  <2>3. Len(p) = 0
    BY <2>1, <2>2
  <2> QED BY <2>3
<1> QED BY <1>3, <1>4 DEF Tool!ConsumeBroker, q

-----------------------------------------------------------------------------
(* The log: an entry is appended and the oldest ones are dropped.          *)

\* What the log holds once it has dropped its first k entries, e the last one.
Appended(new, old, e, k) ==
    /\ k \in 0..Len(old) + 1
    /\ Len(new) = Len(old) + 1 - k
    /\ \A i \in 1..Len(old) + 1 - k : new[i] = IF i + k <= Len(old) THEN old[i + k] ELSE e

\* The log after an entry was appended is such a log, no longer than it may be.
LEMMA LoggedEntry ==
  ASSUME log \in Seq(Tool!Entries), MaxLog \in Nat, NEW e \in Tool!Entries
  PROVE  /\ Tool!Logged(<<e>>) \in Seq(Tool!Entries) /\ Len(Tool!Logged(<<e>>)) <= MaxLog
         /\ \E k \in Nat : Appended(Tool!Logged(<<e>>), log, e, k)
<1> DEFINE all == log \o <<e>>
           t == SubSeq(all, Tool!Max({1, Len(all) - MaxLog + 1}), Len(all))
<1>1. /\ all \in Seq(Tool!Entries) /\ Len(all) = Len(log) + 1 /\ Len(log) \in Nat
      /\ \A i \in 1..Len(log) + 1 : all[i] = IF i <= Len(log) THEN log[i] ELSE e
  <2>1. <<e>> \in Seq(Tool!Entries) /\ Len(<<e>>) = 1 /\ <<e>>[1] = e /\ Len(log) \in Nat
    OBVIOUS
  <2>2. /\ all \in Seq(Tool!Entries) /\ Len(all) = Len(log) + Len(<<e>>)
        /\ \A i \in 1..Len(log) + Len(<<e>>) : all[i] = IF i <= Len(log) THEN log[i] ELSE <<e>>[i - Len(log)]
    BY <2>1, ConcatProperties
  <2>3. \A i \in 1..Len(log) + 1 : all[i] = IF i <= Len(log) THEN log[i] ELSE e
    <3> TAKE i \in 1..Len(log) + 1
    <3>1. i <= Len(log) \/ i - Len(log) = 1
      BY <2>1
    <3> QED BY <2>1, <2>2, <3>1
  <2> QED BY <2>1, <2>2, <2>3
<1>2. Tool!Logged(<<e>>) = t
  BY DEF Tool!Logged
<1> HIDE DEF all
<1>3. t \in Seq(Tool!Entries) /\ \E k \in 0..Len(all) : IsRest(t, all, k) /\ Len(all) - k <= MaxLog
  BY <1>1, LatestElements
<1>4. PICK k \in 0..Len(all) : IsRest(t, all, k) /\ Len(all) - k <= MaxLog
  BY <1>3
<1> HIDE DEF t
<1>5. Len(t) = Len(all) - k /\ \A i \in 1..Len(all) - k : t[i] = all[i + k]
  BY <1>4 DEF IsRest
<1>6. k \in 0..Len(log) + 1 /\ k \in Nat /\ Len(t) = Len(log) + 1 - k /\ Len(t) <= MaxLog
  BY <1>1, <1>4, <1>5
<1>7. \A i \in 1..Len(log) + 1 - k : t[i] = IF i + k <= Len(log) THEN log[i + k] ELSE e
  <2> TAKE i \in 1..Len(log) + 1 - k
  <2>1. i \in 1..Len(all) - k /\ i + k \in 1..Len(log) + 1
    BY <1>1, <1>6
  <2> QED BY <1>1, <1>5, <2>1
<1> QED BY <1>2, <1>3, <1>6, <1>7 DEF Appended

\* Where an entry is in the log after another one was appended.
LEMMA PlacesAppended ==
  ASSUME NEW old \in Seq(Tool!Entries), NEW new \in Seq(Tool!Entries),
         NEW e, NEW k, Appended(new, old, e, k),
         NEW x, NEW i
  PROVE  /\ i \in Tool!Places(new, x) => i \in Int /\ (i + k \in Tool!Places(old, x) \/ (x = e /\ i = Len(new)))
         /\ i \in Int /\ 0 < i /\ i + k \in Tool!Places(old, x) => i \in Tool!Places(new, x)
<1>1. /\ Len(old) \in Nat /\ DOMAIN old = 1..Len(old) /\ DOMAIN new = 1..Len(new) /\ k \in Nat
      /\ Len(new) = Len(old) + 1 - k
      /\ \A j \in 1..Len(old) + 1 - k : new[j] = IF j + k <= Len(old) THEN old[j + k] ELSE e
  BY DEF Appended
<1>2. ASSUME i \in Tool!Places(new, x)
      PROVE  i \in Int /\ (i + k \in Tool!Places(old, x) \/ (x = e /\ i = Len(new)))
  <2>1. i \in 1..Len(old) + 1 - k /\ i \in Int /\ new[i] = x
    BY <1>1, <1>2 DEF Tool!Places
  <2>2. CASE i + k <= Len(old)
    <3>1. i + k \in 1..Len(old) /\ old[i + k] = x
      BY <1>1, <2>1, <2>2
    <3> QED BY <1>1, <2>1, <3>1 DEF Tool!Places
  <2>3. CASE ~(i + k <= Len(old))
    <3>1. i = Len(new)
      <4>1. \A n \in Int, j \in Int, h \in Int : j <= n + 1 - h /\ ~(j + h <= n) => j = n + 1 - h
        OBVIOUS
      <4>2. Len(old) \in Int /\ k \in Int /\ i \in Int /\ i <= Len(old) + 1 - k
        BY <1>1, <2>1
      <4>3. i = Len(old) + 1 - k
        BY <2>3, <4>1, <4>2, Zenon
      <4> QED BY <1>1, <4>3, Zenon
    <3> QED BY <1>1, <2>1, <2>3, <3>1
  <2> QED BY <2>2, <2>3
<1>3. ASSUME i \in Int, 0 < i, i + k \in Tool!Places(old, x)
      PROVE  i \in Tool!Places(new, x)
  <2>1. i + k \in 1..Len(old) /\ old[i + k] = x
    BY <1>1, <1>3 DEF Tool!Places
  <2>2. i \in 1..Len(old) + 1 - k /\ i + k <= Len(old)
    BY <1>1, <1>3, <2>1
  <2> QED BY <1>1, <2>1, <2>2 DEF Tool!Places
<1> QED BY <1>2, <1>3

\* An entry that is no fence of r leaves its window fenced, longer by the entry while it runs.
LEMMA FencedGrows ==
  ASSUME NEW r, NEW old \in Seq(Tool!Entries), NEW new \in Seq(Tool!Entries),
         NEW e, NEW k, Appended(new, old, e, k),
         NEW state, NEW cut, state \in Running \/ state = "run" => cut \in Seq(Tool!Entries),
         FencedBy(r, old, cut, state), e # Tool!Begin(r), e # Tool!End(r), e \in Tool!Entries,
         NEW next, next = IF state \in Running THEN Append(cut, e) ELSE cut
  PROVE  FencedBy(r, new, next, state)
<1> DEFINE B == Tool!Begin(r)
           E == Tool!End(r)
<1>1. \A b \in Tool!Places(new, B) : b \in Int /\ b + k \in Tool!Places(old, B)
  BY PlacesAppended
<1>2. \A b \in Tool!Places(new, E) : b \in Int /\ b + k \in Tool!Places(old, E)
  BY PlacesAppended
<1>0. /\ Len(old) \in Nat /\ DOMAIN old = 1..Len(old) /\ DOMAIN new = 1..Len(new) /\ k \in Nat
      /\ Len(new) = Len(old) + 1 - k
      /\ \A j \in 1..Len(old) + 1 - k : new[j] = IF j + k <= Len(old) THEN old[j + k] ELSE e
  BY DEF Appended
<1>3. /\ \A b, c \in Tool!Places(old, B) : b = c
      /\ \A b, c \in Tool!Places(old, E) : b = c
      /\ Tool!Places(old, B) # {} => r \in Captured /\ (state \in Running \/ state = "run")
      /\ Tool!Places(old, E) # {} => state = "run"
      /\ \A b \in Tool!Places(old, B) :
          /\ \A i \in 1..Len(cut) : old[b + i] = cut[i]
          /\ state \in Running => Len(old) = b + Len(cut)
          /\ state = "run" => b + Len(cut) + 1 \in Tool!Places(old, E)
  BY DEF FencedBy
<1> HIDE DEF B, E
<1>4. \A b, c \in Tool!Places(new, B) : b = c
  <2> TAKE b, c \in Tool!Places(new, B)
  <2>1. b + k = c + k
    BY <1>1, <1>3, Zenon
  <2> QED BY <1>0, <1>1, <2>1
<1>5. \A b, c \in Tool!Places(new, E) : b = c
  <2> TAKE b, c \in Tool!Places(new, E)
  <2>1. b + k = c + k
    BY <1>2, <1>3, Zenon
  <2> QED BY <1>0, <1>2, <2>1
<1>6. /\ Tool!Places(new, B) # {} => r \in Captured /\ (state \in Running \/ state = "run")
      /\ Tool!Places(new, E) # {} => state = "run"
  BY <1>1, <1>2, <1>3, Zenon
<1>7. ASSUME NEW b \in Tool!Places(new, B)
      PROVE  /\ \A i \in 1..Len(next) : new[b + i] = next[i]
             /\ state \in Running => Len(new) = b + Len(next)
             /\ state = "run" => b + Len(next) + 1 \in Tool!Places(new, E)
  <2>1. b \in Int /\ b + k \in Tool!Places(old, B) /\ b \in 1..Len(new)
    BY <1>0, <1>1 DEF Tool!Places
  <2>2. cut \in Seq(Tool!Entries) /\ Len(cut) \in Nat /\ (state \in Running \/ state = "run")
    BY <1>3, <2>1
  <2>3. \A i \in 1..Len(cut) : old[b + k + i] = cut[i]
    BY <1>3, <2>1
  <2>4. CASE state \in Running
    <3>1. next \in Seq(Tool!Entries) /\ Len(next) = Len(cut) + 1
          /\ \A i \in 1..Len(cut) + 1 : next[i] = IF i <= Len(cut) THEN cut[i] ELSE e
      BY <2>2, <2>4, AppendProperties
    <3>2. Len(old) = b + k + Len(cut)
      BY <1>3, <2>1, <2>4
    <3>3. Len(new) = b + Len(next)
      <4>1. \A h \in Int, j \in Int, n \in Int : (h + j + n) + 1 - j = h + (n + 1)
        OBVIOUS
      <4>2. b \in Int /\ k \in Int /\ Len(cut) \in Int
        BY <1>0, <2>1, <2>2
      <4>3. Len(new) = (b + k + Len(cut)) + 1 - k
        BY <1>0, <3>2, Zenon
      <4>4. (b + k + Len(cut)) + 1 - k = b + (Len(cut) + 1)
        BY <4>1, <4>2, Zenon
      <4>5. Len(next) = Len(cut) + 1
        BY <3>1
      <4> QED BY <4>3, <4>4, <4>5, Zenon
    <3>4. \A i \in 1..Len(next) : new[b + i] = next[i]
      <4> TAKE i \in 1..Len(next)
      <4>1. b + i \in 1..Len(old) + 1 - k /\ i \in 1..Len(cut) + 1
        BY <1>0, <2>1, <2>2, <3>1, <3>2
      <4>2. CASE i <= Len(cut)
        <5>1. i \in 1..Len(cut) /\ (b + i) + k <= Len(old) /\ (b + i) + k = b + k + i
          BY <1>0, <2>1, <2>2, <3>2, <4>1, <4>2
        <5> QED BY <1>0, <2>3, <3>1, <4>1, <4>2, <5>1
      <4>3. CASE ~(i <= Len(cut))
        <5>1. ~((b + i) + k <= Len(old))
          BY <1>0, <2>1, <2>2, <3>2, <4>1, <4>3
        <5> QED BY <1>0, <3>1, <4>1, <4>3, <5>1
      <4> QED BY <4>2, <4>3
    <3> QED BY <2>4, <3>3, <3>4 DEF Running
  <2>5. CASE state \notin Running
    <3>1. state = "run" /\ next = cut
      BY <2>2, <2>5
    <3>2. b + k + Len(cut) + 1 \in Tool!Places(old, E)
      BY <1>3, <2>1, <3>1
    <3>3. b + k + Len(cut) + 1 <= Len(old) /\ (b + Len(cut) + 1) + k = b + k + Len(cut) + 1
          /\ 0 < b + Len(cut) + 1 /\ b + Len(cut) + 1 \in Int
      <4>1. b + k + Len(cut) + 1 \in 1..Len(old)
        BY <1>0, <3>2 DEF Tool!Places
      <4> QED BY <1>0, <2>1, <2>2, <4>1
    <3>4. b + Len(cut) + 1 \in Tool!Places(new, E)
      BY <3>2, <3>3, PlacesAppended
    <3>5. \A i \in 1..Len(cut) : new[b + i] = cut[i]
      <4> TAKE i \in 1..Len(cut)
      <4>1. b + i \in 1..Len(old) + 1 - k /\ (b + i) + k <= Len(old) /\ (b + i) + k = b + k + i
        BY <1>0, <2>1, <2>2, <3>3
      <4> QED BY <1>0, <2>3, <4>1
    <3> QED BY <2>5, <3>1, <3>4, <3>5
  <2> QED BY <2>4, <2>5
<1> QED BY <1>4, <1>5, <1>6, <1>7 DEF FencedBy, B, E

\* The begin fence of a capture opens its window.
LEMMA FencedBegins ==
  ASSUME NEW r \in Captured, NEW old \in Seq(Tool!Entries), NEW new \in Seq(Tool!Entries), NEW k,
         Appended(new, old, Tool!Begin(r), k), NEW cut,
         NEW state, state \notin Running, state # "run", FencedBy(r, old, cut, state)
  PROVE  FencedBy(r, new, <<>>, "fenced")
<1> DEFINE B == Tool!Begin(r)
           E == Tool!End(r)
<1>0. Tool!Places(old, B) = {} /\ Tool!Places(old, E) = {} /\ B # E
  BY DEF FencedBy, Tool!Begin, Tool!End
<1>1. \A b \in Tool!Places(new, B) : b = Len(new)
  BY <1>0, PlacesAppended
<1>2. Tool!Places(new, E) = {}
  <2>1. \A b \in Tool!Places(new, E) : FALSE
    BY <1>0, PlacesAppended
  <2> QED BY <2>1
<1>3. Len(new) \in Nat
  OBVIOUS
<1> HIDE DEF B, E
<1>4. /\ \A b, c \in Tool!Places(new, B) : b = c
      /\ \A b, c \in Tool!Places(new, E) : b = c
  BY <1>1, <1>2, Zenon
<1>5. \A b \in Tool!Places(new, B) :
        /\ \A i \in 1..Len(<<>>) : new[b + i] = <<>>[i]
        /\ Len(new) = b + Len(<<>>)
  BY <1>1, <1>3
<1> QED BY <1>2, <1>4, <1>5 DEF FencedBy, B, E, Running

\* Its end fence closes it.
LEMMA FencedEnds ==
  ASSUME NEW r, NEW old \in Seq(Tool!Entries), NEW new \in Seq(Tool!Entries), NEW k,
         Appended(new, old, Tool!End(r), k), NEW cut \in Seq(Tool!Entries),
         NEW state \in Running, FencedBy(r, old, cut, state)
  PROVE  FencedBy(r, new, cut, "run")
<1> DEFINE B == Tool!Begin(r)
           E == Tool!End(r)
<1>0. Tool!Places(old, E) = {} /\ B # E
  BY DEF FencedBy, Tool!Begin, Tool!End, Running
<1>a. /\ \A b, c \in Tool!Places(old, B) : b = c
      /\ Tool!Places(old, B) # {} => r \in Captured
      /\ \A b \in Tool!Places(old, B) :
          /\ \A i \in 1..Len(cut) : old[b + i] = cut[i]
          /\ Len(old) = b + Len(cut)
  BY DEF FencedBy, Running
<1>b. /\ Len(old) \in Nat /\ DOMAIN old = 1..Len(old) /\ DOMAIN new = 1..Len(new) /\ k \in Nat
      /\ Len(new) = Len(old) + 1 - k
      /\ \A j \in 1..Len(old) + 1 - k : new[j] = IF j + k <= Len(old) THEN old[j + k] ELSE E
  BY DEF Appended
<1>1. \A b \in Tool!Places(new, B) : b \in Int /\ b + k \in Tool!Places(old, B)
  BY <1>0, PlacesAppended
<1>2. \A b \in Tool!Places(new, E) : b = Len(new)
  BY <1>0, PlacesAppended
<1> HIDE DEF B, E
<1>3. \A b, c \in Tool!Places(new, B) : b = c
  <2> TAKE b, c \in Tool!Places(new, B)
  <2>1. b + k = c + k
    BY <1>1, <1>a, Zenon
  <2> QED BY <1>b, <1>1, <2>1
<1>4. /\ \A b, c \in Tool!Places(new, E) : b = c
      /\ Tool!Places(new, B) # {} => r \in Captured
  BY <1>1, <1>2, <1>a, Zenon
<1>5. ASSUME NEW b \in Tool!Places(new, B)
      PROVE  /\ \A i \in 1..Len(cut) : new[b + i] = cut[i]
             /\ b + Len(cut) + 1 \in Tool!Places(new, E)
  <2>1. b \in Int /\ b + k \in Tool!Places(old, B) /\ b \in 1..Len(new) /\ Len(cut) \in Nat
    BY <1>b, <1>1 DEF Tool!Places
  <2>2. Len(old) = b + k + Len(cut) /\ \A i \in 1..Len(cut) : old[b + k + i] = cut[i]
    BY <1>a, <2>1
  <2>3. \A i \in 1..Len(cut) : new[b + i] = cut[i]
    <3> TAKE i \in 1..Len(cut)
    <3>1. b + i \in 1..Len(old) + 1 - k /\ (b + i) + k <= Len(old) /\ (b + i) + k = b + k + i
      BY <1>b, <2>1, <2>2
    <3> QED BY <1>b, <2>2, <3>1
  <2>4. b + Len(cut) + 1 \in Tool!Places(new, E)
    <3>1. b + Len(cut) + 1 \in 1..Len(old) + 1 - k /\ ~((b + Len(cut) + 1) + k <= Len(old))
      BY <1>b, <2>1, <2>2
    <3>2. new[b + Len(cut) + 1] = E
      BY <1>b, <3>1
    <3> QED BY <1>b, <3>1, <3>2 DEF Tool!Places
  <2> QED BY <2>3, <2>4
<1> QED BY <1>3, <1>4, <1>5 DEF FencedBy, B, E, Running

\* What is cut out between the fences of a closed window is the window.
LEMMA ExtractedWindow ==
  ASSUME NEW r, NEW buffer \in Seq(Tool!Entries), NEW cut, NEW state,
         state = "run" => cut \in Seq(Tool!Entries), FencedBy(r, buffer, cut, state),
         Tool!Extract(buffer, r) # None
  PROVE  state = "run" /\ Tool!Extract(buffer, r) = Tool!Latest(cut)
<1> DEFINE begins == Tool!Places(buffer, Tool!Begin(r))
           b == Tool!Max(begins)
           ends == {i \in Tool!Places(buffer, Tool!End(r)) : i > b}
<1>1. begins # {} /\ ends # {}
  BY DEF Tool!Extract
<1>2. Tool!Extract(buffer, r) = Tool!Latest(SubSeq(buffer, b + 1, Tool!Min(ends) - 1))
  BY <1>1 DEF Tool!Extract
<1>3. state = "run" /\ cut \in Seq(Tool!Entries) /\ Len(cut) \in Nat
  BY <1>1 DEF FencedBy
<1>4. PICK c \in begins : TRUE
  BY <1>1
<1>5. begins = {c} /\ c \in 1..Len(buffer) /\ c \in Int
  BY <1>4 DEF FencedBy, Tool!Places
<1>6. b = c
  BY <1>5, MaxOfOne
<1> DEFINE e == c + Len(cut) + 1
<1>7. e \in Tool!Places(buffer, Tool!End(r)) /\ \A i \in 1..Len(cut) : buffer[c + i] = cut[i]
  BY <1>3, <1>4 DEF FencedBy
<1>8. e \in Int /\ e \in 1..Len(buffer) /\ e > c /\ e - 1 = c + Len(cut)
  BY <1>3, <1>5, <1>7 DEF Tool!Places
<1>9. ends = {e}
  BY <1>3, <1>6, <1>7, <1>8 DEF FencedBy
<1>10. Tool!Min(ends) = e
  BY <1>8, <1>9, MaxOfOne
<1>11. SubSeq(buffer, c + 1, e - 1) = cut
  <2>1. Len(buffer) \in Nat /\ DOMAIN buffer = 1..Len(buffer)
    OBVIOUS
  <2> DEFINE m == c + 1
             n == c + Len(cut)
             u == SubSeq(buffer, m, n)
  <2>2. m \in Int /\ n \in Int /\ m = c + 1 /\ n = c + Len(cut) /\ e - 1 = n
    BY <1>3, <1>5
  <2>a. \A i \in m..n : buffer[i] \in Tool!Entries
    BY <1>3, <1>5, <1>8, <2>1
  <2> HIDE DEF m, n
  <2>3. /\ u \in Seq(Tool!Entries)
        /\ Len(u) = (IF m <= n THEN n - m + 1 ELSE 0)
        /\ \A i \in 1..n - m + 1 : u[i] = buffer[m + i - 1]
    BY <2>2, <2>a, SubSeqProperties
  <2> HIDE DEF u
  <2>4. Len(u) = Len(cut)
    <3>1. CASE Len(cut) = 0
      BY <1>3, <1>5, <2>2, <2>3, <3>1
    <3>2. CASE Len(cut) # 0
      BY <1>3, <1>5, <2>2, <2>3, <3>2
    <3> QED BY <3>1, <3>2
  <2>5. \A i \in 1..Len(cut) : u[i] = cut[i]
    <3> TAKE i \in 1..Len(cut)
    <3>1. i \in 1..n - m + 1 /\ m + i - 1 = c + i
      BY <1>3, <1>5, <2>2
    <3> QED BY <1>7, <2>3, <3>1
  <2>6. u = cut
    BY <1>3, <2>3, <2>4, <2>5, SeqEqual
  <2> QED BY <2>2, <2>6 DEF u, m
<1> QED BY <1>2, <1>3, <1>6, <1>10, <1>11

-----------------------------------------------------------------------------
(* How a step of one request keeps the parts of the invariant.             *)

\* The instance has operators of its own for what its modules define.
LEMMA SameOperators ==
  /\ \A S : Tool!Cardinality(S) = Cardinality(S) /\ (Tool!IsFiniteSet(S) <=> IsFiniteSet(S))
  /\ \A f : Tool!IsInjective(f) <=> IsInjective(f)
<1>1. \A S : Tool!Cardinality(S) = Cardinality(S)
  BY Zenon DEF Tool!Cardinality, Cardinality
<1>2. \A S : (Tool!IsFiniteSet(S) <=> IsFiniteSet(S))
  BY Zenon DEF Tool!IsFiniteSet, IsFiniteSet
<1>3. \A f : Tool!IsInjective(f) <=> IsInjective(f)
  BY DEF Tool!IsInjective, IsInjective
<1> QED BY <1>1, <1>2, <1>3

States == {"idle", "admitted", "queued", "fenced", "executed", "run", "refused"}
Queued == {"queued", "fenced", "executed"}

\* Only the request of the step moves.
LEMMA Moved ==
  ASSUME at \in [Requests -> States], NEW r \in Requests, NEW v \in States,
         at' = [at EXCEPT ![r] = v]
  PROVE  at' \in [Requests -> States] /\ at'[r] = v /\ \A s \in Requests \ {r} : at'[s] = at[s]
OBVIOUS

\* The count of the submissions under way.
LEMMA Counted ==
  ASSUME IsFiniteSet(Requests), Tool!PendingExact, at \in [Requests -> States],
         NEW r \in Requests, NEW v \in States,
         at' = [at EXCEPT ![r] = v],
         \/ (at[r] \in UnderWay <=> v \in UnderWay) /\ pending' = pending
         \/ at[r] \notin UnderWay /\ v \in UnderWay /\ pending' = pending + 1
         \/ at[r] \in UnderWay /\ v \notin UnderWay /\ pending' = Tool!Max({pending - 1, 0})
  PROVE  Tool!PendingExact' /\ (v \notin UnderWay => pending' \in Nat /\ pending' <= pending)
<1> DEFINE U == {s \in Requests : at[s] \in UnderWay}
           W == {s \in Requests : at'[s] \in UnderWay}
<1>1. pending = Cardinality(U) /\ IsFiniteSet(U) /\ pending \in Nat
  <2>1. pending = Cardinality(U)
    BY SameOperators DEF Tool!PendingExact, UnderWay
  <2>2. IsFiniteSet(U)
    BY FS_Subset
  <2> QED BY <2>1, <2>2, FS_CardinalityType
<1>2. (Tool!PendingExact)' <=> pending' = Cardinality(W)
  BY SameOperators DEF Tool!PendingExact, UnderWay
<1>3. at'[r] = v /\ \A s \in Requests \ {r} : at'[s] = at[s]
  BY Moved
<1>4. CASE (at[r] \in UnderWay <=> v \in UnderWay) /\ pending' = pending
  <2>1. W = U
    BY <1>3, <1>4
  <2> QED BY <1>1, <1>2, <1>4, <2>1
<1>5. CASE at[r] \notin UnderWay /\ v \in UnderWay /\ pending' = pending + 1
  <2>1. W = U \union {r} /\ r \notin U
    BY <1>3, <1>5
  <2>2. Cardinality(W) = Cardinality(U) + 1
    BY <1>1, <2>1, FS_AddElement
  <2> QED BY <1>1, <1>2, <1>5, <2>2
<1>6. CASE at[r] \in UnderWay /\ v \notin UnderWay /\ pending' = Tool!Max({pending - 1, 0})
  <2>1. W = U \ {r} /\ r \in U
    BY <1>3, <1>6
  <2> HIDE DEF U, W
  <2>2. Cardinality(W) = Cardinality(U) - 1
    BY <1>1, <2>1, FS_RemoveElement
  <2>3. IsFiniteSet(W)
    BY <1>1, <2>1, FS_RemoveElement
  <2>4. Cardinality(W) \in Nat
    BY <2>3, FS_CardinalityType
  <2>5. pending' = IF pending - 1 >= 0 THEN pending - 1 ELSE 0
    BY <1>1, <1>6, MaxOfTwo
  <2>6. pending' = pending - 1 /\ pending' \in Nat
    BY <1>1, <2>2, <2>4, <2>5
  <2> QED BY <1>1, <1>2, <2>2, <2>6
<1> QED BY <1>4, <1>5, <1>6

\* The queue and the captures, in a step that leaves the queue.
LEMMA SubmittedKept ==
  ASSUME SubmittedInv, at \in [Requests -> States], captures \in Seq(Requests),
         NEW r \in Requests, NEW v \in States,
         at' = [at EXCEPT ![r] = v],
         submissions' = submissions, at[r] \in Queued <=> v \in Queued,
         v \in {"fenced", "executed"} => submissions # <<>> /\ r = Head(submissions),
         Range(captures') \subseteq Range(captures) \union {r},
         r \in Range(captures') => v \notin {"idle", "refused"}
  PROVE  SubmittedInv'
<1>1. at'[r] = v /\ \A s \in Requests \ {r} : at'[s] = at[s]
  BY Moved
<1>2. \A s \in Range(captures) : s \in Requests
  <2>1. DOMAIN captures = 1..Len(captures) /\ \A i \in 1..Len(captures) : captures[i] \in Requests
    BY ElementOfSeq
  <2> QED BY <2>1 DEF Range
<1>3. IsInjective(submissions)' /\ (\A s \in Requests : s \in Range(submissions) <=> at[s] \in Queued)'
  BY <1>1 DEF SubmittedInv, Queued
<1>4. \A s \in Requests : Open(s)' => submissions # <<>> /\ s = Head(submissions)
  BY <1>1 DEF SubmittedInv, Open, Running
<1>5. \A s \in Range(captures') : at'[s] \notin {"idle", "refused"}
  BY <1>1, <1>2 DEF SubmittedInv
<1> QED BY <1>3, <1>4, <1>5 DEF SubmittedInv, Queued

\* Only one submission runs.
LEMMA OneRuns ==
  ASSUME SubmittedInv, NEW r \in Requests, NEW s \in Requests, Open(s),
         submissions # <<>>, r = Head(submissions)
  PROVE  s = r
BY DEF SubmittedInv

\* The windows, in a step that leaves the log.
LEMMA WindowKept ==
  ASSUME WindowInv, at \in [Requests -> States], NEW r \in Requests, NEW v \in States,
         at' = [at EXCEPT ![r] = v],
         log' = log, window' = window,
         at[r] \notin {"fenced", "executed", "run"}, v \notin {"fenced", "executed", "run"}
  PROVE  WindowInv'
<1>1. at'[r] = v /\ \A s \in Requests \ {r} : at'[s] = at[s]
  BY Moved
<1>2. ASSUME NEW s \in Requests
      PROVE  /\ Open(s)' <=> Open(s)
             /\ at'[s] = "run" <=> at[s] = "run"
             /\ at'[s] = at[s] \/ (s = r /\ ~Open(s)' /\ ~Open(s) /\ at'[s] # "run")
  BY <1>1 DEF Open, Running
<1>3. \A s \in Requests : (window[s] # None <=> Open(s) \/ at[s] = "run")'
  BY <1>2 DEF WindowInv
<1>4. ASSUME NEW s \in Requests PROVE FencedBy(s, log, window[s], at[s])'
  BY <1>2 DEF WindowInv, FencedBy, Open
<1> QED BY <1>3, <1>4 DEF WindowInv

\* What was read, in a step of another request than one that has run.
LEMMA ReadKept ==
  ASSUME ReadInv, at \in [Requests -> States], NEW r \in Requests, NEW v \in States,
         at' = [at EXCEPT ![r] = v],
         read' = read, at[r] # "run", \A s \in Requests : at[s] = "run" => window'[s] = window[s]
  PROVE  ReadInv'
<1>1. at'[r] = v /\ \A s \in Requests \ {r} : at'[s] = at[s]
  BY Moved
<1>2. ASSUME NEW s \in Requests, read[s] # None
      PROVE  at'[s] = "run" /\ read[s] = Tool!Latest(window'[s])
  BY <1>1, <1>2 DEF ReadInv
<1> QED BY <1>2 DEF ReadInv, Tool!Latest

\* The published events, in a step that publishes none.
LEMMA EventsKept ==
  ASSUME EventsInv, at \in [Requests -> States], NEW r \in Requests, NEW v \in States,
         at' = [at EXCEPT ![r] = v],
         events' = events, typed' = typed,
         at[r] \in {"executed", "run"} <=> v \in {"executed", "run"}
  PROVE  EventsInv'
<1>1. at'[r] = v /\ \A s \in Requests \ {r} : at'[s] = at[s]
  BY Moved
<1> QED BY <1>1 DEF EventsInv

-----------------------------------------------------------------------------
(* The steps.                                                              *)

LEMMA InvInitially ==
  ASSUME Tool!ConsoleAssumption, Tool!Init PROVE ConsoleInv
<1>1. \A S : Range(<<>>) = {} /\ IsInjective(<<>>) /\ <<>> \in Seq(S) /\ Len(<<>>) = 0
  BY DEF Range, IsInjective
<1>2. Tool!TypeOK
  BY <1>1, SameOperators DEF Tool!Init, Tool!TypeOK, Tool!ConsoleAssumption
<1>3. Tool!PendingExact
  <2>1. {r \in Requests : at[r] \in {"admitted", "queued", "fenced", "executed"}} = {}
    BY DEF Tool!Init
  <2> QED BY <2>1, SameOperators, FS_EmptySet DEF Tool!Init, Tool!PendingExact
<1>4. SubmittedInv
  BY <1>1 DEF Tool!Init, SubmittedInv, Open, Running
<1>5. WindowInv
  <2>1. \A x : Tool!Places(log, x) = {}
    BY DEF Tool!Init, Tool!Places
  <2> QED BY <2>1 DEF Tool!Init, WindowInv, FencedBy, Open, Running
<1>6. ReadInv /\ EventsInv
  BY <1>1 DEF Tool!Init, ReadInv, EventsInv
<1> QED BY <1>2, <1>3, <1>4, <1>5, <1>6 DEF ConsoleInv

\* What is used of the types.
LEMMA Types ==
  ASSUME Tool!ConsoleAssumption, Tool!TypeOK
  PROVE  /\ IsFiniteSet(Requests) /\ Captured \subseteq Requests /\ None \notin Seq(Tool!Entries)
         /\ MaxCaptures \in Nat /\ MaxPending \in Nat /\ MaxLines \in Nat /\ MaxLog \in Nat
         /\ MaxTyped \in Nat
         /\ captures \in Seq(Captured) /\ captures \in Seq(Requests) /\ IsInjective(captures)
         /\ Len(captures) <= MaxCaptures
         /\ at \in [Requests -> States] /\ submissions \in Seq(Requests)
         /\ log \in Seq(Tool!Entries)
<1>1. captures \in Seq(Captured) /\ Captured \subseteq Requests
  BY DEF Tool!ConsoleAssumption, Tool!TypeOK
<1>2. captures \in Seq(Requests)
  BY <1>1, SeqMonotone
<1> QED BY <1>1, <1>2, SameOperators DEF Tool!ConsoleAssumption, Tool!TypeOK, States

\* The oldest captures go as one comes, and the count rises with the request.
LEMMA InvAdmit ==
  ASSUME Tool!ConsoleAssumption, ConsoleInv, NEW r \in Requests, Tool!Admit(r) /\ UNCHANGED lines
  PROVE  ConsoleInv'
<1> USE Types
<1>0. Tool!TypeOK /\ Tool!PendingExact /\ SubmittedInv /\ WindowInv /\ ReadInv /\ EventsInv
  BY DEF ConsoleInv
<1>1. /\ at[r] = "idle" /\ pending < MaxPending /\ pending' = pending + 1
      /\ captures' = IF r \in Captured THEN Tool!AddCapture(r) ELSE captures
      /\ at' = [at EXCEPT ![r] = "admitted"] /\ submissions' = submissions
      /\ observer' = observer /\ log' = log /\ brokered' = brokered /\ window' = window
      /\ events' = events
      /\ typed' = typed /\ reading' = reading /\ read' = read /\ lines' = lines
  BY DEF Tool!Admit, Tool!logVars
<1>2. /\ captures' \in Seq(Captured) /\ Len(captures') <= MaxCaptures /\ IsInjective(captures')
      /\ Range(captures') \subseteq Range(captures) \union {r}
  <2>1. CASE r \notin Captured
    BY <1>0, <1>1, <2>1
  <2>2. CASE r \in Captured
    <3> DEFINE order == Append(captures, r)
    <3>1. r \notin Range(captures)
      BY <1>0, <1>1 DEF SubmittedInv
    <3>2. order \in Seq(Captured) /\ IsInjective(order) /\ Range(order) = Range(captures) \union {r}
      BY <1>0, <2>2, <3>1, AppendProperties, AppendDistinct
    <3>3. captures' = SubSeq(order, Tool!Max({1, Len(order) - MaxCaptures + 1}), Len(order))
      BY <1>1, <2>2 DEF Tool!AddCapture
    <3> HIDE DEF order
    <3>4. MaxCaptures \in Nat
      BY <1>0
    <3> QED BY <3>2, <3>3, <3>4, LatestDistinct
  <2> QED BY <2>1, <2>2
<1>3. Tool!TypeOK'
  <2>1. at' \in [Requests -> States]
    BY <1>0, <1>1 DEF States
  <2> QED BY SMTT(30), <1>0, <1>1, <1>2, <2>1, SameOperators DEF Tool!TypeOK, States
<1>4. Tool!PendingExact'
  BY <1>0, <1>1, Counted DEF UnderWay, States
<1>5. SubmittedInv'
  BY <1>0, <1>1, <1>2, SubmittedKept DEF Queued, States
<1>6. WindowInv' /\ ReadInv' /\ EventsInv'
  BY <1>0, <1>1, WindowKept, ReadKept, EventsKept DEF States
<1> QED BY <1>3, <1>4, <1>5, <1>6 DEF ConsoleInv

\* A request is refused at once, or as its queueing fails; both leave the queue alone.
LEMMA InvRefused ==
  ASSUME Tool!ConsoleAssumption, ConsoleInv, NEW r \in Requests,
         (Tool!TooMany(r) \/ Tool!NotQueued(r)) /\ UNCHANGED lines
  PROVE  ConsoleInv'
<1> USE Types
<1>0. Tool!TypeOK /\ Tool!PendingExact /\ SubmittedInv /\ WindowInv /\ ReadInv /\ EventsInv
  BY DEF ConsoleInv
<1>1. /\ at' = [at EXCEPT ![r] = "refused"] /\ submissions' = submissions
      /\ observer' = observer /\ log' = log /\ brokered' = brokered /\ window' = window
      /\ events' = events
      /\ typed' = typed /\ reading' = reading /\ read' = read /\ lines' = lines
      /\ \/ at[r] = "idle" /\ pending' = pending /\ captures' = captures
         \/ at[r] = "admitted" /\ pending' = Tool!Max({pending - 1, 0}) /\ captures' = Tool!RemoveFirst(captures, r)
  BY DEF Tool!TooMany, Tool!NotQueued, Tool!RemoveCapture, Tool!logVars
<1>2. /\ captures' \in Seq(Captured) /\ Len(captures') <= MaxCaptures /\ IsInjective(captures')
      /\ Range(captures') \subseteq Range(captures) /\ r \notin Range(captures')
  <2>1. CASE at[r] = "idle" /\ captures' = captures
    BY <1>0, <2>1 DEF SubmittedInv
  <2>2. CASE captures' = Tool!RemoveFirst(captures, r)
    <3>1. /\ captures' \in Seq(Captured) /\ Len(captures') <= Len(captures)
          /\ IsInjective(captures') /\ Range(captures') = Range(captures) \ {r}
      BY <1>0, <2>2, FirstRemoved
    <3>2. Len(captures) <= MaxCaptures /\ Len(captures) \in Nat /\ Len(captures') \in Nat
          /\ MaxCaptures \in Nat
      BY <1>0, <3>1
    <3> QED BY <3>1, <3>2
  <2> QED BY <1>1, <2>1, <2>2
<1>3. Tool!PendingExact' /\ pending' \in Nat /\ pending' <= pending
  <2>1. "refused" \in States /\ "refused" \notin UnderWay /\ (at[r] = "idle" => at[r] \notin UnderWay)
        /\ (at[r] = "admitted" => at[r] \in UnderWay)
    BY DEF States, UnderWay
  <2> QED BY <1>0, <1>1, <2>1, Counted
<1>4. Tool!TypeOK'
  <2>1. at' \in [Requests -> States]
    BY <1>0, <1>1 DEF States
  <2>2. pending' \in 0..MaxPending
    BY <1>0, <1>3 DEF Tool!TypeOK
  <2> QED BY <1>0, <1>1, <1>2, <2>1, <2>2, SameOperators DEF Tool!TypeOK, States
<1>5. SubmittedInv'
  BY <1>0, <1>1, <1>2, SubmittedKept DEF Queued, States
<1>6. WindowInv' /\ ReadInv' /\ EventsInv'
  BY <1>0, <1>1, WindowKept, ReadKept, EventsKept DEF States
<1> QED BY <1>3, <1>4, <1>5, <1>6 DEF ConsoleInv

\* A submission goes to the end of the queue, behind what runs.
LEMMA InvQueue ==
  ASSUME Tool!ConsoleAssumption, ConsoleInv, NEW r \in Requests, Tool!Queue(r) /\ UNCHANGED lines
  PROVE  ConsoleInv'
<1> USE Types
<1>0. Tool!TypeOK /\ Tool!PendingExact /\ SubmittedInv /\ WindowInv /\ ReadInv /\ EventsInv
  BY DEF ConsoleInv
<1>1. /\ at[r] = "admitted" /\ at' = [at EXCEPT ![r] = "queued"]
      /\ submissions' = Append(submissions, r)
      /\ pending' = pending /\ captures' = captures
      /\ observer' = observer /\ log' = log /\ brokered' = brokered /\ window' = window
      /\ events' = events
      /\ typed' = typed /\ reading' = reading /\ read' = read /\ lines' = lines
  BY DEF Tool!Queue, Tool!logVars
<1>2. at' \in [Requests -> States] /\ at'[r] = "queued" /\ \A s \in Requests \ {r} : at'[s] = at[s]
  BY <1>0, <1>1, Moved DEF States
<1>3. submissions' \in Seq(Requests) /\ IsInjective(submissions)'
      /\ Range(submissions') = Range(submissions) \union {r}
  <2>1. r \notin Range(submissions) /\ IsInjective(submissions)
    BY <1>0, <1>1 DEF SubmittedInv
  <2> QED BY <1>0, <1>1, <2>1, AppendProperties, AppendDistinct
<1>4. Tool!TypeOK'
  BY <1>0, <1>1, <1>2, <1>3, SameOperators DEF Tool!TypeOK, States
<1>5. Tool!PendingExact'
  BY <1>0, <1>1, Counted DEF UnderWay, States
<1>6. SubmittedInv'
  <2>1. \A s \in Requests : s \in Range(submissions') <=> at'[s] \in {"queued", "fenced", "executed"}
    BY <1>0, <1>1, <1>2, <1>3 DEF SubmittedInv
  <2>2. ASSUME NEW s \in Requests, Open(s)' PROVE submissions' # <<>> /\ s = Head(submissions')
    <3>1. Open(s) /\ submissions # <<>> /\ s = Head(submissions)
      BY <1>0, <1>2, <2>2 DEF Open, Running, SubmittedInv
    <3>2. Len(submissions) \in Nat \ {0} /\ Head(submissions) = submissions[1]
      BY <1>0, <3>1
    <3>3. Len(submissions') = Len(submissions) + 1 /\ submissions'[1] = submissions[1]
          /\ submissions' \in Seq(Requests)
      BY <1>0, <1>1, <3>2, AppendProperties
    <3>4. submissions' # <<>> /\ Head(submissions') = submissions'[1]
      BY <3>2, <3>3
    <3> QED BY <3>1, <3>2, <3>3, <3>4
  <2>3. \A s \in Range(captures) : at'[s] \notin {"idle", "refused"}
    BY <1>0, <1>1, <1>2, SubmittedKept DEF SubmittedInv
  <2> QED BY <1>1, <1>3, <2>1, <2>2, <2>3 DEF SubmittedInv
<1>7. WindowInv' /\ ReadInv' /\ EventsInv'
  BY <1>0, <1>1, WindowKept, ReadKept, EventsKept DEF States
<1> QED BY <1>4, <1>5, <1>6, <1>7 DEF ConsoleInv

\* The window of a request in a step that logs what is not a fence of its own.
LEMMA WindowGrows ==
  ASSUME Tool!ConsoleAssumption, Tool!TypeOK, WindowInv, NEW e \in Tool!Entries, log' = Tool!Logged(<<e>>),
         NEW s \in Requests, e # Tool!Begin(s), e # Tool!End(s), Open(s)' <=> Open(s),
         at'[s] = "run" <=> at[s] = "run",
         window'[s] = IF Open(s) THEN Append(window[s], e) ELSE window[s]
  PROVE  /\ (window[s] # None <=> Open(s) \/ at[s] = "run")'
         /\ FencedBy(s, log, window[s], at[s])'
<1>0. log \in Seq(Tool!Entries) /\ MaxLog \in Nat /\ None \notin Seq(Tool!Entries)
  BY Types
<1>1. window[s] \in Seq(Tool!Entries) \union {None} /\ (window[s] # None <=> Open(s) \/ at[s] = "run")
  BY DEF Tool!TypeOK, WindowInv
<1>2. Open(s) \/ at[s] = "run" => window[s] \in Seq(Tool!Entries)
  BY <1>1
<1>3. (window[s] # None <=> Open(s) \/ at[s] = "run")'
  <2>1. CASE Open(s)
    <3>1. window'[s] \in Seq(Tool!Entries)
      BY <1>2, <2>1, AppendProperties
    <3> QED BY <1>0, <2>1, <3>1
  <2>2. CASE ~Open(s)
    BY <1>1, <2>2
  <2> QED BY <2>1, <2>2
<1>4. log' \in Seq(Tool!Entries) /\ \E k \in Nat : Appended(log', log, e, k)
  BY <1>0, LoggedEntry
<1>5. PICK k \in Nat : Appended(log', log, e, k)
  BY <1>4
<1>6. FencedBy(s, log, window[s], at[s])
  BY DEF WindowInv
<1>7. FencedBy(s, log', window'[s], at[s])
  BY <1>0, <1>2, <1>4, <1>5, <1>6, FencedGrows DEF Open
<1>8. FencedBy(s, log, window[s], at[s])'
  BY <1>7 DEF FencedBy, Open
<1> QED BY <1>3, <1>8

\* The submission that runs is the first, and no other one has begun.
LEMMA FirstRuns ==
  ASSUME Tool!ConsoleAssumption, Tool!TypeOK, SubmittedInv, submissions # <<>>
  PROVE  Head(submissions) \in Requests /\ \A s \in Requests : Open(s) => s = Head(submissions)
<1>1. Head(submissions) \in Range(submissions) /\ Head(submissions) \in Requests
  BY Types, TailDistinct
<1> QED BY <1>1 DEF SubmittedInv

\* The first submission logs its begin fence, which opens its window.
LEMMA InvRunBegin ==
  ASSUME Tool!ConsoleAssumption, ConsoleInv, Tool!RunBegin /\ UNCHANGED lines
  PROVE  ConsoleInv'
<1> USE Types
<1>0. Tool!TypeOK /\ Tool!PendingExact /\ SubmittedInv /\ WindowInv /\ ReadInv /\ EventsInv
  BY DEF ConsoleInv
<1>a. submissions # <<>>
  BY DEF Tool!RunBegin
<1>b. PICK r \in Requests : r = Head(submissions)
  BY <1>0, <1>a, FirstRuns
<1>1. /\ submissions # <<>> /\ at[r] = "queued" /\ at' = [at EXCEPT ![r] = "fenced"]
      /\ submissions' = submissions
      /\ log' = IF r \in Captured THEN Tool!Logged(<<Tool!Begin(r)>>) ELSE log
      /\ window' = [window EXCEPT ![r] = <<>>]
      /\ pending' = pending /\ captures' = captures
      /\ observer' = observer /\ brokered' = brokered /\ events' = events
      /\ typed' = typed /\ reading' = reading /\ read' = read /\ lines' = lines
  BY <1>b DEF Tool!RunBegin
<1>2. \A s \in Requests : ~Open(s)
  BY <1>0, <1>1, <1>b, FirstRuns DEF Open, Running
<1>3. at' \in [Requests -> States] /\ at'[r] = "fenced" /\ \A s \in Requests \ {r} : at'[s] = at[s]
  BY <1>0, <1>1, <1>2, Moved DEF States
<1>4. <<>> \in Seq(Tool!Entries) /\ None \notin Seq(Tool!Entries)
      /\ window \in [Requests -> Seq(Tool!Entries) \union {None}]
  BY <1>0 DEF Tool!TypeOK
<1>5. window'[r] = <<>> /\ \A s \in Requests \ {r} : window'[s] = window[s]
  BY <1>1, <1>2, <1>4
<1>6. r \in Captured => Tool!Begin(r) \in Tool!Entries
  BY <1>2 DEF Tool!Begin, Tool!Entries
<1>7. log' \in Seq(Tool!Entries) /\ Len(log') <= MaxLog
  <2>1. CASE r \in Captured
    BY <1>0, <1>1, <1>6, <2>1, LoggedEntry
  <2>2. CASE r \notin Captured
    BY <1>0, <1>1, <2>2 DEF Tool!TypeOK
  <2> QED BY <2>1, <2>2
<1>8. Tool!TypeOK'
  <2>1. window' \in [Requests -> Seq(Tool!Entries) \union {None}]
    BY <1>1, <1>4
  <2> QED BY <1>0, <1>1, <1>3, <1>7, <2>1, SameOperators DEF Tool!TypeOK, States
<1>9. Tool!PendingExact'
  BY <1>0, <1>1, <1>2, Counted DEF UnderWay, States
<1>10. SubmittedInv'
  <2>1. r \in Range(captures') => "fenced" \notin {"idle", "refused"}
    OBVIOUS
  <2> QED BY <1>0, <1>1, <1>b, SubmittedKept DEF Queued, States
<1>11. WindowInv'
  <2>1. FencedBy(r, log, window[r], at[r]) /\ at[r] \notin Running /\ at[r] # "run"
    BY <1>0, <1>1 DEF WindowInv, Running
  <2>2. ASSUME NEW s \in Requests
        PROVE  /\ (window[s] # None <=> Open(s) \/ at[s] = "run")'
               /\ FencedBy(s, log, window[s], at[s])'
    <3>1. CASE s = r
      <4>1. CASE r \in Captured
        <5>1. PICK k \in Nat : Appended(log', log, Tool!Begin(r), k)
          BY <1>0, <1>1, <1>6, <4>1, LoggedEntry
        <5>2. FencedBy(r, log', <<>>, "fenced")
          BY <1>0, <1>7, <2>1, <4>1, <5>1, FencedBegins
        <5>3. FencedBy(r, log', window'[r], at'[r])
          BY <1>3, <1>5, <5>2
        <5>4. FencedBy(r, log, window[r], at[r])'
          BY <5>3 DEF FencedBy
        <5> QED BY <1>3, <1>4, <1>5, <3>1, <5>4 DEF Open, Running
      <4>2. CASE r \notin Captured
        <5>1. log' = log /\ Tool!Places(log, Tool!Begin(r)) = {}
              /\ Tool!Places(log, Tool!End(r)) = {}
          BY <1>1, <2>1, <4>2 DEF FencedBy
        <5> QED BY <1>3, <1>4, <1>5, <3>1, <5>1 DEF FencedBy, Open, Running
      <4> QED BY <4>1, <4>2
    <3>2. CASE s # r
      <4>1. at'[s] = at[s] /\ window'[s] = window[s] /\ ~Open(s) /\ (Open(s)' <=> Open(s))
        BY <1>2, <1>3, <1>5, <3>2 DEF Open
      <4>2. CASE r \in Captured
        <5>1. Tool!Begin(r) # Tool!Begin(s) /\ Tool!Begin(r) # Tool!End(s)
          BY <3>2 DEF Tool!Begin, Tool!End
        <5> QED BY <1>0, <1>1, <1>6, <4>1, <4>2, <5>1, WindowGrows
      <4>3. CASE r \notin Captured
        BY <1>0, <1>1, <4>1, <4>3 DEF WindowInv, FencedBy
      <4> QED BY <4>2, <4>3
    <3> QED BY <3>1, <3>2
  <2> QED BY <2>2 DEF WindowInv
<1>12. ReadInv'
  BY <1>0, <1>1, <1>2, <1>5, ReadKept DEF States
<1>13. EventsInv'
  BY <1>0, <1>1, <1>2, EventsKept DEF States
<1> QED BY <1>8, <1>9, <1>10, <1>11, <1>12, <1>13 DEF ConsoleInv

\* Its command runs, is published, and what the back end marked is consumed.
LEMMA InvRunCommand ==
  ASSUME Tool!ConsoleAssumption, ConsoleInv, Tool!RunCommand /\ UNCHANGED lines
  PROVE  ConsoleInv'
<1> USE Types
<1>0. Tool!TypeOK /\ Tool!PendingExact /\ SubmittedInv /\ WindowInv /\ ReadInv /\ EventsInv
  BY DEF ConsoleInv
<1>a. submissions # <<>>
  BY DEF Tool!RunCommand
<1>b. PICK r \in Requests : r = Head(submissions)
  BY <1>0, <1>a, FirstRuns
<1> DEFINE e == Tool!Line(r)
<1>1. /\ at[r] = "fenced" /\ at' = [at EXCEPT ![r] = "executed"] /\ submissions' = submissions
      /\ log' = Tool!Logged(<<e>>) /\ window' = [window EXCEPT ![r] = Append(@, e)]
      /\ brokered' = (IF observer = "skyrimse" THEN Tool!ConsumeBroker(Append(brokered, r), r) ELSE brokered)
      /\ events' = [events EXCEPT !["broker"] = Append(@, r)]
      /\ pending' = pending /\ captures' = captures /\ observer' = observer
      /\ typed' = typed /\ reading' = reading /\ read' = read /\ lines' = lines
  BY <1>b DEF Tool!RunCommand, Tool!Observe, Tool!Published
<1>2. \A s \in Requests : Open(s) => s = r
  BY <1>0, <1>a, <1>b, FirstRuns
<1>3. at' \in [Requests -> States] /\ at'[r] = "executed"
      /\ \A s \in Requests \ {r} : at'[s] = at[s]
  BY <1>0, <1>1, <1>2, Moved DEF States
<1>4. e \in Tool!Entries /\ \A s \in Requests : e # Tool!Begin(s) /\ e # Tool!End(s)
  BY DEF Tool!Line, Tool!Begin, Tool!End, Tool!Entries
<1> HIDE DEF e
<1>5. /\ window \in [Requests -> Seq(Tool!Entries) \union {None}]
      /\ window[r] \in Seq(Tool!Entries) /\ Open(r)
      /\ events \in [broker : Seq(Requests), typed : Seq({"player"})] /\ brokered = <<>>
  BY <1>0, <1>1 DEF Tool!TypeOK, WindowInv, Open, Running
<1>6. /\ window' \in [Requests -> Seq(Tool!Entries) \union {None}]
      /\ window'[r] = Append(window[r], e) /\ \A s \in Requests \ {r} : window'[s] = window[s]
  BY <1>1, <1>4, <1>5, AppendProperties
<1>7. log' \in Seq(Tool!Entries) /\ Len(log') <= MaxLog
  BY <1>0, <1>1, <1>4, LoggedEntry
<1>8. brokered' = <<>>
  BY <1>1, <1>5, MarkedConsumed
<1>9. events'.broker = Append(events.broker, r) /\ events'.typed = events.typed
      /\ events' \in [broker : Seq(Requests), typed : Seq({"player"})]
  BY <1>1, <1>5, AppendProperties
<1>10. Tool!TypeOK'
  BY <1>0, <1>1, <1>3, <1>6, <1>7, <1>8, <1>9, SameOperators DEF Tool!TypeOK, States
<1>11. Tool!PendingExact'
  BY <1>0, <1>1, Counted DEF UnderWay, States
<1>12. SubmittedInv'
  <2>1. r \in Range(captures') => "executed" \notin {"idle", "refused"}
    OBVIOUS
  <2> QED BY <1>0, <1>1, <1>a, <1>b, SubmittedKept DEF Queued, States
<1>13. WindowInv'
  <2>1. ASSUME NEW s \in Requests
        PROVE  /\ (window[s] # None <=> Open(s) \/ at[s] = "run")'
               /\ FencedBy(s, log, window[s], at[s])'
    <3>1. (Open(s)' <=> Open(s)) /\ (at'[s] = "run" <=> at[s] = "run")
      BY <1>1, <1>3 DEF Open, Running
    <3>2. window'[s] = IF Open(s) THEN Append(window[s], e) ELSE window[s]
      BY <1>2, <1>5, <1>6
    <3> QED BY <1>0, <1>1, <1>4, <3>1, <3>2, WindowGrows
  <2> QED BY <2>1 DEF WindowInv
<1>14. ReadInv'
  BY <1>0, <1>1, <1>6, ReadKept DEF States
<1>15. EventsInv'
  <2>1. r \notin Range(events.broker) /\ events.broker \in Seq(Requests)
        /\ IsInjective(events.broker)
    BY <1>0, <1>1, <1>5 DEF EventsInv
  <2>2. Range(events'.broker) = Range(events.broker) \union {r} /\ IsInjective(events'.broker)
    BY <1>9, <2>1, AppendDistinct
  <2> QED BY <1>0, <1>1, <1>3, <1>9, <2>2 DEF EventsInv
<1> QED BY <1>10, <1>11, <1>12, <1>13, <1>14, <1>15 DEF ConsoleInv

\* Its end fence closes the window, and it leaves the queue and the count.
LEMMA InvRunEnd ==
  ASSUME Tool!ConsoleAssumption, ConsoleInv, Tool!RunEnd /\ UNCHANGED lines
  PROVE  ConsoleInv'
<1> USE Types
<1>0. Tool!TypeOK /\ Tool!PendingExact /\ SubmittedInv /\ WindowInv /\ ReadInv /\ EventsInv
  BY DEF ConsoleInv
<1>a. submissions # <<>>
  BY DEF Tool!RunEnd
<1>b. PICK r \in Requests : r = Head(submissions)
  BY <1>0, <1>a, FirstRuns
<1>1. /\ at[r] = "executed" /\ at' = [at EXCEPT ![r] = "run"] /\ submissions' = Tail(submissions)
      /\ log' = IF r \in Captured THEN Tool!Logged(<<Tool!End(r)>>) ELSE log
      /\ pending' = Tool!Max({pending - 1, 0})
      /\ captures' = captures /\ observer' = observer /\ brokered' = brokered /\ window' = window
      /\ events' = events /\ typed' = typed /\ reading' = reading /\ read' = read /\ lines' = lines
  BY <1>b DEF Tool!RunEnd
<1>2. \A s \in Requests : Open(s) => s = r
  BY <1>0, <1>a, <1>b, FirstRuns
<1>3. at' \in [Requests -> States] /\ at'[r] = "run" /\ \A s \in Requests \ {r} : at'[s] = at[s]
  BY <1>0, <1>1, <1>2, Moved DEF States
<1>4. \A s \in Requests : ~Open(s)'
  BY <1>2, <1>3 DEF Open, Running
<1>5. Tool!End(r) \in Tool!Entries
  BY DEF Tool!End, Tool!Entries
<1>6. log' \in Seq(Tool!Entries) /\ Len(log') <= MaxLog
  <2>1. CASE r \in Captured
    BY <1>0, <1>1, <1>5, <2>1, LoggedEntry
  <2>2. CASE r \notin Captured
    BY <1>0, <1>1, <2>2 DEF Tool!TypeOK
  <2> QED BY <2>1, <2>2
<1>7. submissions' \in Seq(Requests) /\ IsInjective(submissions)'
      /\ Range(submissions') = Range(submissions) \ {r}
  <2>1. IsInjective(submissions)
    BY <1>0 DEF SubmittedInv
  <2> QED BY <1>0, <1>1, <1>a, <1>b, <2>1, TailDistinct
<1>8. Tool!PendingExact' /\ pending' \in Nat /\ pending' <= pending
  BY <1>0, <1>1, Counted DEF UnderWay, States
<1>9. Tool!TypeOK'
  <2>1. pending' \in 0..MaxPending
    BY <1>0, <1>8 DEF Tool!TypeOK
  <2> QED BY <1>0, <1>1, <1>3, <1>6, <1>7, <2>1, SameOperators DEF Tool!TypeOK, States
<1>10. SubmittedInv'
  <2>1. \A s \in Requests : s \in Range(submissions') <=> at'[s] \in {"queued", "fenced", "executed"}
    BY <1>0, <1>1, <1>3, <1>7 DEF SubmittedInv
  <2>2. \A s \in Range(captures') : at'[s] \notin {"idle", "refused"}
    BY <1>0, <1>1, <1>3 DEF SubmittedInv
  <2> QED BY <1>4, <1>7, <2>1, <2>2 DEF SubmittedInv
<1>11. WindowInv'
  <2>1. window[r] \in Seq(Tool!Entries) /\ FencedBy(r, log, window[r], at[r])
        /\ at[r] \in Running /\ window[r] # None
    BY <1>0, <1>1 DEF WindowInv, Tool!TypeOK, Open, Running
  <2>2. ASSUME NEW s \in Requests
        PROVE  /\ (window[s] # None <=> Open(s) \/ at[s] = "run")'
               /\ FencedBy(s, log, window[s], at[s])'
    <3>1. CASE s = r
      <4>1. FencedBy(r, log', window[r], "run")
        <5>1. CASE r \in Captured
          <6>1. PICK k \in Nat : Appended(log', log, Tool!End(r), k)
            BY <1>0, <1>1, <1>5, <5>1, LoggedEntry
          <6> QED BY <1>0, <1>6, <2>1, <6>1, FencedEnds
        <5>2. CASE r \notin Captured
          <6>1. log' = log /\ Tool!Places(log, Tool!Begin(r)) = {}
                /\ Tool!Places(log, Tool!End(r)) = {}
            BY <1>1, <2>1, <5>2 DEF FencedBy, Running
          <6> QED BY <6>1 DEF FencedBy
        <5> QED BY <5>1, <5>2
      <4>2. FencedBy(r, log', window'[r], at'[r])
        BY <1>1, <1>3, <4>1
      <4>3. FencedBy(r, log, window[r], at[r])'
        BY <4>2 DEF FencedBy
      <4> QED BY <1>1, <1>3, <2>1, <3>1, <4>3
    <3>2. CASE s # r
      <4>1. at'[s] = at[s] /\ window'[s] = window[s] /\ ~Open(s) /\ (Open(s)' <=> Open(s))
        BY <1>1, <1>2, <1>3, <3>2 DEF Open
      <4>2. CASE r \in Captured
        <5>1. Tool!End(r) # Tool!Begin(s) /\ Tool!End(r) # Tool!End(s)
          BY <3>2 DEF Tool!Begin, Tool!End
        <5> QED BY <1>0, <1>1, <1>5, <4>1, <4>2, <5>1, WindowGrows
      <4>3. CASE r \notin Captured
        BY <1>0, <1>1, <4>1, <4>3 DEF WindowInv, FencedBy
      <4> QED BY <4>2, <4>3
    <3> QED BY <3>1, <3>2
  <2> QED BY <2>2 DEF WindowInv
<1>12. ReadInv'
  BY <1>0, <1>1, ReadKept DEF States
<1>13. EventsInv'
  BY <1>0, <1>1, EventsKept DEF States
<1> QED BY <1>8, <1>9, <1>10, <1>11, <1>12, <1>13 DEF ConsoleInv

\* The player types, or the game prints.
LEMMA InvFromOutside ==
  ASSUME Tool!ConsoleAssumption, ConsoleInv, (Tool!Typed /\ UNCHANGED lines) \/ Tool!Prints
  PROVE  ConsoleInv'
<1> USE Types
<1>0. Tool!TypeOK /\ Tool!PendingExact /\ SubmittedInv /\ WindowInv /\ ReadInv /\ EventsInv
  BY DEF ConsoleInv
<1>1. PICK w \in {"player", "game"} :
        /\ log' = Tool!Logged(<<Tool!Line(w)>>)
        /\ w = "player" => /\ typed < MaxTyped /\ typed' = typed + 1 /\ lines' = lines /\ window' = window
                           /\ \A s \in Requests : ~Open(s)
                           /\ events' = [events EXCEPT !["typed"] = Append(@, "player")]
        /\ w = "game" => /\ lines < MaxTyped /\ lines' = lines + 1 /\ typed' = typed /\ events' = events
                         /\ window' = [s \in Requests |->
                                        IF Open(s) THEN Append(window[s], Tool!Line(w)) ELSE window[s]]
        /\ at' = at /\ submissions' = submissions /\ pending' = pending /\ captures' = captures
        /\ observer' = observer /\ brokered' = brokered /\ reading' = reading /\ read' = read
  <2>1. CASE Tool!Typed /\ UNCHANGED lines
    BY <2>1 DEF Tool!Typed, Tool!Published, Tool!toolVars, Open, Running
  <2>2. CASE Tool!Prints
    BY <2>2 DEF Tool!Prints, Tool!toolVars, Open, Running
  <2> QED BY <2>1, <2>2
<1> DEFINE e == Tool!Line(w)
<1>2. e \in Tool!Entries /\ \A s \in Requests : e # Tool!Begin(s) /\ e # Tool!End(s)
  BY DEF Tool!Line, Tool!Begin, Tool!End, Tool!Entries
<1> HIDE DEF e
<1>3. log' = Tool!Logged(<<e>>) /\ log' \in Seq(Tool!Entries) /\ Len(log') <= MaxLog
  BY <1>0, <1>1, <1>2, LoggedEntry DEF e
<1>4. window \in [Requests -> Seq(Tool!Entries) \union {None}]
      /\ \A s \in Requests : Open(s) => window[s] \in Seq(Tool!Entries)
  BY <1>0 DEF Tool!TypeOK, WindowInv
<1>5. \A s \in Requests : window'[s] = IF Open(s) THEN Append(window[s], e) ELSE window[s]
  BY <1>1 DEF e
<1>6. window' \in [Requests -> Seq(Tool!Entries) \union {None}]
  <2>1. CASE w = "player"
    BY <1>1, <1>4, <2>1
  <2>2. CASE w = "game"
    <3>1. \A s \in Requests : Open(s) => Append(window[s], e) \in Seq(Tool!Entries)
      BY <1>2, <1>4, AppendProperties
    <3> QED BY <1>1, <1>4, <2>2, <3>1 DEF e
  <2> QED BY <2>1, <2>2
<1>7. /\ events' \in [broker : Seq(Requests), typed : Seq({"player"})]
      /\ events'.broker = events.broker
      /\ typed' \in 0..MaxTyped /\ lines' \in 0..MaxTyped /\ Len(events'.typed) = typed'
  <2>1. /\ events \in [broker : Seq(Requests), typed : Seq({"player"})] /\ Len(events.typed) = typed
        /\ typed \in 0..MaxTyped /\ lines \in 0..MaxTyped /\ MaxTyped \in Nat
    BY <1>0 DEF Tool!TypeOK, EventsInv
  <2>2. CASE w = "player"
    <3>1. Append(events.typed, "player") \in Seq({"player"})
          /\ Len(Append(events.typed, "player")) = typed + 1
      BY <2>1, AppendProperties
    <3>2. typed' \in 0..MaxTyped /\ lines' \in 0..MaxTyped /\ typed' = typed + 1
      BY <1>1, <2>1, <2>2
    <3> QED BY <1>1, <2>1, <2>2, <3>1, <3>2
  <2>3. CASE w = "game"
    BY <1>1, <2>1, <2>3
  <2> QED BY <2>2, <2>3
<1>8. Tool!TypeOK'
  BY <1>0, <1>1, <1>3, <1>6, <1>7, SameOperators DEF Tool!TypeOK
<1>9. Tool!PendingExact' /\ SubmittedInv'
  BY <1>0, <1>1 DEF Tool!PendingExact, SubmittedInv, Open
<1>10. WindowInv'
  <2>1. ASSUME NEW s \in Requests
        PROVE  /\ (window[s] # None <=> Open(s) \/ at[s] = "run")'
               /\ FencedBy(s, log, window[s], at[s])'
    <3>1. (Open(s)' <=> Open(s)) /\ (at'[s] = "run" <=> at[s] = "run")
      BY <1>1 DEF Open
    <3> QED BY <1>0, <1>2, <1>3, <1>5, <3>1, WindowGrows
  <2> QED BY <2>1 DEF WindowInv
<1>11. ReadInv'
  <2>1. ASSUME NEW s \in Requests, read[s] # None
        PROVE at[s] = "run" /\ read[s] = Tool!Latest(window'[s])
    BY <1>0, <1>5, <2>1 DEF ReadInv, Open, Running
  <2> QED BY <1>1, <2>1 DEF ReadInv, Tool!Latest
<1>12. EventsInv'
  BY <1>0, <1>1, <1>7 DEF EventsInv
<1> QED BY <1>8, <1>9, <1>10, <1>11, <1>12 DEF ConsoleInv

\* A look-up, or the read that follows it: what the read cuts out is a closed window.
LEMMA InvRead ==
  ASSUME Tool!ConsoleAssumption, ConsoleInv, NEW r \in Requests,
         (Tool!LookUp(r) \/ Tool!ReadBuffer(r)) /\ UNCHANGED lines
  PROVE  ConsoleInv'
<1> USE Types
<1>0. Tool!TypeOK /\ Tool!PendingExact /\ SubmittedInv /\ WindowInv /\ ReadInv /\ EventsInv
  BY DEF ConsoleInv
<1>1. /\ reading' \in [Requests -> BOOLEAN]
      /\ read' = read \/ read' = [read EXCEPT ![r] = Tool!Extract(log, r)]
      /\ at' = at /\ submissions' = submissions /\ pending' = pending /\ captures' = captures
      /\ observer' = observer
      /\ log' = log /\ brokered' = brokered /\ window' = window /\ events' = events
      /\ typed' = typed /\ lines' = lines
  BY <1>0 DEF Tool!LookUp, Tool!ReadBuffer, Tool!toolVars, Tool!logVars, Tool!TypeOK
<1>2. Tool!Extract(log, r) # None => /\ at[r] = "run"
                                     /\ Tool!Extract(log, r) = Tool!Latest(window[r])
                                     /\ window[r] \in Seq(Tool!Entries)
  <2>1. /\ FencedBy(r, log, window[r], at[r])
        /\ at[r] = "run" => window[r] \in Seq(Tool!Entries)
    BY <1>0 DEF WindowInv, Tool!TypeOK
  <2> QED BY <1>0, <2>1, ExtractedWindow
<1>3. window[r] \in Seq(Tool!Entries) => Tool!Latest(window[r]) \in Seq(Tool!Entries)
  <2>1. ASSUME NEW q \in Seq(Tool!Entries) PROVE Tool!Latest(q) \in Seq(Tool!Entries)
    <3>1. Tool!Latest(q) = SubSeq(q, Tool!Max({1, Len(q) - MaxLines + 1}), Len(q))
          /\ MaxLines \in Nat
      BY <1>0 DEF Tool!Latest
    <3> QED BY <3>1, LatestElements
  <2> QED BY <2>1
<1>4. read \in [Requests -> Seq(Tool!Entries) \union {None}]
  BY <1>0 DEF Tool!TypeOK
<1>5. read' \in [Requests -> Seq(Tool!Entries) \union {None}]
  BY <1>1, <1>2, <1>3, <1>4
<1>6. Tool!TypeOK'
  BY <1>0, <1>1, <1>5, SameOperators DEF Tool!TypeOK
<1>7. Tool!PendingExact' /\ SubmittedInv' /\ WindowInv' /\ EventsInv'
  BY <1>0, <1>1 DEF Tool!PendingExact, SubmittedInv, WindowInv, EventsInv, Open, FencedBy
<1>8. ReadInv'
  <2>1. ASSUME NEW s \in Requests, read'[s] # None
        PROVE at[s] = "run" /\ read'[s] = Tool!Latest(window[s])
    BY <1>0, <1>1, <1>2, <1>4, <2>1 DEF ReadInv
  <2> QED BY <1>1, <2>1 DEF ReadInv, Tool!Latest
<1> QED BY <1>6, <1>7, <1>8 DEF ConsoleInv

LEMMA InvUnchanged ==
  ASSUME ConsoleInv, UNCHANGED Tool!vars PROVE ConsoleInv'
<1>1. /\ at' = at /\ submissions' = submissions /\ pending' = pending /\ captures' = captures
      /\ observer' = observer
      /\ log' = log /\ brokered' = brokered /\ window' = window /\ events' = events
      /\ typed' = typed /\ lines' = lines
      /\ reading' = reading /\ read' = read
  BY DEF Tool!vars, Tool!toolVars, Tool!logVars
<1>2. Tool!TypeOK /\ Tool!PendingExact /\ SubmittedInv /\ WindowInv /\ ReadInv /\ EventsInv
  BY DEF ConsoleInv
<1>3. Tool!TypeOK'
  BY <1>1, <1>2 DEF Tool!TypeOK
<1>4. Tool!PendingExact' /\ SubmittedInv' /\ EventsInv'
  BY <1>1, <1>2 DEF Tool!PendingExact, SubmittedInv, EventsInv, Open
<1>5. WindowInv'
  BY <1>1, <1>2 DEF WindowInv, Open, FencedBy
<1>6. ReadInv'
  BY <1>1, <1>2 DEF ReadInv, Tool!Latest
<1> QED BY <1>3, <1>4, <1>5, <1>6 DEF ConsoleInv

\* The inductive invariant, for any requests and captures, any limits and any size of the log.
THEOREM ConsoleInvariant ==
  ASSUME Tool!ConsoleAssumption PROVE Tool!Spec => []ConsoleInv
<1>1. Tool!Init => ConsoleInv
  BY InvInitially
<1>2. ConsoleInv /\ [Tool!Next]_Tool!vars => ConsoleInv'
  <2> SUFFICES ASSUME ConsoleInv, [Tool!Next]_Tool!vars PROVE ConsoleInv'
    OBVIOUS
  <2>1. CASE UNCHANGED Tool!vars
    BY <2>1, InvUnchanged
  <2>2. CASE Tool!Prints \/ (Tool!Typed /\ UNCHANGED lines)
    BY <2>2, InvFromOutside
  <2>3. CASE (Tool!RunBegin \/ Tool!RunCommand \/ Tool!RunEnd) /\ UNCHANGED lines
    BY <2>3, InvRunBegin, InvRunCommand, InvRunEnd
  <2>4. ASSUME NEW r \in Requests, UNCHANGED lines,
               \/ Tool!Admit(r) \/ Tool!TooMany(r) \/ Tool!Queue(r)
               \/ Tool!NotQueued(r) \/ Tool!LookUp(r) \/ Tool!ReadBuffer(r)
        PROVE  ConsoleInv'
    BY <2>4, InvAdmit, InvRefused, InvQueue, InvRead
  <2> QED BY <2>1, <2>2, <2>3, <2>4 DEF Tool!Next
<1> QED BY <1>1, <1>2, PTL DEF Tool!Spec

\* Every reachable state of the console tool is well typed and within its limits.
THEOREM ConsoleTypeCorrect ==
  ASSUME Tool!ConsoleAssumption PROVE Tool!Spec => []Tool!TypeOK
<1>1. ConsoleInv => Tool!TypeOK
  BY DEF ConsoleInv
<1> QED BY <1>1, ConsoleInvariant, PTL

\* The count by which submissions are admitted is that of those under way, in every
\* order of queueing, failing to queue and completing.
THEOREM CountExact ==
  ASSUME Tool!ConsoleAssumption PROVE Tool!Spec => []Tool!PendingExact
<1>1. ConsoleInv => Tool!PendingExact
  BY DEF ConsoleInv
<1> QED BY <1>1, ConsoleInvariant, PTL

\* A capture that is read holds the lines printed while its command ran, whatever the
\* log has dropped and whoever prints, and a command is published once, as whose it is.
THEOREM OwnWindows ==
  ASSUME Tool!ConsoleAssumption PROVE Tool!Spec => []Tool!ReadsOwnWindow
<1>1. ConsoleInv => Tool!ReadsOwnWindow
  <2> SUFFICES ASSUME ConsoleInv PROVE Tool!ReadsOwnWindow
    OBVIOUS
  <2>1. ReadInv /\ WindowInv /\ EventsInv
    BY DEF ConsoleInv
  <2>2. \A r \in Requests : read[r] # None => window[r] # None /\ read[r] = Tool!Latest(window[r])
    BY <2>1 DEF ReadInv, WindowInv
  <2>3. ASSUME NEW r \in Requests
        PROVE  Cardinality(Tool!Places(events.broker, r)) = IF at[r] \in {"executed", "run"} THEN 1 ELSE 0
    <3>1. CASE r \in Range(events.broker)
      <4>1. PICK i \in DOMAIN events.broker : events.broker[i] = r
        BY <3>1 DEF Range
      <4>2. Tool!Places(events.broker, r) = {i}
        BY <2>1, <4>1 DEF Tool!Places, EventsInv, IsInjective
      <4> QED BY <2>1, <3>1, <4>2, FS_Singleton DEF EventsInv
    <3>2. CASE r \notin Range(events.broker)
      <4>1. Tool!Places(events.broker, r) = {}
        BY <3>2 DEF Tool!Places, Range
      <4> QED BY <2>1, <3>2, <4>1, FS_EmptySet DEF EventsInv
    <3> QED BY <3>1, <3>2
  <2> QED BY <2>1, <2>2, <2>3, SameOperators DEF Tool!ReadsOwnWindow, EventsInv
<1> QED BY <1>1, ConsoleInvariant, PTL

-----------------------------------------------------------------------------
(***************************************************************************)
(* The capture tool. Requests meet only in the files and in the event      *)
(* ring, so the invariant follows an image: from the moment a provider     *)
(* begins to write, the file under the request's name is that request's,   *)
(* because providers do not overwrite, until a native request of the same  *)
(* name moves a screenshot there. An event that tells of a file is behind  *)
(* its writing, and a request believes no event but its own.               *)
(***************************************************************************)
CONSTANTS Stem, Extension, MaxRing, MaxNoise, Player

VARIABLES kind, cursor, told, gap, sampled, answer, ring, head, noise, asked, images, sidecars,
          slot, shots, before, abandoned

Shot == INSTANCE Capture

\* The file under the name of r is the one that was made for r, or a screenshot that
\* a native request may have moved there.
Shows(r, image) == image = r \/ (Shot!MovedTo(r) /\ image \in Shot!Screenshots)
Made(r) == images[Shot!Path(r)] # None /\ Shows(r, images[Shot!Path(r)].of)

\* Which requests are where, and that a request has no more than one of a kind.
KindsInv ==
    /\ \A r \in Requests : at[r] \in {"checked", "awaiting", "looking"} => kind[r] = "provider"
    /\ \A r \in Requests : at[r] \in {"scanned", "waiting", "found", "named"} => kind[r] = "native"
    /\ \A r \in Requests : asked[r] # "no" => kind[r] = "provider"
    /\ \A r \in Requests : asked[r] \in {"writing", "written", "told"} => images[Shot!Path(r)] # None

\* Once a provider has begun to write, the file is its own for good; it tells of no
\* other, and a request believes nobody else.
MadeInv ==
    /\ \A r \in Requests : asked[r] \in {"writing", "written", "told"} => Made(r)
    /\ \A i \in DOMAIN ring : ring[i].of # None /\ ring[i].ok =>
          kind[ring[i].of] = "provider" /\ Made(ring[i].of)
    /\ \A r \in Requests : told[r] /\ kind[r] = "provider" => Made(r) \/ at[r] = "failed"

\* A result that is conclusive is of what its provider made.
ResultInv ==
    \A r \in Requests : at[r] \in {"composed", "describing", "saved"} /\ answer[r].conclusive =>
        Shows(r, answer[r].image)

CaptureInv == Shot!TypeOK /\ KindsInv /\ Shot!SavedIsDescribed /\ MadeInv /\ ResultInv

\* The scanned folders have screenshots only.
ShotsInv == slot \in Shot!Screenshots \union {None} /\ \A f \in shots : f.of \in Shot!Screenshots

\* Where a native request is until it has moved its image, and where results are.
Scanning == {"idle", "scanned", "waiting", "found", "named"}
Late == {"composed", "describing", "saved"}
Onward == \A n \in Requests : at[n] \notin Scanning => at'[n] \notin Scanning

\* What is shown under a name stays shown, and what was moved stays moved.
LEMMA ShownStill ==
  ASSUME UNCHANGED kind, Onward, NEW s, NEW image, Shows(s, image)
  PROVE  image = s \/ (Shot!MovedTo(s)' /\ image \in Shot!Screenshots')
BY DEF Shows, Shot!MovedTo, Onward, Scanning, Shot!Path, Shot!Screenshots

LEMMA MadeStill ==
  ASSUME UNCHANGED <<kind, images>>, Onward, NEW s, Made(s)
  PROVE  Made(s)'
<1>1. Shot!Path(s)' = Shot!Path(s)
  BY DEF Shot!Path
<1>2. LET image == images[Shot!Path(s)].of
      IN image = s \/ (Shot!MovedTo(s)' /\ image \in Shot!Screenshots')
  BY ShownStill DEF Made
<1> QED BY <1>1, <1>2 DEF Made, Shows

LEMMA ResultStill ==
  ASSUME ResultInv, UNCHANGED kind, Onward,
         \A s \in Requests : at'[s] \in Late => at[s] \in Late /\ answer'[s] = answer[s]
  PROVE  ResultInv'
<1> SUFFICES ASSUME NEW s \in Requests, at'[s] \in Late, answer'[s].conclusive
             PROVE  Shows(s, answer[s].image)'
  BY DEF ResultInv, Late
<1>1. Shows(s, answer[s].image) /\ answer'[s] = answer[s]
  BY DEF ResultInv, Late
<1>2. answer[s].image = s \/ (Shot!MovedTo(s)' /\ answer[s].image \in Shot!Screenshots')
  BY <1>1, ShownStill
<1> QED BY <1>1, <1>2 DEF Shows

LEMMA CaptureInitially ==
  ASSUME Shot!CaptureAssumption, Shot!Init PROVE CaptureInv
<1>1. Shot!TypeOK
  <2>1. Len(ring) = 0 /\ DOMAIN ring = {} /\ ring = <<>>
    BY DEF Shot!Init
  <2> QED BY <2>1 DEF Shot!Init, Shot!TypeOK, Shot!CaptureAssumption
<1>2. KindsInv /\ ResultInv /\ MadeInv
  BY DEF Shot!Init, KindsInv, ResultInv, MadeInv
<1>3. Shot!SavedIsDescribed
  BY DEF Shot!Init, Shot!SavedIsDescribed, Shot!CaptureAssumption, Shot!Stems
<1> QED BY <1>1, <1>2, <1>3 DEF CaptureInv

Locations == {"idle", "checked", "awaiting", "looking", "scanned", "waiting", "found", "named",
              "ready", "probing", "composed", "describing", "saved", "failed"}

\* A request that only moves, or gives up, and not to its end.
LEMMA Turns ==
  ASSUME CaptureInv, NEW r \in Requests, NEW v \in Locations, at' = [at EXCEPT ![r] = v],
         UNCHANGED <<kind, told, answer, ring, asked, images, sidecars>>,
         at[r] \notin {"saved", "failed"}, v # "saved",
         v \in {"checked", "awaiting", "looking"} => kind[r] = "provider",
         v \in {"scanned", "waiting", "found", "named"} => kind[r] = "native",
         v \in {"composed", "describing"} => at[r] \in {"composed", "describing"},
         v \in Scanning => at[r] \in Scanning
  PROVE  KindsInv' /\ Shot!SavedIsDescribed' /\ MadeInv' /\ ResultInv'
<1>1. /\ at \in [Requests -> Locations] /\ KindsInv /\ Shot!SavedIsDescribed
      /\ MadeInv /\ ResultInv
  BY DEF CaptureInv, Shot!TypeOK, Locations
<1>2. at'[r] = v /\ \A s \in Requests : s # r => at'[s] = at[s]
  BY <1>1
<1>3. KindsInv'
  BY <1>1, <1>2 DEF KindsInv, Shot!Path
<1>4. Shot!SavedIsDescribed'
  BY <1>1, <1>2 DEF Shot!SavedIsDescribed
<1>7. Onward
  BY <1>2 DEF Onward
<1>5. ResultInv'
  <2>1. \A s \in Requests : at'[s] \in Late => at[s] \in Late /\ answer'[s] = answer[s]
    BY <1>2 DEF Late
  <2> QED BY <1>1, <1>7, <2>1, ResultStill
<1>6. MadeInv'
  <2>1. \A s : Made(s) => Made(s)'
    BY <1>7, MadeStill
  <2>2. MadeInv
    BY <1>1
  <2> HIDE DEF Made
  <2> QED BY <1>1, <1>2, <2>1, <2>2 DEF MadeInv
<1> QED BY <1>3, <1>4, <1>5, <1>6

\* A request that moves fails at most once.
LEMMA MovedTypes ==
  ASSUME Shot!TypeOK, NEW r \in Requests, NEW v \in Locations, at' = [at EXCEPT ![r] = v], at[r] # "failed",
         abandoned' = abandoned \/ (v = "failed" /\ abandoned' = abandoned \union {r}),
         \A s \in Requests \ {r} : answer'[s] = answer[s],
         v \in {"composed", "describing", "saved"} => answer'[r] # None
  PROVE  /\ at' \in [Requests -> Locations]
         /\ \A s \in Requests : at'[s] \in {"composed", "describing", "saved"} => answer'[s] # None
         /\ abandoned' \subseteq {s \in Requests : at'[s] = "failed"}
<1>1. at \in [Requests -> Locations]
  BY DEF Shot!TypeOK, Locations
<1>2. at' \in [Requests -> Locations] /\ at'[r] = v /\ \A s \in Requests : s # r => at'[s] = at[s]
  BY <1>1
<1>3. \A s \in Requests : at'[s] \in {"composed", "describing", "saved"} => answer'[s] # None
  BY <1>2 DEF Shot!TypeOK
<1>4. abandoned' \subseteq {s \in Requests : at'[s] = "failed"}
  BY <1>2 DEF Shot!TypeOK
<1> QED BY <1>2, <1>3, <1>4

\* The types, in the steps of a provider's request, of a native one, of both, and of the game.
LEMMA ProviderTypes ==
  ASSUME CaptureInv, Shot!CaptureAssumption, NEW r \in Requests,
         Shot!Begin(r) \/ Shot!Dispatch(r) \/ Shot!DispatchFails(r) \/ Shot!Look(r) \/ Shot!AwaitTimeout(r)
  PROVE  Shot!TypeOK'
<1>0. Shot!TypeOK
  BY DEF CaptureInv
<1>1. CASE Shot!Begin(r)
  BY <1>0, <1>1 DEF Shot!TypeOK, Shot!Begin, Shot!Moves, Shot!Fails, Shot!requestVars,
      Shot!busVars, Shot!fileVars
<1>2. CASE Shot!Dispatch(r)
  BY <1>0, <1>2 DEF Shot!TypeOK, Shot!Dispatch, Shot!Moves, Shot!busVars, Shot!fileVars
<1>3. CASE Shot!DispatchFails(r)
  BY <1>0, <1>3 DEF Shot!TypeOK, Shot!DispatchFails, Shot!Abandons, Shot!busVars, Shot!fileVars
<1>4. CASE Shot!Look(r)
  <2>1. images[Shot!Path(r)] \in Shot!Files \union {None}
    BY <1>0 DEF Shot!TypeOK, Shot!Path, Shot!Paths, Shot!Stems
  <2> QED BY <1>0, <1>4, <2>1 DEF Shot!TypeOK, Shot!Look, Shot!Complete, Shot!Sample,
      Shot!busVars, Shot!fileVars
<1>5. CASE Shot!AwaitTimeout(r)
  BY <1>0, <1>5 DEF Shot!TypeOK, Shot!AwaitTimeout, Shot!Abandons, Shot!busVars, Shot!fileVars
<1> QED BY <1>1, <1>2, <1>3, <1>4, <1>5

LEMMA NativeTypes ==
  ASSUME CaptureInv, Shot!CaptureAssumption, NEW r \in Requests,
         Shot!Scan(r) \/ Shot!QueueShot(r) \/ Shot!ScanAgain(r) \/ Shot!NameImage(r) \/ Shot!MoveImage(r)
  PROVE  Shot!TypeOK'
<1>0. Shot!TypeOK
  BY DEF CaptureInv
<1>1. CASE Shot!Scan(r)
  BY <1>0, <1>1 DEF Shot!TypeOK, Shot!Scan, Shot!Moves, Shot!busVars, Shot!fileVars
<1>2. CASE Shot!QueueShot(r)
  BY ZenonT(40), <1>0, <1>2 DEF Shot!TypeOK, Shot!QueueShot, Shot!Moves, Shot!Fails, Shot!busVars,
      Shot!fileVars
<1>3. CASE Shot!ScanAgain(r)
  <2>1. \/ abandoned' = abandoned /\ \E v \in {"waiting", "found"} : at' = [at EXCEPT ![r] = v]
        \/ abandoned' = abandoned \union {r} /\ at' = [at EXCEPT ![r] = "failed"]
    BY <1>0, <1>3 DEF Shot!TypeOK, Shot!ScanAgain, Shot!Abandons
  <2>2. sampled' = sampled \/ \E f \in shots : sampled' = [sampled EXCEPT ![r] = Shot!Sample(f, @)]
    BY <1>3 DEF Shot!ScanAgain
  <2>3. sampled' \in [Requests -> Shot!Files \union {None}]
    BY ZenonT(40), <1>0, <2>2 DEF Shot!TypeOK, Shot!Sample
  <2>4. at[r] = "waiting" /\ answer' = answer
    BY <1>3 DEF Shot!ScanAgain
  <2>5. /\ at' \in [Requests -> Locations]
        /\ \A s \in Requests : at'[s] \in {"composed", "describing", "saved"} => answer'[s] # None
        /\ abandoned' \subseteq {s \in Requests : at'[s] = "failed"}
    <3>1. CASE abandoned' = abandoned /\ \E v \in {"waiting", "found"} : at' = [at EXCEPT ![r] = v]
      BY <1>0, <2>4, <3>1, MovedTypes DEF Locations
    <3>2. CASE abandoned' = abandoned \union {r} /\ at' = [at EXCEPT ![r] = "failed"]
      BY <1>0, <2>4, <3>2, MovedTypes DEF Locations
    <3> QED BY <2>1, <3>1, <3>2
  <2>6. UNCHANGED <<kind, cursor, told, gap, answer, before, ring, head, noise, asked, images, sidecars, shots, slot>>
    BY <1>3 DEF Shot!ScanAgain, Shot!busVars, Shot!fileVars
  <2> QED BY <1>0, <2>3, <2>5, <2>6 DEF Shot!TypeOK, Locations
<1>4. CASE Shot!NameImage(r)
  BY ZenonT(40), <1>0, <1>4 DEF Shot!TypeOK, Shot!NameImage, Shot!Moves, Shot!Fails, Shot!busVars,
      Shot!fileVars
<1>5. CASE Shot!MoveImage(r)
  BY ZenonT(40), <1>0, <1>5 DEF Shot!TypeOK, Shot!MoveImage, Shot!Moves, Shot!Fails, Shot!busVars
<1> QED BY <1>1, <1>2, <1>3, <1>4, <1>5

LEMMA ResultTypes ==
  ASSUME CaptureInv, Shot!CaptureAssumption, NEW r \in Requests,
         \/ Shot!ProbePhysical(r) \/ Shot!ProbeAgain(r) \/ Shot!LookForSidecar(r) \/ Shot!MoveSidecar(r)
  PROVE  Shot!TypeOK'
<1>0. Shot!TypeOK
  BY DEF CaptureInv
<1>i. images[Shot!Path(r)] \in Shot!Files \union {None}
  BY <1>0 DEF Shot!TypeOK, Shot!Path, Shot!Paths, Shot!Stems
<1>1. CASE Shot!ProbePhysical(r)
  BY <1>0, <1>1, <1>i DEF Shot!TypeOK, Shot!ProbePhysical, Shot!Moves, Shot!Sample, Shot!busVars,
      Shot!fileVars
<1>2. CASE Shot!ProbeAgain(r)
  <2>1. CASE Shot!Complete(images[Shot!Path(r)], sampled[r])
    <3>1. [image |-> images[Shot!Path(r)].of, conclusive |-> Shot!Conclusive(r)] \in Shot!Results
      <4>1. images[Shot!Path(r)].of \in Requests \union {Player}
        BY <1>i, <2>1 DEF Shot!Complete, Shot!Files
      <4>2. Shot!Conclusive(r) \in BOOLEAN
        BY DEF Shot!Conclusive
      <4> QED BY <4>1, <4>2 DEF Shot!Results
    <3>2. [image |-> images[Shot!Path(r)].of, conclusive |-> Shot!Conclusive(r)] # None
      BY <3>1 DEF Shot!CaptureAssumption
    <3>3. /\ answer' = [answer EXCEPT ![r] = [image |-> images[Shot!Path(r)].of, conclusive |-> Shot!Conclusive(r)]]
          /\ at[r] = "probing" /\ at' = [at EXCEPT ![r] = "composed"] /\ abandoned' = abandoned
          /\ UNCHANGED <<kind, cursor, told, gap, sampled, before, ring, head, noise, asked, images, sidecars, shots, slot>>
      BY <1>2, <2>1 DEF Shot!ProbeAgain, Shot!Moves, Shot!busVars, Shot!fileVars
    <3>4. /\ answer' \in [Requests -> Shot!Results \union {None}] /\ answer'[r] # None
          /\ \A s \in Requests \ {r} : answer'[s] = answer[s]
      BY <1>0, <3>1, <3>2, <3>3 DEF Shot!TypeOK
    <3>5. /\ at' \in [Requests -> Locations]
          /\ \A s \in Requests : at'[s] \in {"composed", "describing", "saved"} => answer'[s] # None
          /\ abandoned' \subseteq {s \in Requests : at'[s] = "failed"}
      BY <1>0, <3>3, <3>4, MovedTypes DEF Locations
    <3> QED BY <1>0, <3>3, <3>4, <3>5 DEF Shot!TypeOK, Locations
  <2>2. CASE ~Shot!Complete(images[Shot!Path(r)], sampled[r])
    BY <1>0, <1>2, <2>2 DEF Shot!TypeOK, Shot!ProbeAgain, Shot!Fails, Shot!busVars, Shot!fileVars
  <2> QED BY <2>1, <2>2
<1>3. CASE Shot!LookForSidecar(r)
  <2>1. \E v \in {"describing", "failed"} : at' = [at EXCEPT ![r] = v]
    BY <1>3 DEF Shot!LookForSidecar, Shot!Moves, Shot!Fails
  <2>2. /\ at[r] = "composed" /\ abandoned' = abandoned
        /\ UNCHANGED <<kind, cursor, told, gap, sampled, answer, before, ring, head, noise, asked, images, sidecars, shots, slot>>
    BY <1>3 DEF Shot!LookForSidecar, Shot!Moves, Shot!Fails, Shot!busVars, Shot!fileVars
  <2>3. answer[r] # None
    BY <1>0, <2>2 DEF Shot!TypeOK
  <2>4. /\ at' \in [Requests -> Locations]
        /\ \A s \in Requests : at'[s] \in {"composed", "describing", "saved"} => answer'[s] # None
        /\ abandoned' \subseteq {s \in Requests : at'[s] = "failed"}
    BY <1>0, <2>1, <2>2, <2>3, MovedTypes DEF Locations
  <2> QED BY <1>0, <2>2, <2>4 DEF Shot!TypeOK, Locations
<1>4. CASE Shot!MoveSidecar(r)
  <2>1. \E v \in {"saved", "failed"} : at' = [at EXCEPT ![r] = v]
    BY <1>4 DEF Shot!MoveSidecar, Shot!Moves, Shot!Fails
  <2>2. /\ at[r] = "describing" /\ abandoned' = abandoned
        /\ UNCHANGED <<kind, cursor, told, gap, sampled, answer, before, ring, head, noise, asked, images, shots, slot>>
    BY <1>4 DEF Shot!MoveSidecar, Shot!Moves, Shot!Fails, Shot!busVars, Shot!fileVars
  <2>3. answer[r] # None
    BY <1>0, <2>2 DEF Shot!TypeOK
  <2>4. /\ at' \in [Requests -> Locations]
        /\ \A s \in Requests : at'[s] \in {"composed", "describing", "saved"} => answer'[s] # None
        /\ abandoned' \subseteq {s \in Requests : at'[s] = "failed"}
    BY <1>0, <2>1, <2>2, <2>3, MovedTypes DEF Locations
  <2>5. sidecars' \in [Shot!Stems -> Requests \union {None}]
    BY <1>0, <1>4 DEF Shot!TypeOK, Shot!MoveSidecar, Shot!Fails
  <2> QED BY <1>0, <2>2, <2>4, <2>5 DEF Shot!TypeOK, Locations
<1> QED BY <1>1, <1>2, <1>3, <1>4

LEMMA GameTypes ==
  ASSUME CaptureInv, Shot!CaptureAssumption, Shot!PlayerShoots \/ Shot!GameShoots \/ Shot!GameCloses
  PROVE  Shot!TypeOK'
<1>0. Shot!TypeOK
  BY DEF CaptureInv
<1>1. CASE Shot!PlayerShoots
  BY <1>0, <1>1 DEF Shot!TypeOK, Shot!PlayerShoots, Shot!requestVars, Shot!busVars, Shot!fileVars
<1>2. CASE Shot!GameShoots
  <2>1. slot \in Requests \union {Player} /\ shots' = shots \union {[of |-> slot, whole |-> FALSE]}
    BY <1>0, <1>2 DEF Shot!TypeOK, Shot!GameShoots
  <2>2. shots' \subseteq Shot!Files
    <3>1. [of |-> slot, whole |-> FALSE] \in Shot!Files
      BY <2>1 DEF Shot!Files
    <3>2. shots \subseteq Shot!Files
      BY <1>0 DEF Shot!TypeOK
    <3> QED BY <2>1, <3>1, <3>2
  <2>3. /\ slot' = None
        /\ UNCHANGED <<kind, at, cursor, told, gap, sampled, answer, before, abandoned, ring, head, noise, asked,
                        images, sidecars>>
    BY <1>2 DEF Shot!GameShoots, Shot!requestVars, Shot!busVars
  <2> QED BY <1>0, <2>2, <2>3 DEF Shot!TypeOK
<1>3. CASE Shot!GameCloses
  <2>1. PICK f \in shots : shots' = (shots \ {f}) \union {[f EXCEPT !.whole = TRUE]}
    BY <1>3 DEF Shot!GameCloses
  <2>2. shots' \subseteq Shot!Files
    BY <1>0, <2>1 DEF Shot!TypeOK, Shot!Files
  <2>3. UNCHANGED <<kind, at, cursor, told, gap, sampled, answer, before, abandoned, ring, head, noise, asked, images, sidecars, slot>>
    BY <1>3 DEF Shot!GameCloses, Shot!requestVars, Shot!busVars
  <2> QED BY <1>0, <2>2, <2>3 DEF Shot!TypeOK
<1> QED BY <1>1, <1>2, <1>3

Entry == [of : Requests \union {None}, ok : BOOLEAN, seq : Nat]

\* The ring after an event: the numbers still run to its last.
LEMMA PublishTypes ==
  ASSUME CaptureInv, Shot!CaptureAssumption, NEW r \in Requests \union {None}, NEW ok \in BOOLEAN,
         Shot!Publish(r, ok)
  PROVE  /\ ring' \in Seq(Entry) /\ head' = head + 1
         /\ Len(ring') <= MaxRing /\ \A i \in DOMAIN ring' : ring'[i].seq = head' - Len(ring') + i
         /\ \A i \in DOMAIN ring' : \/ \E j \in DOMAIN ring : ring'[i] = ring[j]
                                   \/ ring'[i] = [of |-> r, ok |-> ok, seq |-> head + 1]
<1> DEFINE e == [of |-> r, ok |-> ok, seq |-> head + 1]
           all == Append(ring, e)
<1>1. /\ ring \in Seq(Entry) /\ head \in Nat /\ MaxRing \in Nat
      /\ \A i \in DOMAIN ring : ring[i].seq = head - Len(ring) + i
  BY DEF CaptureInv, Shot!TypeOK, Shot!CaptureAssumption, Entry
<1>2. e \in Entry /\ e.seq = head + 1
  BY <1>1 DEF Entry
<1> HIDE DEF e
<1>3. /\ all \in Seq(Entry) /\ Len(all) = Len(ring) + 1 /\ all[Len(ring) + 1] = e
      /\ \A i \in 1..Len(ring) : all[i] = ring[i]
  BY <1>1, <1>2, AppendProperties
<1>4. Len(ring) \in Nat /\ DOMAIN ring = 1..Len(ring)
  BY <1>1
<1>5. head' = head + 1 /\ ring' = SubSeq(all, Tool!Max({1, Len(all) - MaxRing + 1}), Len(all))
  BY DEF Shot!Publish, e, Shot!Max, Tool!Max
<1> HIDE DEF all
<1>6. /\ ring' \in Seq(Entry)
      /\ \E k \in 0..Len(all) : IsRest(ring', all, k) /\ Len(all) - k <= MaxRing
  BY <1>1, <1>3, <1>5, LatestElements
<1>7. PICK k \in 0..Len(all) : IsRest(ring', all, k) /\ Len(all) - k <= MaxRing
  BY <1>6
<1>8. /\ Len(ring') = Len(ring) + 1 - k /\ Len(ring') <= MaxRing /\ DOMAIN ring' = 1..Len(ring')
      /\ k \in 0..Len(ring) + 1
  <2>1. Len(ring') = Len(all) - k /\ Len(all) - k <= MaxRing
    BY <1>7 DEF IsRest
  <2>2. Len(all) = Len(ring) + 1 /\ DOMAIN ring' = 1..Len(ring')
    BY <1>3, <1>6
  <2> QED BY <1>4, <2>1, <2>2
<1>9. ASSUME NEW i \in DOMAIN ring'
      PROVE  /\ ring'[i].seq = head' - Len(ring') + i
             /\ (\E j \in DOMAIN ring : ring'[i] = ring[j]) \/ ring'[i] = e
  <2>1. ring'[i] = all[i + k] /\ i + k \in 1..Len(ring) + 1 /\ i \in Int /\ k \in Int
    BY <1>3, <1>4, <1>7, <1>8, <1>9 DEF IsRest
  <2>5. /\ head \in Int /\ Len(ring) \in Int /\ i \in Int /\ k \in Int
        /\ head' = head + 1 /\ Len(ring') = Len(ring) + 1 - k
    <3>1. head \in Int /\ Len(ring) \in Int /\ i \in Int /\ k \in Int
      BY <1>1, <1>4, <2>1
    <3>2. head' = head + 1
      BY <1>5
    <3>3. Len(ring') = Len(ring) + 1 - k
      BY <1>8
    <3> QED BY <3>1, <3>2, <3>3
  <2>2. CASE i + k = Len(ring) + 1
    <3>1. ring'[i] = e
      BY <1>3, <2>1, <2>2
    <3>2. head' - Len(ring') + i = head + 1
      <4>2. i + k = Len(ring) + 1
        BY <2>2
      <4> QED BY <2>5, <4>2
    <3> QED BY <1>2, <3>1, <3>2
  <2>3. CASE i + k \in 1..Len(ring)
    <3>1. ring'[i] = ring[i + k] /\ ring[i + k].seq = head - Len(ring) + (i + k)
      BY <1>1, <1>3, <1>4, <2>1, <2>3
    <3>2. head' - Len(ring') + i = head - Len(ring) + (i + k)
      BY <2>5
    <3> QED BY <1>4, <2>3, <3>1, <3>2
  <2>4. i + k = Len(ring) + 1 \/ i + k \in 1..Len(ring)
    BY <1>4, <2>1
  <2> QED BY <2>2, <2>3, <2>4
<1> QED BY <1>5, <1>6, <1>8, <1>9 DEF e

\* A provider tells once, of what it has at least begun to write.
LEMMA Telling ==
  ASSUME NEW r, Shot!ProviderTells(r)
  PROVE  \/ asked[r] = "writing" /\ asked' = [asked EXCEPT ![r] = "told"]
         \/ asked[r] = "written" /\ asked' = [asked EXCEPT ![r] = "over"]
<1>1. PICK ended \in {<<"writing", "told">>, <<"written", "over">>} :
        asked[r] = ended[1] /\ asked' = [asked EXCEPT ![r] = ended[2]]
  BY Zenon DEF Shot!ProviderTells
<1>2. CASE ended = <<"writing", "told">>
  BY <1>1, <1>2
<1>3. CASE ended = <<"written", "over">>
  BY <1>1, <1>3
<1> QED BY <1>1, <1>2, <1>3

\* The bus and the provider.
LEMMA ProviderKeeps ==
  ASSUME CaptureInv, Shot!CaptureAssumption, NEW r \in Requests \union {None},
         (r \in Requests /\ (Shot!ProviderTells(r) \/ Shot!ProviderFails(r))) \/ Shot!OtherEvent
  PROVE  CaptureInv'
<1>0. Shot!TypeOK /\ KindsInv /\ Shot!SavedIsDescribed /\ MadeInv /\ ResultInv
  BY DEF CaptureInv
<1>1. /\ UNCHANGED <<kind, at, cursor, told, gap, sampled, answer, before, abandoned, images, sidecars, shots, slot>>
      /\ \/ asked' = asked /\ noise' = noise + 1
         \/ /\ noise' = noise /\ r \in Requests
            /\ \E v \in {"told", "over"} : asked' = [asked EXCEPT ![r] = v]
      /\ asked' # asked => asked[r] # "no" /\ (asked'[r] = "told" => asked[r] = "writing")
  <2>1. CASE r \in Requests /\ Shot!ProviderTells(r)
    <3>1. \/ asked[r] = "writing" /\ asked' = [asked EXCEPT ![r] = "told"]
          \/ asked[r] = "written" /\ asked' = [asked EXCEPT ![r] = "over"]
      BY <2>1, Telling
    <3> QED BY <1>0, <2>1, <3>1 DEF Shot!ProviderTells, Shot!requestVars, Shot!fileVars, Shot!TypeOK
  <2>2. CASE r \in Requests /\ Shot!ProviderFails(r)
    BY <1>0, <2>2 DEF Shot!ProviderFails, Shot!requestVars, Shot!fileVars, Shot!TypeOK
  <2>3. CASE Shot!OtherEvent
    BY <1>0, <2>3 DEF Shot!OtherEvent, Shot!requestVars, Shot!fileVars, Shot!TypeOK
  <2> QED BY <2>1, <2>2, <2>3
<1>2. \E q \in {r, None}, ok \in BOOLEAN :
          /\ Shot!Publish(q, ok)
          /\ ok => q = None \/ (r \in Requests /\ asked[r] \in {"writing", "written"})
  <2>1. \/ Shot!Publish(r, TRUE) /\ r \in Requests /\ asked[r] \in {"writing", "written"}
        \/ Shot!Publish(r, FALSE) \/ Shot!Publish(None, TRUE)
    <3>1. Shot!ProviderTells(r) => Shot!Publish(r, TRUE) /\ asked[r] \in {"writing", "written"}
      BY Telling DEF Shot!ProviderTells
    <3>2. Shot!ProviderFails(r) => Shot!Publish(r, FALSE)
      BY DEF Shot!ProviderFails
    <3>3. Shot!OtherEvent => Shot!Publish(None, TRUE)
      BY DEF Shot!OtherEvent
    <3> QED BY <3>1, <3>2, <3>3
  <2>2. r \in {r, None} /\ None \in {r, None} /\ TRUE \in BOOLEAN /\ FALSE \in BOOLEAN
    OBVIOUS
  <2>3. CASE Shot!Publish(r, TRUE) /\ r \in Requests /\ asked[r] \in {"writing", "written"}
    BY <2>2, <2>3, Zenon
  <2>4. CASE Shot!Publish(r, FALSE)
    BY <2>2, <2>4, Zenon
  <2>5. CASE Shot!Publish(None, TRUE)
    BY <2>2, <2>5
  <2> QED BY <2>1, <2>3, <2>4, <2>5, Zenon
<1>3. PICK q \in {r, None}, ok \in BOOLEAN :
          /\ Shot!Publish(q, ok)
          /\ ok => q = None \/ (r \in Requests /\ asked[r] \in {"writing", "written"})
  BY <1>2
<1>4. /\ ring' \in Seq(Entry) /\ head' = head + 1
      /\ Len(ring') <= MaxRing /\ \A i \in DOMAIN ring' : ring'[i].seq = head' - Len(ring') + i
      /\ \A i \in DOMAIN ring' : \/ \E j \in DOMAIN ring : ring'[i] = ring[j]
                                \/ ring'[i] = [of |-> q, ok |-> ok, seq |-> head + 1]
  BY <1>3, PublishTypes
<1>5. Shot!TypeOK'
  <2>1. cursor' \in [Requests -> 0..head'] /\ head' \in Nat /\ noise' \in Nat
    BY <1>0, <1>1, <1>4 DEF Shot!TypeOK
  <2>2. asked' \in [Requests -> {"no", "asked", "writing", "written", "told", "over"}]
    BY <1>0, <1>1 DEF Shot!TypeOK
  <2> QED BY <1>0, <1>1, <1>4, <2>1, <2>2 DEF Shot!TypeOK, Entry
<1>o. Onward
  BY <1>1 DEF Onward
<1>6. KindsInv' /\ Shot!SavedIsDescribed' /\ ResultInv'
  <2>1. \A s \in Requests :
          /\ asked'[s] # "no" => asked[s] # "no"
          /\ asked'[s] \in {"writing", "written", "told"} => asked[s] \in {"writing", "written", "told"}
    BY <1>0, <1>1 DEF Shot!TypeOK
  <2>2. KindsInv' /\ Shot!SavedIsDescribed'
    BY <1>0, <1>1, <2>1 DEF KindsInv, Shot!Path, Shot!SavedIsDescribed
  <2>3. ResultInv'
    BY <1>0, <1>1, <1>o, ResultStill
  <2> QED BY <2>2, <2>3
<1>7. MadeInv'
  <2>1. MadeInv /\ KindsInv
    BY <1>0
  <2>2. \A s : Made(s) => Made(s)'
    BY <1>1, <1>o, MadeStill
  <2> HIDE DEF Made
  <2>3. \A s \in Requests : asked'[s] \in {"writing", "written", "told"} =>
            asked[s] \in {"writing", "written", "told"}
    BY <1>0, <1>1 DEF Shot!TypeOK
  <2>4. ASSUME NEW i \in DOMAIN ring', ring'[i].of # None, ring'[i].ok
        PROVE  kind[ring'[i].of] = "provider" /\ Made(ring'[i].of)
    <3>1. CASE \E j \in DOMAIN ring : ring'[i] = ring[j]
      BY <2>1, <2>4, <3>1 DEF MadeInv
    <3>2. CASE ring'[i] = [of |-> q, ok |-> ok, seq |-> head + 1]
      <4>1. q = r /\ ok /\ ring'[i].of = r /\ r \in Requests /\ asked[r] \in {"writing", "written"}
        BY <1>3, <2>4, <3>2
      <4> QED BY <2>1, <4>1 DEF MadeInv, KindsInv
    <3> QED BY <1>4, <2>4, <3>1, <3>2
  <2> QED BY <1>1, <2>1, <2>2, <2>3, <2>4 DEF MadeInv
<1> QED BY <1>5, <1>6, <1>7 DEF CaptureInv

\* The steps of a request that only move it, or give it up.
LEMMA CaptureTurns ==
  ASSUME CaptureInv, Shot!CaptureAssumption, NEW r \in Requests,
         \/ Shot!Begin(r) \/ Shot!DispatchFails(r) \/ Shot!Look(r) \/ Shot!AwaitTimeout(r)
         \/ Shot!Scan(r) \/ Shot!QueueShot(r) \/ Shot!ScanAgain(r) \/ Shot!NameImage(r)
         \/ Shot!ProbePhysical(r) \/ Shot!LookForSidecar(r)
  PROVE  CaptureInv'
<1>1. Shot!TypeOK'
  BY ProviderTypes, NativeTypes, ResultTypes
<1>2. UNCHANGED <<kind, told, answer, ring, asked, images, sidecars>>
  BY DEF Shot!Begin, Shot!DispatchFails, Shot!Look, Shot!AwaitTimeout, Shot!Scan, Shot!QueueShot,
         Shot!ScanAgain, Shot!NameImage, Shot!ProbePhysical, Shot!LookForSidecar, Shot!busVars,
         Shot!fileVars
<1>3. Shot!TypeOK /\ KindsInv
  BY DEF CaptureInv
<1>4. \E v \in Locations :
        /\ at' = [at EXCEPT ![r] = v] /\ at[r] \notin {"saved", "failed"} /\ v # "saved"
        /\ v \in {"checked", "awaiting", "looking"} => kind[r] = "provider"
        /\ v \in {"scanned", "waiting", "found", "named"} => kind[r] = "native"
        /\ v \in {"composed", "describing"} => at[r] \in {"composed", "describing"}
        /\ v \in Scanning => at[r] \in Scanning
  <2> USE DEF Scanning
  <2>1. CASE Shot!Begin(r)
    BY <2>1 DEF Shot!Begin, Shot!Moves, Shot!Fails, Locations
  <2>2. CASE Shot!DispatchFails(r) \/ Shot!AwaitTimeout(r)
    BY <2>2 DEF Shot!DispatchFails, Shot!AwaitTimeout, Shot!Abandons, Locations
  <2>3. CASE Shot!Look(r)
    BY <1>3, <2>3 DEF Shot!Look, Shot!Moves, Locations, KindsInv
  <2>4. CASE Shot!Scan(r)
    BY <2>4 DEF Shot!Scan, Shot!Moves, Locations
  <2>5. CASE Shot!QueueShot(r)
    BY <1>3, <2>5 DEF Shot!QueueShot, Shot!Moves, Shot!Fails, Locations, KindsInv
  <2>6. CASE Shot!ScanAgain(r)
    <3>1. at[r] = "waiting" /\ kind[r] = "native"
      BY <1>3, <2>6 DEF Shot!ScanAgain, KindsInv
    <3>2. \E v \in {"waiting", "found", "failed"} : at' = [at EXCEPT ![r] = v]
      BY <2>6, <3>1 DEF Shot!ScanAgain, Shot!Abandons
    <3> QED BY <3>1, <3>2 DEF Locations
  <2>7. CASE Shot!NameImage(r)
    BY <1>3, <2>7 DEF Shot!NameImage, Shot!Moves, Shot!Fails, Locations, KindsInv
  <2>8. CASE Shot!ProbePhysical(r)
    BY <2>8 DEF Shot!ProbePhysical, Shot!Moves, Locations
  <2>9. CASE Shot!LookForSidecar(r)
    BY <2>9 DEF Shot!LookForSidecar, Shot!Moves, Shot!Fails, Locations
  <2> QED BY <2>1, <2>2, <2>3, <2>4, <2>5, <2>6, <2>7, <2>8, <2>9
<1>5. KindsInv' /\ Shot!SavedIsDescribed' /\ MadeInv' /\ ResultInv'
  BY <1>2, <1>4, Turns
<1> QED BY <1>1, <1>5 DEF CaptureInv

\* The provider is asked.
LEMMA DispatchKeeps ==
  ASSUME CaptureInv, Shot!CaptureAssumption, NEW r \in Requests, Shot!Dispatch(r)
  PROVE  CaptureInv'
<1>0. Shot!TypeOK /\ KindsInv /\ Shot!SavedIsDescribed /\ MadeInv /\ ResultInv
  BY DEF CaptureInv
<1>1. /\ at[r] = "checked" /\ at' = [at EXCEPT ![r] = "awaiting"] /\ asked' = [asked EXCEPT ![r] = "asked"]
      /\ UNCHANGED <<kind, told, answer, ring, images, sidecars>>
  BY DEF Shot!Dispatch, Shot!Moves, Shot!busVars, Shot!fileVars
<1>2. /\ at'[r] = "awaiting" /\ \A s \in Requests : s # r => at'[s] = at[s]
      /\ asked'[r] = "asked" /\ \A s \in Requests : s # r => asked'[s] = asked[s]
  BY <1>0, <1>1 DEF Shot!TypeOK
<1>o. Onward
  BY <1>2 DEF Onward, Scanning
<1>3. KindsInv' /\ Shot!SavedIsDescribed' /\ ResultInv'
  <2>1. KindsInv' /\ Shot!SavedIsDescribed'
    BY <1>0, <1>1, <1>2 DEF KindsInv, Shot!Path, Shot!SavedIsDescribed
  <2>2. ResultInv'
    BY <1>0, <1>1, <1>2, <1>o, ResultStill DEF Late
  <2> QED BY <2>1, <2>2
<1>4. MadeInv'
  <2>1. \A s : Made(s) => Made(s)'
    BY <1>1, <1>o, MadeStill
  <2> HIDE DEF Made
  <2> QED BY <1>0, <1>1, <1>2, <2>1 DEF MadeInv
<1> QED BY <1>3, <1>4, ProviderTypes DEF CaptureInv

\* A request believes what its own provider told.
LEMMA ReadKeeps ==
  ASSUME CaptureInv, Shot!CaptureAssumption, NEW r \in Requests, Shot!ReadEvents(r)
  PROVE  CaptureInv'
<1>0. Shot!TypeOK /\ KindsInv /\ Shot!SavedIsDescribed /\ MadeInv /\ ResultInv
  BY DEF CaptureInv
<1> DEFINE fresh == {e \in Shot!Range(ring) : e.seq > cursor[r]}
           mine == {e \in fresh : Shot!Concerns(e, r)}
<1>1. /\ at[r] = "awaiting"
      /\ gap' = [gap EXCEPT ![r] = @ \/ (fresh # {} /\ \A e \in fresh : e.seq > cursor[r] + 1)]
      /\ cursor' = [cursor EXCEPT ![r] = IF fresh = {} THEN @ ELSE Shot!Last(ring).seq]
      /\ told' = [told EXCEPT ![r] = @ \/ mine # {}]
      /\ \/ /\ \E e \in mine : ~e.ok
            /\ at' = [at EXCEPT ![r] = "failed"] /\ abandoned' = abandoned \union {r}
         \/ /\ \A e \in mine : e.ok
            /\ at' = [at EXCEPT ![r] = "looking"] /\ abandoned' = abandoned
      /\ UNCHANGED <<kind, sampled, answer, before, ring, head, noise, asked, images, sidecars, shots, slot>>
  BY DEF Shot!ReadEvents, Shot!Moves, Shot!Abandons, Shot!busVars, Shot!fileVars
<1>2. \A e \in mine : \E i \in DOMAIN ring : e = ring[i] /\ e.of = r
  BY DEF Shot!Concerns, Shot!Range
<1>3. fresh # {} => Shot!Last(ring).seq \in 0..head
  <2> SUFFICES ASSUME fresh # {} PROVE Shot!Last(ring).seq \in 0..head
    OBVIOUS
  <2>1. ring \in Seq(Entry) /\ head \in Nat /\ \A i \in DOMAIN ring : ring[i].seq = head - Len(ring) + i
    BY <1>0 DEF Shot!TypeOK, Entry
  <2>2. Len(ring) \in DOMAIN ring /\ Len(ring) \in Nat
    BY <2>1 DEF Shot!Range
  <2>3. Shot!Last(ring) = ring[Len(ring)]
    BY DEF Shot!Last
  <2> QED BY <2>1, <2>2, <2>3
<1> HIDE DEF fresh, mine
<1>4. Shot!TypeOK'
  <2>1. /\ cursor' \in [Requests -> 0..head] /\ told' \in [Requests -> BOOLEAN]
    BY <1>0, <1>1, <1>3 DEF Shot!TypeOK
  <2>2. gap' \in [Requests -> BOOLEAN]
    BY <1>0, <1>1 DEF Shot!TypeOK
  <2>3. /\ at' \in [Requests -> Locations]
        /\ \A s \in Requests : at'[s] \in {"composed", "describing", "saved"} => answer'[s] # None
        /\ abandoned' \subseteq {s \in Requests : at'[s] = "failed"}
    <3>1. CASE abandoned' = abandoned /\ at' = [at EXCEPT ![r] = "looking"]
      BY <1>0, <1>1, <3>1, MovedTypes DEF Locations
    <3>2. CASE abandoned' = abandoned \union {r} /\ at' = [at EXCEPT ![r] = "failed"]
      BY <1>0, <1>1, <3>2, MovedTypes DEF Locations
    <3> QED BY <1>1, <3>1, <3>2
  <2> QED BY <1>0, <1>1, <2>1, <2>2, <2>3 DEF Shot!TypeOK, Locations
<1>5. /\ at'[r] \in {"looking", "failed"} /\ (at'[r] = "looking" => \A e \in mine : e.ok)
      /\ \A s \in Requests : s # r => at'[s] = at[s] /\ told'[s] = told[s]
      /\ told'[r] => told[r] \/ mine # {}
  BY <1>0, <1>1 DEF Shot!TypeOK
<1>o. Onward
  BY <1>5 DEF Onward, Scanning
<1>6. KindsInv' /\ Shot!SavedIsDescribed' /\ ResultInv'
  <2>1. KindsInv' /\ Shot!SavedIsDescribed'
    BY <1>0, <1>1, <1>5 DEF KindsInv, Shot!Path, Shot!SavedIsDescribed
  <2>2. ResultInv'
    BY <1>0, <1>1, <1>5, <1>o, ResultStill DEF Late
  <2> QED BY <2>1, <2>2
<1>7. MadeInv'
  <2>1. \A s : Made(s) => Made(s)'
    BY <1>1, <1>o, MadeStill
  <2>2. MadeInv
    BY <1>0
  <2>3. told'[r] => Made(r) \/ at'[r] = "failed"
    <3>1. CASE told[r]
      BY <1>0, <1>1, <2>2, <3>1 DEF MadeInv, KindsInv
    <3>2. ASSUME mine # {}, at'[r] # "failed" PROVE Made(r)
      <4>1. PICK e \in mine : e.ok
        BY <1>5, <3>2
      <4>2. PICK i \in DOMAIN ring : e = ring[i] /\ e.of = r
        BY <1>2
      <4>3. r # None
        BY DEF Shot!CaptureAssumption
      <4> QED BY <2>2, <4>1, <4>2, <4>3 DEF MadeInv
    <3> QED BY <1>5, <3>1, <3>2
  <2> HIDE DEF Made
  <2> QED BY <1>1, <1>5, <2>1, <2>2, <2>3 DEF MadeInv
<1> QED BY <1>4, <1>6, <1>7 DEF CaptureInv

\* A native image may take the place of a provider's: from then on it has been moved there.
LEMMA MoveKeeps ==
  ASSUME CaptureInv, ShotsInv, Shot!CaptureAssumption, NEW r \in Requests, Shot!MoveImage(r)
  PROVE  CaptureInv'
<1>0. Shot!TypeOK /\ KindsInv /\ Shot!SavedIsDescribed /\ MadeInv /\ ResultInv
  BY DEF CaptureInv
<1>1. /\ at[r] = "named" /\ \E v \in {"ready", "failed"} : at' = [at EXCEPT ![r] = v]
      /\ \/ images' = images
         \/ \E f \in Shot!Files : f.of \in Shot!Screenshots /\ images' = [images EXCEPT ![Shot!Path(r)] = f]
      /\ UNCHANGED <<kind, told, answer, ring, asked, sidecars>>
  BY <1>0 DEF Shot!MoveImage, Shot!Moves, Shot!Fails, Shot!busVars, Shot!TypeOK, ShotsInv
<1>2. /\ kind[r] = "native" /\ at'[r] \in {"ready", "failed"}
      /\ \A s \in Requests : s # r => at'[s] = at[s]
  BY <1>0, <1>1 DEF Shot!TypeOK, KindsInv
<1>o. Onward
  BY <1>2 DEF Onward, Scanning
<1>3. Shot!SavedIsDescribed' /\ ResultInv'
  <2>1. Shot!SavedIsDescribed'
    BY <1>0, <1>1, <1>2 DEF Shot!SavedIsDescribed
  <2>2. ResultInv'
    BY <1>0, <1>1, <1>2, <1>o, ResultStill DEF Late
  <2> QED BY <2>1, <2>2
<1>5. KindsInv'
  <2>1. \A s \in Requests : images[Shot!Path(s)] # None => images'[Shot!Path(s)] # None
    <3>1. images \in [Shot!Paths -> Shot!Files \union {None}]
      BY <1>0 DEF Shot!TypeOK
    <3>2. \A s \in Requests : Shot!Path(s) \in Shot!Paths
      BY <1>0 DEF Shot!TypeOK, Shot!Path, Shot!Paths, Shot!Stems
    <3>3. \A f \in Shot!Files : f # None
      BY DEF Shot!CaptureAssumption
    <3> QED BY <1>1, <3>1, <3>2, <3>3
  <2>2. \A s : Shot!Path(s)' = <<Stem[s], Extension[kind[s]]>> /\ Shot!Path(s) = <<Stem[s], Extension[kind[s]]>>
    BY <1>1 DEF Shot!Path
  <2> QED BY <1>0, <1>1, <1>2, <2>1, <2>2 DEF KindsInv
<1>4. MadeInv'
  <2>1. \A s \in Requests : Made(s) => Made(s)'
    <3> SUFFICES ASSUME NEW s \in Requests, Made(s) PROVE Made(s)'
      OBVIOUS
    <3>0. images \in [Shot!Paths -> Shot!Files \union {None}] /\ Shot!Path(s) \in Shot!Paths
      BY <1>0 DEF Shot!TypeOK, Shot!Path, Shot!Paths, Shot!Stems
    <3>1. CASE images' = images
      BY <1>1, <1>o, <3>1, MadeStill
    <3>2. ASSUME NEW f \in Shot!Files, f.of \in Shot!Screenshots,
                 images' = [images EXCEPT ![Shot!Path(r)] = f]
          PROVE  Made(s)'
      <4>1. Shot!Path(s)' = Shot!Path(s) /\ Shot!Screenshots' = Shot!Screenshots
        BY <1>1 DEF Shot!Path, Shot!Screenshots
      <4>2. CASE Shot!Path(s) = Shot!Path(r)
        <5>1. images'[Shot!Path(s)] = f /\ f # None
          BY <3>0, <3>2, <4>2 DEF Shot!CaptureAssumption
        <5>2. Shot!Path(r)' = Shot!Path(r)
          BY <1>1 DEF Shot!Path
        <5>3. Shot!MovedTo(s)'
          <6>1. at'[r] \notin {"idle", "scanned", "waiting", "found", "named"} /\ kind'[r] = "native"
            BY <1>1, <1>2
          <6> QED BY <4>1, <4>2, <5>2, <6>1 DEF Shot!MovedTo
        <5> QED BY <3>2, <4>1, <5>1, <5>3 DEF Made, Shows
      <4>3. CASE Shot!Path(s) # Shot!Path(r)
        <5>1. images'[Shot!Path(s)] = images[Shot!Path(s)]
          BY <3>0, <3>2, <4>3
        <5>2. LET image == images[Shot!Path(s)].of
              IN image = s \/ (Shot!MovedTo(s)' /\ image \in Shot!Screenshots')
          BY <1>1, <1>o, ShownStill DEF Made
        <5> QED BY <4>1, <5>1, <5>2 DEF Made, Shows
      <4> QED BY <4>2, <4>3
    <3> QED BY <1>1, <3>1, <3>2
  <2>2. MadeInv /\ KindsInv
    BY <1>0
  <2> HIDE DEF Made
  <2>3. \A s \in Requests : asked[s] \in {"writing", "written", "told"} => kind[s] = "provider"
    BY <2>2 DEF KindsInv
  <2>4. \A i \in DOMAIN ring : ring[i].of \in Requests \union {None}
    <3>1. ring \in Seq(Entry)
      BY <1>0 DEF Shot!TypeOK, Entry
    <3>2. \A i \in DOMAIN ring : ring[i] \in Entry
      BY <3>1
    <3> QED BY <3>2 DEF Entry
  <2> QED BY <1>1, <1>2, <2>1, <2>2, <2>3, <2>4 DEF MadeInv
<1> QED BY <1>3, <1>4, <1>5, NativeTypes DEF CaptureInv

\* A conclusive result is of an image that was told to be the own.
LEMMA ProbeKeeps ==
  ASSUME CaptureInv, Shot!CaptureAssumption, NEW r \in Requests, Shot!ProbeAgain(r)
  PROVE  CaptureInv'
<1>0. Shot!TypeOK /\ KindsInv /\ Shot!SavedIsDescribed /\ MadeInv /\ ResultInv
  BY DEF CaptureInv
<1>1. /\ at[r] = "probing"
      /\ \/ /\ at' = [at EXCEPT ![r] = "composed"]
            /\ answer' = [answer EXCEPT ![r] = [image |-> images[Shot!Path(r)].of, conclusive |-> Shot!Conclusive(r)]]
         \/ at' = [at EXCEPT ![r] = "failed"] /\ answer' = answer
      /\ UNCHANGED <<kind, told, ring, asked, images, sidecars>>
  BY DEF Shot!ProbeAgain, Shot!Moves, Shot!Fails, Shot!busVars, Shot!fileVars
<1>2. /\ \/ /\ at'[r] = "composed"
            /\ answer'[r] = [image |-> images[Shot!Path(r)].of, conclusive |-> Shot!Conclusive(r)]
         \/ at'[r] = "failed"
      /\ \A s \in Requests : s # r => at'[s] = at[s] /\ answer'[s] = answer[s]
  BY <1>0, <1>1 DEF Shot!TypeOK
<1>3. KindsInv' /\ Shot!SavedIsDescribed'
  BY <1>0, <1>1, <1>2 DEF KindsInv, Shot!Path, Shot!SavedIsDescribed
<1>o. Onward
  BY <1>1, <1>2 DEF Onward, Scanning
<1>4. MadeInv'
  <2>1. \A s : Made(s) => Made(s)'
    BY <1>1, <1>o, MadeStill
  <2> HIDE DEF Made
  <2> QED BY <1>0, <1>1, <1>2, <2>1 DEF MadeInv
<1>5. ResultInv'
  <2>1. at'[r] = "composed" /\ answer'[r].conclusive => Shows(r, answer[r].image)'
    <3> SUFFICES ASSUME at'[r] = "composed", answer'[r].conclusive PROVE Shows(r, answer[r].image)'
      OBVIOUS
    <3>1. answer'[r] = [image |-> images[Shot!Path(r)].of, conclusive |-> Shot!Conclusive(r)]
      BY <1>2
    <3>2. kind[r] = "provider" /\ told[r]
      <4>1. answer'[r].conclusive = Shot!Conclusive(r)
        BY <3>1
      <4> QED BY <4>1 DEF Shot!Conclusive
    <3>3. Made(r)
      BY <1>0, <1>1, <3>2 DEF MadeInv
    <3>4. LET image == images[Shot!Path(r)].of
          IN image = r \/ (Shot!MovedTo(r)' /\ image \in Shot!Screenshots')
      BY <1>1, <1>o, <3>3, ShownStill DEF Made
    <3> QED BY <3>1, <3>4 DEF Shows
  <2>2. at'[r] \in {"composed", "failed"}
    BY <1>2
  <2>3. ASSUME NEW s \in Requests, s # r, at'[s] \in Late, answer'[s].conclusive
        PROVE  Shows(s, answer[s].image)'
    <3>1. Shows(s, answer[s].image) /\ answer'[s] = answer[s]
      BY <1>0, <1>2, <2>3 DEF ResultInv, Late
    <3>2. answer[s].image = s \/ (Shot!MovedTo(s)' /\ answer[s].image \in Shot!Screenshots')
      BY <1>1, <1>o, <3>1, ShownStill
    <3> QED BY <3>1, <3>2 DEF Shows
  <2> HIDE DEF Shows
  <2> QED BY <2>1, <2>2, <2>3 DEF ResultInv, Late
<1> QED BY <1>3, <1>4, <1>5, ResultTypes DEF CaptureInv

\* Of the requests that have looked for a sidecar, one moves its own there.
LEMMA DescribeKeeps ==
  ASSUME CaptureInv, Shot!CaptureAssumption, NEW r \in Requests, Shot!MoveSidecar(r)
  PROVE  CaptureInv'
<1>0. Shot!TypeOK /\ KindsInv /\ Shot!SavedIsDescribed /\ MadeInv /\ ResultInv
  BY DEF CaptureInv
<1>1. /\ at[r] = "describing"
      /\ \/ /\ sidecars[Stem[r]] = None /\ sidecars' = [sidecars EXCEPT ![Stem[r]] = r]
            /\ at' = [at EXCEPT ![r] = "saved"]
         \/ sidecars' = sidecars /\ at' = [at EXCEPT ![r] = "failed"]
      /\ UNCHANGED <<kind, told, answer, ring, asked, images>>
  BY DEF Shot!MoveSidecar, Shot!Moves, Shot!Fails, Shot!busVars
<1>2. at'[r] \in {"saved", "failed"} /\ \A s \in Requests : s # r => at'[s] = at[s]
  BY <1>0, <1>1 DEF Shot!TypeOK
<1>o. Onward
  BY <1>2 DEF Onward, Scanning
<1>3. KindsInv' /\ ResultInv'
  <2>1. KindsInv'
    BY <1>0, <1>1, <1>2 DEF KindsInv, Shot!Path
  <2>2. ResultInv'
    BY <1>0, <1>1, <1>2, <1>o, ResultStill DEF Late
  <2> QED BY <2>1, <2>2
<1>4. MadeInv'
  <2>1. \A s : Made(s) => Made(s)'
    BY <1>1, <1>o, MadeStill
  <2> HIDE DEF Made
  <2> QED BY <1>0, <1>1, <1>2, <2>1 DEF MadeInv
<1>5. Shot!SavedIsDescribed'
  <2>1. CASE sidecars' = sidecars /\ at' = [at EXCEPT ![r] = "failed"]
    <3>1. at'[r] = "failed"
      BY <1>0, <2>1 DEF Shot!TypeOK
    <3> QED BY <1>0, <1>1, <1>2, <2>1, <3>1 DEF Shot!SavedIsDescribed
  <2>2. CASE sidecars[Stem[r]] = None /\ sidecars' = [sidecars EXCEPT ![Stem[r]] = r] /\ at' = [at EXCEPT ![r] = "saved"]
    <3>1. \A s \in Requests : Stem[s] \in Shot!Stems
      BY DEF Shot!Stems
    <3>2. \A s \in Requests : sidecars'[Stem[s]] = IF Stem[s] = Stem[r] THEN r ELSE sidecars[Stem[s]]
      BY <1>0, <2>2, <3>1 DEF Shot!TypeOK
    <3>3. \A s \in Requests : Stem[s] = Stem[r] => at[s] # "saved"
      BY <1>0, <2>2 DEF Shot!SavedIsDescribed, Shot!CaptureAssumption
    <3>4. at'[r] = "saved"
      BY <1>0, <2>2 DEF Shot!TypeOK
    <3> QED BY <1>0, <1>2, <3>2, <3>3, <3>4 DEF Shot!SavedIsDescribed
  <2> QED BY <1>1, <2>1, <2>2
<1> QED BY <1>3, <1>4, <1>5, ResultTypes DEF CaptureInv

\* A provider writes where nothing is, and closes what it has written.
LEMMA WriteKeeps ==
  ASSUME CaptureInv, Shot!CaptureAssumption, NEW r \in Requests, Shot!ProviderWrites(r) \/ Shot!ProviderCloses(r)
  PROVE  CaptureInv'
<1>0. Shot!TypeOK /\ KindsInv /\ Shot!SavedIsDescribed /\ MadeInv /\ ResultInv
  BY DEF CaptureInv
<1> DEFINE p == Shot!Path(r)
<1>1. /\ UNCHANGED <<kind, at, cursor, told, gap, sampled, answer, before, abandoned, ring, head, noise, sidecars,
                      shots, slot>>
      /\ asked[r] # "no"
      /\ \E v \in {"writing", "written", "over"} : asked' = [asked EXCEPT ![r] = v]
      /\ \/ /\ images[p] = None /\ images' = [images EXCEPT ![p] = [of |-> r, whole |-> FALSE]]
         \/ /\ asked[r] \in {"writing", "told"} /\ images' = [images EXCEPT ![p].whole = TRUE]
  <2>1. CASE Shot!ProviderWrites(r)
    BY <2>1 DEF Shot!ProviderWrites, Shot!requestVars, Shot!busVars
  <2>2. CASE Shot!ProviderCloses(r)
    <3>1. PICK ended \in {<<"writing", "written">>, <<"told", "over">>} :
            asked[r] = ended[1] /\ asked' = [asked EXCEPT ![r] = ended[2]]
      BY <2>2, Zenon DEF Shot!ProviderCloses
    <3>2. /\ asked[r] \in {"writing", "told"}
          /\ \E v \in {"written", "over"} : asked' = [asked EXCEPT ![r] = v]
      <4>1. CASE ended = <<"writing", "written">>
        BY <3>1, <4>1
      <4>2. CASE ended = <<"told", "over">>
        BY <3>1, <4>2
      <4> QED BY <3>1, <4>1, <4>2
    <3> QED BY <2>2, <3>2 DEF Shot!ProviderCloses, Shot!requestVars, Shot!busVars
  <2> QED BY <2>1, <2>2
<1>2. p \in Shot!Paths /\ images \in [Shot!Paths -> Shot!Files \union {None}]
  BY <1>0 DEF Shot!TypeOK, Shot!Path, Shot!Paths, Shot!Stems
<1>3. images' \in [Shot!Paths -> Shot!Files \union {None}]
  <2>1. CASE images' = [images EXCEPT ![p] = [of |-> r, whole |-> FALSE]]
    BY <1>2, <2>1 DEF Shot!Files
  <2>2. CASE asked[r] \in {"writing", "told"} /\ images' = [images EXCEPT ![p].whole = TRUE]
    <3>1. images[p] \in Shot!Files /\ images' = [images EXCEPT ![p] = [images[p] EXCEPT !.whole = TRUE]]
      BY <1>0, <1>2, <2>2 DEF KindsInv
    <3>2. [images[p] EXCEPT !.whole = TRUE] \in Shot!Files
      BY <3>1 DEF Shot!Files
    <3> QED BY <1>2, <3>1, <3>2
  <2> QED BY <1>1, <2>1, <2>2
<1>4. Shot!TypeOK'
  <2>1. asked' \in [Requests -> {"no", "asked", "writing", "written", "told", "over"}]
    BY <1>0, <1>1 DEF Shot!TypeOK
  <2>2. Shot!Paths' = Shot!Paths /\ Shot!Files' = Shot!Files
    BY DEF Shot!Paths, Shot!Stems, Shot!Kinds, Shot!Files
  <2> QED BY <1>0, <1>1, <1>3, <2>1, <2>2 DEF Shot!TypeOK
<1>5. \A s \in Requests : Shot!Path(s)' = Shot!Path(s) /\ Shot!Path(s) \in Shot!Paths
  BY <1>0, <1>1 DEF Shot!TypeOK, Shot!Path, Shot!Paths, Shot!Stems
<1>6. \A q \in Shot!Paths : images[q] # None => images'[q] # None /\ images'[q].of = images[q].of
  <2>1. CASE images[p] = None /\ images' = [images EXCEPT ![p] = [of |-> r, whole |-> FALSE]]
    BY <1>2, <2>1
  <2>2. CASE asked[r] \in {"writing", "told"} /\ images' = [images EXCEPT ![p].whole = TRUE]
    <3>1. /\ images[p] \in Shot!Files /\ images' = [images EXCEPT ![p] = [images[p] EXCEPT !.whole = TRUE]]
      BY <1>0, <1>2, <2>2 DEF KindsInv
    <3>2. [images[p] EXCEPT !.whole = TRUE] # None /\ [images[p] EXCEPT !.whole = TRUE].of = images[p].of
      <4>1. [images[p] EXCEPT !.whole = TRUE] \in Shot!Files
        BY <3>1 DEF Shot!Files
      <4>2. [images[p] EXCEPT !.whole = TRUE] # None
        BY <4>1 DEF Shot!CaptureAssumption
      <4> QED BY <3>1, <4>2 DEF Shot!Files
    <3> QED BY <1>2, <3>1, <3>2
  <2> QED BY <1>1, <2>1, <2>2
<1>7. images'[p] # None
  <2>1. CASE images[p] = None /\ images' = [images EXCEPT ![p] = [of |-> r, whole |-> FALSE]]
    <3>1. [of |-> r, whole |-> FALSE] \in Shot!Files
      BY DEF Shot!Files
    <3> QED BY <1>2, <2>1, <3>1 DEF Shot!CaptureAssumption
  <2>2. CASE asked[r] \in {"writing", "told"}
    BY <1>0, <1>2, <1>6, <2>2 DEF KindsInv
  <2> QED BY <1>1, <2>1, <2>2
<1>8. \A s \in Requests : s # r => asked'[s] = asked[s]
  BY <1>0, <1>1 DEF Shot!TypeOK
<1> HIDE DEF p
<1>o. Onward
  BY <1>1 DEF Onward
<1>9. Shot!SavedIsDescribed' /\ ResultInv'
  <2>1. Shot!SavedIsDescribed'
    BY <1>0, <1>1 DEF Shot!SavedIsDescribed
  <2>2. ResultInv'
    BY <1>0, <1>1, <1>o, ResultStill
  <2> QED BY <2>1, <2>2
<1>10. KindsInv'
  BY <1>0, <1>1, <1>5, <1>6, <1>7, <1>8 DEF KindsInv, p
<1>11. MadeInv'
  <2>1. \A s \in Requests : Made(s) => Made(s)'
    <3> SUFFICES ASSUME NEW s \in Requests, Made(s) PROVE Made(s)'
      OBVIOUS
    <3>1. LET image == images[Shot!Path(s)].of
          IN image = s \/ (Shot!MovedTo(s)' /\ image \in Shot!Screenshots')
      BY <1>1, <1>o, ShownStill DEF Made
    <3>2. images'[Shot!Path(s)] # None /\ images'[Shot!Path(s)].of = images[Shot!Path(s)].of
      BY <1>5, <1>6 DEF Made
    <3> QED BY <1>5, <3>1, <3>2 DEF Made, Shows
  <2>2. Made(r)'
    <3>1. CASE images[p] = None /\ images' = [images EXCEPT ![p] = [of |-> r, whole |-> FALSE]]
      <4>1. images'[p].of = r /\ images'[p] # None /\ Shot!Path(r)' = p
        BY <1>2, <1>5, <1>7, <3>1 DEF p
      <4> QED BY <4>1 DEF Made, Shows
    <3>2. CASE asked[r] \in {"writing", "told"}
      BY <1>0, <2>1, <3>2 DEF MadeInv
    <3> QED BY <1>1, <3>1, <3>2
  <2>3. MadeInv
    BY <1>0
  <2>4. \A i \in DOMAIN ring : ring[i].of \in Requests \union {None}
    <3>1. ring \in Seq(Entry)
      BY <1>0 DEF Shot!TypeOK, Entry
    <3>2. \A i \in DOMAIN ring : ring[i] \in Entry
      BY <3>1
    <3> QED BY <3>2 DEF Entry
  <2> HIDE DEF Made
  <2> QED BY <1>1, <1>8, <2>1, <2>2, <2>3, <2>4 DEF MadeInv
<1> QED BY <1>4, <1>9, <1>10, <1>11 DEF CaptureInv

\* The game and its player touch no image of a request.
LEMMA CaptureAround ==
  ASSUME CaptureInv, Shot!CaptureAssumption,
         Shot!PlayerShoots \/ Shot!GameShoots \/ Shot!GameCloses \/ UNCHANGED Shot!vars
  PROVE  CaptureInv'
<1>1. UNCHANGED <<kind, at, told, answer, ring, asked, images, sidecars>>
  BY DEF Shot!PlayerShoots, Shot!GameShoots, Shot!GameCloses, Shot!vars, Shot!requestVars,
      Shot!busVars, Shot!fileVars
<1>2. Shot!TypeOK'
  <2>1. CASE UNCHANGED Shot!vars
    BY <2>1 DEF CaptureInv, Shot!TypeOK, Shot!vars, Shot!requestVars, Shot!busVars, Shot!fileVars
  <2> QED BY <2>1, GameTypes
<1>o. Onward
  BY <1>1 DEF Onward
<1>3. \A s : Made(s) => Made(s)'
  BY <1>1, <1>o, MadeStill
<1>4. KindsInv /\ Shot!SavedIsDescribed /\ MadeInv /\ ResultInv
  BY DEF CaptureInv
<1>5. KindsInv' /\ Shot!SavedIsDescribed' /\ ResultInv'
  <2>1. KindsInv' /\ Shot!SavedIsDescribed'
    BY <1>1, <1>4 DEF KindsInv, Shot!Path, Shot!SavedIsDescribed
  <2>2. ResultInv'
    BY <1>1, <1>4, <1>o, ResultStill
  <2> QED BY <2>1, <2>2
<1> HIDE DEF Made
<1>6. MadeInv'
  BY <1>1, <1>3, <1>4 DEF MadeInv
<1> QED BY <1>2, <1>5, <1>6 DEF CaptureInv

\* What is queued and what is scanned is of the player or of a native request.
LEMMA ShotsKeep ==
  ASSUME CaptureInv, ShotsInv, [Shot!Next]_Shot!vars
  PROVE  ShotsInv'
<1> USE DEF Shot!requestVars, Shot!busVars, Shot!fileVars
<1>0. kind' = kind => Shot!Screenshots' = Shot!Screenshots
  BY DEF Shot!Screenshots
<1>1. ASSUME NEW r \in Requests, Shot!QueueShot(r) PROVE ShotsInv'
  <2>1. kind' = kind /\ shots' = shots /\ (slot' = slot \/ (slot' = r /\ at[r] = "scanned"))
    BY <1>1 DEF Shot!QueueShot
  <2>2. at[r] = "scanned" => r \in Shot!Screenshots
    BY DEF CaptureInv, KindsInv, Shot!Screenshots
  <2> QED BY <1>0, <2>1, <2>2 DEF ShotsInv
<1>2. ASSUME NEW r \in Requests, Shot!MoveImage(r) PROVE ShotsInv'
  <2>1. kind' = kind /\ shots' \subseteq shots /\ slot' = slot
    BY <1>2 DEF Shot!MoveImage
  <2> QED BY <1>0, <2>1 DEF ShotsInv
<1>3. CASE Shot!PlayerShoots
  <2>1. kind' = kind /\ shots' = shots /\ slot' = Player
    BY <1>3 DEF Shot!PlayerShoots
  <2>2. Player \in Shot!Screenshots
    BY DEF Shot!Screenshots
  <2> QED BY <1>0, <2>1, <2>2 DEF ShotsInv
<1>4. CASE Shot!GameShoots
  <2>1. /\ kind' = kind /\ slot # None /\ slot' = None
        /\ shots' = shots \union {[of |-> slot, whole |-> FALSE]}
    BY <1>4 DEF Shot!GameShoots
  <2> QED BY <1>0, <2>1 DEF ShotsInv
<1>5. CASE Shot!GameCloses
  <2>1. PICK f \in shots : shots' = (shots \ {f}) \union {[f EXCEPT !.whole = TRUE]}
    BY <1>5 DEF Shot!GameCloses
  <2>2. kind' = kind /\ slot' = slot
    BY <1>5 DEF Shot!GameCloses
  <2>3. f \in Shot!Files
    BY DEF CaptureInv, Shot!TypeOK
  <2>4. [f EXCEPT !.whole = TRUE].of = f.of
    BY <2>3 DEF Shot!Files
  <2> QED BY <1>0, <2>1, <2>2, <2>4 DEF ShotsInv
<1>6. CASE UNCHANGED <<kind, slot, shots>>
  BY <1>0, <1>6 DEF ShotsInv
<1>7. ASSUME NEW r \in Requests,
             \/ Shot!Begin(r) \/ Shot!Dispatch(r) \/ Shot!DispatchFails(r) \/ Shot!ReadEvents(r)
             \/ Shot!Look(r) \/ Shot!AwaitTimeout(r) \/ Shot!Scan(r) \/ Shot!ScanAgain(r)
             \/ Shot!NameImage(r)
      PROVE  UNCHANGED <<kind, slot, shots>>
  BY <1>7 DEF Shot!Begin, Shot!Dispatch, Shot!DispatchFails, Shot!ReadEvents, Shot!Look,
              Shot!AwaitTimeout, Shot!Scan, Shot!ScanAgain, Shot!NameImage
<1>8. ASSUME NEW r \in Requests,
             \/ Shot!ProbePhysical(r) \/ Shot!ProbeAgain(r) \/ Shot!LookForSidecar(r)
             \/ Shot!MoveSidecar(r) \/ Shot!ProviderWrites(r) \/ Shot!ProviderCloses(r)
             \/ Shot!ProviderTells(r) \/ Shot!ProviderFails(r)
      PROVE  UNCHANGED <<kind, slot, shots>>
  BY <1>8 DEF Shot!ProbePhysical, Shot!ProbeAgain, Shot!LookForSidecar, Shot!MoveSidecar,
              Shot!ProviderWrites, Shot!ProviderCloses, Shot!ProviderTells, Shot!ProviderFails
<1>9. Shot!OtherEvent \/ UNCHANGED Shot!vars => UNCHANGED <<kind, slot, shots>>
  BY DEF Shot!OtherEvent, Shot!vars
<1> QED BY <1>1, <1>2, <1>3, <1>4, <1>5, <1>6, <1>7, <1>8, <1>9 DEF Shot!Next

\* The inductive invariant, for any requests, names and sizes of the ring.
THEOREM CaptureInvariant ==
  ASSUME Shot!CaptureAssumption PROVE Shot!Spec => []CaptureInv
<1>1. Shot!Init => CaptureInv /\ ShotsInv
  BY CaptureInitially DEF Shot!Init, ShotsInv
<1>2. CaptureInv /\ ShotsInv /\ [Shot!Next]_Shot!vars => CaptureInv' /\ ShotsInv'
  <2> SUFFICES ASSUME CaptureInv, ShotsInv, [Shot!Next]_Shot!vars PROVE CaptureInv'
    BY ShotsKeep
  <2>1. CASE Shot!PlayerShoots \/ Shot!GameShoots \/ Shot!GameCloses \/ UNCHANGED Shot!vars
    BY <2>1, CaptureAround
  <2>2. ASSUME NEW r \in Requests,
               \/ Shot!Begin(r) \/ Shot!DispatchFails(r) \/ Shot!Look(r) \/ Shot!AwaitTimeout(r)
               \/ Shot!Scan(r) \/ Shot!QueueShot(r) \/ Shot!ScanAgain(r) \/ Shot!NameImage(r)
               \/ Shot!ProbePhysical(r) \/ Shot!LookForSidecar(r)
        PROVE  CaptureInv'
    BY <2>2, CaptureTurns
  <2>3. ASSUME NEW r \in Requests,
               \/ Shot!Dispatch(r) \/ Shot!ReadEvents(r) \/ Shot!MoveImage(r)
               \/ Shot!ProbeAgain(r) \/ Shot!MoveSidecar(r)
        PROVE  CaptureInv'
    BY <2>3, DispatchKeeps, ReadKeeps, MoveKeeps, ProbeKeeps, DescribeKeeps
  <2>4. ASSUME NEW r \in Requests,
               \/ Shot!ProviderWrites(r) \/ Shot!ProviderCloses(r) \/ Shot!ProviderTells(r) \/ Shot!ProviderFails(r)
        PROVE  CaptureInv'
    BY <2>4, WriteKeeps, ProviderKeeps
  <2>5. CASE Shot!OtherEvent
    BY <2>5, ProviderKeeps
  <2> QED BY <2>1, <2>2, <2>3, <2>4, <2>5 DEF Shot!Next
<1> QED BY <1>1, <1>2, PTL DEF Shot!Spec

\* Every reachable state of the capture tool is well typed, and its ring within its limit.
THEOREM CaptureTypeCorrect ==
  ASSUME Shot!CaptureAssumption PROVE Shot!Spec => []Shot!TypeOK
<1>1. CaptureInv => Shot!TypeOK
  BY DEF CaptureInv
<1> QED BY <1>1, CaptureInvariant, PTL

\* A conclusive result is of the image that the own provider made, however late another
\* provider writes or tells; only a screenshot that a native request of the same path
\* may have moved there can be in its place.
THEOREM OwnImages ==
  ASSUME Shot!CaptureAssumption PROVE Shot!Spec => []Shot!ConclusiveIsOwn
<1>1. CaptureInv => Shot!ConclusiveIsOwn
  BY DEF CaptureInv, ResultInv, Shows, Shot!ConclusiveIsOwn
<1> QED BY <1>1, CaptureInvariant, PTL

\* Of any requests of one name at most one is saved, and its sidecar stays its own,
\* however many pass the checks together.
THEOREM OwnSidecars ==
  ASSUME Shot!CaptureAssumption PROVE Shot!Spec => []Shot!SavedIsDescribed
<1>1. CaptureInv => Shot!SavedIsDescribed
  BY DEF CaptureInv
<1> QED BY <1>1, CaptureInvariant, PTL

-----------------------------------------------------------------------------
(***************************************************************************)
(* The rest tool, with either back end. The rest that the back end has     *)
(* taken is at one place at a time: in the task queue, on the main thread, *)
(* with the poll thread, or carried away by the one thread that ends it.   *)
(* What the service and the tracker believe follows from that place and    *)
(* from the gate, which is passed or closed once: the slot is reserved     *)
(* exactly until the main thread has begun, whoever says "cancelled" holds *)
(* the gate, and the engine rests for nobody but the back end's rest       *)
(* unless that was given up.                                               *)
(***************************************************************************)
CONSTANTS Rests, Name, NoRequest, NoName

VARIABLES game, srv, accepting, gate, pc, reply, active, stopping, poll, ppc, queue, mpc, task, end,
          spc, menu, passing, pressed, accepted, started, blind

Pause == INSTANCE Rest

\* A listener that has not given its rest to the back end.
Early == {"idle", "reserve", "install"}
Undispatched == Early \union {"dispatch"}

\* A thread brings the back end the outcome of its rest.
Ends(t) == end[t].at = "backend"

\* The one entry of the queue.
Beginning == queue = << <<"begin", active>> >>
Polling == queue = << <<"poll", active>> >>

\* What has happened to a rest before its listener came to the dispatch.
ReachedInv ==
    /\ \A r \in Rests : pc[r] \in Early => srv.id # r /\ gate[r] = "queued"
    /\ \A r \in Rests : pc[r] \in Undispatched =>
          active # r /\ end[r].at = "done" /\ gate[r] # "running"
    /\ \A t \in Pause!Threads : end[t].at # "done" =>
          end[t].op \in Rests /\ pc[end[t].op] \notin Undispatched
    /\ \A r \in Rests : pc[r] \in {"idle", "reserve"} => ~Pause!Holds(slot, r)
    /\ \A r \in Rests : pc[r] = "install" => Pause!Holds(slot, r)
    /\ \A r \in Rests : pc[r] = "cancelled" => gate[r] = "cancelled"

\* The back end's operation is at one place: in the queue, on the main thread, with the
\* poll thread, or on the way out.
TurnInv ==
    /\ queue = <<>> \/ Beginning \/ Polling
    /\ Beginning => active \in Rests /\ mpc = "idle" /\ poll = "idle" /\ gate[active] # "running"
    /\ Polling => active \in Rests /\ mpc = "idle" /\ poll = "queued"
    /\ mpc # "idle" =>
          /\ queue = <<>> /\ poll = "idle" /\ active = task /\ active \in Rests
          /\ gate[task] = "running" /\ end["main"].at = "done"
    /\ poll # "idle" => active \in Rests /\ gate[active] = "running"
    /\ poll = "requested" => queue = <<>>
    /\ \A t \in Pause!Threads : Ends(t) =>
          /\ active = end[t].op /\ queue = <<>> /\ mpc = "idle" /\ poll # "requested"
          /\ \A u \in Pause!Threads : Ends(u) => u = t
    /\ \A t \in Pause!Threads : end[t].at \in {"service", "tracker"} => active # end[t].op

\* The service, the tracker and the gate.
ServedInv ==
    /\ srv.active => Pause!Holds(slot, srv.id)
    /\ \A r \in Rests : (pc[r] = "dispatch" \/ active = r) /\ gate[r] # "cancelled" => Pause!Ongoing(r)
    /\ \A r \in Rests : Pause!Holds(slot, r) =>
          Pause!Ongoing(r) \/ pc[r] = "install"
          \/ \E t \in Pause!Threads : end[t].at = "tracker" /\ end[t].op = r
    /\ \A t \in Pause!Threads : end[t].at = "tracker" => ~Pause!Ongoing(end[t].op)

\* Whoever is told that a rest is cancelled has its gate.
RevokedInv ==
    /\ srv.id \in Rests /\ srv.phase = "cancelled" => gate[srv.id] = "cancelled"
    /\ \A r \in Rests : reply[r] = "cancelled" => gate[r] = "cancelled"
    /\ \A t \in Pause!Threads : end[t].at # "done" /\ end[t].outcome = "cancelled" =>
          gate[end[t].op] = "cancelled"
    /\ spc # "idle" => ~accepting
    /\ spc \in {"revoke", "cancelled", "uncertain"} => srv.id \in Rests
    /\ spc = "cancelled" => gate[srv.id] = "cancelled"

\* A reservation is one exactly until the main thread has begun the rest.
PhaseInv ==
    /\ \A r \in Rests : Pause!Holds(slot, r) /\ gate[r] # "running" => slot.phase = "reserved"
    /\ mpc = "dispatching" /\ Pause!Holds(slot, task) => slot.phase = "reserved"
    /\ mpc \notin {"idle", "dispatching"} /\ Pause!Holds(slot, task) => slot.phase # "reserved"
    /\ srv.active /\ srv.dispatched => slot.phase # "reserved"
    /\ \A t \in Pause!Threads :
          end[t].at = "tracker" /\ end[t].dispatched /\ Pause!Holds(slot, end[t].op) =>
              slot.phase # "reserved"

Going(r) == active = r /\ accepted /\ \A t \in Pause!Threads : ~Ends(t)

\* The engine rests only for the back end's operation, unless it was given up.
NativeInv ==
    /\ accepted => poll # "idle" \/ \E t \in Pause!Threads : Ends(t)
    /\ pressed # NoRequest => menu = "open" /\ passing = NoRequest
    /\ mpc \in {"queued", "queuedService", "toggle"} => pressed = NoRequest /\ passing = NoRequest
    /\ poll # "idle" /\ ~accepted /\ (\A t \in Pause!Threads : ~Ends(t)) =>
          pressed = NoRequest /\ passing = NoRequest
    /\ \A r \in {passing, pressed} : r # NoRequest /\ ~blind => Going(r)
    /\ blind => pressed # NoRequest \/ passing # NoRequest

CoreInv == ReachedInv /\ TurnInv /\ ServedInv /\ RevokedInv /\ PhaseInv /\ NativeInv

RestInv == Pause!TypeOK /\ CoreInv

-----------------------------------------------------------------------------
(* The types.                                                              *)

\* A thread of the tool, by name.
LEMMA ThreadTypes ==
  ASSUME Pause!RestsAssumption
  PROVE  /\ "main" \in Pause!Threads /\ "poll" \in Pause!Threads /\ "main" # "poll"
         /\ \A r \in Rests : r \in Pause!Threads /\ r # "main" /\ r # "poll" /\ r # NoRequest
         /\ Rests \subseteq Requests
         /\ \A v \in Pause!Rivals : v \in Requests /\ v \notin Rests
  BY DEF Pause!RestsAssumption, Pause!Threads, Pause!Rivals

\* The fields of the records.
LEMMA Fields ==
  ASSUME Pause!TypeOK
  PROVE  /\ slot \in Pause!Operations /\ slot.active \in BOOLEAN
         /\ srv.active \in BOOLEAN /\ srv.dispatched \in BOOLEAN
         /\ srv.id \in Rests \union {NoRequest}
         /\ srv.active => srv.id \in Rests /\ srv.phase \notin Pause!Outcomes
         /\ ~srv.active => srv.phase \in Pause!Outcomes
         /\ \A t \in Pause!Threads :
               /\ end[t].op \in Rests \union {NoRequest} /\ end[t].outcome \in Pause!Outcomes
               /\ end[t].dispatched \in BOOLEAN
               /\ end[t].at \in {"backend", "service", "tracker", "done"}
<1>1. slot \in Pause!Operations /\ srv \in Pause!RestOperations
      /\ end \in [Pause!Threads -> Pause!Completions]
  BY DEF Pause!TypeOK
<1>2. slot.active \in BOOLEAN
  BY <1>1 DEF Pause!Operations
<1>3. /\ srv.active \in BOOLEAN /\ srv.dispatched \in BOOLEAN
      /\ srv.id \in Rests \union {NoRequest}
      /\ srv.active => srv.id \in Rests /\ srv.phase \notin Pause!Outcomes
      /\ ~srv.active => srv.phase \in Pause!Outcomes
  BY <1>1 DEF Pause!RestOperations, Pause!Outcomes
<1>4. ASSUME NEW t \in Pause!Threads
      PROVE  /\ end[t].op \in Rests \union {NoRequest} /\ end[t].outcome \in Pause!Outcomes
             /\ end[t].dispatched \in BOOLEAN
             /\ end[t].at \in {"backend", "service", "tracker", "done"}
  BY <1>1 DEF Pause!Completions
<1> QED BY <1>1, <1>2, <1>3, <1>4

\* What takes the slot, and what moves its operation on.
LEMMA SlotMoves ==
  ASSUME NEW o \in Pause!Operations, NEW r
  PROVE  /\ \A q \in Requests : Pause!TryBegin(o, q, "wait", 0) \in Pause!Operations
         /\ \A q \in Requests : Pause!TryBegin(o, q, "advanceTime", 0) \in Pause!Operations
         /\ Pause!MarkDispatching(o, r) \in Pause!Operations
         /\ Pause!MarkQueued(o, r) \in Pause!Operations
  BY DEF Pause!Operations, Pause!ActivePhases, Pause!TerminalPhases, Pause!Kinds, Pause!TryBegin,
         Pause!MarkDispatching, Pause!MarkQueued, Pause!CanDispatch, Pause!Holds

\* What ends the slot's operation ends the one that is meant, and no other.
EndedAs(o, r, ended) == ended = o \/ (o.active /\ o.id = r /\ ended.active = FALSE)

LEMMA SlotEnds ==
  ASSUME NEW o \in Pause!Operations, NEW r
  PROVE  /\ Pause!MarkCancelled(o, r) \in Pause!Operations
         /\ EndedAs(o, r, Pause!MarkCancelled(o, r))
         /\ Pause!MarkDispatchFailed(o, r) \in Pause!Operations
         /\ EndedAs(o, r, Pause!MarkDispatchFailed(o, r))
         /\ \A success \in BOOLEAN : /\ Pause!MarkCompleted(o, r, success) \in Pause!Operations
                                    /\ EndedAs(o, r, Pause!MarkCompleted(o, r, success))
<1>1. ASSUME Pause!Holds(o, r), NEW phase \in Pause!TerminalPhases
      PROVE  Pause!End(o, phase) \in Pause!Operations /\ EndedAs(o, r, Pause!End(o, phase))
  BY <1>1 DEF Pause!Operations, Pause!End, Pause!Holds, EndedAs
<1>2. {"failed", "cancelled", "succeeded"} \subseteq Pause!TerminalPhases
  BY DEF Pause!TerminalPhases
<1>3. /\ Pause!MarkCancelled(o, r) \in Pause!Operations
      /\ EndedAs(o, r, Pause!MarkCancelled(o, r))
  BY <1>1, <1>2 DEF Pause!MarkCancelled, EndedAs
<1>4. /\ Pause!MarkDispatchFailed(o, r) \in Pause!Operations
      /\ EndedAs(o, r, Pause!MarkDispatchFailed(o, r))
  BY <1>1, <1>2 DEF Pause!MarkDispatchFailed, EndedAs
<1>5. ASSUME NEW success \in BOOLEAN
      PROVE  /\ Pause!MarkCompleted(o, r, success) \in Pause!Operations
             /\ EndedAs(o, r, Pause!MarkCompleted(o, r, success))
  BY <1>1, <1>2 DEF Pause!MarkCompleted, Pause!CanComplete, EndedAs
<1> QED BY <1>3, <1>4, <1>5

\* Each way of ending ends the operation in the phase that it is for.
LEMMA EndsHeld ==
  ASSUME NEW o \in Pause!Operations, NEW r, Pause!Holds(o, r)
  PROVE  /\ o.phase = "reserved" => Pause!MarkCancelled(o, r).active = FALSE
         /\ Pause!MarkDispatchFailed(o, r).active = FALSE
         /\ o.phase # "reserved" =>
               \A success \in BOOLEAN : Pause!MarkCompleted(o, r, success).active = FALSE
  BY DEF Pause!MarkCancelled, Pause!MarkDispatchFailed, Pause!MarkCompleted, Pause!CanComplete,
         Pause!End, Pause!Operations

\* What a thread takes up.
LEMMA CarryTypes ==
  ASSUME NEW r \in Rests, NEW outcome \in {"completed", "cancelled", "failed"},
         NEW place \in {"backend", "service"}, NEW carried, carried = Pause!Carry(r, outcome, place)
  PROVE  /\ carried \in Pause!Completions
         /\ carried.op = r /\ carried.at = place /\ carried.outcome = outcome
  BY DEF Pause!Carry, Pause!Completions, Pause!Outcomes

\* The entries of the queue.
LEMMA EntryTypes ==
  ASSUME NEW r \in Rests, NEW what \in {"begin", "poll"}
  PROVE  /\ << <<what, r>> >> \in Seq({"begin", "poll"} \X Rests)
         /\ \A q \in Seq({"begin", "poll"} \X Rests) :
               Append(q, <<what, r>>) \in Seq({"begin", "poll"} \X Rests)
<1>1. <<what, r>> \in {"begin", "poll"} \X Rests
  OBVIOUS
<1> QED BY <1>1, AppendProperties

\* The queue is empty or has one entry, which can be told from the others.
LEMMA QueueHead ==
  ASSUME TurnInv
  PROVE  /\ ~(Beginning /\ Polling)
         /\ Beginning => /\ queue # <<>> /\ Head(queue)[1] = "begin" /\ Head(queue)[2] = active
                         /\ Tail(queue) = <<>>
         /\ Polling => /\ queue # <<>> /\ Head(queue)[1] = "poll" /\ Head(queue)[2] = active
                       /\ Tail(queue) = <<>>
         /\ queue = <<>> => \A r \in Rests, what \in {"begin", "poll"} :
               /\ Append(queue, <<what, r>>) = << <<what, r>> >> /\ Append(queue, <<what, r>>) # <<>>
<1>1. ~(Beginning /\ Polling)
  BY << <<"begin", active>> >>[1] # << <<"poll", active>> >>[1] DEF Beginning, Polling
<1>2. Beginning => /\ queue # <<>> /\ Head(queue)[1] = "begin" /\ Head(queue)[2] = active
                   /\ Tail(queue) = <<>>
  BY DEF Beginning
<1>3. Polling => /\ queue # <<>> /\ Head(queue)[1] = "poll" /\ Head(queue)[2] = active
                 /\ Tail(queue) = <<>>
  BY DEF Polling
<1>4. ASSUME NEW r \in Rests, NEW what \in {"begin", "poll"}
      PROVE  Append(<<>>, <<what, r>>) = << <<what, r>> >> /\ Append(<<>>, <<what, r>>) # <<>>
  OBVIOUS
<1> QED BY <1>1, <1>2, <1>3, <1>4

\* How the service closes its operation, or marks it.
LEMMA ServiceCloses ==
  ASSUME Pause!TypeOK, srv.active
  PROVE  /\ Pause!CloseRevoked => slot' \in Pause!Operations /\ srv' \in Pause!RestOperations
         /\ Pause!MarkUncertain => slot' \in Pause!Operations /\ srv' \in Pause!RestOperations
<1>1. slot \in Pause!Operations /\ srv \in Pause!RestOperations
  BY DEF Pause!TypeOK
<1>2. ASSUME Pause!CloseRevoked PROVE slot' \in Pause!Operations /\ srv' \in Pause!RestOperations
  <2>1. slot' \in Pause!Operations
    BY <1>1, <1>2, SlotEnds DEF Pause!CloseRevoked
  <2>2. srv' \in Pause!RestOperations
    BY <1>1, <1>2 DEF Pause!CloseRevoked, Pause!RestOperations, Pause!Outcomes
  <2> QED BY <2>1, <2>2
<1>3. ASSUME Pause!MarkUncertain PROVE slot' \in Pause!Operations /\ srv' \in Pause!RestOperations
  BY <1>1, <1>3 DEF Pause!MarkUncertain, Pause!RestOperations
<1> QED BY <1>2, <1>3

\* The listeners and the other mutations.
LEMMA ListenerTypes ==
  ASSUME Pause!RestsAssumption, RestInv, \/ \E r \in Rests : Pause!Start(r)
                                         \/ \E r \in Pause!Rivals : Pause!Rival(r)
  PROVE  Pause!TypeOK'
<1> USE DEF RestInv, CoreInv, Pause!listenerVars, Pause!serviceVars, Pause!backVars, Pause!mainVars,
            Pause!nativeVars
<1>0. slot \in Pause!Operations /\ Rests \subseteq Requests /\ Pause!Rivals \subseteq Requests
  BY Fields, ThreadTypes
<1>1. ASSUME NEW r \in Rests, Pause!Enter(r) PROVE Pause!TypeOK'
  BY <1>1 DEF Pause!Enter, Pause!Return, Pause!TypeOK
<1>2. ASSUME NEW r \in Rests, Pause!Reserve(r) PROVE Pause!TypeOK'
  <2>1. slot' \in Pause!Operations
    BY <1>0, <1>2, SlotMoves DEF Pause!Reserve
  <2> QED BY <1>2, <2>1 DEF Pause!Reserve, Pause!Return, Pause!TypeOK
<1>3. ASSUME NEW r \in Rests, Pause!Install(r) PROVE Pause!TypeOK'
  <2>1. slot' \in Pause!Operations
    BY <1>0, <1>3, SlotEnds DEF Pause!Install
  <2>2. srv' \in Pause!RestOperations
    <3>1. Pause!NewRest(r) \in Pause!RestOperations
      BY DEF Pause!NewRest, Pause!RestOperations
    <3> QED BY <1>3, <3>1 DEF Pause!Install, Pause!TypeOK
  <2> QED BY <1>3, <2>1, <2>2 DEF Pause!Install, Pause!Return, Pause!TypeOK
<1>4. ASSUME NEW r \in Rests, Pause!Dispatch(r) PROVE Pause!TypeOK'
  <2>1. end' \in [Pause!Threads -> Pause!Completions]
    <3>1. /\ Pause!Carry(r, "failed", "service") \in Pause!Completions
          /\ Pause!Carry(r, "failed", "backend") \in Pause!Completions
      BY CarryTypes
    <3> QED BY <1>4, <3>1 DEF Pause!Dispatch, Pause!TypeOK
  <2>2. queue' \in Seq({"begin", "poll"} \X Rests)
    <3>1. Append(queue, <<"begin", r>>) \in Seq({"begin", "poll"} \X Rests)
      BY EntryTypes DEF Pause!TypeOK
    <3> QED BY <1>4, <3>1 DEF Pause!Dispatch, Pause!TypeOK
  <2> QED BY <1>0, <1>4, <2>1, <2>2 DEF Pause!Dispatch, Pause!Goto, Pause!TypeOK
<1>5. ASSUME NEW r \in Rests, Pause!Woken(r) PROVE Pause!TypeOK'
  BY <1>0, <1>5 DEF Pause!Woken, Pause!Waits, Pause!Return, Pause!FinishResponse, Pause!TypeOK
<1>6. ASSUME NEW r \in Rests, Pause!Timeout(r) PROVE Pause!TypeOK'
  BY <1>0, <1>6 DEF Pause!Timeout, Pause!Waits, Pause!TypeOK
<1>7. ASSUME NEW r \in Rests, Pause!Revoke(r) PROVE Pause!TypeOK'
  BY <1>0, <1>7 DEF Pause!Revoke, Pause!CancelGate, Pause!TypeOK
<1>8. ASSUME NEW r \in Rests, Pause!SettleTimeout(r) PROVE Pause!TypeOK'
  <2>1. slot' \in Pause!Operations /\ srv' \in Pause!RestOperations
    BY <1>0, <1>8, ServiceCloses DEF Pause!SettleTimeout, Pause!TypeOK, Pause!Ongoing
  <2> QED BY SMTT(30), <1>8, <2>1 DEF Pause!SettleTimeout, Pause!Return, Pause!FinishResponse,
      Pause!TypeOK
<1>9. ASSUME NEW r \in Pause!Rivals, Pause!Rival(r) PROVE Pause!TypeOK'
  <2>1. slot' \in Pause!Operations
    BY <1>0, <1>9, SlotMoves, SlotEnds DEF Pause!Rival, Pause!RivalBegins, Pause!RivalEnds
  <2> QED BY <1>0, <1>9, <2>1 DEF Pause!Rival, Pause!RivalBegins, Pause!RivalEnds, Pause!Goto,
      Pause!TypeOK
<1> QED BY <1>1, <1>2, <1>3, <1>4, <1>5, <1>6, <1>7, <1>8, <1>9 DEF Pause!Start

\* A completion.
LEMMA CompletionTypes ==
  ASSUME Pause!RestsAssumption, RestInv, NEW t \in Pause!Threads, Pause!Complete(t)
  PROVE  Pause!TypeOK'
<1> USE DEF RestInv, CoreInv, Pause!listenerVars, Pause!serviceVars, Pause!backVars, Pause!mainVars,
            Pause!nativeVars
<1>0. Pause!Nothing \in Pause!Completions /\ end \in [Pause!Threads -> Pause!Completions]
  BY DEF Pause!Nothing, Pause!Completions, Pause!Outcomes, Pause!TypeOK
<1>1. CASE Pause!CompleteBackend(t)
  <2>1. end' \in [Pause!Threads -> Pause!Completions]
    BY <1>0, <1>1 DEF Pause!CompleteBackend, Pause!Completions
  <2>2. /\ active' \in Rests \union {NoRequest} /\ poll' \in {"idle", "requested", "queued"}
        /\ accepted' \in BOOLEAN /\ started' \in BOOLEAN
    BY <1>1 DEF Pause!CompleteBackend, Pause!TypeOK
  <2> QED BY <1>1, <2>1, <2>2 DEF Pause!CompleteBackend, Pause!TypeOK
<1>2. CASE Pause!CompleteService(t)
  <2>1. end' \in [Pause!Threads -> Pause!Completions]
    BY <1>0, <1>2, Fields DEF Pause!CompleteService, Pause!Completions
  <2>2. srv' \in Pause!RestOperations
    BY <1>2, Fields DEF Pause!CompleteService, Pause!RestOperations, Pause!TypeOK
  <2> QED BY <1>2, <2>1, <2>2 DEF Pause!CompleteService, Pause!TypeOK
<1>3. CASE Pause!CompleteTracker(t)
  <2>1. slot' \in Pause!Operations
    <3>1. (end[t].outcome = "completed") \in BOOLEAN /\ slot \in Pause!Operations
      BY Fields
    <3> QED BY <1>3, <3>1, SlotEnds DEF Pause!CompleteTracker, Pause!EndTracker
  <2>2. end' \in [Pause!Threads -> Pause!Completions]
    BY <1>0, <1>3 DEF Pause!CompleteTracker
  <2> QED BY <1>3, <2>1, <2>2 DEF Pause!CompleteTracker, Pause!TypeOK
<1> QED BY <1>1, <1>2, <1>3 DEF Pause!Complete

\* The main thread, from its task to the native menu.
LEMMA BeginTypes ==
  ASSUME Pause!RestsAssumption, RestInv,
         \/ Pause!PassGate \/ Pause!MarkTracker \/ Pause!MarkService \/ Pause!Refuse
         \/ Pause!ToggleFallout \/ Pause!QueueSkyrim \/ Pause!ToggleSkyrim
  PROVE  Pause!TypeOK'
<1> USE DEF RestInv, CoreInv, Pause!listenerVars, Pause!serviceVars, Pause!backVars, Pause!mainVars,
            Pause!nativeVars
<1>0. /\ end \in [Pause!Threads -> Pause!Completions] /\ slot \in Pause!Operations
      /\ "main" \in Pause!Threads /\ {"failed", "cancelled"} \subseteq Pause!Outcomes
  BY Fields, ThreadTypes DEF Pause!TypeOK, Pause!Outcomes
<1>1. CASE Pause!PassGate
  <2>1. Beginning /\ active \in Rests /\ Tail(queue) = <<>> /\ Head(queue)[2] = active
    BY <1>1, QueueHead DEF Pause!PassGate, TurnInv
  <2>2. end' \in [Pause!Threads -> Pause!Completions] /\ queue' = <<>>
    <3>1. Pause!Carry(active, "cancelled", "backend") \in Pause!Completions
      BY <2>1, CarryTypes
    <3> QED BY <1>0, <1>1, <2>1, <3>1 DEF Pause!PassGate, Pause!Give
  <2> QED BY <1>1, <2>1, <2>2 DEF Pause!PassGate, Pause!TypeOK
<1>2. CASE Pause!MarkTracker
  <2>1. task \in Rests
    BY <1>2 DEF Pause!MarkTracker, TurnInv
  <2>2. end' \in [Pause!Threads -> Pause!Completions]
    <3>1. /\ Pause!Carry(task, "cancelled", "backend") \in Pause!Completions
          /\ Pause!Carry(task, "failed", "backend") \in Pause!Completions
      BY <2>1, CarryTypes
    <3> QED BY <1>0, <1>2, <3>1 DEF Pause!MarkTracker, Pause!Fail, Pause!Give, Pause!op
  <2>3. slot' \in Pause!Operations
    BY <1>0, <1>2, SlotMoves DEF Pause!MarkTracker
  <2> QED BY <1>2, <2>2, <2>3 DEF Pause!MarkTracker, Pause!Fail, Pause!TypeOK
<1>3. CASE Pause!MarkService
  <2>1. srv' \in Pause!RestOperations
    BY <1>3 DEF Pause!MarkService, Pause!RestOperations, Pause!Outcomes, Pause!Ongoing, Pause!TypeOK
  <2> QED BY <1>3, <2>1 DEF Pause!MarkService, Pause!RequestPoll, Pause!TypeOK
<1>4. CASE Pause!Refuse
  <2>1. task \in Rests
    BY <1>4 DEF Pause!Refuse, TurnInv
  <2>2. end' \in [Pause!Threads -> Pause!Completions]
    BY <1>0, <1>4, <2>1, CarryTypes DEF Pause!Refuse, Pause!Fail, Pause!Give, Pause!op
  <2> QED BY <1>4, <2>2 DEF Pause!Refuse, Pause!Fail, Pause!TypeOK
<1>5. CASE Pause!ToggleFallout \/ Pause!QueueSkyrim \/ Pause!ToggleSkyrim
  BY <1>5 DEF Pause!ToggleFallout, Pause!QueueSkyrim, Pause!ToggleSkyrim, Pause!CanRest,
              Pause!RequestPoll, Pause!TypeOK
<1> QED BY <1>1, <1>2, <1>3, <1>4, <1>5

\* The poll thread and the shutdown.
LEMMA PollTypes ==
  ASSUME Pause!RestsAssumption, RestInv,
         Pause!Poll \/ Pause!PollExit \/ Pause!ShutdownClose \/ Pause!Shutdown
  PROVE  Pause!TypeOK'
<1> USE DEF RestInv, CoreInv, Pause!listenerVars, Pause!serviceVars, Pause!backVars, Pause!mainVars,
            Pause!nativeVars
<1>1. CASE Pause!Poll
  <2>1. active \in Rests /\ queue = <<>>
    BY <1>1 DEF Pause!Poll, TurnInv
  <2>2. end' \in [Pause!Threads -> Pause!Completions]
    <3>1. Pause!Carry(active, "failed", "backend") \in Pause!Completions
      BY <2>1, CarryTypes
    <3> QED BY <1>1, <3>1 DEF Pause!Poll, Pause!TypeOK
  <2>3. queue' \in Seq({"begin", "poll"} \X Rests)
    <3>1. Append(queue, <<"poll", active>>) \in Seq({"begin", "poll"} \X Rests)
      BY <2>1, EntryTypes DEF Pause!TypeOK
    <3> QED BY <1>1, <3>1 DEF Pause!Poll, Pause!TypeOK
  <2>4. blind' \in BOOLEAN
    BY <1>1 DEF Pause!Poll, Pause!GoesOn, Pause!TypeOK
  <2> QED BY <1>1, <2>2, <2>3, <2>4 DEF Pause!Poll, Pause!TypeOK
<1>2. CASE Pause!PollExit
  BY <1>2 DEF Pause!PollExit, Pause!TypeOK
<1>3. CASE Pause!ShutdownClose
  <2>1. spc' \in {"revoke", "backend"} /\ accepting' \in BOOLEAN
    BY <1>3 DEF Pause!ShutdownClose
  <2> QED BY <1>3, <2>1 DEF Pause!ShutdownClose, Pause!TypeOK
<1>4. CASE Pause!ShutdownRevoke
  <2>1. spc' \in {"cancelled", "uncertain"}
    BY <1>4 DEF Pause!ShutdownRevoke
  <2>2. gate' \in [Rests -> {"queued", "running", "cancelled"}]
    BY <1>4 DEF Pause!ShutdownRevoke, Pause!CancelGate, Pause!TypeOK
  <2> QED BY <1>4, <2>1, <2>2 DEF Pause!ShutdownRevoke, Pause!TypeOK
<1>5. CASE Pause!ShutdownSettle
  <2>1. slot' \in Pause!Operations /\ srv' \in Pause!RestOperations
    BY <1>5, Fields, ServiceCloses DEF Pause!ShutdownSettle, Pause!TypeOK
  <2> QED BY <1>5, <2>1 DEF Pause!ShutdownSettle, Pause!TypeOK
<1>6. CASE Pause!ShutdownBackend
  BY <1>6 DEF Pause!ShutdownBackend, Pause!CancelGate, Pause!TypeOK
<1>7. CASE Pause!ShutdownJoin
  BY <1>7 DEF Pause!ShutdownJoin, Pause!TypeOK
<1> QED BY <1>1, <1>2, <1>3, <1>4, <1>5, <1>6, <1>7 DEF Pause!Shutdown

-----------------------------------------------------------------------------
(* The listeners.                                                          *)

\* The service's operation stays, is closed by whoever revoked its gate, or is marked.
Settles == \/ UNCHANGED <<slot, srv>>
           \/ srv.active /\ gate[srv.id] = "cancelled" /\ Pause!CloseRevoked
           \/ srv.active /\ Pause!MarkUncertain

\* Somebody settles the operation: a listener that returns, or the shutdown.
LEMMA SettledKeeps ==
  ASSUME Pause!RestsAssumption, RestInv, Settles,
         UNCHANGED <<accepting, gate, active, poll, queue, mpc, task, end, Pause!nativeVars>>,
         \A r \in Rests : pc'[r] = pc[r] \/ (pc'[r] = "done" /\ pc[r] \notin Undispatched),
         \A r \in Rests : reply'[r] = "cancelled" => gate[r] = "cancelled",
         spc' \in {spc, "backend"}, spc' = "backend" => ~accepting
  PROVE  CoreInv'
<1> USE ThreadTypes DEF RestInv, CoreInv, Pause!nativeVars, Early, Undispatched, Ends, Beginning,
    Polling,
            Pause!Ongoing, Pause!Holds, Going
<1>1. TurnInv' /\ NativeInv'
  BY DEF TurnInv, NativeInv
<1>2. CASE UNCHANGED <<slot, srv>>
  <2>1. ReachedInv' /\ PhaseInv'
    BY <1>2 DEF ReachedInv, PhaseInv
  <2>2. ServedInv'
    BY <1>2 DEF ServedInv, ReachedInv
  <2>3. RevokedInv'
    BY <1>2 DEF RevokedInv
  <2> QED BY <1>1, <2>1, <2>2, <2>3
<1>3. CASE srv.active /\ gate[srv.id] = "cancelled" /\ Pause!CloseRevoked
  <2>1. Pause!Holds(slot, srv.id) /\ srv.id \in Rests /\ slot.phase = "reserved"
    BY <1>3, Fields DEF ServedInv, PhaseInv
  <2>2. slot'.active = FALSE
    BY ZenonT(40), <1>3, <2>1, Fields, EndsHeld DEF Pause!CloseRevoked
  <2>3. srv'.id = srv.id /\ srv'.active = FALSE /\ srv'.phase = "cancelled"
    BY <1>3 DEF Pause!CloseRevoked, Pause!TypeOK, Pause!RestOperations
  <2>4. ReachedInv'
    BY <2>1, <2>2, <2>3 DEF ReachedInv
  <2>5. ServedInv'
    BY <1>3, <2>1, <2>2, <2>3 DEF ServedInv, ReachedInv
  <2>6. RevokedInv'
    BY <1>3, <2>1, <2>3 DEF RevokedInv
  <2>7. PhaseInv'
    BY <2>2, <2>3 DEF PhaseInv
  <2> QED BY <1>1, <2>4, <2>5, <2>6, <2>7
<1>4. CASE srv.active /\ Pause!MarkUncertain
  <2>1. /\ srv'.id = srv.id /\ srv'.active = srv.active /\ srv'.dispatched = srv.dispatched
        /\ srv'.phase = "uncertain" /\ slot' = slot
    BY <1>4 DEF Pause!MarkUncertain, Pause!TypeOK, Pause!RestOperations
  <2>2. ReachedInv' /\ PhaseInv'
    BY <2>1 DEF ReachedInv, PhaseInv
  <2>3. ServedInv'
    BY <2>1 DEF ServedInv, ReachedInv
  <2>4. RevokedInv'
    BY <2>1 DEF RevokedInv
  <2> QED BY <1>1, <2>2, <2>3, <2>4
<1> QED BY <1>2, <1>3, <1>4 DEF Settles

\* A rest is installed, or its reservation given back.
LEMMA InstallKeeps ==
  ASSUME Pause!RestsAssumption, RestInv, NEW r \in Rests, Pause!Install(r)
  PROVE  CoreInv'
<1> USE ThreadTypes DEF RestInv, CoreInv, Pause!nativeVars, Pause!mainVars, Pause!backVars, Early,
    Undispatched, Ends,
            Beginning, Polling, Pause!Ongoing, Pause!Holds, Going
<1>1. /\ pc[r] = "install" /\ Pause!Holds(slot, r) /\ srv.id # r /\ gate[r] = "queued"
      /\ slot.phase = "reserved" /\ active # r /\ end[r].at = "done"
      /\ \A t \in Pause!Threads : end[t].at # "done" => end[t].op # r
      /\ ~srv.active
  BY Fields DEF Pause!Install, ReachedInv, ServedInv, PhaseInv
<1>2. TurnInv' /\ NativeInv'
  BY DEF TurnInv, NativeInv, Pause!Install
<1>3. CASE ~accepting
  <2>1. slot'.active = FALSE /\ srv' = srv /\ pc' = [pc EXCEPT ![r] = "done"]
        /\ reply' = [reply EXCEPT ![r] = "refused"] /\ UNCHANGED <<accepting, gate, end, spc, active, mpc, task>>
    <3>1. Pause!MarkCancelled(slot, r).active = FALSE
      BY <1>1, Fields, EndsHeld
    <3> QED BY <1>3, <3>1 DEF Pause!Install, Pause!Return
  <2>2. ReachedInv' /\ ServedInv'
    BY <1>1, <2>1 DEF ReachedInv, ServedInv, Pause!TypeOK
  <2>3. RevokedInv' /\ PhaseInv'
    BY <1>1, <2>1 DEF RevokedInv, PhaseInv, Pause!TypeOK
  <2> QED BY <1>2, <2>2, <2>3
<1>4. CASE accepting
  <2>1. slot' = slot /\ srv' = Pause!NewRest(r) /\ pc' = [pc EXCEPT ![r] = "dispatch"]
        /\ UNCHANGED <<reply, accepting, gate, end, spc, active, mpc, task>>
    BY <1>1, <1>4, Fields DEF Pause!Install
  <2>2. srv'.id = r /\ srv'.active = TRUE /\ srv'.dispatched = FALSE /\ srv'.phase = "reserved"
    BY <2>1 DEF Pause!NewRest
  <2>3. ReachedInv' /\ ServedInv'
    BY <1>1, <2>1, <2>2 DEF ReachedInv, ServedInv, Pause!TypeOK
  <2>4. RevokedInv'
    BY <1>1, <1>4, <2>1, <2>2 DEF RevokedInv
  <2>5. PhaseInv'
    BY <1>1, <2>1, <2>2 DEF PhaseInv
  <2> QED BY <1>2, <2>3, <2>4, <2>5
<1> QED BY <1>3, <1>4 DEF Pause!TypeOK

\* The rest is handed to the back end, which may fail to take it.
LEMMA DispatchKeepsRest ==
  ASSUME Pause!RestsAssumption, RestInv, NEW r \in Rests, Pause!Dispatch(r)
  PROVE  CoreInv'
<1> USE ThreadTypes DEF RestInv, CoreInv, Pause!nativeVars, Pause!serviceVars, Pause!Ongoing,
    Pause!Holds
<1>1. /\ pc[r] = "dispatch" /\ pc' = [pc EXCEPT ![r] = "wait"] /\ active # r
      /\ gate[r] # "running" /\ end[r].at = "done"
      /\ UNCHANGED <<slot, srv, accepting, gate, reply, poll, mpc, task, spc, menu, passing, pressed,
                     accepted, blind>>
  BY DEF Pause!Dispatch, Pause!Goto, ReachedInv, Undispatched
<1>2. /\ \A s \in Rests : pc'[s] = IF s = r THEN "wait" ELSE pc[s]
      /\ \A t \in Pause!Threads : t # r => end'[t] = end[t]
      /\ end'[r].at # "done" => end'[r].op = r
      /\ end'[r].at # "done" => end'[r].at \in {"backend", "service"} /\ end'[r].outcome # "cancelled"
      /\ active' \in {active, r}
  <2>1. /\ end' = [end EXCEPT ![r] = Pause!Carry(r, "failed", "service")]
        \/ end' = [end EXCEPT ![r] = Pause!Carry(r, "failed", "backend")] \/ end' = end
    BY DEF Pause!Dispatch
  <2> QED BY <1>1, <2>1, CarryTypes DEF Pause!Dispatch, Pause!TypeOK
<1>3. ReachedInv'
  <2>1. /\ \A s \in Rests : pc'[s] \in Early => srv'.id # s /\ gate'[s] = "queued"
        /\ \A s \in Rests : pc'[s] \in {"idle", "reserve"} => ~Pause!Holds(slot', s)
        /\ \A s \in Rests : pc'[s] = "install" => Pause!Holds(slot', s)
        /\ \A s \in Rests : pc'[s] = "cancelled" => gate'[s] = "cancelled"
    BY <1>1, <1>2 DEF ReachedInv, Early
  <2>2. \A s \in Rests : pc'[s] \in Undispatched =>
           active' # s /\ end'[s].at = "done" /\ gate'[s] # "running"
    BY <1>1, <1>2 DEF ReachedInv, Early, Undispatched
  <2>3. \A t \in Pause!Threads : end'[t].at # "done" =>
           end'[t].op \in Rests /\ pc'[end'[t].op] \notin Undispatched
    BY <1>1, <1>2 DEF ReachedInv, Early, Undispatched
  <2> QED BY <2>1, <2>2, <2>3 DEF ReachedInv
<1>4. ServedInv'
  <2>1. /\ srv'.active => Pause!Holds(slot', srv'.id)
        /\ \A s \in Rests : (pc'[s] = "dispatch" \/ active' = s) /\ gate'[s] # "cancelled" =>
              srv'.id = s /\ srv'.active
    BY <1>1, <1>2 DEF ServedInv
  <2>2. \A s \in Rests : Pause!Holds(slot', s) =>
          (srv'.id = s /\ srv'.active) \/ pc'[s] = "install"
          \/ \E t \in Pause!Threads : end'[t].at = "tracker" /\ end'[t].op = s
    BY <1>1, <1>2 DEF ServedInv
  <2>3. \A t \in Pause!Threads : end'[t].at = "tracker" => ~(srv'.id = end'[t].op /\ srv'.active)
    BY <1>1, <1>2 DEF ServedInv
  <2> QED BY <2>1, <2>2, <2>3 DEF ServedInv
<1>5. RevokedInv' /\ PhaseInv'
  BY <1>1, <1>2 DEF RevokedInv, PhaseInv
<1>6. TurnInv' /\ NativeInv'
  <2>1. CASE end' = [end EXCEPT ![r] = Pause!Carry(r, "failed", "service")] /\ UNCHANGED <<active, queue>>
    <3>1. end'[r].at = "service" /\ end'[r].op = r
      BY <2>1, CarryTypes DEF Pause!TypeOK
    <3> QED BY <1>1, <1>2, <2>1, <3>1 DEF TurnInv, NativeInv, Ends, Going, Beginning, Polling
  <2>2. CASE /\ active = NoRequest /\ active' = r
             /\ queue' = Append(queue, <<"begin", r>>) /\ UNCHANGED end
    <3>1. queue = <<>> /\ mpc = "idle" /\ poll = "idle" /\ \A t \in Pause!Threads : ~Ends(t)
      BY <2>2 DEF TurnInv, ReachedInv, Beginning, Polling, Ends
    <3>2. Beginning' /\ queue' # <<>> /\ ~Polling'
      <4>1. queue' = << <<"begin", r>> >>
        BY <2>2, <3>1, QueueHead DEF CoreInv
      <4>2. << <<"begin", r>> >>[1] # << <<"poll", r>> >>[1] /\ << <<"begin", r>> >> # <<>>
        OBVIOUS
      <4> QED BY <2>2, <4>1, <4>2 DEF Beginning, Polling
    <3>3. TurnInv'
      BY <1>1, <1>2, <2>2, <3>1, <3>2 DEF TurnInv, Ends, ReachedInv, Undispatched
    <3>4. NativeInv'
      BY <1>1, <1>2, <2>2, <3>1 DEF NativeInv, Going, Ends
    <3> QED BY <3>3, <3>4
  <2>3. CASE /\ active = NoRequest /\ active' = r
             /\ end' = [end EXCEPT ![r] = Pause!Carry(r, "failed", "backend")] /\ UNCHANGED queue
    <3>1. queue = <<>> /\ mpc = "idle" /\ poll = "idle" /\ \A t \in Pause!Threads : ~Ends(t)
      BY <2>3 DEF TurnInv, ReachedInv, Beginning, Polling, Ends
    <3>2. end'[r].at = "backend" /\ end'[r].op = r
      BY <2>3, CarryTypes DEF Pause!TypeOK
    <3>3. TurnInv'
      BY <1>1, <1>2, <2>3, <3>1, <3>2 DEF TurnInv, Ends, ReachedInv, Undispatched, Beginning,
          Polling
    <3>4. NativeInv'
      BY <1>1, <1>2, <2>3, <3>1 DEF NativeInv, Going, Ends
    <3> QED BY <3>3, <3>4
  <2> QED BY <2>1, <2>2, <2>3 DEF Pause!Dispatch
<1> QED BY <1>3, <1>4, <1>5, <1>6

\* The listeners, and the mutations that compete with the rests.
LEMMA ListenerKeeps ==
  ASSUME Pause!RestsAssumption, RestInv, \/ \E r \in Rests : Pause!Start(r)
                                         \/ \E r \in Pause!Rivals : Pause!Rival(r)
  PROVE  CoreInv'
<1> USE ThreadTypes DEF RestInv, CoreInv, Pause!listenerVars, Pause!nativeVars, Pause!mainVars,
            Pause!backVars, Pause!serviceVars, Early, Undispatched, Ends, Beginning, Polling,
            Pause!Ongoing, Pause!Holds, Going
<1>1. ASSUME NEW r \in Rests, Pause!Enter(r) PROVE CoreInv'
  <2>1. /\ pc[r] = "idle" /\ \A q \in Rests : pc'[q] = pc[q] \/ (q = r /\ pc'[q] \in {"reserve", "done"})
        /\ \A q \in Rests : reply'[q] = reply[q] \/ reply'[q] = "refused"
        /\ UNCHANGED <<slot, srv, accepting, gate, active, poll, queue, mpc, task, end, spc,
                       Pause!nativeVars>>
    BY <1>1 DEF Pause!Enter, Pause!Return, Pause!TypeOK
  <2>2. ReachedInv' /\ TurnInv'
    BY <2>1 DEF ReachedInv, TurnInv
  <2>3. ServedInv' /\ RevokedInv'
    BY <2>1 DEF ServedInv, RevokedInv
  <2>4. PhaseInv' /\ NativeInv'
    BY <2>1 DEF PhaseInv, NativeInv
  <2> QED BY <2>2, <2>3, <2>4
<1>2. ASSUME NEW r \in Rests, Pause!Reserve(r) PROVE CoreInv'
  <2>1. CASE slot.active
    <3>1. /\ pc[r] = "reserve" /\ pc' = [pc EXCEPT ![r] = "done"] /\ reply' = [reply EXCEPT ![r] = "refused"]
          /\ UNCHANGED <<slot, srv, accepting, gate, active, poll, queue, mpc, task, end, spc,
                         Pause!nativeVars>>
      BY <1>2, <2>1 DEF Pause!Reserve, Pause!Return, Pause!TryBegin
    <3>2. ReachedInv' /\ TurnInv'
      BY <3>1 DEF ReachedInv, TurnInv, Pause!TypeOK
    <3>3. ServedInv' /\ RevokedInv'
      BY <3>1 DEF ServedInv, RevokedInv, Pause!TypeOK
    <3>4. PhaseInv' /\ NativeInv'
      BY <3>1 DEF PhaseInv, NativeInv
    <3> QED BY <3>2, <3>3, <3>4
  <2>2. CASE ~slot.active
    <3>1. /\ pc[r] = "reserve" /\ pc' = [pc EXCEPT ![r] = "install"]
          /\ slot'.id = r /\ slot'.active /\ slot'.phase = "reserved"
          /\ UNCHANGED <<srv, accepting, gate, reply, active, poll, queue, mpc, task, end, spc,
                         Pause!nativeVars>>
      BY <1>2, <2>2 DEF Pause!Reserve, Pause!TryBegin
    <3>2. ReachedInv' /\ TurnInv'
      BY <2>2, <3>1 DEF ReachedInv, TurnInv, Pause!TypeOK
    <3>3. ServedInv' /\ RevokedInv'
      BY <2>2, <3>1 DEF ServedInv, RevokedInv, Pause!TypeOK
    <3>4. PhaseInv'
      BY <2>2, <3>1, Fields DEF PhaseInv, ServedInv, TurnInv, ReachedInv
    <3>5. NativeInv'
      BY <3>1 DEF NativeInv
    <3> QED BY <3>2, <3>3, <3>4, <3>5
  <2> QED BY <2>1, <2>2
<1>3. ASSUME NEW r \in Rests, Pause!Woken(r) PROVE CoreInv'
  <2>1. /\ pc[r] = "wait" /\ pc' = [pc EXCEPT ![r] = "done"]
        /\ reply' = [reply EXCEPT ![r] = IF srv.id = r THEN Pause!FinishResponse ELSE "lost"]
        /\ UNCHANGED <<slot, srv, accepting, gate, active, poll, queue, mpc, task, end, spc,
                       Pause!nativeVars>>
    BY <1>3 DEF Pause!Woken, Pause!Waits, Pause!Return
  <2>2. \A q \in Rests : reply'[q] = "cancelled" => gate[q] = "cancelled"
    BY <2>1 DEF Pause!FinishResponse, RevokedInv, Pause!TypeOK
  <2>3. \A q \in Rests : pc'[q] = pc[q] \/ (pc'[q] = "done" /\ pc[q] \notin Undispatched)
    BY <2>1 DEF Pause!TypeOK
  <2>4. spc' \in {spc, "backend"} /\ (spc' = "backend" => ~accepting)
    BY <2>1 DEF RevokedInv
  <2> QED BY <2>1, <2>2, <2>3, <2>4, SettledKeeps DEF Settles
<1>4. ASSUME NEW r \in Rests, Pause!Timeout(r) PROVE CoreInv'
  <2>1. /\ pc[r] = "wait" /\ pc' = [pc EXCEPT ![r] = "revoke"]
        /\ UNCHANGED <<slot, srv, accepting, gate, reply, active, poll, queue, mpc, task, end, spc,
                       Pause!nativeVars>>
    BY <1>4 DEF Pause!Timeout, Pause!Waits
  <2>2. ReachedInv' /\ TurnInv'
    BY <2>1 DEF ReachedInv, TurnInv, Pause!TypeOK
  <2>3. ServedInv' /\ RevokedInv'
    BY <2>1 DEF ServedInv, RevokedInv, Pause!TypeOK
  <2>4. PhaseInv' /\ NativeInv'
    BY <2>1 DEF PhaseInv, NativeInv
  <2> QED BY <2>2, <2>3, <2>4
<1>5. ASSUME NEW r \in Rests, Pause!Revoke(r) PROVE CoreInv'
  <2>1. /\ pc[r] = "revoke"
        /\ pc' = [pc EXCEPT ![r] = IF gate[r] = "queued" THEN "cancelled" ELSE "uncertain"]
        /\ gate' = [gate EXCEPT ![r] = IF gate[r] = "queued" THEN "cancelled" ELSE gate[r]]
        /\ UNCHANGED <<slot, srv, accepting, reply, active, poll, queue, mpc, task, end, spc,
                       Pause!nativeVars>>
    BY <1>5 DEF Pause!Revoke, Pause!CancelGate
  <2>2. ReachedInv' /\ TurnInv'
    BY <2>1 DEF ReachedInv, TurnInv, Pause!TypeOK
  <2>3. ServedInv' /\ RevokedInv'
    BY <2>1 DEF ServedInv, RevokedInv, Pause!TypeOK
  <2>4. PhaseInv' /\ NativeInv'
    BY <2>1 DEF PhaseInv, NativeInv, Pause!TypeOK
  <2> QED BY <2>2, <2>3, <2>4
<1>6. ASSUME NEW r \in Rests, Pause!SettleTimeout(r) PROVE CoreInv'
  <2>1. /\ pc[r] \in {"cancelled", "uncertain"} /\ pc' = [pc EXCEPT ![r] = "done"]
        /\ UNCHANGED <<accepting, gate, active, poll, queue, mpc, task, end, spc, Pause!nativeVars>>
    BY <1>6 DEF Pause!SettleTimeout, Pause!Return
  <2>2. Settles
    BY <1>6, <2>1, Fields DEF Pause!SettleTimeout, Settles, ReachedInv
  <2>3. \A q \in Rests : reply'[q] = "cancelled" => gate[q] = "cancelled"
    BY <1>6, <2>1 DEF Pause!SettleTimeout, Pause!Return, Pause!FinishResponse, RevokedInv,
        ReachedInv,
                      Pause!TypeOK
  <2>4. \A q \in Rests : pc'[q] = pc[q] \/ (pc'[q] = "done" /\ pc[q] \notin Undispatched)
    BY <2>1 DEF Pause!TypeOK
  <2>5. spc' \in {spc, "backend"} /\ (spc' = "backend" => ~accepting)
    BY <2>1 DEF RevokedInv
  <2> QED BY <2>1, <2>2, <2>3, <2>4, <2>5, SettledKeeps
<1>7. ASSUME NEW r \in Pause!Rivals, Pause!Rival(r) PROVE CoreInv'
  <2>1. /\ \A q \in Rests : pc'[q] = pc[q]
        /\ UNCHANGED <<srv, accepting, gate, reply, active, poll, queue, mpc, task, end, spc,
                       Pause!nativeVars>>
    BY <1>7 DEF Pause!Rival, Pause!RivalBegins, Pause!RivalEnds, Pause!Goto, Pause!TypeOK
  <2>2. \/ ~slot.active /\ slot'.id = r
        \/ slot' = slot
        \/ slot.id = r /\ slot'.active = FALSE
    <3>1. CASE Pause!RivalBegins(r)
      BY <3>1 DEF Pause!RivalBegins, Pause!TryBegin
    <3>2. CASE Pause!RivalEnds(r)
      <4>1. slot' = Pause!MarkDispatchFailed(slot, r) /\ slot \in Pause!Operations /\ TRUE \in BOOLEAN
        BY <3>2, Fields DEF Pause!RivalEnds
      <4> QED BY <4>1, SlotEnds DEF EndedAs
    <3> QED BY <1>7, <3>1, <3>2 DEF Pause!Rival
  <2>3. \A q \in Rests : (slot'.active /\ slot'.id = q) \/ (slot.active /\ slot.id = q) => slot' = slot
    BY <2>2
  <2>4. ReachedInv' /\ TurnInv'
    BY <2>1, <2>3 DEF ReachedInv, TurnInv
  <2>5. ServedInv' /\ RevokedInv'
    BY <2>1, <2>3, Fields DEF ServedInv, RevokedInv
  <2>6. PhaseInv'
    BY <2>1, <2>3, Fields DEF PhaseInv, ServedInv, TurnInv, ReachedInv
  <2>7. NativeInv'
    BY <2>1 DEF NativeInv
  <2> QED BY <2>4, <2>5, <2>6, <2>7
<1> QED BY <1>1, <1>2, <1>3, <1>4, <1>5, <1>6, <1>7, InstallKeeps, DispatchKeepsRest DEF Pause!Start

-----------------------------------------------------------------------------
(* Completions.                                                            *)

\* An outcome visits the back end, the service and the tracker, and each lets go of the rest.
LEMMA CompletionKeeps ==
  ASSUME Pause!RestsAssumption, RestInv, NEW t \in Pause!Threads, Pause!Complete(t)
  PROVE  CoreInv'
<1> USE ThreadTypes DEF RestInv, CoreInv, Pause!listenerVars, Pause!nativeVars, Pause!mainVars,
            Pause!backVars, Pause!serviceVars, Ends, Beginning, Polling,
            Pause!Ongoing, Pause!Holds, Going
<1>1. CASE Pause!CompleteBackend(t)
  <2>1. /\ active = end[t].op /\ active \in Rests /\ end[t].at = "backend"
        /\ queue = <<>> /\ mpc = "idle" /\ \A u \in Pause!Threads : end[u].at = "backend" => u = t
        /\ pc[active] \notin Undispatched
    BY <1>1 DEF Pause!CompleteBackend, TurnInv, ReachedInv
  <2>2. /\ end' = [end EXCEPT ![t].at = "service"] /\ active' = NoRequest /\ poll' = "idle"
        /\ accepted' = FALSE
        /\ UNCHANGED <<slot, srv, accepting, gate, pc, reply, queue, mpc, task, spc, menu, passing,
                       pressed, blind>>
    BY <1>1, <2>1 DEF Pause!CompleteBackend
  <2>3. /\ \A u \in Pause!Threads : u # t => end'[u] = end[u]
        /\ end'[t].at = "service" /\ end'[t].op = end[t].op /\ end'[t].outcome = end[t].outcome
        /\ \A u \in Pause!Threads : end'[u].at # "backend"
    BY <2>1, <2>2 DEF Pause!TypeOK, Pause!Completions
  <2>4. ReachedInv'
    BY <2>1, <2>2, <2>3 DEF ReachedInv
  <2>5. TurnInv'
    BY <2>1, <2>2, <2>3 DEF TurnInv, ReachedInv
  <2>6. ServedInv' /\ RevokedInv'
    BY <2>1, <2>2, <2>3 DEF ServedInv, RevokedInv
  <2>7. PhaseInv' /\ NativeInv'
    BY <2>1, <2>2, <2>3 DEF PhaseInv, NativeInv
  <2> QED BY <2>4, <2>5, <2>6, <2>7
<1>2. CASE Pause!CompleteService(t)
  <2>1. /\ end[t].at = "service" /\ end[t].op \in Rests /\ pc[end[t].op] \notin Undispatched
        /\ active # end[t].op
        /\ UNCHANGED <<slot, accepting, gate, pc, reply, active, poll, queue, mpc, task, spc,
                       Pause!nativeVars>>
    BY <1>2 DEF Pause!CompleteService, TurnInv, ReachedInv
  <2>2. CASE ~Pause!Ongoing(end[t].op)
    <3>1. end' = [end EXCEPT ![t] = Pause!Nothing] /\ srv' = srv
      BY <1>2, <2>2 DEF Pause!CompleteService
    <3>2. /\ \A u \in Pause!Threads : u # t => end'[u] = end[u]
          /\ end'[t].at = "done"
      BY <3>1 DEF Pause!TypeOK, Pause!Nothing
    <3>3. ReachedInv' /\ TurnInv'
      BY <2>1, <3>1, <3>2 DEF ReachedInv, TurnInv
    <3>4. ServedInv' /\ RevokedInv'
      BY <2>1, <3>1, <3>2 DEF ServedInv, RevokedInv
    <3>5. PhaseInv' /\ NativeInv'
      BY <2>1, <3>1, <3>2 DEF PhaseInv, NativeInv
    <3> QED BY <3>3, <3>4, <3>5
  <2>3. CASE Pause!Ongoing(end[t].op)
    <3>1. srv'.id = srv.id /\ srv'.active = FALSE /\ srv'.phase = end[t].outcome
      BY <1>2, <2>3 DEF Pause!CompleteService, Pause!TypeOK, Pause!RestOperations
    <3>2. /\ \A u \in Pause!Threads : u # t => end'[u] = end[u]
          /\ end'[t].at = "tracker" /\ end'[t].op = end[t].op /\ end'[t].outcome = end[t].outcome
          /\ end'[t].dispatched = srv.dispatched
      BY <1>2, <2>3 DEF Pause!CompleteService, Pause!TypeOK, Pause!Completions
    <3>3. srv.id = end[t].op /\ srv.active /\ Pause!Holds(slot, end[t].op)
      BY <2>3 DEF ServedInv
    <3>4. ReachedInv'
      BY <2>1, <3>1, <3>2 DEF ReachedInv
    <3>5. TurnInv'
      BY <2>1, <3>1, <3>2 DEF TurnInv
    <3>6. ServedInv'
      BY <2>1, <3>1, <3>2, <3>3 DEF ServedInv, Undispatched, Early
    <3>7. RevokedInv'
      BY <2>1, <3>1, <3>2, <3>3 DEF RevokedInv
    <3>8. PhaseInv' /\ NativeInv'
      BY <2>1, <3>1, <3>2, <3>3 DEF PhaseInv, NativeInv
    <3> QED BY <3>4, <3>5, <3>6, <3>7, <3>8
  <2> QED BY <2>2, <2>3
<1>3. CASE Pause!CompleteTracker(t)
  <2>1. /\ end[t].at = "tracker" /\ end[t].op \in Rests /\ pc[end[t].op] \notin Undispatched
        /\ active # end[t].op /\ ~Pause!Ongoing(end[t].op)
        /\ end' = [end EXCEPT ![t] = Pause!Nothing]
        /\ slot' = Pause!EndTracker(t)
        /\ UNCHANGED <<srv, accepting, gate, pc, reply, active, poll, queue, mpc, task, spc,
                       Pause!nativeVars>>
    BY <1>3 DEF Pause!CompleteTracker, TurnInv, ReachedInv, ServedInv
  <2>2. /\ \A u \in Pause!Threads : u # t => end'[u] = end[u]
        /\ end'[t].at = "done"
    BY <2>1 DEF Pause!TypeOK, Pause!Nothing
  <2>3. slot' = slot \/ (Pause!Holds(slot, end[t].op) /\ slot'.active = FALSE)
    <3>1. (end[t].outcome = "completed") \in BOOLEAN /\ slot \in Pause!Operations
      BY Fields
    <3>2. EndedAs(slot, end[t].op, slot')
      BY <2>1, <3>1, SlotEnds DEF Pause!EndTracker
    <3> QED BY <3>2 DEF EndedAs
  <2>4. Pause!Holds(slot, end[t].op) => slot'.active = FALSE
    <3>1. slot \in Pause!Operations /\ (end[t].outcome = "completed") \in BOOLEAN
      BY Fields
    <3>2. CASE end[t].dispatched
      BY ZenonT(40), <2>1, <3>1, <3>2, EndsHeld DEF Pause!EndTracker, PhaseInv
    <3>3. CASE ~end[t].dispatched /\ end[t].outcome = "cancelled"
      BY <2>1, <3>1, <3>3, EndsHeld DEF Pause!EndTracker, PhaseInv, RevokedInv
    <3>4. CASE ~end[t].dispatched /\ end[t].outcome # "cancelled"
      BY <2>1, <3>1, <3>4, EndsHeld DEF Pause!EndTracker
    <3> QED BY <3>2, <3>3, <3>4
  <2>5. ReachedInv'
    BY <2>1, <2>2, <2>3 DEF ReachedInv, Undispatched, Early
  <2>6. TurnInv' /\ RevokedInv'
    BY <2>1, <2>2 DEF TurnInv, RevokedInv
  <2>7. ServedInv'
    BY <2>1, <2>2, <2>3, <2>4, Fields DEF ServedInv
  <2>8. PhaseInv' /\ NativeInv'
    BY <2>1, <2>2, <2>3 DEF PhaseInv, NativeInv, ServedInv
  <2> QED BY <2>5, <2>6, <2>7, <2>8
<1> QED BY <1>1, <1>2, <1>3 DEF Pause!Complete

-----------------------------------------------------------------------------
(* The main thread.                                                        *)

\* The main thread takes the rest from the queue, and begins it if its gate was not revoked.
LEMMA PassGateKeeps ==
  ASSUME Pause!RestsAssumption, RestInv, Pause!PassGate
  PROVE  CoreInv'
<1> USE ThreadTypes DEF RestInv, CoreInv, Pause!listenerVars, Pause!nativeVars, Pause!backVars,
            Ends, Beginning, Polling, Pause!Ongoing, Pause!Holds, Going
<1>1. /\ Beginning /\ Head(queue)[2] = active /\ queue' = <<>> /\ active \in Rests
      /\ mpc = "idle" /\ poll = "idle" /\ gate[active] # "running" /\ end["main"].at = "done"
      /\ pc[active] \notin Undispatched
      /\ \A t \in Pause!Threads : end[t].at # "backend"
      /\ UNCHANGED <<slot, srv, accepting, pc, reply, active, poll, spc, Pause!nativeVars>>
  <2>1. Beginning /\ Head(queue)[2] = active /\ queue' = <<>> /\ queue # <<>>
    BY QueueHead DEF Pause!PassGate, TurnInv
  <2> QED BY <2>1 DEF Pause!PassGate, Pause!Free, TurnInv, ReachedInv
<1>2. CASE gate[active] = "queued"
  <2>1. gate' = [gate EXCEPT ![active] = "running"] /\ mpc' = "dispatching" /\ task' = active /\ end' = end
    BY <1>1, <1>2 DEF Pause!PassGate
  <2>2. ReachedInv' /\ TurnInv'
    BY <1>1, <1>2, <2>1 DEF ReachedInv, TurnInv, Pause!TypeOK, Early, Undispatched
  <2>3. ServedInv' /\ RevokedInv'
    BY <1>1, <1>2, <2>1 DEF ServedInv, RevokedInv, Pause!TypeOK
  <2>4. PhaseInv' /\ NativeInv'
    BY <1>1, <1>2, <2>1 DEF PhaseInv, NativeInv, Pause!TypeOK
  <2> QED BY <2>2, <2>3, <2>4
<1>3. CASE gate[active] # "queued"
  <2>1. gate[active] = "cancelled" /\ UNCHANGED <<gate, mpc, task>>
    BY <1>1, <1>3 DEF Pause!PassGate, Pause!TypeOK
  <2>2. /\ \A t \in Pause!Threads : t # "main" => end'[t] = end[t]
        /\ end'["main"].at = "backend" /\ end'["main"].op = active
        /\ end'["main"].outcome = "cancelled"
    <3>1. end' = [end EXCEPT !["main"] = Pause!Carry(active, "cancelled", "backend")]
      BY <1>1, <1>3 DEF Pause!PassGate, Pause!Give
    <3> QED BY <1>1, <3>1, CarryTypes DEF Pause!TypeOK
  <2>3. ReachedInv' /\ TurnInv'
    BY <1>1, <2>1, <2>2 DEF ReachedInv, TurnInv, Undispatched, Early
  <2>4. ServedInv' /\ RevokedInv'
    BY <1>1, <2>1, <2>2 DEF ServedInv, RevokedInv
  <2>5. PhaseInv' /\ NativeInv'
    BY <1>1, <2>1, <2>2 DEF PhaseInv, NativeInv
  <2> QED BY <2>3, <2>4, <2>5
<1> QED BY <1>2, <1>3

\* The task fails.
LEMMA FailKeeps ==
  ASSUME Pause!RestsAssumption, RestInv, mpc # "idle", Pause!Fail("failed"),
         UNCHANGED <<slot, srv, accepting, gate, pc, reply, active, poll, queue, spc,
         Pause!nativeVars>>
  PROVE  CoreInv'
<1> USE ThreadTypes DEF RestInv, CoreInv, Pause!nativeVars, Ends, Beginning, Polling, Pause!Ongoing,
            Pause!Holds, Going
<1>1. /\ queue = <<>> /\ poll = "idle" /\ active = task /\ active \in Rests
      /\ end["main"].at = "done" /\ \A t \in Pause!Threads : end[t].at # "backend"
      /\ pc[active] \notin Undispatched
      /\ mpc' = "idle"
  BY DEF Pause!Fail, TurnInv, ReachedInv
<1>2. /\ \A t \in Pause!Threads : t # "main" => end'[t] = end[t]
      /\ end'["main"].at = "backend" /\ end'["main"].op = active
      /\ end'["main"].outcome = "failed"
  <2>1. end' = [end EXCEPT !["main"] = Pause!Carry(active, "failed", "backend")]
    BY <1>1 DEF Pause!Fail, Pause!Give, Pause!op
  <2> QED BY <1>1, <2>1, CarryTypes DEF Pause!TypeOK
<1>3. ReachedInv' /\ TurnInv'
  BY <1>1, <1>2 DEF ReachedInv, TurnInv, Undispatched, Early
<1>4. ServedInv' /\ RevokedInv'
  BY <1>1, <1>2 DEF ServedInv, RevokedInv
<1>5. PhaseInv' /\ NativeInv'
  BY <1>1, <1>2 DEF PhaseInv, NativeInv
<1> QED BY <1>3, <1>4, <1>5

\* The main thread marks the rest, in the tracker and in the service, and opens the menu.
LEMMA BeginKeepsRest ==
  ASSUME Pause!RestsAssumption, RestInv,
         \/ Pause!MarkTracker \/ Pause!MarkService \/ Pause!Refuse
         \/ Pause!ToggleFallout \/ Pause!QueueSkyrim \/ Pause!ToggleSkyrim
  PROVE  CoreInv'
<1> USE ThreadTypes DEF RestInv, CoreInv, Pause!listenerVars, Pause!nativeVars, Pause!backVars,
            Pause!serviceVars, Pause!mainVars, Ends, Beginning, Polling, Pause!Ongoing,
            Pause!Holds, Going
<1>1. /\ mpc # "idle" /\ queue = <<>> /\ poll = "idle" /\ active = task /\ active \in Rests
      /\ gate[task] = "running" /\ end["main"].at = "done" /\ pc[task] \notin Undispatched
      /\ \A t \in Pause!Threads : end[t].at # "backend"
      /\ srv.id = task /\ srv.active /\ slot.active /\ slot.id = task
  <2>1. mpc # "idle"
    BY DEF Pause!MarkTracker, Pause!MarkService, Pause!Refuse, Pause!ToggleFallout,
        Pause!QueueSkyrim,
           Pause!ToggleSkyrim, Pause!CanRest
  <2> QED BY <2>1 DEF TurnInv, ReachedInv, ServedInv
<1>2. CASE Pause!MarkTracker
  <2>0. UNCHANGED <<srv, accepting, gate, pc, reply, active, poll, queue, spc, Pause!nativeVars>>
    BY <1>2 DEF Pause!MarkTracker
  <2>1. CASE mpc = "dispatching"
    <3>1. slot.phase = "reserved"
      BY <1>1, <2>1 DEF PhaseInv
    <3>2. /\ slot'.id = slot.id /\ slot'.active = slot.active /\ slot'.phase = "dispatching"
          /\ slot' # slot
      BY <1>1, <1>2, <2>1, <3>1, Fields DEF Pause!MarkTracker, Pause!MarkDispatching,
          Pause!CanDispatch,
         Pause!op, Pause!Operations
    <3>3. mpc' = "service" /\ UNCHANGED <<task, end>>
      BY <1>2, <2>1, <3>2 DEF Pause!MarkTracker
    <3>4. ReachedInv' /\ TurnInv'
      BY <1>1, <2>0, <3>2, <3>3 DEF ReachedInv, TurnInv
    <3>5. ServedInv' /\ RevokedInv'
      BY <1>1, <2>0, <3>2, <3>3 DEF ServedInv, RevokedInv
    <3>6. PhaseInv' /\ NativeInv'
      BY <1>1, <2>0, <2>1, <3>1, <3>2, <3>3 DEF PhaseInv, NativeInv
    <3> QED BY <3>4, <3>5, <3>6
  <2>2. CASE mpc = "queued" /\ slot' = slot
    <3>1. Pause!Fail("failed")
      BY <1>2, <2>2 DEF Pause!MarkTracker
    <3> QED BY <1>1, <2>0, <2>2, <3>1, FailKeeps
  <2>3. CASE mpc = "queued" /\ slot' # slot
    <3>1. /\ slot'.id = slot.id /\ slot'.active = slot.active /\ slot'.phase = "queued"
          /\ mpc' = "queuedService" /\ UNCHANGED <<task, end>>
      BY <1>2, <2>3, Fields DEF Pause!MarkTracker, Pause!MarkQueued, Pause!Operations
    <3>2. ReachedInv' /\ TurnInv'
      BY <1>1, <2>0, <3>1 DEF ReachedInv, TurnInv
    <3>3. ServedInv' /\ RevokedInv'
      BY <1>1, <2>0, <3>1 DEF ServedInv, RevokedInv
    <3>4. PhaseInv' /\ NativeInv'
      BY <1>1, <2>0, <2>3, <3>1 DEF PhaseInv, NativeInv
    <3> QED BY <3>2, <3>3, <3>4
  <2> QED BY <1>2, <2>1, <2>2, <2>3 DEF Pause!MarkTracker
<1>3. CASE Pause!MarkService
  <2>1. /\ mpc \in {"service", "queuedService"} /\ slot.phase # "reserved"
        /\ srv'.id = srv.id /\ srv'.active = TRUE /\ srv'.phase # "cancelled"
        /\ UNCHANGED <<slot, accepting, gate, pc, reply, active, queue, end, spc, Pause!nativeVars>>
    BY <1>1, <1>3 DEF Pause!MarkService, PhaseInv, Pause!op, Pause!TypeOK, Pause!RestOperations
  <2>2. CASE mpc = "service"
    <3>1. mpc' = "native" /\ UNCHANGED <<task, poll>>
      BY <1>3, <2>2 DEF Pause!MarkService
    <3>2. ReachedInv' /\ TurnInv'
      BY <1>1, <2>1, <3>1 DEF ReachedInv, TurnInv
    <3>3. ServedInv' /\ RevokedInv'
      BY <1>1, <2>1, <3>1 DEF ServedInv, RevokedInv
    <3>4. PhaseInv' /\ NativeInv'
      BY <1>1, <2>1, <2>2, <3>1 DEF PhaseInv, NativeInv
    <3> QED BY <3>2, <3>3, <3>4
  <2>3. CASE mpc = "queuedService" /\ game = "fallout4"
    <3>1. mpc' = "idle" /\ poll' \in {"idle", "requested"}
      BY <1>1, <1>3, <2>3 DEF Pause!MarkService, Pause!RequestPoll
    <3>2. ReachedInv' /\ TurnInv'
      BY <1>1, <2>1, <3>1 DEF ReachedInv, TurnInv
    <3>3. ServedInv' /\ RevokedInv'
      BY <1>1, <2>1, <3>1 DEF ServedInv, RevokedInv
    <3>4. PhaseInv'
      BY <1>1, <2>1, <3>1 DEF PhaseInv
    <3>5. NativeInv'
      BY <1>1, <2>1, <2>3, <3>1 DEF NativeInv
    <3> QED BY <3>2, <3>3, <3>4, <3>5
  <2>4. CASE mpc = "queuedService" /\ game # "fallout4"
    <3>1. mpc' = "toggle" /\ UNCHANGED <<task, poll>>
      BY <1>3, <2>4 DEF Pause!MarkService
    <3>2. ReachedInv' /\ TurnInv'
      BY <1>1, <2>1, <3>1 DEF ReachedInv, TurnInv
    <3>3. ServedInv' /\ RevokedInv'
      BY <1>1, <2>1, <3>1 DEF ServedInv, RevokedInv
    <3>4. PhaseInv' /\ NativeInv'
      BY <1>1, <2>1, <2>4, <3>1 DEF PhaseInv, NativeInv
    <3> QED BY <3>2, <3>3, <3>4
  <2> QED BY <2>1, <2>2, <2>3, <2>4
<1>4. CASE Pause!Refuse
  <2>1. /\ Pause!Fail("failed")
        /\ UNCHANGED <<slot, srv, accepting, gate, pc, reply, active, poll, queue, spc, Pause!nativeVars>>
    BY <1>4 DEF Pause!Refuse
  <2> QED BY <1>1, <2>1, FailKeeps
<1>5. CASE Pause!ToggleFallout \/ Pause!QueueSkyrim
  <2>1. /\ mpc = "native" /\ mpc' = "queued" /\ passing = NoRequest /\ pressed = NoRequest
        /\ menu' \in {menu, "opening"}
        /\ UNCHANGED <<slot, srv, accepting, gate, pc, reply, active, poll, queue, task, end, spc,
                       passing, pressed, accepted, blind>>
    BY <1>5 DEF Pause!ToggleFallout, Pause!QueueSkyrim, Pause!CanRest, NativeInv
  <2>2. ReachedInv' /\ TurnInv'
    BY <1>1, <2>1 DEF ReachedInv, TurnInv
  <2>3. ServedInv' /\ RevokedInv'
    BY <1>1, <2>1 DEF ServedInv, RevokedInv
  <2>4. PhaseInv' /\ NativeInv'
    BY <1>1, <2>1 DEF PhaseInv, NativeInv
  <2> QED BY <2>2, <2>3, <2>4
<1>6. CASE Pause!ToggleSkyrim
  <2>1. /\ mpc = "toggle" /\ mpc' = "idle" /\ passing = NoRequest /\ pressed = NoRequest
        /\ poll' \in {"idle", "requested"}
        /\ UNCHANGED <<slot, srv, accepting, gate, pc, reply, active, queue, end, spc,
                       passing, pressed, accepted, blind>>
    BY <1>1, <1>6 DEF Pause!ToggleSkyrim, Pause!RequestPoll, NativeInv
  <2>2. ReachedInv' /\ TurnInv'
    BY <1>1, <2>1 DEF ReachedInv, TurnInv
  <2>3. ServedInv' /\ RevokedInv'
    BY <1>1, <2>1 DEF ServedInv, RevokedInv
  <2>4. PhaseInv' /\ NativeInv'
    BY <1>1, <2>1 DEF PhaseInv, NativeInv
  <2> QED BY <2>2, <2>3, <2>4
<1> QED BY <1>2, <1>3, <1>4, <1>5, <1>6

-----------------------------------------------------------------------------
(* The poll.                                                               *)

\* One look at the native menu, whatever it finds there.
LEMMA PolledKeeps ==
  ASSUME Pause!RestsAssumption, RestInv, NEW outcome \in {"again", "completed", "failed"},
         Pause!Polled(outcome)
  PROVE  /\ ReachedInv' /\ TurnInv' /\ ServedInv' /\ RevokedInv' /\ PhaseInv'
         /\ active \in Rests /\ active' = active /\ poll = "queued" /\ mpc' = "idle"
         /\ \A t \in Pause!Threads : ~Ends(t)
         /\ \/ outcome = "again" /\ poll' # "idle" /\ end' = end
            \/ outcome # "again" /\ \E t \in Pause!Threads : Ends(t)'
<1> USE ThreadTypes DEF RestInv, CoreInv, Pause!listenerVars, Pause!serviceVars, Ends, Beginning,
    Polling,
            Pause!Ongoing, Pause!Holds
<1>1. /\ Polling /\ Head(queue)[2] = active /\ queue' = <<>> /\ active \in Rests
      /\ mpc = "idle" /\ poll = "queued" /\ gate[active] = "running" /\ end["main"].at = "done"
      /\ pc[active] \notin Undispatched
      /\ \A t \in Pause!Threads : end[t].at # "backend"
      /\ UNCHANGED <<slot, srv, accepting, gate, pc, reply, active, mpc, task, spc>>
  <2>1. Polling /\ Head(queue)[2] = active /\ queue' = <<>> /\ queue # <<>>
    BY QueueHead DEF Pause!Polled, TurnInv
  <2> QED BY <2>1 DEF Pause!Polled, Pause!Free, TurnInv, ReachedInv
<1>2. CASE outcome = "again"
  <2>1. poll' \in {"queued", "requested"} /\ end' = end
    BY <1>1, <1>2 DEF Pause!Polled, Pause!RequestPoll
  <2>2. ReachedInv' /\ TurnInv'
    BY <1>1, <2>1 DEF ReachedInv, TurnInv
  <2>3. ServedInv' /\ RevokedInv'
    BY <1>1, <2>1 DEF ServedInv, RevokedInv
  <2>4. PhaseInv'
    BY <1>1, <2>1 DEF PhaseInv
  <2> QED BY <1>1, <1>2, <2>1, <2>2, <2>3, <2>4
<1>3. CASE outcome # "again"
  <2>1. /\ \A t \in Pause!Threads : t # "main" => end'[t] = end[t]
        /\ end'["main"].at = "backend" /\ end'["main"].op = active
        /\ end'["main"].outcome = outcome /\ poll' = "idle"
    <3>1. end' = [end EXCEPT !["main"] = Pause!Carry(active, outcome, "backend")] /\ poll' = "idle"
      BY <1>1, <1>3 DEF Pause!Polled, Pause!Give
    <3> QED BY <1>1, <1>3, <3>1, CarryTypes DEF Pause!TypeOK
  <2>2. ReachedInv' /\ TurnInv'
    BY <1>1, <2>1 DEF ReachedInv, TurnInv, Undispatched, Early
  <2>3. ServedInv' /\ RevokedInv'
    BY <1>1, <1>3, <2>1 DEF ServedInv, RevokedInv
  <2>4. PhaseInv'
    BY <1>1, <2>1 DEF PhaseInv
  <2> QED BY <1>1, <1>3, <2>1, <2>2, <2>3, <2>4
<1> QED BY <1>2, <1>3

\* The types after a look.
LEMMA PolledTypes ==
  ASSUME Pause!RestsAssumption, RestInv, NEW outcome \in {"again", "completed", "failed"},
         Pause!Polled(outcome), menu' \in {"closed", "opening", "open"},
         passing' \in Rests \union {NoRequest}, pressed' \in Rests \union {NoRequest},
         accepted' \in BOOLEAN, started' \in BOOLEAN, blind' \in BOOLEAN
  PROVE  Pause!TypeOK'
<1> USE DEF RestInv, CoreInv, Pause!listenerVars, Pause!serviceVars
<1>1. queue # <<>> /\ Head(queue)[1] = "poll"
  BY DEF Pause!Polled
<1>2. active \in Rests /\ Head(queue)[2] = active /\ Tail(queue) = <<>>
  BY <1>1, QueueHead DEF TurnInv
<1>3. end' \in [Pause!Threads -> Pause!Completions] /\ poll' \in {"idle", "requested", "queued"}
  <2>1. CASE outcome = "again"
    BY <2>1 DEF Pause!Polled, Pause!RequestPoll, Pause!TypeOK
  <2>2. CASE outcome # "again"
    <3>1. Pause!Carry(active, outcome, "backend") \in Pause!Completions
      BY <1>2, <2>2, CarryTypes
    <3> QED BY <1>2, <2>2, <3>1 DEF Pause!Polled, Pause!Give, Pause!TypeOK
  <2> QED BY <2>1, <2>2
<1>4. queue' = <<>>
  BY <1>2 DEF Pause!Polled
<1>5. UNCHANGED <<game, slot, srv, accepting, gate, pc, reply, active, stopping, ppc, mpc, task, spc>>
  BY DEF Pause!Polled
<1> QED BY <1>3, <1>4, <1>5 DEF Pause!TypeOK

\* The poll on the main thread.
LEMMA NativeKeeps ==
  ASSUME Pause!RestsAssumption, RestInv, Pause!PollNative
  PROVE  Pause!TypeOK' /\ CoreInv'
<1> USE DEF RestInv, CoreInv, Pause!nativeVars
<1>0. /\ menu \in {"closed", "opening", "open"} /\ passing \in Rests \union {NoRequest}
      /\ pressed \in Rests \union {NoRequest} /\ accepted \in BOOLEAN /\ started \in BOOLEAN
      /\ blind \in BOOLEAN /\ active \in Rests \union {NoRequest} /\ NoRequest \notin Rests
  BY DEF Pause!TypeOK, Pause!RestsAssumption
<1>1. CASE Pause!PollFails
  <2>1. Pause!Polled("failed") /\ blind' = Pause!GoesOn
        /\ UNCHANGED <<menu, passing, pressed, accepted, started>>
    BY <1>1 DEF Pause!PollFails
  <2>2. NativeInv'
    BY <2>1, PolledKeeps DEF NativeInv, Pause!GoesOn, Going
  <2>3. Pause!TypeOK'
    BY <1>0, <2>1, PolledTypes DEF Pause!GoesOn
  <2> QED BY <2>1, <2>2, <2>3, PolledKeeps
<1>2. ASSUME NEW outcome \in {"again", "failed"}, ~accepted, menu # "open", Pause!Polled(outcome),
             UNCHANGED Pause!nativeVars
      PROVE  Pause!TypeOK' /\ CoreInv'
  <2>1. passing = NoRequest /\ pressed = NoRequest
    BY <1>2, PolledKeeps DEF NativeInv
  <2>2. NativeInv'
    BY <1>2, <2>1, PolledKeeps DEF NativeInv
  <2>3. Pause!TypeOK'
    BY <1>0, <1>2, PolledTypes
  <2> QED BY <1>2, <2>2, <2>3, PolledKeeps
<1>3. CASE Pause!PollRejected
  <2>1. /\ Pause!Polled("failed") /\ ~accepted /\ menu' \in {menu, "closed"}
        /\ pressed' \in {pressed, NoRequest} /\ UNCHANGED <<passing, accepted, started, blind>>
    BY <1>3 DEF Pause!PollRejected, Pause!CloseMenu
  <2>2. passing = NoRequest /\ pressed = NoRequest
    BY <2>1, PolledKeeps DEF NativeInv
  <2>3. NativeInv'
    BY <2>1, <2>2, PolledKeeps DEF NativeInv
  <2>4. Pause!TypeOK'
    BY <1>0, <2>1, PolledTypes
  <2> QED BY <2>1, <2>3, <2>4, PolledKeeps
<1>4. CASE Pause!AcceptFallout \/ Pause!AcceptSkyrim
  <2>1. /\ Pause!Polled("again") /\ ~accepted /\ menu = "open" /\ accepted' = TRUE
        /\ \/ passing' = active /\ pressed' = pressed
           \/ passing' = passing /\ pressed' = active
        /\ started' \in BOOLEAN /\ menu' = menu /\ blind' = blind
    BY <1>0, <1>4 DEF Pause!AcceptFallout, Pause!AcceptSkyrim
  <2>2. passing = NoRequest /\ pressed = NoRequest /\ blind = FALSE
    BY <1>0, <2>1, PolledKeeps DEF NativeInv
  <2>3. NativeInv'
    BY <1>0, <2>1, <2>2, PolledKeeps DEF NativeInv, Going, Ends
  <2>4. Pause!TypeOK'
    BY <1>0, <2>1, PolledTypes
  <2> QED BY <2>1, <2>3, <2>4, PolledKeeps
<1>5. ASSUME accepted, NEW outcome \in {"again", "completed", "failed"}, Pause!Polled(outcome),
             outcome # "again" => passing = NoRequest /\ menu # "open", started' \in BOOLEAN,
             UNCHANGED <<menu, passing, pressed, accepted, blind>>
      PROVE  Pause!TypeOK' /\ CoreInv'
  <2>1. NativeInv'
    BY <1>5, PolledKeeps DEF NativeInv, Going, Ends
  <2>2. Pause!TypeOK'
    BY <1>0, <1>5, PolledTypes
  <2> QED BY <1>5, <2>1, <2>2, PolledKeeps
<1>6. CASE Pause!NeverStarts
  <2>1. /\ Pause!Polled("failed") /\ passing = NoRequest /\ accepted
        /\ menu' \in {menu, "closed"} /\ pressed' = (IF menu' = "closed" THEN NoRequest ELSE pressed)
        /\ blind' = (pressed' # NoRequest) /\ UNCHANGED <<passing, accepted, started>>
    BY <1>6 DEF Pause!NeverStarts, Pause!CloseMenu
  <2>2. NativeInv'
    BY <1>0, <2>1, PolledKeeps DEF NativeInv, Going
  <2>3. Pause!TypeOK'
    BY <1>0, <2>1, PolledTypes
  <2> QED BY <2>1, <2>2, <2>3, PolledKeeps
<1>7. CASE Pause!PollMenu
  BY <1>2, <1>7 DEF Pause!PollMenu
<1>8. CASE Pause!FinishFallout
  <2>1. PICK outcome \in {"again", "completed", "failed"} :
          /\ Pause!Polled(outcome) /\ (outcome # "again" => passing = NoRequest /\ menu # "open")
    BY <1>8 DEF Pause!FinishFallout
  <2> QED BY <1>0, <1>5, <1>8, <2>1 DEF Pause!FinishFallout
<1>9. CASE Pause!FinishSkyrim
  <2>1. PICK outcome \in {"again", "completed", "failed"} :
          /\ Pause!Polled(outcome) /\ (outcome # "again" => passing = NoRequest /\ menu # "open")
    BY <1>9 DEF Pause!FinishSkyrim
  <2> QED BY <1>0, <1>5, <1>9, <2>1 DEF Pause!FinishSkyrim
<1> QED BY <1>1, <1>3, <1>4, <1>6, <1>7, <1>8, <1>9 DEF Pause!PollNative

-----------------------------------------------------------------------------
(* The poll thread, the shutdown and the engine.                           *)

\* The poll thread, and the shutdown.
LEMMA PollThreadKeeps ==
  ASSUME Pause!RestsAssumption, RestInv,
         Pause!Poll \/ Pause!PollExit \/ Pause!ShutdownClose \/ Pause!Shutdown
  PROVE  CoreInv'
<1> USE ThreadTypes DEF RestInv, CoreInv, Pause!listenerVars, Pause!nativeVars, Pause!backVars,
            Pause!serviceVars, Pause!mainVars, Ends, Beginning, Polling, Pause!Ongoing,
            Pause!Holds, Going
<1>1. CASE Pause!Poll
  <2>1. /\ active \in Rests /\ queue = <<>> /\ mpc = "idle" /\ poll = "requested" /\ poll' = "queued"
        /\ gate[active] = "running" /\ end["poll"].at = "done" /\ pc[active] \notin Undispatched
        /\ \A t \in Pause!Threads : end[t].at # "backend"
        /\ UNCHANGED <<slot, srv, accepting, gate, pc, reply, active, mpc, task, spc, menu, passing,
                       pressed, accepted>>
    BY <1>1 DEF Pause!Poll, Pause!CanPoll, TurnInv, ReachedInv
  <2>2. CASE queue' = Append(queue, <<"poll", active>>) /\ UNCHANGED <<end, blind>>
    <3>1. queue' = << <<"poll", active>> >> /\ Polling' /\ ~Beginning' /\ queue' # <<>>
      <4>1. queue' = << <<"poll", active>> >> /\ queue' # <<>>
        BY <2>1, <2>2, QueueHead
      <4>2. << <<"poll", active>> >>[1] # << <<"begin", active>> >>[1]
        OBVIOUS
      <4> QED BY <2>1, <4>1, <4>2
    <3>2. TurnInv'
      BY <2>1, <2>2, <3>1 DEF TurnInv
    <3>3. ReachedInv' /\ RevokedInv'
      BY <2>1, <2>2 DEF ReachedInv, RevokedInv
    <3>4. ServedInv'
      BY <2>1, <2>2 DEF ServedInv
    <3>5. PhaseInv' /\ NativeInv'
      BY <2>1, <2>2 DEF PhaseInv, NativeInv
    <3> QED BY <3>2, <3>3, <3>4, <3>5
  <2>3. CASE /\ end' = [end EXCEPT !["poll"] = Pause!Carry(active, "failed", "backend")]
             /\ blind' = Pause!GoesOn /\ queue' = queue
    <3>1. /\ \A t \in Pause!Threads : t # "poll" => end'[t] = end[t]
          /\ end'["poll"].at = "backend" /\ end'["poll"].op = active
          /\ end'["poll"].outcome = "failed"
      BY <2>1, <2>3, CarryTypes DEF Pause!TypeOK
    <3>2. ReachedInv' /\ TurnInv'
      BY <2>1, <2>3, <3>1 DEF ReachedInv, TurnInv, Undispatched, Early
    <3>3. ServedInv' /\ RevokedInv'
      BY <2>1, <3>1 DEF ServedInv, RevokedInv
    <3>4. PhaseInv'
      BY <2>1, <3>1 DEF PhaseInv
    <3>5. NativeInv'
      BY <2>1, <2>3, <3>1 DEF NativeInv, Pause!GoesOn
    <3> QED BY <3>2, <3>3, <3>4, <3>5
  <2> QED BY <1>1, <2>2, <2>3 DEF Pause!Poll
<1>2. CASE Pause!PollExit \/ Pause!ShutdownJoin
  <2>1. /\ UNCHANGED <<slot, srv, accepting, gate, pc, reply, active, poll, queue, mpc, task, end,
                       Pause!nativeVars>>
        /\ spc' = spc \/ (spc = "join" /\ spc' = "done")
    BY <1>2 DEF Pause!PollExit, Pause!ShutdownJoin
  <2>2. ReachedInv' /\ TurnInv' /\ PhaseInv' /\ NativeInv'
    BY <2>1 DEF ReachedInv, TurnInv, PhaseInv, NativeInv
  <2>3. ServedInv' /\ RevokedInv'
    BY <2>1 DEF ServedInv, RevokedInv
  <2> QED BY <2>2, <2>3
<1>3. CASE Pause!ShutdownClose
  <2>1. /\ UNCHANGED <<slot, srv, gate, pc, reply, active, poll, queue, mpc, task, end,
                       Pause!nativeVars>>
        /\ accepting' = FALSE /\ spc' \in {"revoke", "backend"} /\ (spc' = "revoke" => srv.active)
    BY <1>3 DEF Pause!ShutdownClose
  <2>2. ReachedInv' /\ TurnInv' /\ PhaseInv' /\ NativeInv'
    BY <2>1 DEF ReachedInv, TurnInv, PhaseInv, NativeInv
  <2>3. ServedInv'
    BY <2>1 DEF ServedInv
  <2>4. RevokedInv'
    BY <2>1, Fields DEF RevokedInv
  <2> QED BY <2>2, <2>3, <2>4
<1>4. ASSUME NEW r \in Rests, pc[r] \notin Undispatched \/ srv.id = r,
             gate' = [gate EXCEPT ![r] = IF gate[r] = "queued" THEN "cancelled" ELSE gate[r]],
             ~accepting, spc' \in {"cancelled", "uncertain", "join"}, srv.id = r \/ spc' = "join",
             spc' = "cancelled" => gate[r] = "queued",
             UNCHANGED <<slot, srv, accepting, pc, reply, active, poll, queue, mpc, task, end,
                         Pause!nativeVars>>
      PROVE  CoreInv'
  <2>1. /\ \A q \in Rests : gate'[q] = gate[q] \/ (q = r /\ gate[q] = "queued" /\ gate'[q] = "cancelled")
        /\ gate[r] = "queued" => gate'[r] = "cancelled"
    BY <1>4 DEF Pause!TypeOK
  <2>2. ReachedInv'
    BY <1>4, <2>1 DEF ReachedInv, Undispatched
  <2>3. TurnInv' /\ NativeInv'
    BY <1>4, <2>1 DEF TurnInv, NativeInv
  <2>4. ServedInv'
    BY <1>4, <2>1 DEF ServedInv
  <2>5. RevokedInv'
    BY <1>4, <2>1 DEF RevokedInv
  <2>6. PhaseInv'
    BY <1>4, <2>1 DEF PhaseInv
  <2> QED BY <2>2, <2>3, <2>4, <2>5, <2>6
<1>5. CASE Pause!ShutdownRevoke
  <2>1. srv.id \in Rests /\ ~accepting
    BY <1>5 DEF Pause!ShutdownRevoke, RevokedInv
  <2> QED BY <1>4, <1>5, <2>1 DEF Pause!ShutdownRevoke, Pause!CancelGate
<1>6. CASE Pause!ShutdownSettle
  <2>1. spc \in {"cancelled", "uncertain"} /\ spc' = "backend" /\ ~accepting /\ srv.id \in Rests
        /\ UNCHANGED <<accepting, gate, active, poll, queue, mpc, task, end, pc, reply, Pause!nativeVars>>
    BY <1>6 DEF Pause!ShutdownSettle, RevokedInv
  <2>2. Settles
    BY <1>6, <2>1 DEF Pause!ShutdownSettle, Settles, RevokedInv
  <2>3. \A r \in Rests : reply'[r] = "cancelled" => gate[r] = "cancelled"
    BY <2>1 DEF RevokedInv
  <2> QED BY <2>1, <2>2, <2>3, SettledKeeps
<1>7. CASE Pause!ShutdownBackend
  <2>1. /\ spc = "backend" /\ spc' = "join" /\ ~accepting
        /\ UNCHANGED <<slot, srv, accepting, pc, reply, active, poll, queue, mpc, task, end,
                         Pause!nativeVars>>
    BY <1>7 DEF Pause!ShutdownBackend, RevokedInv
  <2>2. CASE active # NoRequest
    <3>1. active \in Rests /\ pc[active] \notin Undispatched
      BY <2>2 DEF Pause!TypeOK, ReachedInv
    <3> QED BY <1>4, <1>7, <2>1, <2>2, <3>1 DEF Pause!ShutdownBackend, Pause!CancelGate
  <2>3. CASE active = NoRequest
    <3>1. gate' = gate
      BY <1>7, <2>3 DEF Pause!ShutdownBackend
    <3>2. ReachedInv' /\ TurnInv' /\ PhaseInv' /\ NativeInv'
      BY <2>1, <3>1 DEF ReachedInv, TurnInv, PhaseInv, NativeInv
    <3>3. ServedInv' /\ RevokedInv'
      BY <2>1, <3>1 DEF ServedInv, RevokedInv
    <3> QED BY <3>2, <3>3
  <2> QED BY <2>2, <2>3
<1> QED BY <1>1, <1>2, <1>3, <1>5, <1>6, <1>7 DEF Pause!Shutdown

\* The engine and the player.
LEMMA EngineKeeps ==
  ASSUME Pause!RestsAssumption, RestInv, Pause!Engine
  PROVE  Pause!TypeOK' /\ CoreInv'
<1> USE DEF RestInv, CoreInv, Pause!listenerVars, Pause!backVars, Pause!serviceVars, Pause!mainVars,
            Pause!Holds, Pause!Ongoing
<1>1. /\ UNCHANGED <<game, slot, srv, accepting, gate, pc, reply, active, stopping, poll, ppc, queue,
                     mpc, task, end, spc, accepted, started>>
      /\ \/ menu = "opening" /\ menu' \in {"open", "closed"} /\ UNCHANGED <<passing, pressed, blind>>
         \/ /\ pressed # NoRequest /\ passing = NoRequest /\ passing' = pressed
            /\ pressed' = NoRequest /\ UNCHANGED <<menu, blind>>
         \/ /\ passing # NoRequest /\ passing' = NoRequest /\ blind' = FALSE
            /\ UNCHANGED <<menu, pressed>>
         \/ /\ menu = "open" /\ passing = NoRequest /\ menu' = "closed"
            /\ pressed' = NoRequest /\ blind' = FALSE /\ UNCHANGED passing
  BY DEF Pause!Engine, Pause!MenuOpens, Pause!TimeStarts, Pause!TimeEnds, Pause!MenuCloses
<1>2. ReachedInv' /\ ServedInv' /\ RevokedInv' /\ PhaseInv'
  BY <1>1 DEF ReachedInv, ServedInv, RevokedInv, PhaseInv
<1>3. TurnInv'
  BY <1>1 DEF TurnInv, Beginning, Polling, Ends
<1>4. NativeInv'
  BY <1>1 DEF NativeInv, Going, Ends
<1>5. Pause!TypeOK'
  <2>1. /\ menu \in {"closed", "opening", "open"}
        /\ passing \in Rests \union {NoRequest} /\ pressed \in Rests \union {NoRequest}
        /\ blind \in BOOLEAN
    BY DEF Pause!TypeOK
  <2>2. /\ menu' \in {"closed", "opening", "open"}
        /\ passing' \in Rests \union {NoRequest} /\ pressed' \in Rests \union {NoRequest}
        /\ blind' \in BOOLEAN
    BY <1>1, <2>1
  <2>3. {passing, pressed}' \subseteq Rests \union {NoRequest}
    BY <2>2
  <2>4. UNCHANGED <<game, slot, srv, accepting, gate, pc, reply, active, stopping, poll, ppc,
                    queue, mpc, task, end, spc, accepted, started>>
    BY <1>1
  <2> QED BY <2>2, <2>3, <2>4 DEF Pause!TypeOK
<1> QED BY <1>2, <1>3, <1>4, <1>5

-----------------------------------------------------------------------------
\* Nothing has begun, nothing is on its way.
LEMMA RestInitially ==
  ASSUME Pause!RestsAssumption, Pause!Init PROVE RestInv
<1> USE DEF Pause!Init
<1>1. Pause!TypeOK
  <2>1. slot \in Pause!Operations
    BY DEF Pause!NoOperation, Pause!Operations, Pause!TerminalPhases, Pause!Kinds
  <2>2. srv \in Pause!RestOperations
    BY DEF Pause!NoRest, Pause!RestOperations, Pause!Outcomes
  <2>3. Pause!Nothing \in Pause!Completions
    BY DEF Pause!Nothing, Pause!Completions, Pause!Outcomes
  <2>4. end \in [Pause!Threads -> Pause!Completions]
    BY <2>3
  <2>5. queue \in Seq({"begin", "poll"} \X Rests)
    OBVIOUS
  <2>6. /\ gate \in [Rests -> {"queued", "running", "cancelled"}]
        /\ reply \in [Rests -> {"none", "refused", "outcome", "cancelled", "uncertain", "status",
                                "lost"}]
    OBVIOUS
  <2>7. pc \in [Requests -> {"idle", "reserve", "install", "dispatch", "wait", "revoke",
                            "cancelled", "uncertain", "holds", "done"}]
    OBVIOUS
  <2> QED BY <2>1, <2>2, <2>4, <2>5, <2>6, <2>7 DEF Pause!TypeOK
<1>2. Pause!RestsAssumption /\ Pause!NoRest.id = NoRequest /\ Pause!NoRest.active = FALSE
      /\ Pause!NoOperation.active = FALSE /\ Pause!Nothing.at = "done"
  BY DEF Pause!NoRest, Pause!NoOperation, Pause!Nothing
<1>3. ReachedInv /\ TurnInv
  BY <1>2, ThreadTypes DEF ReachedInv, TurnInv, Ends, Beginning, Polling, Pause!Holds, Early,
      Undispatched
<1>4. ServedInv /\ RevokedInv /\ PhaseInv
  BY <1>2, ThreadTypes DEF ServedInv, RevokedInv, PhaseInv, Pause!Holds, Pause!Ongoing
<1>5. NativeInv
  BY <1>2 DEF NativeInv, Going, Ends
<1> QED BY <1>1, <1>3, <1>4, <1>5 DEF RestInv, CoreInv

\* Every part of the invariant speaks of the module's variables only.
LEMMA RestStutters ==
  ASSUME RestInv, UNCHANGED Pause!vars PROVE RestInv'
<1> USE DEF Pause!vars, Pause!serviceVars, Pause!listenerVars, Pause!backVars, Pause!mainVars,
            Pause!nativeVars
<1>1. Pause!TypeOK'
  BY DEF RestInv, Pause!TypeOK
<1>2. CoreInv'
  BY DEF RestInv, CoreInv, ReachedInv, TurnInv, ServedInv, RevokedInv, PhaseInv, NativeInv, Ends,
         Beginning, Polling, Going, Pause!Holds, Pause!Ongoing
<1> QED BY <1>1, <1>2 DEF RestInv

\* The inductive invariant, for any rests and any requests that compete with them.
THEOREM RestInvariant ==
  ASSUME Pause!RestsAssumption
  PROVE  Pause!Spec => []RestInv
<1>1. ASSUME RestInv, [Pause!Next]_Pause!vars PROVE RestInv'
  <2>1. CASE \E r \in Rests : Pause!Start(r)
    BY <1>1, <2>1, ListenerTypes, ListenerKeeps DEF RestInv
  <2>2. CASE \E r \in Pause!Rivals : Pause!Rival(r)
    BY <1>1, <2>2, ListenerTypes, ListenerKeeps DEF RestInv
  <2>3. CASE \E t \in Pause!Threads : Pause!Complete(t)
    BY <1>1, <2>3, CompletionTypes, CompletionKeeps DEF RestInv
  <2>4. CASE Pause!PassGate
    BY <1>1, <2>4, BeginTypes, PassGateKeeps DEF RestInv
  <2>5. CASE \/ Pause!MarkTracker \/ Pause!MarkService \/ Pause!Refuse
             \/ Pause!ToggleFallout \/ Pause!QueueSkyrim \/ Pause!ToggleSkyrim
    BY <1>1, <2>5, BeginTypes, BeginKeepsRest DEF RestInv
  <2>6. CASE Pause!PollNative
    BY <1>1, <2>6, NativeKeeps DEF RestInv
  <2>7. CASE Pause!Poll \/ Pause!PollExit \/ Pause!ShutdownClose \/ Pause!Shutdown
    BY <1>1, <2>7, PollTypes, PollThreadKeeps DEF RestInv
  <2>8. CASE Pause!Engine
    BY <1>1, <2>8, EngineKeeps DEF RestInv
  <2>9. CASE UNCHANGED Pause!vars
    BY <1>1, <2>9, RestStutters
  <2> QED BY <1>1, <2>1, <2>2, <2>3, <2>4, <2>5, <2>6, <2>7, <2>8, <2>9, ThreadTypes
          DEF Pause!Next, Pause!Main, Pause!PollLoop
<1> QED BY <1>1, RestInitially, PTL DEF Pause!Spec

\* Every reachable state of the rest tool, its back end and the native menu is well typed.
THEOREM RestTypeCorrect ==
  ASSUME Pause!RestsAssumption
  PROVE  Pause!Spec => []Pause!TypeOK
<1>1. RestInv => Pause!TypeOK
  BY DEF RestInv
<1> QED BY <1>1, RestInvariant, PTL

\* The service, the back end and the tracker agree on which rest runs, though no lock
\* covers the three.
THEOREM RestCopies ==
  ASSUME Pause!RestsAssumption
  PROVE  Pause!Spec => []Pause!CopiesAgree
<1>1. RestInv => Pause!CopiesAgree
  BY DEF RestInv, CoreInv, ServedInv, Pause!CopiesAgree
<1> QED BY <1>1, RestInvariant, PTL

\* While time passes for a rest nothing else changes the game, unless the rest was given up.
THEOREM Covered ==
  ASSUME Pause!RestsAssumption
  PROVE  Pause!Spec => []Pause!RestCovered
<1>1. RestInv => Pause!RestCovered
  <2> SUFFICES ASSUME RestInv, passing # NoRequest, ~blind PROVE Pause!Holds(slot, passing)
    BY DEF Pause!RestCovered
  <2>1. active = passing /\ accepted /\ \A t \in Pause!Threads : ~Ends(t)
    BY DEF RestInv, CoreInv, NativeInv, Going
  <2>2. active \in Rests /\ gate[active] = "running"
    BY <2>1 DEF RestInv, CoreInv, NativeInv, TurnInv
  <2> QED BY <2>1, <2>2 DEF RestInv, CoreInv, ServedInv, Pause!Ongoing
<1> QED BY <1>1, RestInvariant, PTL

\* A rest that its caller was told is cancelled has not begun, and never will.
THEOREM CancelledStays ==
  ASSUME Pause!RestsAssumption
  PROVE  Pause!Spec => []Pause!CancelledNeverRests
<1>1. RestInv => Pause!CancelledNeverRests
  BY DEF RestInv, CoreInv, RevokedInv, Pause!CancelledNeverRests
<1> QED BY <1>1, RestInvariant, PTL

-----------------------------------------------------------------------------
(***************************************************************************)
(* The recorder, for any callers and any limits. The range of a replay     *)
(* starts at the bus's number when it begins and ends at the number when   *)
(* it is over, and the bus delivers in the order of the numbers: so that   *)
(* whatever is still queued of the latest replay lies in the range, and    *)
(* nothing lies in it that the player did while no replay was active. A    *)
(* command of a replay that runs when it is over lies in no range.         *)
(***************************************************************************)
CONSTANTS Clients, MaxEvents, MaxSamples, MaxActivity, Budget

VARIABLES phase, stopRequested, generation, replaying, startCursor, suppressionEnd, samples, activity,
          checkpoints, entry, joinable, joining, sampler, shutter, run, round, commands

Rec == INSTANCE Recording

\* A replay is submitted by one call, and under way or over.
SubmitInv ==
    /\ \A c \in Clients : at[c] = "submitting" => replaying /\ run = None
    /\ \A c, d \in Clients : at[c] = "submitting" /\ at[d] = "submitting" => c = d
    /\ suppressionEnd # None => startCursor # None /\ suppressionEnd <= head /\ ~replaying

\* The commands that wait are of the replays up to the latest.
CommandsInv == \A i \in DOMAIN commands : commands[i] <= round

\* The events still to be delivered, in their order: the range covers those of the
\* latest replay from before its end, and only what was done while it was active.
NumberedInv ==
    /\ \A i \in DOMAIN queue : queue[i].seq <= head /\ queue[i].round <= round
    /\ \A i, j \in DOMAIN queue : i < j => queue[i].seq < queue[j].seq
    /\ \A i \in DOMAIN queue :
          /\ queue[i].by = "replay" /\ queue[i].round = round /\ queue[i].during => Rec!InReplayRange(queue[i])
          /\ Rec!InReplayRange(queue[i]) => queue[i].during

RecorderInv == Rec!TypeOK /\ SubmitInv /\ CommandsInv /\ NumberedInv /\ Rec!TailSuppressed

\* The events of the recording that are not cells, which the budget counts.
Budgeted == {a \in activity : a.kind # "cell"}

\* The instance has operators of its own for what its modules define.
LEMMA SameSizes ==
  \A S : Rec!Cardinality(S) = Cardinality(S) /\ (Rec!IsFiniteSet(S) <=> IsFiniteSet(S))
<1>1. \A S : Rec!Cardinality(S) = Cardinality(S)
  BY Zenon DEF Rec!Cardinality, Cardinality
<1>2. \A S : (Rec!IsFiniteSet(S) <=> IsFiniteSet(S))
  BY Zenon DEF Rec!IsFiniteSet, IsFiniteSet
<1> QED BY <1>1, <1>2

\* What is counted is no more than what is kept.
LEMMA CountedFew ==
  ASSUME Rec!RecorderAssumption, Rec!TypeOK
  PROVE  /\ IsFiniteSet(Budgeted) /\ Cardinality(Budgeted) \in Nat /\ Cardinality(activity) \in Nat
         /\ Cardinality(Budgeted) <= Cardinality(activity)
<1>1. IsFiniteSet(activity) /\ Budgeted \subseteq activity
  BY SameSizes DEF Rec!TypeOK, Budgeted
<1> QED BY <1>1, FS_Subset, FS_CardinalityType

\* One more element counts for one at most.
LEMMA AddOne ==
  ASSUME NEW S, IsFiniteSet(S), NEW x
  PROVE  /\ IsFiniteSet(S \union {x}) /\ Cardinality(S \union {x}) \in Nat
         /\ Cardinality(S) \in Nat /\ Cardinality(S \union {x}) <= Cardinality(S) + 1
<1>1. /\ IsFiniteSet(S \union {x})
      /\ \/ x \in S /\ Cardinality(S \union {x}) = Cardinality(S)
         \/ x \notin S /\ Cardinality(S \union {x}) = Cardinality(S) + 1
  BY FS_AddElement
<1> QED BY <1>1, FS_CardinalityType

\* A sample keeps the budget: what it adds besides a cell is counted before.
LEMMA SampleTypes ==
  ASSUME Rec!RecorderAssumption, Rec!TypeOK, Rec!Sample
  PROVE  Rec!TypeOK'
<1>1. CASE phase # "recording" \/ generation # sampler.generation \/ replaying
  BY ZenonT(40), <1>1 DEF Rec!TypeOK, Rec!Sample, Rec!phaseVars, Rec!replayVars, Rec!busVars,
      Rec!recordingVars
<1>2. CASE ~(phase # "recording" \/ generation # sampler.generation \/ replaying)
  <2>1. PICK moved \in BOOLEAN, pose \in BOOLEAN :
          LET fits == /\ Len(samples) < MaxSamples
                      /\ Rec!Units(Len(samples) + 1, Cardinality(activity'), checkpoints) <= Budget
          IN /\ activity' = IF moved /\ Cardinality(activity) < MaxActivity
                            THEN activity \union {Rec!Cell(sampler.snapshot)} ELSE activity
             /\ samples' = IF pose /\ fits THEN Append(samples, sampler.snapshot) ELSE samples
             /\ stopRequested' = (stopRequested \/ (pose /\ ~fits))
             /\ sampler' = [sampler EXCEPT !.pc = IF pose => fits THEN "waiting" ELSE "ended",
                                           !.snapshot = None]
    BY <1>2, SameSizes DEF Rec!Sample
  <2> DEFINE cell == Rec!Cell(sampler.snapshot)
  <2>2. sampler.snapshot \in Rec!By /\ sampler.pc = "taken"
    BY DEF Rec!TypeOK, Rec!Sample
  <2>3. cell \in Rec!Cells /\ cell.kind = "cell"
    BY <2>2, CountedFew, SameSizes DEF Rec!Cells, Rec!Cell
  <2> HIDE DEF cell
  <2>10. \/ activity' = activity
         \/ activity' = activity \union {cell} /\ Cardinality(activity) < MaxActivity
    BY <2>1 DEF cell
  <2>4. /\ activity' \subseteq Rec!Events \union Rec!Cells /\ IsFiniteSet(activity')
        /\ Cardinality(activity') <= MaxActivity
    <3>1. IsFiniteSet(activity) /\ Cardinality(activity) <= MaxActivity /\ MaxActivity \in Nat
      BY SameSizes DEF Rec!TypeOK, Rec!RecorderAssumption
    <3>2. /\ IsFiniteSet(activity \union {cell}) /\ Cardinality(activity) \in Nat
          /\ Cardinality(activity \union {cell}) \in Nat
          /\ Cardinality(activity \union {cell}) <= Cardinality(activity) + 1
      BY <3>1, AddOne
    <3>3. Cardinality(activity') <= MaxActivity
      BY <2>10, <3>1, <3>2
    <3> QED BY <2>3, <2>10, <3>1, <3>2, <3>3 DEF Rec!TypeOK
  <2>5. {a \in activity' : a.kind # "cell"} = Budgeted
    BY <2>3, <2>10 DEF Budgeted
  <2>6. Cardinality(Budgeted) <= Cardinality(activity') /\ Cardinality(activity') \in Nat
        /\ Cardinality(Budgeted) \in Nat
    BY <2>4, <2>5, FS_Subset, FS_CardinalityType
  <2>7. /\ samples' \in Seq(Rec!By) /\ Len(samples') <= MaxSamples
        /\ Rec!Units(Len(samples'), Cardinality(Budgeted), checkpoints) <= Budget
    <3>1. CASE samples' = samples
      BY <3>1, SameSizes DEF Rec!TypeOK, Budgeted
    <3>2. CASE samples' # samples
      <4>1. /\ samples' = Append(samples, sampler.snapshot) /\ Len(samples) < MaxSamples
            /\ Rec!Units(Len(samples) + 1, Cardinality(activity'), checkpoints) <= Budget
        BY <2>1, <3>2
      <4>2. samples \in Seq(Rec!By) /\ checkpoints \in Nat /\ MaxSamples \in Nat /\ Budget \in Nat
        BY DEF Rec!TypeOK, Rec!RecorderAssumption
      <4>3. samples' \in Seq(Rec!By) /\ Len(samples') = Len(samples) + 1 /\ Len(samples) \in Nat
        BY <2>2, <4>1, <4>2
      <4> QED BY <2>6, <4>1, <4>2, <4>3 DEF Rec!Units
    <3> QED BY <3>1, <3>2
  <2>8. /\ stopRequested' \in BOOLEAN
        /\ sampler' \in [pc : {"none", "waiting", "snapping", "taken", "ended"}, generation : Nat,
                         snapshot : Rec!By \union {None}]
        /\ sampler'.pc # "taken"
    BY <2>1, <2>2 DEF Rec!TypeOK
  <2>9. UNCHANGED <<phase, stopping, generation, Rec!replayVars, checkpoints, entry, joinable, joining, at,
                    shutter, run, round, Rec!busVars, calls>>
    BY DEF Rec!Sample
  <2> QED BY <2>4, <2>5, <2>7, <2>8, <2>9, SameSizes DEF Rec!TypeOK, Rec!replayVars, Rec!busVars
<1> QED BY <1>1, <1>2

\* So does a checkpoint.
LEMMA CheckpointTypes ==
  ASSUME Rec!RecorderAssumption, Rec!TypeOK, NEW c \in Clients, Rec!Checkpoint(c)
  PROVE  Rec!TypeOK'
<1>1. /\ Cardinality(Budgeted) \in Nat /\ Cardinality(activity) \in Nat
      /\ Cardinality(Budgeted) <= Cardinality(activity)
  BY CountedFew
<1>2. Rec!Units(Len(samples), Cardinality(Budgeted), checkpoints') <= Budget /\ checkpoints' \in Nat
  <2>1. checkpoints \in Nat /\ Len(samples) \in Nat /\ Budget \in Nat
    BY DEF Rec!TypeOK, Rec!RecorderAssumption
  <2>2. \/ checkpoints' = checkpoints
        \/ /\ checkpoints' = checkpoints + 1
           /\ Rec!Units(Len(samples), Cardinality(activity), checkpoints + 1) <= Budget
    BY SameSizes DEF Rec!Checkpoint
  <2>3. Rec!Units(Len(samples), Cardinality(Budgeted), checkpoints) <= Budget
    BY SameSizes DEF Rec!TypeOK, Budgeted
  <2>4. CASE checkpoints' # checkpoints
    BY SMTT(30), <1>1, <2>1, <2>2, <2>4 DEF Rec!Units
  <2> QED BY <2>1, <2>3, <2>4
<1>3. at' \in [Clients -> Rec!Calls]
  BY DEF Rec!Checkpoint, Rec!Goes, Rec!TypeOK, Rec!Calls
<1>4. UNCHANGED <<Rec!phaseVars, Rec!replayVars, samples, activity, entry, Rec!threadVars, shutter, run, round,
                  Rec!busVars, calls>>
  BY DEF Rec!Checkpoint
<1> QED BY <1>2, <1>3, <1>4, SameSizes DEF Rec!TypeOK, Budgeted, Rec!phaseVars, Rec!replayVars,
    Rec!threadVars, Rec!busVars

\* And an event that is delivered.
LEMMA ObserveTypes ==
  ASSUME Rec!RecorderAssumption, Rec!TypeOK, Rec!ObserveEvent
  PROVE  Rec!TypeOK'
<1> DEFINE event == Head(queue)
<1>1. event \in Rec!Events /\ queue' \in Seq(Rec!Events)
  BY HeadTailProperties DEF Rec!TypeOK, Rec!ObserveEvent
<1>2. /\ {startCursor', suppressionEnd'} \subseteq Nat \union {None}
      /\ replaying' = replaying /\ (replaying => startCursor' = startCursor /\ suppressionEnd' = None)
  BY DEF Rec!ObserveEvent, Rec!TypeOK, Rec!replayVars
<1>3. entry' \in [by : Rec!By, round : Nat, during : BOOLEAN] \union {None}
  <2>1. \/ entry' = entry
        \/ entry' = [by |-> event.by, round |-> event.round, during |-> event.during]
    BY DEF Rec!ObserveEvent
  <2>2. [by |-> event.by, round |-> event.round, during |-> event.during]
           \in [by : Rec!By, round : Nat, during : BOOLEAN]
    <3> HIDE DEF event
    <3> QED BY <1>1 DEF Rec!Events
  <2>3. entry \in [by : Rec!By, round : Nat, during : BOOLEAN] \union {None}
    BY DEF Rec!TypeOK
  <2> HIDE DEF event
  <2> QED BY <2>1, <2>2, <2>3
<1>4. \/ activity' = activity
      \/ /\ activity' = activity \union {event} /\ ~(Cardinality(activity) >= MaxActivity)
         /\ Rec!Units(Len(samples), Cardinality(activity) + 1, checkpoints) <= Budget
  BY SameSizes DEF Rec!ObserveEvent
<1>5. stopRequested' \in BOOLEAN
  BY DEF Rec!ObserveEvent, Rec!TypeOK
<1>6. /\ activity' \subseteq Rec!Events \union Rec!Cells /\ IsFiniteSet(activity')
      /\ Cardinality(activity') <= MaxActivity
      /\ Rec!Units(Len(samples), Cardinality({a \in activity' : a.kind # "cell"}), checkpoints) <= Budget
  <2>1. CASE activity' = activity
    BY <2>1, SameSizes DEF Rec!TypeOK
  <2>2. CASE activity' = activity \union {event} /\ ~(Cardinality(activity) >= MaxActivity)
               /\ Rec!Units(Len(samples), Cardinality(activity) + 1, checkpoints) <= Budget
    <3> DEFINE more == {a \in activity' : a.kind # "cell"}
    <3>1. IsFiniteSet(activity) /\ activity \subseteq Rec!Events \union Rec!Cells
      BY SameSizes DEF Rec!TypeOK
    <3>2. /\ IsFiniteSet(activity') /\ Cardinality(activity') \in Nat /\ Cardinality(activity) \in Nat
          /\ Cardinality(activity') <= Cardinality(activity) + 1
      <4>1. activity' = activity \union {event}
        BY <2>2
      <4> HIDE DEF event
      <4> QED BY <3>1, <4>1, AddOne
    <3>3. Cardinality(more) \in Nat /\ Cardinality(more) <= Cardinality(activity')
      BY <3>2, FS_Subset, FS_CardinalityType
    <3>4. Len(samples) \in Nat /\ checkpoints \in Nat /\ Budget \in Nat /\ MaxActivity \in Nat
      BY DEF Rec!TypeOK, Rec!RecorderAssumption
    <3> HIDE DEF more
    <3>7. Cardinality(activity') <= MaxActivity
      BY <2>2, <3>2, <3>4
    <3>5. Rec!Units(Len(samples), Cardinality(more), checkpoints) <= Budget
      BY <2>2, <3>2, <3>3, <3>4 DEF Rec!Units
    <3>6. activity' \subseteq Rec!Events \union Rec!Cells
      BY <1>1, <2>2, <3>1
    <3> QED BY <3>2, <3>5, <3>6, <3>7 DEF more
  <2> QED BY <1>4, <2>1, <2>2
<1>7. UNCHANGED <<phase, stopping, generation, samples, checkpoints, Rec!threadVars, at, shutter, run,
                  round, commands, head, calls>>
  BY DEF Rec!ObserveEvent
<1> QED BY <1>1, <1>2, <1>3, <1>5, <1>6, <1>7, SameSizes DEF Rec!TypeOK, Rec!threadVars

\* A step of the player, of a replay, or of a command of one publishes one event.
LEMMA PublishedOne ==
  ASSUME Rec!RecorderAssumption, Rec!TypeOK, CommandsInv,
         Rec!PlayerActs \/ Rec!ReplayActs \/ Rec!CommandRuns
  PROVE  /\ \E what \in {"console", "lifecycle", "other"}, whose \in Rec!By, nr \in Nat :
               Rec!Publish(what, whose, nr) /\ nr <= round
         /\ commands' \in Seq(Nat) /\ CommandsInv'
         /\ UNCHANGED <<Rec!phaseVars, Rec!replayVars, Rec!recordingVars, entry, Rec!threadVars, at,
                        shutter, run, round, calls>>
<1>1. CASE Rec!PlayerActs \/ Rec!ReplayActs
  BY <1>1 DEF Rec!PlayerActs, Rec!ReplayActs, Rec!By, Rec!TypeOK, CommandsInv
<1>2. CASE Rec!CommandRuns
  <2>1. /\ commands \in Seq(Nat) /\ commands # <<>> /\ commands' = Tail(commands)
        /\ UNCHANGED <<Rec!phaseVars, Rec!replayVars, Rec!recordingVars, entry, Rec!threadVars, at,
                       shutter, run, round, calls>>
    BY <1>2 DEF Rec!CommandRuns, Rec!TypeOK
  <2>2. /\ Len(commands) \in Nat \ {0} /\ Head(commands) = commands[1] /\ commands' \in Seq(Nat)
        /\ 1 \in DOMAIN commands /\ Head(commands) \in Nat
        /\ \A i \in DOMAIN commands' : commands'[i] = commands[i + 1] /\ i + 1 \in DOMAIN commands
    BY <2>1, HeadTailProperties
  <2>3. Head(commands) <= round /\ CommandsInv'
    BY <2>1, <2>2 DEF CommandsInv
  <2>4. \E what \in {"console", "lifecycle"} : Rec!Publish(what, "replay", Head(commands))
    BY <1>2 DEF Rec!CommandRuns
  <2> QED BY <2>1, <2>2, <2>3, <2>4 DEF Rec!By
<1> QED BY <1>1, <1>2

\* An event is published under the next number.
LEMMA PublishedTypes ==
  ASSUME Rec!RecorderAssumption, Rec!TypeOK, CommandsInv,
         Rec!PlayerActs \/ Rec!ReplayActs \/ Rec!CommandRuns
  PROVE  Rec!TypeOK'
<1>1. PICK what \in {"console", "lifecycle", "other"}, whose \in Rec!By, nr \in Nat :
          Rec!Publish(what, whose, nr)
  BY PublishedOne
<1> DEFINE event == [kind |-> what, by |-> whose, during |-> replaying, round |-> nr, seq |-> head + 1]
<1>2. event \in Rec!Events /\ head' = head + 1 /\ head \in Nat
  BY <1>1 DEF Rec!Publish, Rec!Events, Rec!TypeOK
<1>3. queue' \in Seq(Rec!Events) /\ commands' \in Seq(Nat)
  BY <1>1, <1>2, PublishedOne DEF Rec!Publish, Rec!TypeOK
<1>4. UNCHANGED <<Rec!phaseVars, Rec!replayVars, Rec!recordingVars, entry, Rec!threadVars, at, shutter, run,
      round, calls>>
  BY PublishedOne
<1> QED BY <1>2, <1>3, <1>4 DEF Rec!TypeOK, Rec!phaseVars, Rec!replayVars, Rec!recordingVars,
    Rec!threadVars

\* A command of a replay is queued.
LEMMA QueuesTypes ==
  ASSUME Rec!RecorderAssumption, Rec!TypeOK, CommandsInv, Rec!ReplayQueues
  PROVE  Rec!TypeOK' /\ CommandsInv'
<1>1. commands \in Seq(Nat) /\ round \in Nat /\ commands' = Append(commands, round)
  BY DEF Rec!ReplayQueues, Rec!TypeOK
<1>2. /\ commands' \in Seq(Nat) /\ Len(commands) \in Nat
      /\ DOMAIN commands' = DOMAIN commands \union {Len(commands) + 1}
      /\ commands'[Len(commands) + 1] = round /\ \A i \in DOMAIN commands : commands'[i] = commands[i]
  BY <1>1
<1>3. UNCHANGED <<Rec!phaseVars, Rec!replayVars, Rec!recordingVars, entry, Rec!threadVars, at, shutter, run,
      round, queue, head, calls>>
  BY DEF Rec!ReplayQueues
<1>4. CommandsInv'
  BY <1>1, <1>2, <1>3 DEF CommandsInv
<1> QED BY <1>2, <1>3, <1>4 DEF Rec!TypeOK, Rec!phaseVars, Rec!replayVars, Rec!recordingVars,
    Rec!threadVars

\* The other steps touch neither the bus nor what is recorded.
LEMMA CallTypes ==
  ASSUME Rec!RecorderAssumption, Rec!TypeOK, NEW c \in Clients,
         Rec!Admit(c) \/ Rec!StartBegins(c) \/ Rec!StartFails(c) \/ Rec!StopBegins(c) \/ Rec!StopJoins(c)
         \/ Rec!StopJoined(c)
            \/ Rec!StopWrites(c)
  PROVE  Rec!TypeOK'
<1>1. /\ at' \in [Clients -> Rec!Calls] /\ calls' \in Nat
      /\ phase' \in {"idle", "starting", "recording", "stopping"}
      /\ {stopRequested', joinable'} \subseteq BOOLEAN /\ joining' \subseteq Clients \union {"shutdown"}
  <2>1. CASE Rec!Admit(c)
    BY <2>1 DEF Rec!Admit, Rec!TypeOK, Rec!Calls, Rec!phaseVars, Rec!threadVars
  <2>6. CASE Rec!StartBegins(c)
    BY <2>6 DEF Rec!StartBegins, Rec!Goes, Rec!TypeOK, Rec!Calls, Rec!threadVars
  <2>7. CASE Rec!StartFails(c)
    BY <2>7 DEF Rec!StartFails, Rec!Goes, Rec!TypeOK, Rec!Calls, Rec!threadVars
  <2>2. CASE Rec!StopBegins(c)
    BY <2>2 DEF Rec!StopBegins, Rec!Goes, Rec!TypeOK, Rec!Calls, Rec!threadVars
  <2>4. CASE Rec!StopJoins(c)
    BY <2>4 DEF Rec!StopJoins, Rec!Goes, Rec!TypeOK, Rec!Calls, Rec!phaseVars
  <2>5. CASE Rec!StopWrites(c)
    BY <2>5 DEF Rec!StopWrites, Rec!Goes, Rec!TypeOK, Rec!Calls, Rec!threadVars
  <2>3. CASE Rec!StopJoined(c)
    BY <2>3 DEF Rec!StopJoined, Rec!TypeOK, Rec!Calls, Rec!phaseVars
  <2> QED BY <2>1, <2>2, <2>3, <2>4, <2>5, <2>6, <2>7
<1>2. UNCHANGED <<stopping, generation, Rec!replayVars, Rec!recordingVars, entry, sampler, shutter, run, round,
                  Rec!busVars>>
  BY DEF Rec!Admit, Rec!StartBegins, Rec!StartFails, Rec!StopBegins, Rec!StopJoins, Rec!StopJoined,
     Rec!StopWrites, Rec!phaseVars, Rec!threadVars
<1> QED BY <1>1, <1>2 DEF Rec!TypeOK, Rec!replayVars, Rec!recordingVars, Rec!busVars

\* A start begins an empty recording.
LEMMA StartTypes ==
  ASSUME Rec!RecorderAssumption, Rec!TypeOK, NEW c \in Clients, Rec!StartRecords(c)
  PROVE  Rec!TypeOK'
<1>1. /\ at' \in [Clients -> Rec!Calls] /\ phase' = "recording" /\ stopRequested' = FALSE /\ joinable' = TRUE
      /\ generation' \in Nat /\ samples' = <<>> /\ activity' = {} /\ checkpoints' = 0
      /\ sampler' \in [pc : {"none", "waiting", "snapping", "taken", "ended"}, generation : Nat,
                       snapshot : Rec!By \union {None}]
      /\ sampler'.pc = "waiting"
  BY DEF Rec!StartRecords, Rec!Goes, Rec!TypeOK, Rec!Calls
<1>2. UNCHANGED <<stopping, Rec!replayVars, entry, joining, shutter, run, round, Rec!busVars, calls>>
  BY DEF Rec!StartRecords
<1>3. /\ samples' \in Seq(Rec!By) /\ Len(samples') = 0 /\ IsFiniteSet(activity')
      /\ {a \in activity' : a.kind # "cell"} = {} /\ Cardinality(activity') <= MaxActivity
  BY <1>1, FS_EmptySet DEF Rec!RecorderAssumption
<1>4. Rec!Units(Len(samples'), Cardinality({a \in activity' : a.kind # "cell"}), checkpoints') <= Budget
  BY <1>1, <1>3, FS_EmptySet DEF Rec!Units, Rec!RecorderAssumption
<1>5. /\ activity' \subseteq Rec!Events \union Rec!Cells /\ {generation', checkpoints', round', head',
         calls'} \subseteq Nat
      /\ {stopping', stopRequested', replaying', joinable'} \subseteq BOOLEAN
      /\ Len(samples') <= MaxSamples
  <2>1. stopping \in BOOLEAN /\ replaying \in BOOLEAN /\ round \in Nat /\ head \in Nat /\ calls \in Nat
    BY DEF Rec!TypeOK
  <2>2. stopping' = stopping /\ replaying' = replaying /\ round' = round /\ head' = head /\ calls' = calls
    BY <1>2 DEF Rec!replayVars, Rec!busVars
  <2>3. Len(samples') <= MaxSamples
    BY <1>3 DEF Rec!RecorderAssumption
  <2>4. activity' \subseteq Rec!Events \union Rec!Cells
    BY <1>1
  <2>5. generation' \in Nat /\ checkpoints' \in Nat /\ round' \in Nat /\ head' \in Nat /\ calls' \in Nat
    BY <1>1, <2>1, <2>2
  <2>6. stopping' \in BOOLEAN /\ stopRequested' \in BOOLEAN /\ replaying' \in BOOLEAN /\ joinable' \in BOOLEAN
    BY <1>1, <2>1, <2>2
  <2> QED BY <2>3, <2>4, <2>5, <2>6
<1>6. /\ Rec!IsFiniteSet(activity') /\ Rec!Cardinality(activity') <= MaxActivity
      /\ Rec!Units(Len(samples'), Rec!Cardinality({a \in activity' : a.kind # "cell"}), checkpoints') <= Budget
  BY <1>3, <1>4, SameSizes
<1> QED BY <1>1, <1>2, <1>3, <1>5, <1>6 DEF Rec!TypeOK, Rec!replayVars, Rec!busVars

\* The sampling thread between its samples.
LEMMA SamplerTypes ==
  ASSUME Rec!RecorderAssumption, Rec!TypeOK, Rec!SampleWaits \/ Rec!Snapshot \/ Rec!SnapshotFails
  PROVE  Rec!TypeOK'
<1>1. /\ sampler' \in [pc : {"none", "waiting", "snapping", "taken", "ended"}, generation : Nat,
                       snapshot : Rec!By \union {None}]
      /\ sampler'.pc = "taken" => sampler'.snapshot \in Rec!By
      /\ stopRequested' \in BOOLEAN
  BY DEF Rec!SampleWaits, Rec!Snapshot, Rec!SnapshotFails, Rec!TypeOK, Rec!By, Rec!phaseVars
<1>2. UNCHANGED <<phase, stopping, generation, Rec!replayVars, Rec!recordingVars, entry, joinable, joining, at,
                  shutter, run, round, Rec!busVars, calls>>
  BY DEF Rec!SampleWaits, Rec!Snapshot, Rec!SnapshotFails, Rec!phaseVars
<1> QED BY <1>1, <1>2 DEF Rec!TypeOK, Rec!replayVars, Rec!recordingVars, Rec!busVars

\* The shutdown.
LEMMA ShutdownTypes ==
  ASSUME Rec!RecorderAssumption, Rec!TypeOK, Rec!Shutdown \/ Rec!ShutdownJoins \/ Rec!ShutdownJoined
  PROVE  Rec!TypeOK'
<1>1. /\ {stopping', stopRequested', joinable'} \subseteq BOOLEAN
      /\ joining' \subseteq Clients \union {"shutdown"}
      /\ shutter' \in {"idle", "flagged", "joining", "unsubscribed", "terminated"}
  BY DEF Rec!Shutdown, Rec!ShutdownJoins, Rec!ShutdownJoined, Rec!TypeOK, Rec!phaseVars,
      Rec!threadVars
<1>2. UNCHANGED <<phase, generation, Rec!replayVars, Rec!recordingVars, entry, sampler, at, run, round,
      Rec!busVars, calls>>
  BY DEF Rec!Shutdown, Rec!ShutdownJoins, Rec!ShutdownJoined, Rec!phaseVars, Rec!threadVars
<1> QED BY <1>1, <1>2 DEF Rec!TypeOK, Rec!replayVars, Rec!recordingVars, Rec!busVars

\* The calls of a replay.
LEMMA ReplayTypes ==
  ASSUME Rec!RecorderAssumption, Rec!TypeOK, SubmitInv,
         (\E c \in Clients : Rec!ReplayBegins(c) \/ Rec!ReplayRefused(c) \/ Rec!ReplaySubmitted(c))
         \/ Rec!Completed
  PROVE  Rec!TypeOK'
<1>1. /\ at' \in [Clients -> Rec!Calls] /\ round' \in Nat /\ replaying' \in BOOLEAN
      /\ {startCursor', suppressionEnd'} \subseteq Nat \union {None} /\ run' \in Clients \union {None}
      /\ replaying' => startCursor' \in 0..head /\ suppressionEnd' = None
      /\ run' # None => replaying'
  <2>0. head \in Nat /\ round \in Nat /\ head \in 0..head
    BY DEF Rec!TypeOK
  <2>1. CASE \E c \in Clients : Rec!ReplayBegins(c)
    <3>1. PICK c \in Clients : Rec!ReplayBegins(c)
      BY <2>1
    <3>2. at' \in [Clients -> Rec!Calls]
      BY <3>1 DEF Rec!ReplayBegins, Rec!Goes, Rec!TypeOK, Rec!Calls
    <3>3. run' = run /\ round' \in Nat
      BY <2>0, <3>1 DEF Rec!ReplayBegins
    <3>4. CASE replaying
      BY <3>1, <3>2, <3>3, <3>4 DEF Rec!ReplayBegins, Rec!TypeOK, Rec!replayVars
    <3>5. CASE ~replaying
      <4>1. replaying' = TRUE /\ startCursor' = head /\ suppressionEnd' = None
        BY <3>1, <3>5 DEF Rec!ReplayBegins
      <4> QED BY <2>0, <3>2, <3>3, <4>1 DEF Rec!TypeOK
    <3> QED BY <3>4, <3>5
  <2>2. CASE \E c \in Clients : Rec!ReplayRefused(c)
    <3>1. PICK c \in Clients : Rec!ReplayRefused(c)
      BY <2>2
    <3>2. at' \in [Clients -> Rec!Calls]
      BY <3>1 DEF Rec!ReplayRefused, Rec!Goes, Rec!TypeOK, Rec!Calls
    <3>3. run' = None /\ round' = round /\ replaying' = FALSE /\ suppressionEnd' = head
          /\ startCursor' = startCursor
      BY <3>1 DEF Rec!ReplayRefused, Rec!Goes, SubmitInv
    <3> QED BY <2>0, <3>2, <3>3 DEF Rec!TypeOK
  <2>3. CASE \E c \in Clients : Rec!ReplaySubmitted(c)
    BY <2>3 DEF Rec!ReplaySubmitted, Rec!Goes, Rec!TypeOK, Rec!Calls, SubmitInv, Rec!replayVars
  <2>4. CASE Rec!Completed
    BY <2>4 DEF Rec!Completed, Rec!TypeOK
  <2> QED BY <2>1, <2>2, <2>3, <2>4
<1>2. UNCHANGED <<Rec!phaseVars, Rec!recordingVars, entry, Rec!threadVars, shutter, Rec!busVars, calls>>
  BY DEF Rec!ReplayBegins, Rec!ReplayRefused, Rec!ReplaySubmitted, Rec!Completed
<1> QED BY <1>1, <1>2 DEF Rec!TypeOK, Rec!phaseVars, Rec!recordingVars, Rec!threadVars, Rec!busVars

\* Every step keeps the types.
LEMMA NextTypes ==
  ASSUME Rec!RecorderAssumption, Rec!TypeOK, SubmitInv, CommandsInv, [Rec!Next]_Rec!vars
  PROVE  Rec!TypeOK'
<1>1. CASE UNCHANGED Rec!vars
  BY <1>1 DEF Rec!vars, Rec!TypeOK, Rec!phaseVars, Rec!replayVars, Rec!recordingVars,
      Rec!threadVars,
     Rec!busVars
<1>2. CASE Rec!Next
  BY <1>2, CallTypes, StartTypes, CheckpointTypes, SamplerTypes, SampleTypes, ShutdownTypes,
      ReplayTypes,
     PublishedTypes, QueuesTypes, ObserveTypes DEF Rec!Next
<1> QED BY <1>1, <1>2

-----------------------------------------------------------------------------
(* What the range covers.                                                  *)

\* A replay that is submitted stays the only one.
LEMMA NextSubmit ==
  ASSUME Rec!RecorderAssumption, Rec!TypeOK, SubmitInv, [Rec!Next]_Rec!vars
  PROVE  SubmitInv'
<1>1. ASSUME NEW c \in Clients, Rec!ReplayBegins(c) \/ Rec!ReplayRefused(c)
             \/ Rec!ReplaySubmitted(c) PROVE SubmitInv'
  <2>1. CASE Rec!ReplayBegins(c)
    BY <2>1 DEF Rec!ReplayBegins, Rec!Goes, Rec!TypeOK, SubmitInv, Rec!replayVars, Rec!busVars
  <2>2. CASE Rec!ReplayRefused(c)
    <3>1. /\ at[c] = "submitting" /\ at' = [at EXCEPT ![c] = "idle"] /\ run' = run /\ head' = head
          /\ replaying' = FALSE /\ suppressionEnd' = head /\ startCursor' = startCursor
      BY <2>2 DEF Rec!ReplayRefused, Rec!Goes, Rec!busVars
    <3>2. replaying /\ startCursor # None /\ head \in Nat
      BY <3>1 DEF SubmitInv, Rec!TypeOK, Rec!RecorderAssumption
    <3>3. \A d \in Clients : at'[d] # "submitting"
      BY <3>1 DEF Rec!TypeOK, SubmitInv
    <3> QED BY <3>1, <3>2, <3>3 DEF SubmitInv
  <2>3. CASE Rec!ReplaySubmitted(c)
    BY <2>3 DEF Rec!ReplaySubmitted, Rec!Goes, Rec!TypeOK, SubmitInv, Rec!replayVars, Rec!busVars
  <2> QED BY <1>1, <2>1, <2>2, <2>3
<1>2. CASE Rec!Completed
  <2>1. /\ run # None /\ at' = at /\ run' = None /\ head' = head /\ replaying' = FALSE /\ suppressionEnd' = head
        /\ startCursor' = startCursor
    BY <1>2 DEF Rec!Completed, Rec!busVars
  <2>2. replaying /\ startCursor # None /\ head \in Nat
    BY <2>1 DEF Rec!TypeOK, Rec!RecorderAssumption
  <2>3. \A d \in Clients : at'[d] # "submitting"
    BY <2>1 DEF SubmitInv
  <2> QED BY <2>1, <2>2, <2>3 DEF SubmitInv
<1>3. CASE Rec!ObserveEvent
  BY <1>3 DEF Rec!ObserveEvent, Rec!TypeOK, SubmitInv, Rec!replayVars
<1>4. ASSUME UNCHANGED <<Rec!replayVars, run>>, head' \in {head, head + 1},
             \A c \in Clients : at'[c] = "submitting" => at[c] = "submitting"
      PROVE  SubmitInv'
  <2>1. suppressionEnd # None => suppressionEnd \in Nat
    BY DEF Rec!TypeOK
  <2> QED BY <1>4, <2>1 DEF Rec!TypeOK, SubmitInv, Rec!replayVars
<1>5. ASSUME NEW c \in Clients,
             Rec!Admit(c) \/ Rec!StartBegins(c) \/ Rec!StartFails(c) \/ Rec!StopBegins(c)
             \/ Rec!StopJoins(c) \/ Rec!StopJoined(c)
                \/ Rec!StopWrites(c) \/ Rec!StartRecords(c) \/ Rec!Checkpoint(c)
      PROVE  SubmitInv'
  <2>1. UNCHANGED <<Rec!replayVars, run, head>>
    BY <1>5 DEF Rec!Admit, Rec!StartBegins, Rec!StartFails, Rec!StopBegins, Rec!StopJoins,
        Rec!StopJoined,
       Rec!StopWrites, Rec!StartRecords,
       Rec!Checkpoint, Rec!busVars
  <2>2. \E next \in Rec!Calls \ {"submitting"} : at' = [at EXCEPT ![c] = next]
    BY <1>5 DEF Rec!Admit, Rec!StartBegins, Rec!StartFails, Rec!StopBegins, Rec!StopJoins,
        Rec!StopJoined,
       Rec!StopWrites, Rec!StartRecords,
       Rec!Checkpoint, Rec!Goes, Rec!Calls
  <2>3. \A d \in Clients : at'[d] = "submitting" => at[d] = "submitting"
    BY <2>2 DEF Rec!TypeOK
  <2> QED BY <1>4, <2>1, <2>3
<1>6. CASE Rec!SampleWaits \/ Rec!Snapshot \/ Rec!SnapshotFails \/ Rec!Sample \/ Rec!Shutdown
           \/ Rec!ShutdownJoins \/ Rec!ShutdownJoined
           \/ Rec!PlayerActs \/ Rec!ReplayActs \/ Rec!ReplayQueues \/ Rec!CommandRuns \/ UNCHANGED Rec!vars
  <2>1. UNCHANGED <<Rec!replayVars, run, at>> /\ head' \in {head, head + 1}
    BY <1>6 DEF Rec!SampleWaits, Rec!Snapshot, Rec!SnapshotFails, Rec!Sample, Rec!Shutdown,
       Rec!ShutdownJoins, Rec!ShutdownJoined,
       Rec!PlayerActs, Rec!ReplayActs, Rec!ReplayQueues, Rec!CommandRuns, Rec!Publish,
       Rec!busVars, Rec!vars
  <2> QED BY <1>4, <2>1
<1> QED BY <1>1, <1>2, <1>3, <1>5, <1>6 DEF Rec!Next

\* The commands are added to by the latest replay, and taken from.
LEMMA NextCommands ==
  ASSUME Rec!RecorderAssumption, Rec!TypeOK, CommandsInv, [Rec!Next]_Rec!vars
  PROVE  CommandsInv'
<1>1. ASSUME commands' = commands, round' \in {round, round + 1} PROVE CommandsInv'
  <2>1. round \in Nat /\ commands \in Seq(Nat)
    BY DEF Rec!TypeOK
  <2>2. \A i \in DOMAIN commands : commands[i] \in Nat
    BY <2>1
  <2> QED BY <1>1, <2>1, <2>2 DEF CommandsInv
<1>2. ASSUME NEW c \in Clients,
             Rec!Admit(c) \/ Rec!StartBegins(c) \/ Rec!StartFails(c) \/ Rec!StopBegins(c)
             \/ Rec!StopJoins(c) \/ Rec!StopJoined(c)
                \/ Rec!StopWrites(c) \/ Rec!StartRecords(c) \/ Rec!Checkpoint(c)
                \/ Rec!ReplayBegins(c) \/ Rec!ReplayRefused(c) \/ Rec!ReplaySubmitted(c)
      PROVE  CommandsInv'
  <2>1. commands' = commands /\ round' \in {round, round + 1}
    BY <1>2 DEF Rec!Admit, Rec!StartBegins, Rec!StartFails, Rec!StopBegins, Rec!StopJoins,
        Rec!StopJoined,
       Rec!StopWrites, Rec!StartRecords,
       Rec!Checkpoint, Rec!ReplayBegins, Rec!ReplayRefused, Rec!ReplaySubmitted, Rec!busVars
  <2> QED BY <1>1, <2>1
<1>3. CASE Rec!SampleWaits \/ Rec!Snapshot \/ Rec!SnapshotFails \/ Rec!Sample \/ Rec!Shutdown
           \/ Rec!ShutdownJoins \/ Rec!ShutdownJoined \/ Rec!Completed \/ Rec!ObserveEvent
           \/ UNCHANGED Rec!vars
  <2>1. commands' = commands /\ round' = round
    BY <1>3 DEF Rec!SampleWaits, Rec!Snapshot, Rec!SnapshotFails, Rec!Sample, Rec!Shutdown,
       Rec!ShutdownJoins, Rec!ShutdownJoined, Rec!Completed, Rec!ObserveEvent, Rec!busVars, Rec!vars
  <2> QED BY <1>1, <2>1
<1> QED BY <1>2, <1>3, PublishedOne, QueuesTypes DEF Rec!Next

\* The queue after a step that leaves it, the range and the round alone.
LEMMA SameQueue ==
  ASSUME NumberedInv, UNCHANGED <<Rec!replayVars, round, queue, head>>
  PROVE  NumberedInv'
BY DEF NumberedInv, Rec!InReplayRange, Rec!replayVars

\* An event published while a replay is active lies in its range, and no other does.
LEMMA PublishQueue ==
  ASSUME Rec!RecorderAssumption, Rec!TypeOK, SubmitInv, CommandsInv, NumberedInv,
         Rec!PlayerActs \/ Rec!ReplayActs \/ Rec!CommandRuns
  PROVE  NumberedInv'
<1>1. PICK what \in {"console", "lifecycle", "other"}, whose \in Rec!By, nr \in Nat :
          Rec!Publish(what, whose, nr) /\ nr <= round
  BY PublishedOne
<1> DEFINE event == [kind |-> what, by |-> whose, during |-> replaying, round |-> nr, seq |-> head + 1]
<1>2. queue' = Append(queue, event) /\ head' = head + 1 /\ head \in Nat /\ round \in Nat
      /\ queue \in Seq(Rec!Events)
  BY <1>1 DEF Rec!Publish, Rec!TypeOK
<1>3. event.seq = head + 1 /\ event.round <= round /\ event.during = replaying
      /\ event \in Rec!Events
  BY <1>1, <1>2 DEF Rec!Events, Rec!TypeOK
<1>4. UNCHANGED <<Rec!replayVars, round>>
  BY PublishedOne
<1>6. Rec!InReplayRange(event) <=> replaying
  <2>1. replaying => startCursor # None /\ startCursor \in 0..head
    BY DEF Rec!TypeOK, Rec!RecorderAssumption
  <2>2. suppressionEnd # None => suppressionEnd \in Nat /\ suppressionEnd <= head
    BY DEF Rec!TypeOK, SubmitInv
  <2> HIDE DEF event
  <2> QED BY <1>2, <1>3, <2>1, <2>2 DEF Rec!InReplayRange
<1> HIDE DEF event
<1>7. DOMAIN queue' = DOMAIN queue \union {Len(queue) + 1} /\ DOMAIN queue = 1..Len(queue) /\ Len(queue) \in Nat
      /\ queue'[Len(queue) + 1] = event /\ \A i \in DOMAIN queue : queue'[i] = queue[i]
  BY <1>2, <1>3
<1>8. \A i \in DOMAIN queue' : Rec!InReplayRange(queue[i])' <=> Rec!InReplayRange(queue'[i])
  BY <1>4 DEF Rec!InReplayRange, Rec!replayVars
<1>9. \A i \in DOMAIN queue : queue[i].seq \in Nat /\ queue[i].round \in Nat
  <2>1. \A i \in DOMAIN queue : queue[i] \in Rec!Events
    BY <1>2
  <2> QED BY <2>1 DEF Rec!Events
<1>10. (\A i \in DOMAIN queue : queue[i].seq <= head /\ queue[i].round <= round)'
  BY <1>2, <1>3, <1>4, <1>7, <1>9 DEF NumberedInv
<1>11. (\A i, j \in DOMAIN queue : i < j => queue[i].seq < queue[j].seq)'
  BY <1>2, <1>3, <1>7, <1>9 DEF NumberedInv
<1>12. (\A i \in DOMAIN queue :
          /\ queue[i].by = "replay" /\ queue[i].round = round /\ queue[i].during => Rec!InReplayRange(queue[i])
          /\ Rec!InReplayRange(queue[i]) => queue[i].during)'
  <2>1. ASSUME NEW i \in DOMAIN queue'
        PROVE  /\ queue'[i].by = "replay" /\ queue'[i].round = round /\ queue'[i].during
                  => Rec!InReplayRange(queue'[i])
               /\ Rec!InReplayRange(queue'[i]) => queue'[i].during
    <3>1. CASE queue'[i] = event
      BY <1>3, <1>6, <3>1
    <3>2. CASE i \in DOMAIN queue /\ queue'[i] = queue[i]
      BY <3>2 DEF NumberedInv
    <3> QED BY <1>7, <3>1, <3>2
  <2> QED BY <1>4, <1>8, <2>1
<1> QED BY <1>10, <1>11, <1>12 DEF NumberedInv

\* A replay that begins covers nothing that is queued, and one that ends all that it did.
LEMMA ReplayQueue ==
  ASSUME Rec!RecorderAssumption, Rec!TypeOK, SubmitInv, NumberedInv,
         (\E c \in Clients : Rec!ReplayBegins(c) \/ Rec!ReplayRefused(c) \/ Rec!ReplaySubmitted(c))
         \/ Rec!Completed
  PROVE  NumberedInv'
<1>0. queue' = queue /\ head' = head /\ head \in Nat /\ round \in Nat
      /\ \A i \in DOMAIN queue : queue[i].seq \in Nat /\ queue[i].round \in Nat /\ queue[i].during \in BOOLEAN
  <2>1. queue' = queue /\ head' = head
    BY DEF Rec!ReplayBegins, Rec!ReplayRefused, Rec!ReplaySubmitted, Rec!Completed, Rec!busVars
  <2>2. queue \in Seq(Rec!Events) /\ head \in Nat /\ round \in Nat
    BY DEF Rec!TypeOK
  <2>3. \A i \in DOMAIN queue : queue[i] \in Rec!Events
    BY <2>2
  <2> QED BY <2>1, <2>2, <2>3 DEF Rec!Events
<1>1. CASE UNCHANGED <<Rec!replayVars, round>>
  BY <1>0, <1>1, SameQueue
<1>2. CASE replaying' = TRUE /\ startCursor' = head /\ suppressionEnd' = None /\ round' = round + 1
  <2>1. \A i \in DOMAIN queue : ~Rec!InReplayRange(queue[i])'
    BY <1>0, <1>2 DEF Rec!InReplayRange, NumberedInv
  <2>2. \A i \in DOMAIN queue : queue[i].round < round'
    BY <1>0, <1>2 DEF NumberedInv
  <2> QED BY <1>0, <1>2, <2>1, <2>2 DEF NumberedInv
<1>3. CASE replaying /\ replaying' = FALSE /\ suppressionEnd' = head /\ startCursor' = startCursor
           /\ round' = round
  <2>1. head # None
    BY <1>0 DEF Rec!RecorderAssumption
  <2>2. \A i \in DOMAIN queue : Rec!InReplayRange(queue[i])' <=> Rec!InReplayRange(queue[i])
    BY <1>0, <1>3, <2>1 DEF Rec!InReplayRange, NumberedInv
  <2> QED BY <1>0, <1>3, <2>2 DEF NumberedInv
<1> QED BY <1>1, <1>2, <1>3 DEF Rec!ReplayBegins, Rec!ReplayRefused, Rec!ReplaySubmitted,
    Rec!Completed,
           SubmitInv, Rec!TypeOK, Rec!Goes

\* The event taken out is the oldest: when the range is forgotten, none is left in it.
LEMMA ObserveQueue ==
  ASSUME Rec!RecorderAssumption, Rec!TypeOK, SubmitInv, NumberedInv, Rec!ObserveEvent
  PROVE  NumberedInv'
<1>1. /\ queue # <<>> /\ queue' = Tail(queue) /\ queue \in Seq(Rec!Events) /\ head' = head /\ round' = round
  BY DEF Rec!ObserveEvent, Rec!TypeOK
<1>2. /\ Len(queue) \in Nat \ {0} /\ DOMAIN queue = 1..Len(queue) /\ DOMAIN queue' = 1..Len(queue) - 1
      /\ Head(queue) = queue[1] /\ \A i \in DOMAIN queue' : queue'[i] = queue[i + 1] /\ i + 1 \in DOMAIN queue
      /\ \A i \in DOMAIN queue : queue[i].seq \in Nat
  <2>1. \A i \in DOMAIN queue : queue[i] \in Rec!Events
    BY <1>1
  <2> QED BY <1>1, <2>1, HeadTailProperties DEF Rec!Events
<1>3. (\A i \in DOMAIN queue : queue[i].seq <= head /\ queue[i].round <= round)'
  BY <1>1, <1>2 DEF NumberedInv
<1>4. (\A i, j \in DOMAIN queue : i < j => queue[i].seq < queue[j].seq)'
  BY <1>1, <1>2 DEF NumberedInv
<1>5. CASE UNCHANGED Rec!replayVars
  <2>1. \A i \in DOMAIN queue : Rec!InReplayRange(queue[i])' <=> Rec!InReplayRange(queue'[i])
    BY <1>5 DEF Rec!InReplayRange, Rec!replayVars
  <2>2. \A i \in DOMAIN queue' : Rec!InReplayRange(queue[i])' <=> Rec!InReplayRange(queue[i + 1])
    BY <1>2, <1>5 DEF Rec!InReplayRange, Rec!replayVars
  <2>3. (\A i \in DOMAIN queue :
          /\ queue[i].by = "replay" /\ queue[i].round = round /\ queue[i].during => Rec!InReplayRange(queue[i])
          /\ Rec!InReplayRange(queue[i]) => queue[i].during)'
    BY <1>1, <1>2, <2>2 DEF NumberedInv
  <2> QED BY <1>3, <1>4, <2>3 DEF NumberedInv
<1>6. CASE /\ suppressionEnd # None /\ Head(queue).seq > suppressionEnd
           /\ startCursor' = None /\ suppressionEnd' = None /\ replaying' = replaying
  <2>1. ~replaying /\ suppressionEnd \in Nat
    BY <1>6 DEF SubmitInv, Rec!TypeOK
  <2>2. \A i \in DOMAIN queue' : queue[1].seq < queue[i + 1].seq
    BY <1>2 DEF NumberedInv
  <2>3. \A i \in DOMAIN queue' : ~Rec!InReplayRange(queue[i + 1])
    BY <1>2, <1>6, <2>1, <2>2 DEF Rec!InReplayRange
  <2>4. \A i \in DOMAIN queue' : ~(queue'[i].by = "replay" /\ queue'[i].round = round /\ queue'[i].during)
    BY <1>2, <2>3 DEF NumberedInv
  <2>5. \A i \in DOMAIN queue' : ~Rec!InReplayRange(queue[i])'
    BY <1>6 DEF Rec!InReplayRange
  <2> QED BY <1>1, <1>3, <1>4, <2>4, <2>5 DEF NumberedInv
<1> QED BY <1>5, <1>6 DEF Rec!ObserveEvent, Rec!replayVars

\* Every step keeps what the range covers.
LEMMA NextQueue ==
  ASSUME Rec!RecorderAssumption, Rec!TypeOK, SubmitInv, CommandsInv, NumberedInv, [Rec!Next]_Rec!vars
  PROVE  NumberedInv'
<1>1. ASSUME NEW c \in Clients,
             Rec!Admit(c) \/ Rec!StartBegins(c) \/ Rec!StartFails(c) \/ Rec!StopBegins(c)
             \/ Rec!StopJoins(c) \/ Rec!StopJoined(c)
                \/ Rec!StopWrites(c) \/ Rec!StartRecords(c) \/ Rec!Checkpoint(c)
      PROVE  NumberedInv'
  <2>1. UNCHANGED <<Rec!replayVars, round, queue, head>>
    BY <1>1 DEF Rec!Admit, Rec!StartBegins, Rec!StartFails, Rec!StopBegins, Rec!StopJoins,
        Rec!StopJoined,
       Rec!StopWrites, Rec!StartRecords,
       Rec!Checkpoint, Rec!busVars
  <2> QED BY <2>1, SameQueue
<1>2. CASE Rec!SampleWaits \/ Rec!Snapshot \/ Rec!SnapshotFails \/ Rec!Sample \/ Rec!Shutdown
           \/ Rec!ShutdownJoins \/ Rec!ShutdownJoined \/ Rec!ReplayQueues
           \/ UNCHANGED Rec!vars
  <2>1. UNCHANGED <<Rec!replayVars, round, queue, head>>
    BY <1>2 DEF Rec!SampleWaits, Rec!Snapshot, Rec!SnapshotFails, Rec!Sample, Rec!Shutdown,
       Rec!ShutdownJoins, Rec!ShutdownJoined, Rec!ReplayQueues, Rec!busVars,
       Rec!vars
  <2> QED BY <2>1, SameQueue
<1> QED BY <1>1, <1>2, ReplayQueue, PublishQueue, ObserveQueue DEF Rec!Next

-----------------------------------------------------------------------------
(* What is recorded.                                                       *)

\* An event of the latest replay is dropped when it is delivered.
LEMMA ObserveTail ==
  ASSUME Rec!RecorderAssumption, Rec!TypeOK, NumberedInv, Rec!TailSuppressed, Rec!ObserveEvent
  PROVE  Rec!TailSuppressed'
<1> DEFINE event == Head(queue)
<1>1. /\ 1 \in DOMAIN queue /\ event = queue[1] /\ event \in Rec!Events /\ round' = round /\ round \in Nat
  <2>1. queue \in Seq(Rec!Events) /\ queue # <<>>
    BY DEF Rec!ObserveEvent, Rec!TypeOK
  <2> QED BY <2>1, HeadTailProperties DEF Rec!ObserveEvent, Rec!TypeOK
<1>2. event.by = "replay" /\ ~Rec!InReplayRange(event) => event.round < round \/ ~event.during
  <2>1. event.round <= round /\ (event.by = "replay" /\ event.round = round /\ event.during
                                    => Rec!InReplayRange(event))
    BY <1>1 DEF NumberedInv
  <2>2. event.round \in Nat
    BY <1>1 DEF Rec!Events
  <2> QED BY <1>1, <2>1, <2>2
<1>3. \/ activity' = activity /\ entry' = entry
      \/ /\ event.by = "replay" => event.round < round \/ ~event.during
         /\ activity' \subseteq activity \union {event}
         /\ entry' \in {entry, [by |-> event.by, round |-> event.round, during |-> event.during]}
  BY <1>2 DEF Rec!ObserveEvent
<1> HIDE DEF event
<1>4. ASSUME NEW e \in {a \in activity' : a.kind # "cell"} \union ({entry'} \ {None}), e.by = "replay"
      PROVE  e.round < round' \/ ~e.during
  <2>1. CASE e \in {a \in activity : a.kind # "cell"} \union ({entry} \ {None})
    BY <1>1, <1>4, <2>1 DEF Rec!TailSuppressed
  <2>2. CASE e \notin {a \in activity : a.kind # "cell"} \union ({entry} \ {None})
    <3>1. /\ event.by = "replay" => event.round < round \/ ~event.during
          /\ e = event \/ e = [by |-> event.by, round |-> event.round, during |-> event.during]
      BY <1>3, <1>4, <2>2
    <3>2. e.by = event.by /\ e.round = event.round /\ e.during = event.during
      BY <3>1
    <3> QED BY <1>1, <1>4, <3>1, <3>2
  <2> QED BY <2>1, <2>2
<1> QED BY <1>4 DEF Rec!TailSuppressed

\* And no other step records one.
LEMMA NextTail ==
  ASSUME Rec!RecorderAssumption, Rec!TypeOK, NumberedInv, Rec!TailSuppressed, [Rec!Next]_Rec!vars
  PROVE  Rec!TailSuppressed'
<1>1. ASSUME entry' = entry, round' \in {round, round + 1},
             {a \in activity' : a.kind # "cell"} \subseteq activity
      PROVE  Rec!TailSuppressed'
  <2>1. \A e \in {a \in activity' : a.kind # "cell"} \union ({entry'} \ {None}) :
          e.by = "replay" => (e.round < round \/ ~e.during) /\ e.round \in Nat
    <3>1. ASSUME NEW a \in activity', a.kind # "cell", a.by = "replay"
          PROVE  (a.round < round \/ ~a.during) /\ a.round \in Nat
      <4>1. a \in activity /\ a \in Rec!Events
        BY <1>1, <3>1 DEF Rec!TypeOK, Rec!Cells
      <4> QED BY <3>1, <4>1 DEF Rec!TailSuppressed, Rec!Events
    <3>2. ASSUME entry # None, entry.by = "replay"
          PROVE  (entry.round < round \/ ~entry.during) /\ entry.round \in Nat
      BY <3>2 DEF Rec!TailSuppressed, Rec!TypeOK
    <3> QED BY <1>1, <3>1, <3>2
  <2>2. round \in Nat
    BY DEF Rec!TypeOK
  <2> QED BY <1>1, <2>1, <2>2 DEF Rec!TailSuppressed
<1>2. ASSUME NEW c \in Clients,
             Rec!Admit(c) \/ Rec!StartBegins(c) \/ Rec!StartFails(c) \/ Rec!StopBegins(c)
             \/ Rec!StopJoins(c) \/ Rec!StopJoined(c)
                \/ Rec!StopWrites(c) \/ Rec!StartRecords(c) \/ Rec!Checkpoint(c)
                \/ Rec!ReplayBegins(c) \/ Rec!ReplayRefused(c) \/ Rec!ReplaySubmitted(c)
      PROVE  Rec!TailSuppressed'
  <2>1. entry' = entry /\ round' \in {round, round + 1} /\ activity' \in {activity, {}}
    BY <1>2 DEF Rec!Admit, Rec!StartBegins, Rec!StartFails, Rec!StopBegins, Rec!StopJoins,
        Rec!StopJoined,
       Rec!StopWrites, Rec!StartRecords,
       Rec!Checkpoint, Rec!ReplayBegins, Rec!ReplayRefused, Rec!ReplaySubmitted, Rec!recordingVars
  <2> QED BY <1>1, <2>1
<1>3. CASE Rec!SampleWaits \/ Rec!Snapshot \/ Rec!SnapshotFails \/ Rec!Shutdown \/ Rec!ShutdownJoins
           \/ Rec!ShutdownJoined
           \/ Rec!PlayerActs \/ Rec!ReplayActs \/ Rec!ReplayQueues \/ Rec!CommandRuns \/ Rec!Completed
           \/ UNCHANGED Rec!vars
  <2>1. entry' = entry /\ round' = round /\ activity' = activity
    BY <1>3 DEF Rec!SampleWaits, Rec!Snapshot, Rec!SnapshotFails, Rec!Shutdown, Rec!ShutdownJoins,
       Rec!ShutdownJoined, Rec!PlayerActs,
       Rec!ReplayActs, Rec!ReplayQueues, Rec!CommandRuns, Rec!Completed, Rec!recordingVars, Rec!vars
  <2> QED BY <1>1, <2>1
<1>4. CASE Rec!Sample
  <2>1. entry' = entry /\ round' = round
    BY <1>4 DEF Rec!Sample
  <2>2. activity' \subseteq activity \union {Rec!Cell(sampler.snapshot)}
    BY <1>4 DEF Rec!Sample, Rec!recordingVars
  <2>3. {a \in activity' : a.kind # "cell"} \subseteq activity
    BY <2>2 DEF Rec!Cell
  <2> QED BY <1>1, <2>1, <2>3
<1> QED BY <1>2, <1>3, <1>4, ObserveTail DEF Rec!Next

\* The initial state.
LEMMA RecorderInit ==
  ASSUME Rec!RecorderAssumption, Rec!Init
  PROVE  RecorderInv
<1>1. /\ phase = "idle" /\ stopping = FALSE /\ stopRequested = FALSE /\ generation = 0
      /\ replaying = FALSE /\ startCursor = None /\ suppressionEnd = None
      /\ samples = <<>> /\ activity = {} /\ checkpoints = 0 /\ entry = None
      /\ joinable = FALSE /\ joining = {} /\ shutter = "idle"
      /\ run = None /\ round = 0 /\ commands = <<>> /\ queue = <<>> /\ head = 0 /\ calls = 0
      /\ sampler = [pc |-> "none", generation |-> 0, snapshot |-> None]
      /\ at = [c \in Clients |-> "idle"]
  BY DEF Rec!Init
<1>2. {a \in activity : a.kind # "cell"} = {} /\ IsFiniteSet(activity) /\ DOMAIN queue = {}
  BY <1>1, FS_EmptySet
<1>3. Rec!Units(Len(samples), Cardinality({a \in activity : a.kind # "cell"}), checkpoints) <= Budget
      /\ Len(samples) <= MaxSamples /\ Cardinality(activity) <= MaxActivity
  BY <1>1, <1>2, FS_EmptySet DEF Rec!Units, Rec!RecorderAssumption
<1>4. samples \in Seq(Rec!By) /\ queue \in Seq(Rec!Events) /\ commands \in Seq(Nat) /\ at \in [Clients -> Rec!Calls]
  BY <1>1 DEF Rec!Calls
<1>5. Rec!TypeOK
  <2>1. /\ phase \in {"idle", "starting", "recording", "stopping"}
        /\ stopping \in BOOLEAN /\ stopRequested \in BOOLEAN /\ replaying \in BOOLEAN /\ joinable \in BOOLEAN
        /\ shutter \in {"idle", "flagged", "joining", "unsubscribed", "terminated"}
    BY <1>1
  <2>2. generation \in Nat /\ checkpoints \in Nat /\ round \in Nat /\ head \in Nat /\ calls \in Nat
    BY <1>1
  <2>3. /\ {startCursor, suppressionEnd} \subseteq Nat \union {None} /\ run \in Clients \union {None}
        /\ entry \in [by : Rec!By, round : Nat, during : BOOLEAN] \union {None} /\ joining \subseteq Clients \union {"shutdown"}
        /\ activity \subseteq Rec!Events \union Rec!Cells
    BY <1>1
  <2>4. /\ sampler \in [pc : {"none", "waiting", "snapping", "taken", "ended"}, generation : Nat,
                         snapshot : Rec!By \union {None}]
        /\ sampler.pc # "taken"
    BY <1>1
  <2>5. /\ {stopping, stopRequested, replaying, joinable} \subseteq BOOLEAN
        /\ {generation, checkpoints, round, head, calls} \subseteq Nat
    BY <2>1, <2>2
  <2>6. (replaying => startCursor \in 0..head /\ suppressionEnd = None) /\ (run # None => replaying)
    BY <1>1
  <2>7. /\ Rec!IsFiniteSet(activity) /\ Rec!Cardinality(activity) <= MaxActivity
        /\ Rec!Units(Len(samples), Rec!Cardinality({a \in activity : a.kind # "cell"}), checkpoints) <= Budget
    BY <1>2, <1>3, SameSizes
  <2> QED BY <1>3, <1>4, <2>1, <2>3, <2>4, <2>5, <2>6, <2>7 DEF Rec!TypeOK
<1>6. SubmitInv /\ CommandsInv /\ NumberedInv /\ Rec!TailSuppressed
  BY <1>1, <1>2 DEF SubmitInv, CommandsInv, NumberedInv, Rec!TailSuppressed
<1> QED BY <1>5, <1>6 DEF RecorderInv

\* The inductive invariant, for any callers and limits.
THEOREM RecorderInvariant ==
  ASSUME Rec!RecorderAssumption
  PROVE  Rec!Spec => []RecorderInv
<1>1. Rec!Init => RecorderInv
  BY RecorderInit
<1>2. RecorderInv /\ [Rec!Next]_Rec!vars => RecorderInv'
  BY NextTypes, NextSubmit, NextCommands, NextQueue, NextTail DEF RecorderInv
<1> QED BY <1>1, <1>2, PTL DEF Rec!Spec

\* Every reachable state of the recorder is well typed, and what it holds keeps the budget of
\* a replay (RecordingTool.cpp 422-427), whoever adds to it: the thread, a caller or the bus.
THEOREM RecordingTypeCorrect ==
  ASSUME Rec!RecorderAssumption
  PROVE  Rec!Spec => []Rec!TypeOK
<1>1. RecorderInv => Rec!TypeOK
  BY DEF RecorderInv
<1> QED BY <1>1, RecorderInvariant, PTL

\* RecordingTool.cpp 722-821: an event of the latest replay from before its end is neither
\* recorded as the player's nor taken for how the player came here, though the bus delivers it
\* when the replay is over and another recording has begun.  What a console command of the
\* replay publishes that runs after its end is not covered: it is recorded.
THEOREM TailsSuppressed ==
  ASSUME Rec!RecorderAssumption
  PROVE  Rec!Spec => []Rec!TailSuppressed
<1>1. RecorderInv => Rec!TailSuppressed
  BY DEF RecorderInv
<1> QED BY <1>1, RecorderInvariant, PTL

\* RecordingTool.cpp 729-733: the range covers no event of the player from outside a replay,
\* when it is delivered during the next one or after it: a recorder that records keeps it.
THEOREM PlayersKept ==
  ASSUME Rec!RecorderAssumption
  PROVE  Rec!Spec => Rec!PlayerKept
<1>1. RecorderInv /\ [Rec!Next]_Rec!vars => [Rec!KeepsPlayer]_Rec!vars
  <2> SUFFICES ASSUME RecorderInv, Rec!Next, queue # <<>>, queue' = Tail(queue), phase = "recording",
      ~replaying,
                      ~stopRequested', Head(queue).by = "player", Head(queue).kind # "other",
                      ~Head(queue).during
               PROVE  Head(queue) \in activity'
    BY DEF Rec!KeepsPlayer
  <2>1. Rec!TypeOK /\ SubmitInv /\ NumberedInv
    BY DEF RecorderInv
  <2>2. queue \in Seq(Rec!Events) /\ Len(queue) \in Nat \ {0} /\ Len(Tail(queue)) = Len(queue) - 1
        /\ Head(queue) = queue[1] /\ 1 \in DOMAIN queue
    BY <2>1, HeadTailProperties DEF Rec!TypeOK
  <2>3. queue' # queue /\ ~(\E x : queue' = Append(queue, x))
    <3>1. Len(queue') = Len(queue) - 1
      BY <2>2
    <3>2. \A x : Len(Append(queue, x)) = Len(queue) + 1
      BY <2>2
    <3>3. ASSUME queue' = queue PROVE FALSE
      <4>1. Len(queue') = Len(queue)
        BY <3>3
      <4>2. Len(queue) = Len(queue) - 1
        BY <3>1, <4>1
      <4>3. Len(queue) \in Int
        BY <2>2
      <4> QED BY ONLY <4>2, <4>3
    <3>4. ASSUME NEW x, queue' = Append(queue, x) PROVE FALSE
      <4>1. Len(queue') = Len(queue) + 1
        BY <3>2, <3>4
      <4> QED BY <2>2, <3>1, <4>1
    <3> QED BY <3>3, <3>4
  <2>4. Rec!ObserveEvent
    <3>1. \A c \in Clients : ~(Rec!Admit(c) \/ Rec!StartBegins(c) \/ Rec!StartFails(c)
          \/ Rec!StopBegins(c) \/ Rec!StopJoins(c)
             \/ Rec!StopJoined(c) \/ Rec!StopWrites(c) \/ Rec!StartRecords(c) \/ Rec!Checkpoint(c)
                \/ Rec!ReplayBegins(c)
             \/ Rec!ReplayRefused(c) \/ Rec!ReplaySubmitted(c))
      BY <2>3 DEF Rec!Admit, Rec!StartBegins, Rec!StartFails, Rec!StopBegins, Rec!StopJoins,
          Rec!StopJoined,
         Rec!StopWrites, Rec!StartRecords,
         Rec!Checkpoint, Rec!ReplayBegins, Rec!ReplayRefused, Rec!ReplaySubmitted, Rec!busVars
    <3>2. ~(Rec!SampleWaits \/ Rec!Snapshot \/ Rec!SnapshotFails \/ Rec!Sample \/ Rec!Shutdown
          \/ Rec!ShutdownJoins \/ Rec!ShutdownJoined
            \/ Rec!Completed)
      BY <2>3 DEF Rec!SampleWaits, Rec!Snapshot, Rec!SnapshotFails, Rec!Sample, Rec!Shutdown,
         Rec!ShutdownJoins, Rec!ShutdownJoined,
         Rec!Completed, Rec!busVars
    <3>3. ~(Rec!PlayerActs \/ Rec!ReplayActs \/ Rec!ReplayQueues \/ Rec!CommandRuns)
      BY <2>3 DEF Rec!PlayerActs, Rec!ReplayActs, Rec!ReplayQueues, Rec!CommandRuns, Rec!Publish
    <3> QED BY <3>1, <3>2, <3>3 DEF Rec!Next
  <2>5. ~Rec!InReplayRange(Head(queue))
    BY <2>1, <2>2 DEF NumberedInv
  <2> QED BY <2>4, <2>5 DEF Rec!ObserveEvent
<1> QED BY <1>1, RecorderInvariant, PTL DEF Rec!Spec, Rec!PlayerKept

-----------------------------------------------------------------------------
(***************************************************************************)
(* The Papyrus tool. A call is in one place at a time: a task that waits,  *)
(* with the machine, a result that waits, or over; and its record takes    *)
(* the first outcome only. What is validated, and against what, is read    *)
(* again by the task that acts on it.                                      *)
(***************************************************************************)
CONSTANTS Calls, GameForms, Signature, MaxSwitches, ArgumentErrors(_, _), Faults(_, _, _), ArgForms(_)

VARIABLES request, mode, frozen, selected, bound, switches, outcome, running, dispatched

Script == INSTANCE Papyrus

\* The call is a task on its way to the main thread, or its result is one.
Tasked(job, c) == <<job, c>> \in Range(tasks)

\* Outcomes of a call that the machine was given, and what is told of one that was
\* never queued.
Finals == {"ok", "unreadable", "canceled"}
Unqueued == {"noMetadata", "invalid", "notDispatched"}

\* A call that was not queued is nowhere, and was told at most why.
UnaskedInv(c) ==
    /\ at[c] = "idle" => ~Tasked("resolve", c)
    /\ at[c] \in {"idle", "resolving"} => asked[c] = None /\ told[c] = None
    /\ asked[c] = None =>
        /\ outcome[c] = None /\ dispatched[c] = 0 /\ touched[c] = None /\ c \notin running
        /\ ~Tasked("call", c) /\ ~Tasked("result", c)

\* A call is queued, with the machine, a result, or it has an outcome; one at a time.
PlaceInv(c) ==
    /\ Tasked("call", c) =>
        /\ asked[c] = "playing" /\ outcome[c] = None /\ dispatched[c] = 0
        /\ c \notin running /\ ~Tasked("result", c)
    /\ c \in running \/ Tasked("result", c) => outcome[c] = None /\ dispatched[c] = 1
    /\ c \in running => ~Tasked("result", c)
    /\ dispatched[c] = 1 => c \in running \/ Tasked("result", c) \/ outcome[c] \in Finals
    /\ outcome[c] \in Finals => dispatched[c] = 1
    /\ outcome[c] \in Finals \union {None, "notDispatched", "refused"}

\* What was told is why the call was not queued, that it is late, or its outcome.
ToldInv(c) ==
    /\ at[c] = "waiting" => told[c] = None /\ asked[c] # None
    /\ \/ told[c] = None
       \/ told[c] \in Unqueued /\ asked[c] = None
       \/ told[c] \in {"late", outcome[c]} /\ asked[c] # None

CallInv(c) == UnaskedInv(c) /\ PlaceInv(c) /\ ToldInv(c)

ScriptInv ==
    /\ Script!TypeOK /\ IsInjective(tasks)
    /\ \A c \in Calls : CallInv(c)
    /\ Script!TouchesValidated

\* A task that is added is the only one of its job for its call.
LEMMA TaskAdded ==
  ASSUME Script!TypeOK, IsInjective(tasks), NEW job \in {"resolve", "call", "result"}, NEW c \in Calls,
         Script!AddTask(job, c), ~Tasked(job, c)
  PROVE  /\ tasks' \in Seq({"resolve", "call", "result"} \X Calls) /\ IsInjective(tasks')
         /\ \A k, d : Tasked(k, d)' <=> Tasked(k, d) \/ (k = job /\ d = c)
<1> DEFINE S == {"resolve", "call", "result"} \X Calls
<1>1. tasks \in Seq(S) /\ <<job, c>> \in S /\ tasks' = Append(tasks, <<job, c>>)
  BY DEF Script!TypeOK, Script!AddTask
<1>2. Range(tasks') = Range(tasks) \union {<<job, c>>} /\ IsInjective(tasks')
  BY <1>1, AppendDistinct DEF Tasked
<1>3. tasks' \in Seq(S)
  BY <1>1
<1> QED BY <1>2, <1>3 DEF Tasked

\* What is taken is a task, and no copy of it is left.
LEMMA TaskTaken ==
  ASSUME Script!TypeOK, IsInjective(tasks), tasks # <<>>, tasks' = Tail(tasks)
  PROVE  /\ tasks' \in Seq({"resolve", "call", "result"} \X Calls) /\ IsInjective(tasks')
         /\ \E job \in {"resolve", "call", "result"}, c \in Calls :
              /\ Head(tasks)[1] = job /\ Head(tasks)[2] = c /\ Tasked(job, c)
              /\ \A k, d : Tasked(k, d)' <=> Tasked(k, d) /\ ~(k = job /\ d = c)
<1> DEFINE S == {"resolve", "call", "result"} \X Calls
<1>1. tasks \in Seq(S) /\ Head(tasks) \in S /\ Head(tasks) \in Range(tasks)
  BY DEF Script!TypeOK, Range
<1>2. tasks' \in Seq(S) /\ IsInjective(tasks') /\ Range(tasks') = Range(tasks) \ {Head(tasks)}
  BY <1>1, TailDistinct
<1>3. PICK job \in {"resolve", "call", "result"}, c \in Calls : Head(tasks) = <<job, c>>
  BY <1>1
<1>4. /\ Head(tasks)[1] = job /\ Head(tasks)[2] = c /\ Tasked(job, c)
      /\ \A k, d : Tasked(k, d)' <=> Tasked(k, d) /\ ~(k = job /\ d = c)
  <2>1. Head(tasks)[1] = job /\ Head(tasks)[2] = c
    BY <1>3
  <2>3. Tasked(job, c)
    BY <1>1, <1>3 DEF Tasked
  <2>2. \A k, d : Tasked(k, d)' <=> Tasked(k, d) /\ <<k, d>> # <<job, c>>
    BY <1>2, <1>3 DEF Tasked
  <2> QED BY <2>1, <2>2, <2>3
<1> QED BY <1>2, <1>4

\* What is not touched of a call keeps its part of the invariant.
LEMMA CallKept ==
  ASSUME NEW c \in Calls, CallInv(c), UNCHANGED <<at[c], told[c], asked[c], touched[c], outcome[c], dispatched[c]>>,
         c \in running' <=> c \in running, \A k : Tasked(k, c)' <=> Tasked(k, c)
  PROVE  CallInv(c)'
BY DEF CallInv, UnaskedInv, PlaceInv, ToldInv

\* What the variables are, as long as the game is the same.
LEMMA TypesKept ==
  ASSUME Script!TypeOK, UNCHANGED <<game, request>>,
         mode' \in Script!Modes, frozen' \in BOOLEAN, selected' \in GameForms \union {None},
         switches' \in 0..MaxSwitches, bound' \subseteq GameForms, running' \subseteq Calls,
         tasks' \in Seq({"resolve", "call", "result"} \X Calls),
         at' \in [Calls -> {"idle", "resolving", "waiting", "done"}],
         snapshot' \in [Calls -> [errors : SUBSET {404}, types : Script!Signatures(game) \union {<<>>}] \union {None}],
         outcome' \in [Calls -> Script!Answers \union {None}], told' \in [Calls -> Script!Answers \union {None}],
         asked' \in [Calls -> Script!Modes \union {None}], dispatched' \in [Calls -> 0..1],
         touched' \in [Calls -> [valid : BOOLEAN, ready : BOOLEAN] \union {None}]
  PROVE  Script!TypeOK'
<1>1. Script!Signatures(game)' = Script!Signatures(game) /\ request' \in [Calls -> Requests] /\ game' \in Script!Games
  BY DEF Script!TypeOK, Script!Signatures
<1> QED BY <1>1 DEF Script!TypeOK

\* A call that ended without the machine is nowhere any more.
LEMMA PlacedOver ==
  ASSUME NEW c \in Calls, ~Tasked("call", c)', ~Tasked("result", c)', c \notin running', dispatched'[c] # 1,
         outcome'[c] \in {"notDispatched", "refused"}
  PROVE  PlaceInv(c)'
<1>1. outcome'[c] \notin Finals /\ outcome'[c] \in Finals \union {None, "notDispatched", "refused"}
  BY DEF Finals
<1> QED BY <1>1 DEF PlaceInv

\* The request thread asks for the metadata.
LEMMA AskKeeps ==
  ASSUME Script!PapyrusAssumption, ScriptInv, NEW c \in Calls, Script!Ask(c)
  PROVE  ScriptInv'
<1>1. ~Tasked("resolve", c)
  BY DEF ScriptInv, CallInv, UnaskedInv, Script!Ask
<1>2. /\ tasks' \in Seq({"resolve", "call", "result"} \X Calls) /\ IsInjective(tasks')
      /\ \A k, d : Tasked(k, d)' <=> Tasked(k, d) \/ (k = "resolve" /\ d = c)
  BY <1>1, TaskAdded DEF ScriptInv, Script!Ask
<1>3. Script!TypeOK'
  BY <1>2, TypesKept DEF ScriptInv, Script!TypeOK, Script!Ask, Script!gameVars, Script!vmVars
<1>4. ASSUME NEW d \in Calls PROVE CallInv(d)'
  <2>1. /\ CallInv(d) /\ at' = [at EXCEPT ![c] = "resolving"] /\ at[c] = "idle"
        /\ at \in [Calls -> {"idle", "resolving", "waiting", "done"}]
        /\ UNCHANGED <<told, asked, touched, outcome, dispatched, running>>
    BY DEF ScriptInv, Script!TypeOK, Script!Ask, Script!vmVars
  <2>2. CASE d # c
    BY <1>2, <2>1, <2>2, CallKept
  <2>3. CASE d = c
    <3>1. at'[c] = "resolving" /\ (\A k \in {"call", "result"} : Tasked(k, c)' <=> Tasked(k, c))
      BY <1>2, <2>1
    <3>2. UnaskedInv(c)' /\ ToldInv(c)'
      BY <2>1, <2>3, <3>1 DEF CallInv, UnaskedInv, ToldInv
    <3>3. PlaceInv(c)'
      BY <2>1, <2>3, <3>1 DEF CallInv, PlaceInv
    <3> QED BY <2>3, <3>2, <3>3 DEF CallInv
  <2> QED BY <2>2, <2>3
<1>5. Script!TouchesValidated'
  BY DEF ScriptInv, Script!TouchesValidated, Script!Ask, Script!vmVars
<1> QED BY <1>2, <1>3, <1>4, <1>5 DEF ScriptInv

\* A call is answered with what its outcome is, that it is late, or that it was not queued.
LEMMA TellKeeps ==
  ASSUME Script!PapyrusAssumption, ScriptInv, NEW c \in Calls, NEW words \in Script!Answers, Script!Tell(c, words),
         \/ at[c] = "resolving" /\ words \in Unqueued
         \/ at[c] = "waiting" /\ words \in {"late", outcome[c]} /\ asked[c] # None,
         UNCHANGED <<game, request, Script!gameVars, Script!vmVars, snapshot, asked, tasks,
         outcome>>
  PROVE  ScriptInv'
<1>1. /\ told' = [told EXCEPT ![c] = words] /\ at' = [at EXCEPT ![c] = "done"]
      /\ UNCHANGED <<game, request, mode, frozen, selected, switches, bound, running, touched, dispatched,
                     snapshot, asked, tasks, outcome>>
  BY DEF Script!Tell, Script!gameVars, Script!vmVars
<1>2. Script!TypeOK'
  BY <1>1, TypesKept DEF ScriptInv, Script!TypeOK
<1>3. ASSUME NEW d \in Calls PROVE CallInv(d)'
  <2>1. /\ CallInv(d) /\ at \in [Calls -> {"idle", "resolving", "waiting", "done"}]
        /\ told \in [Calls -> Script!Answers \union {None}]
    BY DEF ScriptInv, Script!TypeOK
  <2>2. \A k : Tasked(k, d)' <=> Tasked(k, d)
    BY <1>1 DEF Tasked
  <2>3. CASE d # c
    BY <1>1, <2>1, <2>2, <2>3, CallKept
  <2>4. CASE d = c
    BY <1>1, <2>1, <2>2, <2>4 DEF CallInv, UnaskedInv, PlaceInv, ToldInv
  <2> QED BY <2>3, <2>4
<1>4. Script!TouchesValidated' /\ IsInjective(tasks)'
  BY <1>1 DEF ScriptInv, Script!TouchesValidated
<1> QED BY <1>2, <1>3, <1>4 DEF ScriptInv

\* The call is queued, or refused at once.
LEMMA QueueCallKeeps ==
  ASSUME Script!PapyrusAssumption, ScriptInv, NEW c \in Calls, Script!QueueCall(c)
  PROVE  ScriptInv'
<1>1. /\ at[c] = "resolving" /\ at' = [at EXCEPT ![c] = "waiting"] /\ asked' = [asked EXCEPT ![c] = mode]
      /\ UNCHANGED <<game, request, mode, frozen, selected, switches, bound, running, touched, dispatched,
                     snapshot, told>>
  BY DEF Script!QueueCall, Script!gameVars, Script!vmVars
<1>2. /\ CallInv(c) /\ asked[c] = None /\ told[c] = None /\ outcome[c] = None /\ dispatched[c] = 0
      /\ touched[c] = None /\ c \notin running /\ ~Tasked("call", c) /\ ~Tasked("result", c)
  BY <1>1 DEF ScriptInv, CallInv, UnaskedInv
<1>3. /\ at \in [Calls -> {"idle", "resolving", "waiting", "done"}] /\ asked \in [Calls -> Script!Modes \union {None}]
      /\ outcome \in [Calls -> Script!Answers \union {None}] /\ mode \in Script!Modes /\ mode # None
      /\ None # "notDispatched" /\ None \notin Finals
  BY DEF ScriptInv, Script!TypeOK, Script!PapyrusAssumption, Script!Answers, Finals
<1>4. Script!TouchesValidated'
  BY <1>1, <1>2, <1>3 DEF ScriptInv, Script!TouchesValidated
<1>5. CASE Script!NotReady # {}
  <2>1. outcome' = [outcome EXCEPT ![c] = "notDispatched"] /\ tasks' = tasks
    BY <1>2, <1>5 DEF Script!QueueCall, Script!Complete
  <2>2. Script!TypeOK'
    BY <1>1, <1>3, <2>1, TypesKept DEF ScriptInv, Script!TypeOK, Script!Answers
  <2>3. ASSUME NEW d \in Calls PROVE CallInv(d)'
    <3>1. \A k : Tasked(k, d)' <=> Tasked(k, d)
      BY <2>1 DEF Tasked
    <3>2. CASE d # c
      BY <1>1, <1>3, <2>1, <3>1, <3>2, CallKept DEF ScriptInv
    <3>3. CASE d = c
      <4>1. at'[c] = "waiting" /\ asked'[c] = mode /\ outcome'[c] = "notDispatched"
        BY <1>1, <1>2, <1>3, <2>1
      <4>2. UnaskedInv(c)' /\ ToldInv(c)'
        BY <1>1, <1>2, <1>3, <4>1 DEF UnaskedInv, ToldInv
      <4>3. PlaceInv(c)'
        <5>1. ~Tasked("call", c)' /\ ~Tasked("result", c)'
          BY <1>2, <3>1, <3>3
        <5>2. c \notin running' /\ dispatched'[c] = 0
          BY <1>1, <1>2
        <5>3. dispatched'[c] # 1
          BY <5>2
        <5> QED BY <4>1, <5>1, <5>2, <5>3, PlacedOver
      <4> QED BY <3>3, <4>2, <4>3 DEF CallInv
    <3> QED BY <3>2, <3>3
  <2> QED BY <1>4, <2>1, <2>2, <2>3 DEF ScriptInv
<1>6. CASE Script!NotReady = {}
  <2>1. outcome' = outcome /\ Script!AddTask("call", c) /\ mode = "playing"
    BY <1>6 DEF Script!QueueCall, Script!NotReady
  <2>2. /\ tasks' \in Seq({"resolve", "call", "result"} \X Calls) /\ IsInjective(tasks')
        /\ \A k, d : Tasked(k, d)' <=> Tasked(k, d) \/ (k = "call" /\ d = c)
    BY <1>2, <2>1, TaskAdded DEF ScriptInv
  <2>3. Script!TypeOK'
    BY <1>1, <1>3, <2>1, <2>2, TypesKept DEF ScriptInv, Script!TypeOK
  <2>4. ASSUME NEW d \in Calls PROVE CallInv(d)'
    <3>1. CASE d # c
      BY <1>1, <1>3, <2>1, <2>2, <3>1, CallKept DEF ScriptInv
    <3>2. CASE d = c
      <4>1. at'[c] = "waiting" /\ asked'[c] = mode /\ outcome'[c] = None
        BY <1>1, <1>2, <1>3, <2>1
      <4>2. UnaskedInv(c)' /\ ToldInv(c)'
        BY <1>1, <1>2, <1>3, <4>1 DEF UnaskedInv, ToldInv
      <4>3. PlaceInv(c)'
        <5>1. ~Tasked("result", c)' /\ mode = "playing"
          BY <1>2, <2>1, <2>2
        <5>2. c \notin running' /\ dispatched'[c] = 0
          BY <1>1, <1>2
        <5>3. outcome'[c] \notin Finals
          BY <1>3, <4>1
        <5> QED BY <4>1, <5>1, <5>2, <5>3 DEF PlaceInv
      <4> QED BY <3>2, <4>2, <4>3 DEF CallInv
    <3> QED BY <3>1, <3>2
  <2> QED BY <1>4, <2>2, <2>3, <2>4 DEF ScriptInv
<1> QED BY <1>5, <1>6

\* What a call resolves to has a signature of the game, if anything.
LEMMA ResolveType ==
  ASSUME Script!TypeOK, NEW c \in Calls, NEW forms \in SUBSET GameForms
  PROVE  /\ Script!Resolve(c, forms) \in [errors : SUBSET {404}, types : Script!Signatures(game) \union {<<>>}]
         /\ Script!Resolve(c, forms).errors = {} =>
              /\ Script!Resolve(c, forms).types \in Script!Signatures(game)
              /\ Script!SelfForms(c) \subseteq GameForms
<1> DEFINE target == Script!Target(c)
           types == Script!FunctionOf(target, forms)
<1>1. CASE request[c].self # None /\ target \notin GameForms
  BY <1>1 DEF Script!Resolve
<1>2. CASE ~(request[c].self # None /\ target \notin GameForms)
  <2>1. target \in GameForms \union {None} /\ (request[c].self # None => target \in GameForms)
    BY <1>2 DEF Script!Target, Script!TypeOK
  <2>2. types # None => types \in Script!Signatures(game)
    <3> DEFINE b == target \in forms
    <3>1. types = Signature[game][target][b] /\ b \in BOOLEAN
      BY DEF Script!FunctionOf
    <3> HIDE DEF b, types, target
    <3> QED BY <2>1, <3>1 DEF Script!Signatures
  <2>3. Script!Resolve(c, forms) = IF types = None THEN [errors |-> {404}, types |-> <<>>]
                                                   ELSE [errors |-> {}, types |-> types]
    BY <1>2 DEF Script!Resolve
  <2>4. Script!SelfForms(c) \subseteq GameForms
    BY <2>1 DEF Script!SelfForms
  <2> QED BY <2>2, <2>3, <2>4
<1> QED BY <1>1, <1>2

\* The main thread's three tasks; each is given the queue without the task.
LEMMA ResolveKeeps ==
  ASSUME Script!PapyrusAssumption, ScriptInv, NEW c \in Calls, Script!RunResolve(c),
         UNCHANGED <<game, request, Script!gameVars>>,
         tasks' \in Seq({"resolve", "call", "result"} \X Calls), IsInjective(tasks'),
         \A k, d : Tasked(k, d)' <=> Tasked(k, d) /\ ~(k = "resolve" /\ d = c)
  PROVE  ScriptInv'
<1>1. /\ snapshot' = [snapshot EXCEPT ![c] = Script!Resolve(c, bound)]
      /\ UNCHANGED <<game, request, mode, frozen, selected, switches, bound, running, touched, dispatched,
                     at, told, asked, outcome>>
  BY DEF Script!RunResolve, Script!gameVars, Script!vmVars
<1>2. Script!Resolve(c, bound) \in [errors : SUBSET {404}, types : Script!Signatures(game) \union {<<>>}]
  BY ResolveType DEF ScriptInv, Script!TypeOK
<1>3. Script!TypeOK'
  BY <1>1, <1>2, TypesKept DEF ScriptInv, Script!TypeOK
<1>4. ASSUME NEW d \in Calls PROVE CallInv(d)'
  BY <1>1 DEF ScriptInv, CallInv, UnaskedInv, PlaceInv, ToldInv
<1>5. Script!TouchesValidated'
  BY <1>1 DEF ScriptInv, Script!TouchesValidated
<1> QED BY <1>3, <1>4, <1>5 DEF ScriptInv

\* Complete, on a call that has no outcome.
LEMMA Completes ==
  ASSUME ScriptInv, NEW c \in Calls, NEW result \in Script!Answers, outcome[c] = None, Script!Complete(c, result)
  PROVE  outcome' = [outcome EXCEPT ![c] = result] /\ outcome' \in [Calls -> Script!Answers \union {None}]
BY DEF ScriptInv, Script!TypeOK, Script!Complete

\* The result of a call becomes its outcome.
LEMMA ResultKeeps ==
  ASSUME Script!PapyrusAssumption, ScriptInv, NEW c \in Calls, Script!RunResult(c), Tasked("result", c),
         UNCHANGED <<game, request, Script!gameVars>>,
         tasks' \in Seq({"resolve", "call", "result"} \X Calls), IsInjective(tasks'),
         \A k, d : Tasked(k, d)' <=> Tasked(k, d) /\ ~(k = "result" /\ d = c)
  PROVE  ScriptInv'
<1>1. PICK result \in {"ok", "unreadable"} : Script!Complete(c, result)
  BY DEF Script!RunResult, Script!Results
<1>2. UNCHANGED <<game, request, mode, frozen, selected, switches, bound, running, touched, dispatched,
                  at, told, asked, snapshot>>
  BY DEF Script!RunResult, Script!gameVars, Script!vmVars, Script!callVars
<1>3. CallInv(c) /\ outcome[c] = None /\ dispatched[c] = 1 /\ c \notin running /\ ~Tasked("call", c)
  BY DEF ScriptInv, CallInv, PlaceInv
<1>4. outcome' = [outcome EXCEPT ![c] = result] /\ outcome' \in [Calls -> Script!Answers \union {None}]
  BY <1>1, <1>3, Completes DEF Script!Answers
<1>5. Script!TypeOK'
  BY <1>2, <1>4, TypesKept DEF ScriptInv, Script!TypeOK
<1>6. ASSUME NEW d \in Calls PROVE CallInv(d)'
  <2>1. CASE d # c
    <3>1. outcome'[d] = outcome[d]
      BY <1>4, <2>1 DEF ScriptInv, Script!TypeOK
    <3> QED BY <1>2, <2>1, <3>1, CallKept DEF ScriptInv
  <2>2. CASE d = c
    <3>1. outcome'[c] = result /\ asked[c] # None
      BY <1>3, <1>4 DEF ScriptInv, Script!TypeOK, CallInv, UnaskedInv
    <3>2. UnaskedInv(c)'
      BY <1>2, <1>3, <3>1 DEF CallInv, UnaskedInv
    <3>3. PlaceInv(c)'
      BY <1>1, <1>2, <1>3, <3>1 DEF CallInv, PlaceInv, Finals
    <3>4. ToldInv(c)'
      BY <1>2, <1>3, <3>1 DEF CallInv, ToldInv
    <3> QED BY <2>2, <3>2, <3>3, <3>4 DEF CallInv
  <2> QED BY <2>1, <2>2
<1>7. Script!TouchesValidated'
  BY <1>2 DEF ScriptInv, Script!TouchesValidated
<1> QED BY <1>5, <1>6, <1>7 DEF ScriptInv

\* The call runs: it is refused, ends at once, or the machine is given it.
LEMMA CallKeeps ==
  ASSUME Script!PapyrusAssumption, ScriptInv, NEW c \in Calls, Script!RunCall(c), Tasked("call", c),
         UNCHANGED <<game, request, Script!gameVars>>,
         tasks' \in Seq({"resolve", "call", "result"} \X Calls), IsInjective(tasks'),
         \A k, d : Tasked(k, d)' <=> Tasked(k, d) /\ ~(k = "call" /\ d = c)
  PROVE  ScriptInv'
<1> DEFINE earlier == Script!Recheck(c, Script!Resolve(c, bound))
           withSelf == bound \union Script!SelfForms(c)
           resolved == Script!Resolve(c, withSelf)
           later == Script!Recheck(c, resolved)
           faults == Faults(game, request[c].args, resolved.types)
           Given == /\ dispatched' = [dispatched EXCEPT ![c] = 1] /\ running' = running \union {c}
                    /\ outcome' = outcome
           Over == /\ outcome' = [outcome EXCEPT ![c] = "notDispatched"] \/ outcome' = [outcome EXCEPT ![c] = "refused"]
                   /\ UNCHANGED <<running, dispatched>>
<1>1. /\ UNCHANGED <<game, request, mode, frozen, selected, switches, at, told, asked, snapshot>>
  BY DEF Script!RunCall, Script!gameVars, Script!callVars
<1>2. /\ CallInv(c) /\ outcome[c] = None /\ dispatched[c] = 0 /\ asked[c] = "playing" /\ c \notin running
      /\ ~Tasked("result", c)
  BY DEF ScriptInv, CallInv, PlaceInv
<1>3. /\ outcome \in [Calls -> Script!Answers \union {None}] /\ dispatched \in [Calls -> 0..1]
      /\ touched \in [Calls -> [valid : BOOLEAN, ready : BOOLEAN] \union {None}]
      /\ bound \subseteq GameForms /\ running \subseteq Calls
      /\ None # "playing" /\ None # "notDispatched" /\ None # "refused" /\ Script!TypeOK
      /\ request \in [Calls -> Requests] /\ game \in Script!Games /\ None \notin Finals
  BY DEF ScriptInv, Script!TypeOK, Script!PapyrusAssumption, Script!Answers, Script!Modes, Finals
<1>4. \A result \in Script!Answers : Script!Complete(c, result) => outcome' = [outcome EXCEPT ![c] = result]
  BY <1>2, Completes
<1>5. ASSUME Script!Complete(c, "notDispatched") \/ Script!Complete(c, "refused"), UNCHANGED <<running, dispatched>>
      PROVE  Over
  BY <1>4, <1>5 DEF Script!Answers
<1>6. ASSUME earlier = {}
      PROVE  /\ Script!ErrorsAgainst(c, Script!Resolve(c, bound)) = {} /\ Script!SelfForms(c) \subseteq GameForms
             /\ withSelf \in SUBSET GameForms
  <2>1. Script!ErrorsAgainst(c, Script!Resolve(c, bound)) = {}
    BY <1>6 DEF Script!Recheck
  <2>2. Script!Resolve(c, bound).errors = {}
    BY <2>1 DEF Script!ErrorsAgainst
  <2>3. Script!SelfForms(c) \subseteq GameForms
    BY ZenonT(40), <1>3, <2>2, ResolveType
  <2> QED BY <1>3, <2>1, <2>3
<1>7. ASSUME earlier = {}, later = {}
      PROVE  500 \notin faults
  <2>1. Script!ErrorsAgainst(c, resolved) = {}
    BY <1>7 DEF Script!Recheck
  <2>2. resolved.errors = {} /\ ArgumentErrors(request[c].args, resolved.types) = {}
    BY <2>1 DEF Script!ErrorsAgainst
  <2>3. resolved.types \in Script!Signatures(game)
    <3>1. \A forms \in SUBSET GameForms :
            Script!Resolve(c, forms).errors = {} => Script!Resolve(c, forms).types \in Script!Signatures(game)
      <4> TAKE forms \in SUBSET GameForms
      <4>1. Script!TypeOK
        BY <1>3
      <4> QED BY <4>1, ResolveType
    <3> QED BY <1>6, <1>7, <2>2, <3>1
  <2> HIDE DEF resolved
  <2>4. request[c] \in Requests
    BY <1>3
  <2> QED BY ZenonT(40), <1>3, <2>2, <2>3, <2>4 DEF Script!PapyrusAssumption
<1>8. \/ Over /\ UNCHANGED <<bound, touched>>
      \/ /\ touched' = [touched EXCEPT ![c] = [valid |-> TRUE, ready |-> TRUE]]
         /\ bound' \subseteq GameForms
         /\ Over \/ Given
  <2>1. CASE Script!NotReady # {} \/ frozen \/ earlier # {}
    BY <1>5, <2>1 DEF Script!RunCall, Script!vmVars
  <2>2. CASE ~(Script!NotReady # {} \/ frozen \/ earlier # {})
    <3>1. mode = "playing" /\ ~frozen /\ earlier = {}
      BY <2>2 DEF Script!NotReady
    <3>2. touched' = [touched EXCEPT ![c] = [valid |-> TRUE, ready |-> TRUE]]
      <4>1. Script!Touch(c, Script!ErrorsAgainst(c, Script!Resolve(c, bound)) = {})
        BY <2>2 DEF Script!RunCall
      <4>2. touched' = [touched EXCEPT ![c] =
                          [valid |-> Script!ErrorsAgainst(c, Script!Resolve(c, bound)) = {},
                           ready |-> mode = "playing" /\ ~frozen]]
        BY <4>1 DEF Script!Touch
      <4>3. (Script!ErrorsAgainst(c, Script!Resolve(c, bound)) = {}) = TRUE /\ (mode = "playing" /\ ~frozen) = TRUE
        BY <1>6, <3>1
      <4> QED BY <4>2, <4>3
    <3>3. \/ later # {} /\ Script!Complete(c, "notDispatched") /\ bound' = withSelf /\ UNCHANGED <<running, dispatched>>
          \/ /\ later = {} /\ Script!Complete(c, IF 500 \in faults THEN "internalError" ELSE "notDispatched")
             /\ bound' = withSelf /\ UNCHANGED <<running, dispatched>>
          \/ /\ later = {} /\ bound' = withSelf \union ArgForms(request[c].args) /\ Script!Dispatch(c)
      BY <2>2 DEF Script!RunCall
    <3>4. withSelf \subseteq GameForms /\ ArgForms(request[c].args) \subseteq GameForms
      BY <1>3, <1>6, <3>1 DEF Script!PapyrusAssumption
    <3>5. CASE /\ later # {} /\ Script!Complete(c, "notDispatched") /\ bound' = withSelf
               /\ UNCHANGED <<running, dispatched>>
      BY <1>5, <3>2, <3>4, <3>5
    <3>6. CASE /\ later = {} /\ Script!Complete(c, IF 500 \in faults THEN "internalError" ELSE "notDispatched")
               /\ bound' = withSelf /\ UNCHANGED <<running, dispatched>>
      <4>1. Script!Complete(c, "notDispatched")
        BY <1>7, <3>1, <3>6
      <4> QED BY <1>5, <3>2, <3>4, <3>6, <4>1
    <3>7. CASE later = {} /\ bound' = withSelf \union ArgForms(request[c].args) /\ Script!Dispatch(c)
      <4>1. \/ dispatched' = [dispatched EXCEPT ![c] = @ + 1] /\ running' = running \union {c} /\ outcome' = outcome
            \/ Script!Complete(c, "refused") /\ UNCHANGED <<running, dispatched>>
        BY <3>7 DEF Script!Dispatch
      <4>2. Given \/ Over
        <5>1. dispatched[c] + 1 = 1
          BY <1>2
        <5> QED BY <1>5, <4>1, <5>1
      <4> QED BY <3>2, <3>4, <3>7, <4>2
    <3> QED BY <3>3, <3>5, <3>6, <3>7
  <2> QED BY <2>1, <2>2
<1> HIDE DEF earlier, withSelf, resolved, later, faults
<1>9. /\ outcome' \in [Calls -> Script!Answers \union {None}] /\ dispatched' \in [Calls -> 0..1]
      /\ touched' \in [Calls -> [valid : BOOLEAN, ready : BOOLEAN] \union {None}]
      /\ bound' \subseteq GameForms /\ running' \subseteq Calls
  <2>1. touched' \in [Calls -> [valid : BOOLEAN, ready : BOOLEAN] \union {None}] /\ bound' \subseteq GameForms
    <3>1. [valid |-> TRUE, ready |-> TRUE] \in [valid : BOOLEAN, ready : BOOLEAN]
      OBVIOUS
    <3>2. \/ touched' = touched /\ bound' = bound
          \/ touched' = [touched EXCEPT ![c] = [valid |-> TRUE, ready |-> TRUE]] /\ bound' \subseteq GameForms
      BY <1>8
    <3> HIDE DEF Over, Given
    <3> QED BY <1>3, <3>1, <3>2
  <2>2. {"notDispatched", "refused"} \subseteq Script!Answers
    BY DEF Script!Answers
  <2>3. Over \/ Given
    BY <1>8
  <2>4. outcome' \in [Calls -> Script!Answers \union {None}]
    <3>1. \/ outcome' = outcome \/ outcome' = [outcome EXCEPT ![c] = "notDispatched"]
          \/ outcome' = [outcome EXCEPT ![c] = "refused"]
      BY <2>3
    <3> QED BY <1>3, <2>2, <3>1
  <2>5. dispatched' \in [Calls -> 0..1] /\ running' \subseteq Calls
    <3>1. \/ dispatched' = dispatched /\ running' = running
          \/ dispatched' = [dispatched EXCEPT ![c] = 1] /\ running' = running \union {c}
      BY <2>3
    <3>2. 1 \in 0..1
      OBVIOUS
    <3>3. running' \subseteq Calls
      BY <1>3, <3>1
    <3>4. dispatched' \in [Calls -> 0..1]
      BY <1>3, <3>1, <3>2
    <3> QED BY <3>3, <3>4
  <2> QED BY <2>1, <2>4, <2>5
<1>10. Script!TypeOK'
  BY <1>1, <1>9, TypesKept DEF ScriptInv, Script!TypeOK
<1>11. ASSUME NEW d \in Calls PROVE CallInv(d)'
  <2>1. CASE d # c
    <3>1. UNCHANGED <<touched[d], outcome[d], dispatched[d]>> /\ (d \in running' <=> d \in running)
      BY <1>3, <1>8, <2>1
    <3>2. \A k : Tasked(k, d)' <=> Tasked(k, d)
      BY <2>1
    <3> QED BY <1>1, <3>1, <3>2, CallKept DEF ScriptInv
  <2>2. CASE d = c
    <3>1. UnaskedInv(c)'
      BY <1>1, <1>2, <1>3 DEF CallInv, UnaskedInv
    <3>2. \/ c \notin running' /\ dispatched'[c] # 1 /\ outcome'[c] \in {"notDispatched", "refused"}
          \/ c \in running' /\ dispatched'[c] = 1 /\ outcome'[c] = None
      BY <1>2, <1>3, <1>8
    <3>3. PlaceInv(c)'
      <4>1. ~Tasked("call", c)' /\ ~Tasked("result", c)'
        BY <1>2
      <4>2. CASE c \notin running' /\ dispatched'[c] # 1 /\ outcome'[c] \in {"notDispatched", "refused"}
        BY <4>1, <4>2, PlacedOver
      <4>3. CASE c \in running' /\ dispatched'[c] = 1 /\ outcome'[c] = None
        <5>1. outcome'[c] \notin Finals
          BY <1>3, <4>3
        <5> QED BY <4>1, <4>3, <5>1 DEF PlaceInv
      <4> QED BY <3>2, <4>2, <4>3
    <3>4. ToldInv(c)'
      BY <1>1, <1>2, <1>3 DEF CallInv, ToldInv
    <3> QED BY <2>2, <3>1, <3>3, <3>4 DEF CallInv
  <2> QED BY <2>1, <2>2
<1>12. Script!TouchesValidated'
  <2> SUFFICES ASSUME NEW d \in Calls, touched'[d] # None
               PROVE  touched'[d].valid /\ touched'[d].ready /\ asked'[d] = "playing"
    BY DEF Script!TouchesValidated
  <2>1. CASE touched'[d] = touched[d]
    BY <1>1, <2>1 DEF ScriptInv, Script!TouchesValidated
  <2>2. CASE d = c /\ touched'[d] = [valid |-> TRUE, ready |-> TRUE]
    BY <1>1, <1>2, <2>2
  <2> QED BY <1>3, <1>8, <2>1, <2>2
<1> QED BY <1>10, <1>11, <1>12 DEF ScriptInv

\* The machine returns.
LEMMA ReturnsKeeps ==
  ASSUME Script!PapyrusAssumption, ScriptInv, NEW c \in Calls, Script!Returns(c)
  PROVE  ScriptInv'
<1>1. /\ c \in running /\ running' = running \ {c} /\ Script!AddTask("result", c)
      /\ UNCHANGED <<game, request, mode, frozen, selected, switches, bound, touched, dispatched,
                     at, told, asked, snapshot, outcome>>
  BY DEF Script!Returns, Script!gameVars, Script!callVars
<1>2. CallInv(c) /\ ~Tasked("result", c) /\ ~Tasked("call", c) /\ outcome[c] = None /\ dispatched[c] = 1
  BY <1>1 DEF ScriptInv, CallInv, PlaceInv
<1>3. /\ tasks' \in Seq({"resolve", "call", "result"} \X Calls) /\ IsInjective(tasks')
      /\ \A k, d : Tasked(k, d)' <=> Tasked(k, d) \/ (k = "result" /\ d = c)
  BY <1>1, <1>2, TaskAdded DEF ScriptInv
<1>4. Script!TypeOK'
  BY <1>1, <1>3, TypesKept DEF ScriptInv, Script!TypeOK
<1>5. ASSUME NEW d \in Calls PROVE CallInv(d)'
  <2>1. CASE d # c
    <3>1. (d \in running' <=> d \in running) /\ \A k : Tasked(k, d)' <=> Tasked(k, d)
      BY <1>1, <1>3, <2>1
    <3> QED BY <1>1, <3>1, CallKept DEF ScriptInv
  <2>2. CASE d = c
    <3>1. UnaskedInv(c)'
      BY <1>1, <1>2, <1>3 DEF CallInv, UnaskedInv
    <3>2. c \notin running' /\ ~Tasked("call", c)'
      BY <1>1, <1>2, <1>3
    <3>3. PlaceInv(c)'
      BY <1>1, <1>2, <1>3, <3>2 DEF CallInv, PlaceInv
    <3>4. ToldInv(c)'
      BY <1>1, <1>2 DEF CallInv, ToldInv
    <3> QED BY <2>2, <3>1, <3>3, <3>4 DEF CallInv
  <2> QED BY <2>1, <2>2
<1>6. Script!TouchesValidated'
  BY <1>1 DEF ScriptInv, Script!TouchesValidated
<1> QED BY <1>3, <1>4, <1>5, <1>6 DEF ScriptInv

\* A load cancels it.
LEMMA CanceledKeeps ==
  ASSUME Script!PapyrusAssumption, ScriptInv, NEW c \in Calls, Script!CallCanceled(c)
  PROVE  ScriptInv'
<1>1. /\ c \in running /\ running' = running \ {c} /\ Script!Complete(c, "canceled")
      /\ UNCHANGED <<game, request, mode, frozen, selected, switches, bound, touched, dispatched,
                     at, told, asked, snapshot, tasks>>
  BY DEF Script!CallCanceled, Script!gameVars, Script!callVars
<1>2. CallInv(c) /\ ~Tasked("result", c) /\ ~Tasked("call", c) /\ outcome[c] = None /\ dispatched[c] = 1
  BY <1>1 DEF ScriptInv, CallInv, PlaceInv
<1>3. outcome' = [outcome EXCEPT ![c] = "canceled"] /\ outcome' \in [Calls -> Script!Answers \union {None}]
  BY <1>1, <1>2, Completes DEF Script!Answers
<1>4. \A k, d : Tasked(k, d)' <=> Tasked(k, d)
  BY <1>1 DEF Tasked
<1>5. Script!TypeOK' /\ IsInjective(tasks')
  BY <1>1, <1>3, TypesKept DEF ScriptInv, Script!TypeOK
<1>6. ASSUME NEW d \in Calls PROVE CallInv(d)'
  <2>1. CASE d # c
    <3>1. (d \in running' <=> d \in running) /\ outcome'[d] = outcome[d]
      BY <1>1, <1>3, <2>1 DEF ScriptInv, Script!TypeOK
    <3> QED BY <1>1, <1>4, <3>1, CallKept DEF ScriptInv
  <2>2. CASE d = c
    <3>1. c \notin running' /\ outcome'[c] = "canceled" /\ asked[c] # None
      BY <1>1, <1>2, <1>3 DEF ScriptInv, Script!TypeOK, CallInv, UnaskedInv
    <3>2. UnaskedInv(c)'
      BY <1>1, <1>2, <3>1 DEF CallInv, UnaskedInv
    <3>3. PlaceInv(c)'
      BY <1>1, <1>2, <1>4, <3>1 DEF PlaceInv, Finals
    <3>4. ToldInv(c)'
      BY <1>1, <1>2, <3>1 DEF CallInv, ToldInv
    <3> QED BY <2>2, <3>2, <3>3, <3>4 DEF CallInv
  <2> QED BY <2>1, <2>2
<1>7. Script!TouchesValidated'
  BY <1>1 DEF ScriptInv, Script!TouchesValidated
<1> QED BY <1>5, <1>6, <1>7 DEF ScriptInv

\* The player changes what a call is checked against, and no call.
LEMMA SwitchesKeeps ==
  ASSUME Script!PapyrusAssumption, ScriptInv, Script!Switches
  PROVE  ScriptInv'
<1>1. UNCHANGED <<game, request, bound, running, touched, dispatched, at, told, asked, snapshot, tasks, outcome>>
  BY DEF Script!Switches, Script!vmVars, Script!callVars
<1>2. /\ mode' \in Script!Modes /\ frozen' \in BOOLEAN /\ selected' \in GameForms \union {None}
      /\ switches' \in 0..MaxSwitches
  <2>1. /\ switches \in 0..MaxSwitches /\ mode \in Script!Modes /\ frozen \in BOOLEAN
        /\ selected \in GameForms \union {None}
    BY DEF ScriptInv, Script!TypeOK
  <2>2. /\ switches < MaxSwitches /\ switches' = switches + 1 /\ MaxSwitches \in Nat
        /\ \/ mode' \in {"playing", "menu", "loading"} /\ UNCHANGED <<frozen, selected>>
           \/ selected' \in GameForms /\ UNCHANGED <<mode, frozen>>
           \/ frozen' \in BOOLEAN /\ UNCHANGED <<mode, selected>>
    BY <2>1 DEF Script!Switches, Script!PapyrusAssumption
  <2>3. switches' \in 0..MaxSwitches
    BY <2>1, <2>2
  <2> QED BY <2>1, <2>2, <2>3 DEF Script!Modes
<1>3. Script!TypeOK' /\ IsInjective(tasks')
  BY <1>1, <1>2, TypesKept DEF ScriptInv, Script!TypeOK
<1>4. ASSUME NEW d \in Calls PROVE CallInv(d)'
  <2>1. \A k : Tasked(k, d)' <=> Tasked(k, d)
    BY <1>1 DEF Tasked
  <2> QED BY <1>1, <2>1, CallKept DEF ScriptInv
<1>5. Script!TouchesValidated'
  BY <1>1 DEF ScriptInv, Script!TouchesValidated
<1> QED BY <1>3, <1>4, <1>5 DEF ScriptInv

-----------------------------------------------------------------------------
\* Nothing is asked at first.
LEMMA ScriptInit ==
  ASSUME Script!PapyrusAssumption, Script!Init
  PROVE  ScriptInv
<1>1. Range(tasks) = {} /\ IsInjective(tasks)
  BY DEF Script!Init, Range, IsInjective
<1>2. Script!TypeOK
  <2>1. /\ game \in Script!Games /\ request \in [Calls -> Requests] /\ mode \in Script!Modes /\ frozen \in BOOLEAN
        /\ selected \in GameForms \union {None} /\ switches \in 0..MaxSwitches
        /\ bound \subseteq GameForms /\ running \subseteq Calls
    <3>1. 0 \in 0..MaxSwitches
      BY DEF Script!PapyrusAssumption
    <3> QED BY <3>1 DEF Script!Init, Script!Modes, Script!Games
  <2>2. /\ at \in [Calls -> {"idle", "resolving", "waiting", "done"}]
        /\ tasks \in Seq({"resolve", "call", "result"} \X Calls) /\ dispatched \in [Calls -> 0..1]
    BY DEF Script!Init
  <2>3. \A S : [c \in Calls |-> None] \in [Calls -> S \union {None}]
    OBVIOUS
  <2>4. /\ snapshot = [c \in Calls |-> None] /\ outcome = [c \in Calls |-> None] /\ told = [c \in Calls |-> None]
        /\ asked = [c \in Calls |-> None] /\ touched = [c \in Calls |-> None]
    BY DEF Script!Init
  <2> QED BY <2>1, <2>2, <2>3, <2>4 DEF Script!TypeOK
<1>3. ASSUME NEW c \in Calls PROVE CallInv(c)
  <2>1. at[c] = "idle" /\ asked[c] = None /\ told[c] = None /\ outcome[c] = None /\ dispatched[c] = 0
        /\ touched[c] = None /\ running = {}
    BY DEF Script!Init
  <2>2. None \notin Finals
    BY DEF Script!PapyrusAssumption, Script!Answers, Finals
  <2> QED BY <1>1, <2>1, <2>2 DEF CallInv, UnaskedInv, PlaceInv, ToldInv, Tasked
<1>4. Script!TouchesValidated
  BY DEF Script!Init, Script!TouchesValidated
<1> QED BY <1>1, <1>2, <1>3, <1>4 DEF ScriptInv

\* The main thread takes the first task.
LEMMA TaskKeeps ==
  ASSUME Script!PapyrusAssumption, ScriptInv, Script!RunTask
  PROVE  ScriptInv'
<1>1. tasks # <<>> /\ tasks' = Tail(tasks) /\ UNCHANGED <<game, request, Script!gameVars>>
  BY DEF Script!RunTask
<1>2. tasks' \in Seq({"resolve", "call", "result"} \X Calls) /\ IsInjective(tasks')
  BY <1>1, TaskTaken DEF ScriptInv
<1>3. PICK job \in {"resolve", "call", "result"}, c \in Calls :
        /\ Head(tasks)[1] = job /\ Head(tasks)[2] = c /\ Tasked(job, c)
        /\ \A k, d : Tasked(k, d)' <=> Tasked(k, d) /\ ~(k = job /\ d = c)
  BY <1>1, TaskTaken DEF ScriptInv
<1>4. \/ job = "resolve" /\ Script!RunResolve(c)
      \/ job = "call" /\ Script!RunCall(c)
      \/ job = "result" /\ Script!RunResult(c)
  BY <1>3 DEF Script!RunTask
<1>5. CASE job = "resolve" /\ Script!RunResolve(c)
  BY <1>1, <1>2, <1>3, <1>5, ResolveKeeps
<1>6. CASE job = "call" /\ Script!RunCall(c)
  BY <1>1, <1>2, <1>3, <1>6, CallKeeps
<1>7. CASE job = "result" /\ Script!RunResult(c)
  BY <1>1, <1>2, <1>3, <1>7, ResultKeeps
<1> QED BY <1>4, <1>5, <1>6, <1>7

\* Every step.
LEMMA ScriptStep ==
  ASSUME Script!PapyrusAssumption, ScriptInv, [Script!Next]_Script!vars
  PROVE  ScriptInv'
<1>1. ASSUME NEW c \in Calls,
             \/ Script!MetadataTimeout(c) \/ Script!Refuse(c) \/ Script!NotQueued(c) \/ Script!WaitFor(c)
             \/ Script!WaitTimeout(c)
      PROVE  ScriptInv'
  <2>1. CASE Script!MetadataTimeout(c)
    BY <2>1, TellKeeps DEF Script!MetadataTimeout, Script!Answers, Unqueued
  <2>2. CASE Script!Refuse(c)
    BY <2>2, TellKeeps DEF Script!Refuse, Script!Answers, Unqueued
  <2>3. CASE Script!NotQueued(c)
    BY <2>3, TellKeeps DEF Script!NotQueued, Script!Answers, Unqueued
  <2>4. CASE Script!WaitFor(c)
    <3>1. outcome[c] \in Script!Answers /\ asked[c] # None
      BY <2>4 DEF Script!WaitFor, ScriptInv, Script!TypeOK, CallInv, UnaskedInv
    <3> QED BY <2>4, <3>1, TellKeeps DEF Script!WaitFor
  <2>5. CASE Script!WaitTimeout(c)
    <3>1. asked[c] # None
      BY <2>5 DEF Script!WaitTimeout, ScriptInv, CallInv, ToldInv
    <3> QED BY <2>5, <3>1, TellKeeps DEF Script!WaitTimeout, Script!Answers
  <2> QED BY <1>1, <2>1, <2>2, <2>3, <2>4, <2>5
<1>2. CASE UNCHANGED Script!vars
  <2>1. UNCHANGED <<game, request, mode, frozen, selected, switches, bound, running, touched, dispatched,
                    at, told, asked, snapshot, tasks, outcome>>
    BY <1>2 DEF Script!vars, Script!gameVars, Script!vmVars, Script!callVars
  <2>2. Script!TypeOK' /\ IsInjective(tasks')
    BY <2>1, TypesKept DEF ScriptInv, Script!TypeOK
  <2>3. ASSUME NEW d \in Calls PROVE CallInv(d)'
    <3>1. \A k : Tasked(k, d)' <=> Tasked(k, d)
      BY <2>1 DEF Tasked
    <3> QED BY <2>1, <3>1, CallKept DEF ScriptInv
  <2>4. Script!TouchesValidated'
    BY <2>1 DEF ScriptInv, Script!TouchesValidated
  <2> QED BY <2>2, <2>3, <2>4 DEF ScriptInv
<1> QED
  BY <1>1, <1>2, AskKeeps, QueueCallKeeps, ReturnsKeeps, CanceledKeeps, TaskKeeps,
      SwitchesKeeps DEF Script!Next

\* The inductive invariant, for any calls, signatures and ways to validate.
THEOREM PapyrusInvariant ==
  ASSUME Script!PapyrusAssumption
  PROVE  Script!Spec => []ScriptInv
<1>1. Script!Init => ScriptInv
  BY ScriptInit
<1>2. ScriptInv /\ [Script!Next]_Script!vars => ScriptInv'
  BY ScriptStep
<1> QED BY <1>1, <1>2, PTL DEF Script!Spec

\* Every reachable state of the calls, the main thread's tasks and the machine is well typed,
\* and a call is given to the machine once at most (PapyrusBackend.cpp 986-1025).
THEOREM PapyrusTypeCorrect ==
  ASSUME Script!PapyrusAssumption
  PROVE  Script!Spec => []Script!TypeOK
<1>1. ScriptInv => Script!TypeOK
  BY DEF ScriptInv
<1> QED BY <1>1, PapyrusInvariant, PTL

\* The machine is changed, by a binding or a dispatch, only for a call whose arguments fit the
\* function at that time, although they were first validated against a snapshot and the
\* selected reference, the mode and the bindings may change before the task runs
\* (PapyrusTool.cpp 404-434, PapyrusBackend.cpp 923-1025).
THEOREM TouchedValid ==
  ASSUME Script!PapyrusAssumption
  PROVE  Script!Spec => []Script!TouchesValidated
<1>1. ScriptInv => Script!TouchesValidated
  BY DEF ScriptInv
<1> QED BY <1>1, PapyrusInvariant, PTL

\* What a caller was told of its call stays true, though the task of a call that was given up
\* on runs on, the machine answers late and a load cancels (PapyrusTool.cpp 436-503).
THEOREM AnswersHold ==
  ASSUME Script!PapyrusAssumption
  PROVE  Script!Spec => []Script!AnswersTrue
<1>1. ScriptInv => Script!AnswersTrue
  <2> SUFFICES ASSUME ScriptInv, NEW c \in Calls
               PROVE  /\ told[c] \in Unqueued => dispatched[c] = 0
                      /\ told[c] \in Finals => dispatched[c] = 1 /\ c \notin running
                      /\ told[c] = "ok" => outcome[c] = "ok"
                      /\ outcome[c] # "internalError"
    BY DEF Script!AnswersTrue, Unqueued, Finals
  <2>1. UnaskedInv(c) /\ PlaceInv(c) /\ ToldInv(c) /\ dispatched[c] \in 0..1
    BY DEF ScriptInv, CallInv, Script!TypeOK
  <2>2. None \notin Finals \union Unqueued \union {"internalError"}
    BY DEF Script!PapyrusAssumption, Script!Answers, Finals, Unqueued
  <2>3. outcome[c] # "internalError"
    BY <2>1, <2>2 DEF PlaceInv, Finals
  <2>4. told[c] \in Unqueued => dispatched[c] = 0
    <3> SUFFICES ASSUME told[c] \in Unqueued, dispatched[c] = 1 PROVE FALSE
      BY <2>1
    <3>1. asked[c] # None
      BY <2>1 DEF UnaskedInv
    <3>2. told[c] \in {"late", outcome[c]}
      BY <2>2, <3>1, <2>1 DEF ToldInv
    <3>3. outcome[c] \in Unqueued
      BY <3>2 DEF Unqueued
    <3>4. outcome[c] \in Finals \union {None}
      BY <2>1 DEF PlaceInv
    <3> QED BY <2>2, <3>3, <3>4 DEF Finals, Unqueued
  <2>5. told[c] \in Finals => dispatched[c] = 1 /\ c \notin running /\ outcome[c] = told[c]
    <3> SUFFICES ASSUME told[c] \in Finals PROVE dispatched[c] = 1 /\ c \notin running /\ outcome[c] = told[c]
      OBVIOUS
    <3>1. told[c] \notin Unqueued /\ told[c] # None /\ told[c] # "late"
      BY <2>2 DEF Finals, Unqueued
    <3>2. outcome[c] = told[c]
      BY <2>1, <3>1 DEF ToldInv
    <3> QED BY <2>1, <2>2, <3>2 DEF PlaceInv
  <2>6. told[c] = "ok" => outcome[c] = "ok"
    BY <2>5 DEF Finals
  <2> QED BY <2>3, <2>4, <2>5, <2>6
<1> QED BY <1>1, PapyrusInvariant, PTL
=============================================================================
