---------------------------- MODULE Input_proofs ----------------------------
(***************************************************************************)
(* Proofs about the input tool's two ways of being the game's input: the   *)
(* keyboard's leases, for any keys, clients, owners and calls, any limit   *)
(* of held keys and any number of leases; and, further down, VR's tracked- *)
(* set sequences, for any starts, stops and lifecycle calls. They share    *)
(* this module and nothing else.                                           *)
(***************************************************************************)
EXTENDS KeyboardInput, SeqLemmas, FiniteSetTheorems, TLAPS

-----------------------------------------------------------------------------
(***************************************************************************)
(* The keyboard's leases. The inductive invariant is about generations. A  *)
(* lease keeps its generation and its owner to its end and no other lease  *)
(* ever has it; a generation has one press and, at a time, one release on  *)
(* the way to the main thread; and what a press may still find when the    *)
(* main thread comes to it is written in the gate, the phase of the lease  *)
(* and overtaken.                                                          *)
(***************************************************************************)

\* The places where an actor has a command in hand, and where it is about to
\* give it to the main thread.
HasCommand(a) == pc[a] \in {"submit", "dispatch", "wait", "release"}
Carries(a) == pc[a] \in {"submit", "dispatch"}

\* The commands that the main thread has still to begin, and with the one it runs.
Coming == {cmd[a] : a \in {b \in Actors : Carries(b)}} \union Range(queue)
Alive == Coming \union Range(run)

\* Two presses, or two releases, of one generation.
Twin(m, n) == m.gen = n.gen /\ m.up = n.up

\* The steps an actor has left, or will have if its call fails.
Plan(a) == Range(todo[a]) \union opened[a]

\* The generations that an actor has seen and may act on.
Known(a) == {s.gen : s \in {p \in Plan(a) : p.do = "release"}}
            \union (IF HasCommand(a) THEN {cmd[a].gen} ELSE {})

\* Whose lease it is, if there is one of generation g.
OwnedBy(g, owner) == \A k \in Keys : lease[k].gen = g => lease[k].owner = owner

\* The types of the variables, part by part.
LeaseTypes ==
    /\ lease \in [Keys -> Leases] /\ gens \in 0..MaxGen
    /\ press \in [Generations -> Gates] /\ lift \in [Generations -> Gates]

HeldTypes ==
    /\ IsFiniteSet(Held) /\ Cardinality(Held) <= MaxHeld
    /\ \A k, l \in Held : lease[k].gen = lease[l].gen => k = l

ActorTypes ==
    /\ pc \in [Actors \union {"shutdown"} ->
                  {"new", "idle", "ready", "submit", "dispatch", "wait", "release", "exited",
                   "drain", "join"}]
    /\ \A a \in Actors : pc[a] \notin {"drain", "join"}
    /\ pc["shutdown"] \in {"idle", "drain", "join"}
    /\ todo \in [Actors -> Seq(Steps)]
    /\ opened \in [Actors -> SUBSET Steps] /\ \A a \in Actors : IsFiniteSet(opened[a])
    /\ cmd \in [Actors -> Commands]

SwitchTypes == accepting \in BOOLEAN /\ lifecycle \in BOOLEAN /\ stop \in BOOLEAN

MainTypes ==
    /\ queue \in Seq(Commands) /\ IsInjective(queue)
    /\ run \in Seq(Commands) /\ Len(run) <= 1
    /\ outcome \in {"none", "ok", "failed"}
    /\ held \in [Keys -> 0..MaxGen]
    /\ overtaken \in SUBSET Generations

TypeInv == LeaseTypes /\ HeldTypes /\ ActorTypes /\ SwitchTypes /\ MainTypes

\* No generation is given out twice.
GenInv ==
    /\ \A k \in Keys : lease[k] = NoLease \/ lease[k].gen \in 1..gens
    /\ \A a \in Actors : Known(a) \subseteq 1..gens
    /\ \A m \in Alive : m.gen \in 1..gens
    /\ \A k \in Keys : held[k] <= gens
    /\ \A g \in Generations : g > gens => press[g] = "none"

\* An actor is where the step it is at takes it.
StepOk(a) ==
    /\ \A s \in Plan(a) : s.opens => s.do = "press" /\ s.fresh
    /\ \A s \in opened[a] : s.do = "release"
    /\ At(a, "submit") => Doing(a, "press") /\ ~cmd[a].up
    /\ At(a, "release") => Doing(a, "lift") /\ cmd[a].up
    /\ pc[a] \in {"dispatch", "wait"} =>
          IF cmd[a].up THEN Doing(a, "lift") \/ Doing(a, "release") ELSE Doing(a, "press")

StepInv == \A a \in Actors : StepOk(a)

\* What a client acts on was its own, and still is if it is there.
OwnInv == \A c \in Clients : \A g \in Known(c) : OwnedBy(g, Owner[c])

\* A generation has one press on its way, and one release.
UniqueInv ==
    /\ \A a, b \in Actors : Carries(a) /\ Carries(b) /\ Twin(cmd[a], cmd[b]) => a = b
    /\ \A a \in Actors : \A m \in Range(queue) \union Range(run) : Carries(a) => ~Twin(cmd[a], m)
    /\ \A m, n \in Range(queue) : Twin(m, n) => m = n
    /\ \A m \in Range(queue), n \in Range(run) : ~Twin(m, n)

\* A press that has not begun: nobody has seen it, and its lease waits for it,
\* unless a release was decided before the gate was set.
PressInv == \A m \in Coming : ~m.up =>
    /\ press[m.gen] # "begun"
    /\ \A k \in Keys : held[k] # m.gen
    /\ \A k \in Keys : lease[k].gen = m.gen =>
           lease[k].phase = "downPending" \/ m.gen \in overtaken
    /\ \A n \in Alive : n.up /\ n.gen = m.gen => m.gen \in overtaken
    /\ press[m.gen] = "queued" => lease[m.key].gen = m.gen \/ m.gen \in overtaken

\* A press is without a gate until it is submitted.
SubmitInv == \A a \in Actors : At(a, "submit") => press[cmd[a].gen] = "none"

\* A gate that was never begun, and one that was revoked with its lease.
GateInv == \A g \in Generations, k \in Keys :
    /\ press[g] = "queued" => held[k] # g
    /\ press[g] = "cancelled" => lease[k].gen # g

\* A lease whose release is on its way is not released again.
UpInv == \A m \in Alive : m.up =>
    \A k \in Keys : lease[k].gen = m.gen => lease[k].phase = "releasePending"

\* What the main thread has made of its command.
RunInv ==
    /\ run = <<>> <=> outcome = "none"
    /\ \A m \in Range(run) :
          /\ ~m.up /\ outcome # "ok" => \A k \in Keys : held[k] # m.gen
          /\ m.up /\ outcome = "ok" => held[m.key] = 0

CoreInv == PressInv /\ SubmitInv /\ GateInv /\ UpInv /\ RunInv /\ HeldIsLeased

IInv ==
    TypeInv /\ GenInv /\ StepInv /\ OwnInv /\ UniqueInv /\ CoreInv

-----------------------------------------------------------------------------
(* What the actors and the main thread do to the leases.                   *)

\* A key without a lease has no generation.
LEMMA NoLeaseGen ==
  ASSUME LeaseTypes, GenInv, NEW k \in Keys, NEW g \in 1..gens, lease[k].gen = g
  PROVE  k \in Held
BY DEF LeaseTypes, NoLease, Held

\* The lease that an actor is about to release.
LEMMA TargetKnown ==
  ASSUME TypeInv, GenInv, StepInv, NEW a \in Actors,
         At(a, "release") \/ (At(a, "idle") /\ Doing(a, "release"))
  PROVE  /\ Target(a) \in Commands /\ Target(a).up
         /\ Target(a).gen \in Known(a) /\ Target(a).gen \in 1..gens
         /\ todo[a] # <<>> /\ ~Head(todo[a]).opens /\ Head(todo[a]) \in Plan(a)
         /\ Doing(a, "release") \/ Doing(a, "lift")
<1>1. todo[a] \in Seq(Steps) /\ cmd[a] \in Commands
  BY DEF TypeInv, ActorTypes
<1>2. todo[a] # <<>> /\ (Doing(a, "release") \/ Doing(a, "lift"))
  BY DEF StepInv, StepOk, Doing
<1>3. Head(todo[a]) \in Plan(a) /\ Head(todo[a]) \in Steps
  <2>1. Head(todo[a]) \in Range(todo[a]) /\ Head(todo[a]) \in Steps
    BY <1>1, <1>2, TailDistinct, HeadTailProperties
  <2> QED BY <2>1 DEF Plan
<1>4. ~Head(todo[a]).opens
  BY <1>2, <1>3 DEF StepInv, StepOk, Doing
<1>5. CASE Doing(a, "release")
  <2>1. Target(a) = Command(Head(todo[a]).key, Head(todo[a]).gen, TRUE)
    BY <1>5 DEF Target
  <2>2. Target(a).gen \in Known(a)
    BY <1>3, <1>5, <2>1 DEF Known, Doing, Command
  <2>3. Target(a) \in Commands /\ Target(a).up
    BY <1>3, <2>1 DEF Steps, Commands, Command
  <2> QED BY <1>2, <1>3, <1>4, <2>2, <2>3 DEF GenInv
<1>6. CASE ~Doing(a, "release")
  <2>1. Target(a) = cmd[a] /\ At(a, "release")
    BY <1>6 DEF Target
  <2>2. Target(a).gen \in Known(a) /\ Target(a).up
    BY <2>1 DEF Known, HasCommand, At, StepInv, StepOk
  <2> QED BY <1>1, <1>2, <1>3, <1>4, <2>1, <2>2 DEF GenInv
<1> QED BY <1>5, <1>6

\* The leases that are left are those that were.
KeepsLeases ==
    /\ gens' = gens
    /\ \A k \in Keys : lease'[k] = NoLease \/
           /\ k \in Held
           /\ lease'[k].gen = lease[k].gen /\ lease'[k].owner = lease[k].owner

\* And one is new.
GivesLease(c, k) ==
    /\ gens' = gens + 1
    /\ k \notin Held /\ Cardinality(Held) < MaxHeld
    /\ lease' = [lease EXCEPT ![k] = [gen |-> gens', owner |-> Owner[c], phase |-> "downPending"]]

LEMMA HeldShrinks ==
  ASSUME HeldTypes, KeepsLeases
  PROVE  HeldTypes'
<1>1. Held' \in SUBSET Held /\ \A k \in Held' : lease'[k].gen = lease[k].gen
  BY DEF KeepsLeases, Held
<1>2. IsFiniteSet(Held') /\ Cardinality(Held') <= Cardinality(Held)
  BY <1>1, FS_Subset DEF HeldTypes
<1>3. Cardinality(Held') \in Int /\ Cardinality(Held) \in Int
  BY <1>2, FS_CardinalityType DEF HeldTypes
<1>4. Cardinality(Held') <= MaxHeld
  BY <1>2, <1>3, InputAssumption DEF HeldTypes
<1> QED BY <1>1, <1>2, <1>4 DEF HeldTypes

LEMMA HeldGrows ==
  ASSUME LeaseTypes, HeldTypes, GenInv, NEW c \in Clients, NEW k \in Keys, GivesLease(c, k)
  PROVE  HeldTypes'
<1>1. Held' = Held \union {k}
  <2>1. lease' \in [Keys -> Leases \union {lease'[k]}] /\ \A l \in Keys \ {k} : lease'[l] = lease[l]
    BY DEF GivesLease, LeaseTypes
  <2>2. lease'[k] # NoLease
    BY DEF GivesLease, LeaseTypes, NoLease
  <2> QED BY <2>1, <2>2 DEF Held
<1>2. k \notin Held /\ Cardinality(Held) < MaxHeld
  BY DEF GivesLease
<1>3. IsFiniteSet(Held') /\ Cardinality(Held') = Cardinality(Held) + 1
  BY <1>1, <1>2, FS_AddElement DEF HeldTypes
<1>4. Cardinality(Held) \in Int
  BY FS_CardinalityType DEF HeldTypes
<1>5. Cardinality(Held') <= MaxHeld
  BY <1>2, <1>3, <1>4, InputAssumption
<1>6. ASSUME NEW l \in Held PROVE lease'[l].gen = lease[l].gen /\ lease[l].gen # lease'[k].gen
  <2>1. l \in Keys /\ l # k /\ lease[l].gen \in 1..gens /\ gens \in Nat
    BY <1>2 DEF Held, GenInv, LeaseTypes
  <2>2. lease'[k].gen = gens + 1 /\ lease'[l] = lease[l]
    BY <2>1 DEF GivesLease, LeaseTypes
  <2> QED BY <2>1, <2>2
<1> QED BY <1>1, <1>3, <1>5, <1>6 DEF HeldTypes

\* A completion ends a lease or changes its phase.
LEMMA CompleteLeases ==
  ASSUME LeaseTypes, GenInv, NEW m \in Commands, m.gen \in 1..gens, NEW ok \in BOOLEAN,
         Complete(m, ok)
  PROVE  LeaseTypes' /\ KeepsLeases
<1>0. /\ lease \in [Keys -> Leases] /\ press \in [Generations -> Gates] /\ lift \in [Generations -> Gates]
      /\ gens \in 0..MaxGen
      /\ m.key \in Keys /\ \A k \in Keys : lease[k].gen = m.gen => k \in Held
  BY NoLeaseGen DEF LeaseTypes, Commands
<1>1. NoLease \in Leases
  BY DEF NoLease, Leases
<1>2. CASE m.up
  <2>1. /\ lease' = [lease EXCEPT ![m.key] = IF @.gen # m.gen THEN @
                                     ELSE IF ok THEN NoLease
                                     ELSE [@ EXCEPT !.phase = "releaseRetry"]]
        /\ lift' = [lift EXCEPT ![m.gen] = "none"]
        /\ gens' = gens /\ press' = press
    BY <1>2 DEF Complete, UpComplete
  <2>2. lift' \in [Generations -> Gates]
    BY <1>0, <2>1 DEF Gates
  <2>3. [lease[m.key] EXCEPT !.phase = "releaseRetry"] \in Leases
    BY <1>0 DEF Leases
  <2>4. lease' \in [Keys -> Leases]
    BY <1>0, <1>1, <2>1, <2>3
  <2>5. ASSUME NEW k \in Keys
        PROVE  \/ lease'[k] = NoLease
               \/ k \in Held /\ lease'[k].gen = lease[k].gen /\ lease'[k].owner = lease[k].owner
    <3>1. CASE k = m.key /\ lease[m.key].gen = m.gen
      BY <1>0, <2>1, <3>1 DEF Leases, Held
    <3>2. CASE lease'[k] = lease[k]
      BY <3>2 DEF Held
    <3> QED BY <1>0, <2>1, <3>1, <3>2
  <2> QED BY <1>0, <2>1, <2>2, <2>4, <2>5 DEF LeaseTypes, KeepsLeases
<1>3. CASE ~m.up
  <2>1. /\ gens' = gens
        /\ press' = [press EXCEPT ![m.gen] = IF @ = "begun" THEN "none" ELSE @]
        /\ \/ UNCHANGED <<lease, lift>>
           \/ /\ lease[m.key].gen = m.gen
              /\ lease' = [lease EXCEPT ![m.key].phase = IF @ = "downPending" THEN "pressed" ELSE @]
              /\ lift' = lift
           \/ /\ lease[m.key].gen = m.gen
              /\ lease' = [lease EXCEPT ![m.key] = NoLease]
              /\ lift' = [lift EXCEPT ![m.gen] = IF @ = "queued" THEN "cancelled" ELSE @]
    BY <1>3 DEF Complete, DownComplete
  <2>2. press' \in [Generations -> Gates]
    BY <1>0, <2>1 DEF Gates
  <2>3. lift' \in [Generations -> Gates]
    BY <1>0, <2>1 DEF Gates
  <2>4. lease' \in [Keys -> Leases]
    BY <1>0, <1>1, <2>1 DEF Leases
  <2>5. ASSUME NEW k \in Keys
        PROVE  \/ lease'[k] = NoLease
               \/ k \in Held /\ lease'[k].gen = lease[k].gen /\ lease'[k].owner = lease[k].owner
    <3>1. CASE k = m.key /\ lease[m.key].gen = m.gen
      BY <1>0, <2>1, <3>1 DEF Leases, Held
    <3>2. CASE lease'[k] = lease[k]
      BY <3>2 DEF Held
    <3> QED BY <1>0, <2>1, <3>1, <3>2
  <2> QED BY <1>0, <2>1, <2>2, <2>3, <2>4, <2>5 DEF LeaseTypes, KeepsLeases
<1> QED BY <1>2, <1>3

\* What the main thread completes is the command it runs.
LEMMA MainCompletesRun ==
  ASSUME TypeInv, GenInv, MainCompletes
  PROVE  /\ run[1] \in Commands /\ run[1].gen \in 1..gens /\ Range(run) = {run[1]}
         /\ run[1] \in Alive
         /\ \E ok \in BOOLEAN : (ok <=> outcome = "ok") /\ Complete(run[1], ok)
<1>1. run # <<>> /\ Complete(run[1], outcome = "ok") /\ run \in Seq(Commands) /\ Len(run) <= 1
  BY DEF MainCompletes, TypeInv, MainTypes
<1>2. run[1] \in Commands /\ Range(run) = {run[1]}
  <2>0. Len(run) # 0 /\ Len(run) \in Nat /\ DOMAIN run = 1..Len(run)
    BY <1>1, EmptySeq
  <2>1. DOMAIN run = {1} /\ 1 \in 1..Len(run)
    BY <1>1, <2>0
  <2> QED BY <1>1, <2>1, ElementOfSeq DEF Range
<1>3. run[1].gen \in 1..gens /\ run[1] \in Alive
  BY <1>2 DEF GenInv, Alive
<1>4. CASE outcome = "ok"
  <2>1. Complete(run[1], TRUE)
    BY <1>1, <1>4 DEF Complete, UpComplete, DownComplete
  <2> QED BY <1>2, <1>3, <1>4, <2>1
<1>5. CASE outcome # "ok"
  <2>1. Complete(run[1], FALSE)
    BY <1>1, <1>5 DEF Complete, UpComplete, DownComplete
  <2> QED BY <1>2, <1>3, <1>5, <2>1
<1> QED BY <1>4, <1>5

\* So does the revocation of the queued presses.
LEMMA CancelLeases ==
  ASSUME LeaseTypes, CancelQueuedDowns
  PROVE  LeaseTypes' /\ KeepsLeases
<1> DEFINE revoked == {k \in Held : lease[k].phase = "downPending" /\ Revokes(lease[k].gen)}
<1>1. /\ lease' = [k \in Keys |-> IF k \in revoked THEN NoLease ELSE lease[k]]
      /\ press' = [g \in Generations |->
                      IF \E k \in revoked : lease[k].gen = g THEN "cancelled" ELSE press[g]]
      /\ gens' = gens /\ lift' = lift
  BY DEF CancelQueuedDowns
<1> HIDE DEF revoked
<1>2. NoLease \in Leases
  BY DEF NoLease, Leases
<1>3. lease' \in [Keys -> Leases] /\ press' \in [Generations -> Gates]
  BY <1>1, <1>2 DEF LeaseTypes, Gates
<1>4. KeepsLeases
  BY <1>1 DEF KeepsLeases, Held
<1> QED BY <1>1, <1>3, <1>4 DEF LeaseTypes

\* Every step keeps the leases or adds one.
LEMMA NextLeases ==
  TypeInv /\ GenInv /\ StepInv /\ [Next]_vars =>
      /\ LeaseTypes' /\ HeldTypes'
      /\ KeepsLeases \/ \E c \in Clients, k \in Keys : GivesLease(c, k)
<1> SUFFICES ASSUME TypeInv, GenInv, StepInv, [Next]_vars
             PROVE  /\ LeaseTypes' /\ HeldTypes'
                    /\ KeepsLeases \/ \E c \in Clients, k \in Keys : GivesLease(c, k)
  OBVIOUS
<1>0. LeaseTypes /\ HeldTypes
  BY DEF TypeInv
<1>a. ASSUME LeaseTypes', KeepsLeases
      PROVE  LeaseTypes' /\ HeldTypes' /\ KeepsLeases
  BY <1>0, <1>a, HeldShrinks
<1>b. ASSUME UNCHANGED leaseVars PROVE LeaseTypes' /\ KeepsLeases
  BY <1>0, <1>b DEF leaseVars, LeaseTypes, KeepsLeases, Held
<1>1. ASSUME NEW a \in Actors, DispatchFails(a) PROVE LeaseTypes' /\ KeepsLeases
  <2>1. cmd[a] \in Commands /\ cmd[a].gen \in 1..gens /\ Complete(cmd[a], FALSE)
    BY <1>1 DEF DispatchFails, TypeInv, ActorTypes, GenInv, Known, HasCommand, At
  <2> QED BY <1>0, <2>1, CompleteLeases
<1>2. ASSUME MainCompletes PROVE LeaseTypes' /\ KeepsLeases
  BY <1>0, <1>2, MainCompletesRun, CompleteLeases
<1>3. ASSUME NEW c \in Clients, Acquire(c)
      PROVE  UNCHANGED leaseVars \/ (LeaseTypes' /\ \E k \in Keys : GivesLease(c, k))
  <2> DEFINE k == Head(todo[c]).key
             g == gens + 1
  <2>1. k \in Keys
    <3>1. todo[c] \in Seq(Steps) /\ todo[c] # <<>>
      BY <1>3 DEF Acquire, Doing, TypeInv, ActorTypes, Actors
    <3>2. Head(todo[c]) \in Steps
      BY <3>1, HeadTailProperties
    <3> QED BY <3>2 DEF Steps
  <2>2. CASE /\ ~Refused(c, k) /\ lease[k] = NoLease /\ g \in Generations
             /\ lease' = [lease EXCEPT ![k] = [gen |-> g, owner |-> Owner[c],
                                               phase |-> "downPending"]]
             /\ gens' = g
             /\ UNCHANGED <<press, lift>>
    <3>1. gens' \in 0..MaxGen /\ gens' = gens + 1 /\ gens' \in Nat
      BY <1>0, <2>2, InputAssumption DEF Generations, LeaseTypes
    <3>2. [gen |-> g, owner |-> Owner[c], phase |-> "downPending"] \in Leases
      BY <2>2, <3>1 DEF Leases
    <3>3. LeaseTypes'
      BY <1>0, <2>1, <2>2, <3>1, <3>2 DEF LeaseTypes
    <3>4. Cardinality(Held) < MaxHeld
      <4>1. Cardinality(Held) \in Int
        BY <1>0, FS_CardinalityType DEF HeldTypes
      <4> QED BY <2>2, <4>1, InputAssumption DEF Refused
    <3>5. GivesLease(c, k)
      BY <2>2, <3>1, <3>4 DEF GivesLease, Held
    <3> QED BY <2>1, <3>3, <3>5
  <2> QED BY <1>3, <2>2 DEF Acquire, leaseVars
<1>4. ASSUME NEW c \in Clients, SubmitDown(c) PROVE LeaseTypes' /\ KeepsLeases
  <2>1. UNCHANGED <<lease, gens, lift>> /\ press' \in [Generations -> Gates]
    BY <1>0, <1>4 DEF SubmitDown, LeaseTypes, Gates
  <2> QED BY <1>0, <2>1 DEF LeaseTypes, KeepsLeases, Held
<1>5. ASSUME NEW a \in Actors, ReleaseGeneration(a) PROVE LeaseTypes' /\ KeepsLeases
  <2> DEFINE k == Target(a).key
             g == Target(a).gen
  <2>1. k \in Keys /\ g \in 1..gens
    BY <1>5, TargetKnown DEF ReleaseGeneration, Commands
  <2>2. \/ UNCHANGED leaseVars
        \/ /\ lease[k].gen = g /\ gens' = gens /\ lift' = lift
           /\ press' = [press EXCEPT ![g] = "cancelled"]
           /\ lease' = [lease EXCEPT ![k] = NoLease]
        \/ /\ lease[k].gen = g /\ gens' = gens /\ press' = press
           /\ lease' = [lease EXCEPT ![k].phase = "releasePending"]
           /\ lift' = [lift EXCEPT ![g] = "queued"]
    BY <1>5 DEF ReleaseGeneration, SameLease
  <2> HIDE DEF k, g
  <2>3. NoLease \in Leases /\ (lease[k].gen = g => k \in Held)
    BY <1>0, <2>1, NoLeaseGen DEF NoLease, Leases
  <2>4. LeaseTypes'
    <3>1. lease' \in [Keys -> Leases]
      BY <1>0, <2>1, <2>2, <2>3 DEF LeaseTypes, leaseVars, Leases
    <3>2. press' \in [Generations -> Gates] /\ lift' \in [Generations -> Gates]
      BY <1>0, <2>2 DEF LeaseTypes, leaseVars, Gates
    <3> QED BY <1>0, <2>2, <3>1, <3>2 DEF LeaseTypes, leaseVars
  <2>5. KeepsLeases
    <3> SUFFICES ASSUME NEW l \in Keys
                 PROVE  \/ lease'[l] = NoLease
                        \/ /\ l \in Held
                           /\ lease'[l].gen = lease[l].gen /\ lease'[l].owner = lease[l].owner
      BY <2>2 DEF KeepsLeases, leaseVars
    <3>1. CASE l = k /\ lease[k].gen = g
      BY <1>0, <2>1, <2>2, <2>3, <3>1 DEF LeaseTypes, leaseVars, Leases
    <3>2. CASE lease'[l] = lease[l]
      BY <3>2 DEF Held
    <3> QED BY <1>0, <2>1, <2>2, <3>1, <3>2 DEF LeaseTypes, leaseVars
  <2> QED BY <2>4, <2>5
<1>6. ASSUME NEW m, NEW begun, Took(m, begun) PROVE LeaseTypes' /\ KeepsLeases
  <2>1. UNCHANGED <<lease, gens>> /\ press' \in [Generations -> Gates] /\ lift' \in [Generations -> Gates]
    BY <1>0, <1>6 DEF Took, LeaseTypes, Gates
  <2> QED BY <1>0, <2>1 DEF LeaseTypes, KeepsLeases, Held
<1>7. ASSUME CancelQueuedDowns PROVE LeaseTypes' /\ KeepsLeases
  BY <1>0, <1>7, CancelLeases
<1>8. ASSUME NEW a \in Actors, Dispatches(a) PROVE LeaseTypes' /\ KeepsLeases
  BY <1>1, <1>5, <1>8, <1>b DEF Dispatches, Dispatch, Timeout
<1>9. ASSUME NEW c \in Clients, Call(c) \/ Client(c)
      PROVE  /\ LeaseTypes'
             /\ KeepsLeases \/ \E k \in Keys : GivesLease(c, k)
  <2>1. c \in Actors
    BY DEF Actors
  <2> QED BY <2>1, <1>3, <1>4, <1>8, <1>9, <1>b DEF Call, Client, RequireReady, Find, SelectOwn
<1>10. ASSUME Watchdog \/ Main \/ ReleaseForLifecycle \/ ShutdownBegins \/ ShutdownStops
                \/ UNCHANGED vars
       PROVE  LeaseTypes' /\ KeepsLeases
  <2>1. "watchdog" \in Actors
    BY DEF Actors
  <2>2. CASE Watchdog
    BY <2>1, <2>2, <1>8, <1>b DEF Watchdog, WatchdogSelects, WatchdogExits
  <2>3. CASE Main
    BY <2>3, <1>2, <1>6 DEF Main, MainApplies, MainRefuses
  <2>4. CASE ReleaseForLifecycle \/ ShutdownBegins \/ ShutdownStops
    BY <2>4, <1>7 DEF ReleaseForLifecycle, ShutdownBegins, ShutdownStops
  <2>5. CASE UNCHANGED vars
    BY <2>5, <1>b DEF vars
  <2> QED BY <1>10, <2>2, <2>3, <2>4, <2>5
<1>11. CASE \E c \in Clients : Call(c) \/ Client(c)
  <2>1. PICK c \in Clients : Call(c) \/ Client(c)
    BY <1>11
  <2>2. LeaseTypes' /\ (KeepsLeases \/ \E k \in Keys : GivesLease(c, k))
    BY <1>9, <2>1
  <2>3. HeldTypes'
    BY <1>0, <2>2, HeldShrinks, HeldGrows
  <2> QED BY <2>2, <2>3
<1> QED BY <1>10, <1>11, <1>a DEF Next

-----------------------------------------------------------------------------
(* What the actors do, and what they know.                                 *)

\* There is a lease of generation g, and a client sees it only if it is its own.
Learned(a, g) == \E k \in Held :
    lease[k].gen = g /\ (a \in Clients => lease[k].owner = Owner[a])

ActorSame(b) == pc'[b] = pc[b] /\ todo'[b] = todo[b] /\ opened'[b] = opened[b] /\ cmd'[b] = cmd[b]

\* A step of a's: the others stay where they are, and a knows nothing new but leases.
ActorMoves(a) ==
    /\ ActorTypes'
    /\ \A b \in Actors \ {a} : ActorSame(b)
    /\ StepOk(a)'
    /\ \A g \in Known(a)' : g \in Known(a) \/ Learned(a, g)'

\* What an actor will release is a set of leases.
LEMMA ReleasesFacts ==
  ASSUME LeaseTypes, HeldTypes, GenInv, NEW keys \in SUBSET Held
  PROVE  /\ IsFiniteSet(Releases(keys)) /\ Releases(keys) \subseteq Steps
         /\ \A s \in Releases(keys) :
               s.do = "release" /\ ~s.opens /\ \E k \in keys : s.gen = lease[k].gen
<1> DEFINE f == [k \in keys |-> Release(k, lease[k].gen)]
<1>1. IsFiniteSet(keys)
  BY FS_Subset DEF HeldTypes
<1>2. f \in Surjection(keys, Releases(keys))
  BY DEF Surjection, Releases
<1>3. IsFiniteSet(Releases(keys))
  BY <1>1, <1>2, FS_Surjection
<1>4. ASSUME NEW k \in keys PROVE k \in Keys /\ lease[k].gen \in 0..MaxGen
  <2>1. k \in Keys /\ lease[k].gen \in 1..gens
    BY DEF Held, GenInv
  <2> QED BY <2>1, InputAssumption DEF LeaseTypes
<1>5. ASSUME NEW k \in keys PROVE Release(k, lease[k].gen) \in Steps
  BY <1>4 DEF Release, Step, Steps
<1>6. \A k \in keys : LET s == Release(k, lease[k].gen)
                     IN  s.do = "release" /\ ~s.opens /\ s.gen = lease[k].gen
  BY DEF Release, Step
<1> QED BY <1>3, <1>5, <1>6 DEF Releases

\* The end of a step that succeeds.
LEMMA SucceedsMoves ==
  ASSUME ActorTypes, StepInv, NEW a \in Actors, todo[a] # <<>>, Succeeds(a),
         Head(todo[a]).opens => HasCommand(a)
  PROVE  ActorMoves(a) /\ pc' = [pc EXCEPT ![a] = "idle"]
<1> DEFINE r == Release(cmd[a].key, cmd[a].gen)
<1>0. /\ pc' = [pc EXCEPT ![a] = "idle"] /\ cmd' = [cmd EXCEPT ![a] = NoCommand]
      /\ todo' = [todo EXCEPT ![a] = Tail(@)]
      /\ \/ opened' = [opened EXCEPT ![a] = {o \in @ : o.key # Head(todo[a]).key}]
         \/ Head(todo[a]).opens /\ opened' = [opened EXCEPT ![a] = @ \union {r}]
         \/ opened' = opened
  BY DEF Succeeds, Goto, ActorTypes
<1>1. NoCommand \in Commands
  <2>1. (CHOOSE k \in Keys : TRUE) \in Keys
    BY InputAssumption
  <2> QED BY <2>1, InputAssumption DEF NoCommand, Command, Commands
<1>2. r \in Steps /\ r.do = "release" /\ ~r.opens /\ r.gen = cmd[a].gen
  BY DEF ActorTypes, Commands, Release, Step, Steps
<1> HIDE DEF r
<1>3. /\ Tail(todo[a]) \in Seq(Steps) /\ Range(Tail(todo[a])) \subseteq Range(todo[a])
  BY TailDistinct DEF ActorTypes
<1>4. /\ opened'[a] \subseteq opened[a] \union (IF Head(todo[a]).opens THEN {r} ELSE {})
      /\ IsFiniteSet(opened'[a]) /\ opened' \in [Actors -> SUBSET Steps]
      /\ \A b \in Actors \ {a} : opened'[b] = opened[b]
  <2>0. opened \in [Actors -> SUBSET Steps] /\ IsFiniteSet(opened[a])
    BY DEF ActorTypes
  <2>1. CASE opened' = [opened EXCEPT ![a] = {o \in @ : o.key # Head(todo[a]).key}]
    <3>1. opened'[a] \in SUBSET opened[a]
      BY <2>0, <2>1
    <3> QED BY <2>0, <2>1, <3>1, FS_Subset
  <2>2. CASE Head(todo[a]).opens /\ opened' = [opened EXCEPT ![a] = @ \union {r}]
    <3>1. opened'[a] = opened[a] \union {r}
      BY <2>0, <2>2
    <3> QED BY <1>2, <2>0, <2>2, <3>1, FS_AddElement
  <2>3. CASE opened' = opened
    BY <2>0, <2>3
  <2> QED BY <1>0, <2>1, <2>2, <2>3
<1>5. ActorTypes'
  <2>1. pc'["shutdown"] = pc["shutdown"] \/ a = "shutdown"
    BY <1>0 DEF ActorTypes
  <2>2. a # "shutdown"
    BY InputAssumption DEF Actors
  <2> QED BY <1>0, <1>1, <1>3, <1>4, <2>1, <2>2 DEF ActorTypes
<1>6. \A b \in Actors \ {a} : ActorSame(b)
  BY <1>0, <1>4 DEF ActorTypes, ActorSame
<1>7. pc'[a] = "idle" /\ todo'[a] = Tail(todo[a])
  BY <1>0 DEF ActorTypes
<1>8. \A s \in Plan(a)' : s \in Plan(a) \/ (Head(todo[a]).opens /\ s = r)
  BY <1>3, <1>4, <1>7 DEF Plan
<1>9. StepOk(a)'
  <2>1. \A s \in opened'[a] : s.do = "release"
    BY <1>2, <1>4 DEF StepInv, StepOk
  <2>2. \A s \in Plan(a)' : s.opens => s.do = "press" /\ s.fresh
    BY <1>2, <1>8 DEF StepInv, StepOk
  <2> QED BY <1>7, <2>1, <2>2 DEF StepOk, At
<1>10. \A g \in Known(a)' : g \in Known(a)
  <2>1. ~HasCommand(a)'
    BY <1>7 DEF HasCommand
  <2> QED BY <1>2, <1>8, <2>1 DEF Known
<1> QED BY <1>0, <1>5, <1>6, <1>9, <1>10 DEF ActorMoves

\* The end of a step that throws.
LEMMA ThrowsMoves ==
  ASSUME ActorTypes, StepInv, NEW a \in Actors, Throws(a)
  PROVE  ActorMoves(a) /\ pc' = [pc EXCEPT ![a] = "idle"]
<1>0. /\ pc' = [pc EXCEPT ![a] = "idle"] /\ cmd' = [cmd EXCEPT ![a] = NoCommand]
      /\ todo' = [todo EXCEPT ![a] = SetToSeq(opened[a])]
      /\ opened' = [opened EXCEPT ![a] = {}]
  BY DEF Throws, Goto
<1>1. NoCommand \in Commands
  <2>1. (CHOOSE k \in Keys : TRUE) \in Keys
    BY InputAssumption
  <2> QED BY <2>1, InputAssumption DEF NoCommand, Command, Commands
<1>2. SetToSeq(opened[a]) \in Seq(opened[a]) /\ Range(SetToSeq(opened[a])) \subseteq opened[a]
  BY SetToSeqElements DEF ActorTypes
<1>3. SetToSeq(opened[a]) \in Seq(Steps)
  <2>1. opened[a] \subseteq Steps
    BY DEF ActorTypes
  <2> QED BY <1>2, <2>1, SeqMonotone
<1>4. IsFiniteSet({})
  BY FS_EmptySet
<1>5. ActorTypes'
  <2>1. pc'["shutdown"] = pc["shutdown"] \/ a = "shutdown"
    BY <1>0 DEF ActorTypes
  <2>2. a # "shutdown"
    BY InputAssumption DEF Actors
  <2> QED BY <1>0, <1>1, <1>3, <1>4, <2>1, <2>2 DEF ActorTypes
<1>6. \A b \in Actors \ {a} : ActorSame(b)
  BY <1>0 DEF ActorTypes, ActorSame
<1>7. pc'[a] = "idle" /\ todo'[a] = SetToSeq(opened[a]) /\ opened'[a] = {}
  BY <1>0 DEF ActorTypes
<1>8. Plan(a)' \subseteq Plan(a)
  BY <1>2, <1>7 DEF Plan
<1>9. StepOk(a)'
  BY <1>7, <1>8 DEF StepInv, StepOk, At
<1>10. \A g \in Known(a)' : g \in Known(a)
  BY <1>7, <1>8 DEF Known, HasCommand
<1> QED BY <1>0, <1>5, <1>6, <1>9, <1>10 DEF ActorMoves

\* The end of a step.
LEMMA EndsMoves ==
  ASSUME ActorTypes, StepInv, NEW a \in Actors, NEW ok, Ends(a, ok),
         pc[a] \in {"dispatch", "wait"}
  PROVE  ActorMoves(a) /\ pc' = [pc EXCEPT ![a] = "idle"]
<1>1. todo[a] # <<>> /\ HasCommand(a)
  BY DEF StepInv, StepOk, Doing, HasCommand
<1> QED BY <1>1, SucceedsMoves, ThrowsMoves DEF Ends

\* A generation is known to nobody before there is a lease of it.
LEMMA OthersMove ==
  ASSUME ActorTypes', NEW a \in Actors, \A b \in Actors \ {a} : ActorSame(b),
         StepOk(a)', \A g \in Known(a)' : g \in Known(a) \/ Learned(a, g)'
  PROVE  ActorMoves(a)
BY DEF ActorMoves

\* The calls of Handle, step by step, on a listener thread.
LEMMA ClientMoves ==
  ASSUME TypeInv, GenInv, StepInv, NEW c \in Clients,
         Call(c) \/ RequireReady(c) \/ Acquire(c) \/ SubmitDown(c) \/ Find(c) \/ SelectOwn(c)
  PROVE  ActorMoves(c)
<1>0. /\ c \in Actors /\ c # "shutdown" /\ ActorTypes /\ LeaseTypes /\ HeldTypes
      /\ todo[c] \in Seq(Steps) /\ cmd[c] \in Commands /\ StepOk(c)
      /\ pc \in [Actors \union {"shutdown"} -> {"new", "idle", "ready", "submit", "dispatch",
                                               "wait", "release", "exited", "drain", "join"}]
      /\ todo \in [Actors -> Seq(Steps)] /\ cmd \in [Actors -> Commands]
  BY InputAssumption DEF Actors, TypeInv, ActorTypes, StepInv
<1>a. ASSUME todo[c] # <<>> PROVE Head(todo[c]) \in Steps /\ Head(todo[c]) \in Plan(c)
  BY <1>0, <1>a, TailDistinct, HeadTailProperties DEF Plan
<1>1. CASE Call(c)
  <2>1. PICK call \in Calls[c] : todo' = [todo EXCEPT ![c] = call]
    BY <1>1 DEF Call
  <2>2. call \in Seq(Requests) /\ \A i \in DOMAIN call : call[i].opens => call[i].fresh
    BY <2>1, CallsAssumption
  <2>3. \A s \in Requests : s \in Steps /\ s.do # "release" /\ (s.opens => s.do = "press")
    <3>1. (CHOOSE k \in Keys : TRUE) \in Keys
      BY InputAssumption
    <3>2. \A k \in Keys, fresh, opens \in BOOLEAN : LET s == Press(k, fresh, opens)
             IN  s \in Steps /\ s.do = "press"
      BY InputAssumption DEF Press, Step, Steps
    <3>3. \A k \in Keys : LET s == Lift(k) IN s \in Steps /\ s.do = "lift" /\ ~s.opens
      BY InputAssumption DEF Lift, Step, Steps
    <3>4. ReleaseAll \in Steps /\ ReleaseAll.do = "releaseAll" /\ ~ReleaseAll.opens
      BY <3>1, InputAssumption DEF ReleaseAll, Step, Steps
    <3> QED BY <3>2, <3>3, <3>4 DEF Requests
  <2>4. call \in Seq(Steps)
    BY <2>2, <2>3, SeqMonotone
  <2>5. pc' = [pc EXCEPT ![c] = "ready"] /\ opened' = opened /\ cmd' = [cmd EXCEPT ![c] = cmd[c]]
    BY <1>0, <1>1 DEF Call, Goto
  <2>6. /\ ActorTypes' /\ \A b \in Actors \ {c} : ActorSame(b)
        /\ pc'[c] = "ready" /\ todo'[c] = call /\ opened'[c] = opened[c] /\ cmd'[c] = cmd[c]
    BY <1>0, <2>1, <2>4, <2>5 DEF ActorTypes, ActorSame
  <2>7. \A s \in Range(call) : s.do # "release" /\ (s.opens => s.do = "press" /\ s.fresh)
    BY <2>2, <2>3, ElementOfSeq DEF Range
  <2>8. StepOk(c)'
    BY <1>0, <2>6, <2>7 DEF StepOk, Plan, At
  <2>9. \A g \in Known(c)' : g \in Known(c)
    BY <2>6, <2>7 DEF Known, HasCommand, Plan
  <2> QED BY <1>0, <2>6, <2>8, <2>9, OthersMove
<1>2. CASE RequireReady(c)
  <2>1. CASE Throws(c)
    BY <1>0, <2>1, ThrowsMoves
  <2>2. CASE pc' = [pc EXCEPT ![c] = "ready"] /\ UNCHANGED <<todo, opened, cmd>>
    <3>1. todo' = [todo EXCEPT ![c] = todo[c]] /\ cmd' = [cmd EXCEPT ![c] = cmd[c]]
      BY <1>0, <2>2
    <3>2. /\ ActorTypes' /\ \A b \in Actors \ {c} : ActorSame(b)
          /\ pc'[c] = "ready" /\ todo'[c] = todo[c] /\ opened'[c] = opened[c] /\ cmd'[c] = cmd[c]
      BY <1>0, <2>2, <3>1 DEF ActorTypes, ActorSame
    <3>3. StepOk(c)' /\ \A g \in Known(c)' : g \in Known(c)
      BY <1>0, <3>2 DEF StepOk, Plan, At, Known, HasCommand
    <3> QED BY <1>0, <3>2, <3>3, OthersMove
  <2> QED BY <1>2, <2>1, <2>2 DEF RequireReady, Goto
<1>3. CASE Acquire(c)
  <2> DEFINE k == Head(todo[c]).key
             g == gens + 1
  <2>0. todo[c] # <<>> /\ Head(todo[c]).do = "press" /\ At(c, "ready")
    BY <1>3 DEF Acquire, Doing
  <2>1. CASE Throws(c)
    BY <1>0, <2>1, ThrowsMoves
  <2>2. CASE ~Refused(c, k) /\ lease[k] # NoLease /\ Succeeds(c)
    <3>1. ~Head(todo[c]).opens
      BY <1>0, <1>a, <2>0, <2>2 DEF Refused, StepOk
    <3> QED BY <1>0, <2>0, <2>2, <3>1, SucceedsMoves DEF TypeInv
  <2>3. CASE /\ lease[k] = NoLease /\ g \in Generations
             /\ lease' = [lease EXCEPT ![k] = [gen |-> g, owner |-> Owner[c],
                                               phase |-> "downPending"]]
             /\ cmd' = [cmd EXCEPT ![c] = Command(k, g, FALSE)]
             /\ pc' = [pc EXCEPT ![c] = "submit"]
             /\ UNCHANGED <<todo, opened>>
    <3>1. k \in Keys
      BY <1>a, <2>0 DEF Steps
    <3>2. Command(k, g, FALSE) \in Commands /\ g # 0
      BY <2>3, <3>1, InputAssumption DEF Command, Commands, Generations
    <3>3. todo' = [todo EXCEPT ![c] = todo[c]]
      BY <1>0, <2>3
    <3>4. /\ ActorTypes' /\ \A b \in Actors \ {c} : ActorSame(b)
          /\ pc'[c] = "submit" /\ todo'[c] = todo[c] /\ opened'[c] = opened[c]
          /\ cmd'[c] = Command(k, g, FALSE)
      BY <1>0, <2>3, <3>2, <3>3 DEF ActorTypes, ActorSame
    <3>5. StepOk(c)'
      BY <1>0, <2>0, <3>4 DEF StepOk, Plan, At, Doing, Command
    <3>6. \A h \in Known(c)' : h \in Known(c) \/ h = g
      BY <3>4 DEF Known, HasCommand, Plan, Command
    <3>7. ASSUME NEW h, h = g PROVE Learned(c, h)'
      <4>1. lease'[k] = [gen |-> h, owner |-> Owner[c], phase |-> "downPending"]
        BY <1>0, <2>3, <3>1, <3>7 DEF LeaseTypes
      <4>2. k \in Held'
        BY <3>1, <3>2, <3>7, <4>1 DEF Held, NoLease
      <4> QED BY <4>1, <4>2 DEF Learned
    <3>8. \A h \in Known(c)' : h \in Known(c) \/ Learned(c, h)'
      BY <3>6, <3>7
    <3> QED BY <1>0, <3>4, <3>5, <3>8, OthersMove
  <2> QED BY <1>3, <2>1, <2>2, <2>3 DEF Acquire, Goto
<1>4. CASE SubmitDown(c)
  <2>1. CASE Throws(c)
    BY <1>0, <2>1, ThrowsMoves
  <2>2. CASE pc' = [pc EXCEPT ![c] = "dispatch"] /\ UNCHANGED <<todo, opened, cmd>>
    <3>1. todo' = [todo EXCEPT ![c] = todo[c]] /\ cmd' = [cmd EXCEPT ![c] = cmd[c]]
      BY <1>0, <2>2
    <3>2. /\ ActorTypes' /\ \A b \in Actors \ {c} : ActorSame(b)
          /\ pc'[c] = "dispatch" /\ todo'[c] = todo[c] /\ opened'[c] = opened[c] /\ cmd'[c] = cmd[c]
      BY <1>0, <2>2, <3>1 DEF ActorTypes, ActorSame
    <3>3. pc[c] = "submit"
      BY <1>4 DEF SubmitDown, At
    <3>4. StepOk(c)' /\ \A g \in Known(c)' : g \in Known(c)
      BY <1>0, <3>2, <3>3 DEF StepOk, Plan, At, Known, HasCommand, Doing
    <3> QED BY <1>0, <3>2, <3>4, OthersMove
  <2> QED BY <1>4, <2>1, <2>2 DEF SubmitDown, Goto
<1>5. CASE Find(c)
  <2> DEFINE k == Head(todo[c]).key
  <2>0. todo[c] # <<>> /\ Head(todo[c]).do = "lift" /\ At(c, "ready") /\ UNCHANGED lease
    BY <1>5 DEF Find, Doing, leaseVars
  <2>1. CASE Throws(c)
    BY <1>0, <2>1, ThrowsMoves
  <2>2. CASE Succeeds(c)
    <3>1. ~Head(todo[c]).opens
      BY <1>0, <1>a, <2>0 DEF StepOk
    <3> QED BY <1>0, <2>0, <2>2, <3>1, SucceedsMoves DEF TypeInv
  <2>3. CASE /\ lease[k] # NoLease /\ lease[k].owner = Owner[c]
             /\ cmd' = [cmd EXCEPT ![c] = Command(k, lease[k].gen, TRUE)]
             /\ pc' = [pc EXCEPT ![c] = "release"]
             /\ UNCHANGED <<todo, opened>>
    <3>1. k \in Keys /\ k \in Held
      BY <1>a, <2>0, <2>3 DEF Steps, Held
    <3>2. lease[k].gen \in 0..MaxGen
      <4>1. lease[k].gen \in 1..gens
        BY <3>1 DEF Held, GenInv
      <4> QED BY <1>0, <4>1, InputAssumption DEF LeaseTypes
    <3>3. Command(k, lease[k].gen, TRUE) \in Commands
      BY <3>1, <3>2 DEF Command, Commands
    <3>4. todo' = [todo EXCEPT ![c] = todo[c]]
      BY <1>0, <2>3
    <3>5. /\ ActorTypes' /\ \A b \in Actors \ {c} : ActorSame(b)
          /\ pc'[c] = "release" /\ todo'[c] = todo[c] /\ opened'[c] = opened[c]
          /\ cmd'[c] = Command(k, lease[k].gen, TRUE)
      BY <1>0, <2>3, <3>3, <3>4 DEF ActorTypes, ActorSame
    <3>6. StepOk(c)'
      BY <1>0, <2>0, <3>5 DEF StepOk, Plan, At, Doing, Command
    <3>7. \A h \in Known(c)' : h \in Known(c) \/ h = lease[k].gen
      BY <3>5 DEF Known, HasCommand, Plan, Command
    <3>8. ASSUME NEW h, h = lease[k].gen PROVE Learned(c, h)'
      BY <2>0, <2>3, <3>1, <3>8 DEF Learned, Held
    <3> QED BY <1>0, <3>5, <3>6, <3>7, <3>8, OthersMove
  <2> QED BY <1>5, <2>1, <2>2, <2>3 DEF Find, Goto
<1>6. CASE SelectOwn(c)
  <2> DEFINE own == {k \in Held : lease[k].owner = Owner[c]}
             first == SetToSeq(Releases(own))
             rest == Tail(todo[c])
  <2>0. todo[c] # <<>> /\ UNCHANGED lease
    BY <1>6 DEF SelectOwn, Doing, leaseVars
  <2>1. /\ IsFiniteSet(Releases(own)) /\ Releases(own) \subseteq Steps
        /\ \A s \in Releases(own) :
               s.do = "release" /\ ~s.opens /\ \E k \in own : s.gen = lease[k].gen
    BY <1>0, ReleasesFacts
  <2>2. first \in Seq(Steps) /\ Range(first) \subseteq Releases(own)
    BY <2>1, SetToSeqElements, SeqMonotone
  <2>3. rest \in Seq(Steps) /\ Range(rest) \subseteq Range(todo[c])
    BY <1>0, <2>0, TailDistinct
  <2>4. first \o rest \in Seq(Steps) /\ Range(first \o rest) \subseteq Releases(own) \union Range(todo[c])
    BY <2>2, <2>3, ConcatElements
  <2>5. /\ pc' = [pc EXCEPT ![c] = "idle"] /\ opened' = opened /\ cmd' = [cmd EXCEPT ![c] = cmd[c]]
        /\ todo' = [todo EXCEPT ![c] = first \o rest]
    BY <1>0, <1>6 DEF SelectOwn, Goto
  <2> HIDE DEF first, rest
  <2>6. /\ ActorTypes' /\ \A b \in Actors \ {c} : ActorSame(b)
        /\ pc'[c] = "idle" /\ todo'[c] = first \o rest /\ opened'[c] = opened[c] /\ cmd'[c] = cmd[c]
    BY <1>0, <2>4, <2>5 DEF ActorTypes, ActorSame
  <2>7. \A s \in Plan(c)' : s \in Plan(c) \/ s \in Releases(own)
    BY <2>4, <2>6 DEF Plan
  <2>8. StepOk(c)'
    BY <1>0, <2>1, <2>6, <2>7 DEF StepOk, At
  <2>9. \A h \in Known(c)' : h \in Known(c) \/ \E k \in own : h = lease[k].gen
    <3>1. ~HasCommand(c)'
      BY <2>6 DEF HasCommand
    <3>2. \A s \in Plan(c)' : s.do = "release" => s.gen \in Known(c) \/ \E k \in own : s.gen = lease[k].gen
      BY <2>1, <2>7 DEF Known
    <3> QED BY <3>1, <3>2 DEF Known
  <2>10. ASSUME NEW h, NEW k \in own, h = lease[k].gen PROVE Learned(c, h)'
    BY <2>0, <2>10 DEF Learned, Held
  <2> QED BY <1>0, <2>6, <2>8, <2>9, <2>10, OthersMove
<1> QED BY <1>1, <1>2, <1>3, <1>4, <1>5, <1>6

\* The way of a command, on the listener thread or the watchdog that has it.
LEMMA DispatchesMoves ==
  ASSUME TypeInv, GenInv, StepInv, NEW a \in Actors, Dispatches(a)
  PROVE  ActorMoves(a)
<1>0. /\ a # "shutdown" /\ ActorTypes /\ StepOk(a)
      /\ todo[a] \in Seq(Steps) /\ cmd[a] \in Commands
      /\ pc \in [Actors \union {"shutdown"} -> {"new", "idle", "ready", "submit", "dispatch",
                                               "wait", "release", "exited", "drain", "join"}]
      /\ todo \in [Actors -> Seq(Steps)] /\ cmd \in [Actors -> Commands]
  BY InputAssumption DEF Actors, TypeInv, ActorTypes, StepInv
<1>1. CASE Dispatch(a)
  <2>1. /\ pc' = [pc EXCEPT ![a] = "wait"] /\ UNCHANGED <<todo, opened, cmd>> /\ pc[a] = "dispatch"
    BY <1>1 DEF Dispatch, Goto, At
  <2>2. /\ ActorTypes' /\ \A b \in Actors \ {a} : ActorSame(b)
        /\ pc'[a] = "wait" /\ todo'[a] = todo[a] /\ opened'[a] = opened[a] /\ cmd'[a] = cmd[a]
    BY <1>0, <2>1 DEF ActorTypes, ActorSame
  <2>3. StepOk(a)' /\ \A g \in Known(a)' : g \in Known(a)
    BY <1>0, <2>1, <2>2 DEF StepOk, Plan, At, Known, HasCommand, Doing
  <2> QED BY <2>2, <2>3, OthersMove
<1>2. CASE DispatchFails(a)
  BY <1>0, <1>2, EndsMoves DEF DispatchFails, At
<1>3. CASE Timeout(a)
  <2>1. todo[a] # <<>> /\ HasCommand(a)
    BY <1>0, <1>3 DEF Timeout, At, StepOk, Doing, HasCommand
  <2> QED BY <1>0, <1>3, <2>1, SucceedsMoves DEF Timeout
<1>4. CASE ReleaseGeneration(a)
  <2>1. /\ Target(a) \in Commands /\ Target(a).up /\ Target(a).gen \in Known(a)
        /\ todo[a] # <<>> /\ ~Head(todo[a]).opens
        /\ Doing(a, "release") \/ Doing(a, "lift")
    BY <1>4, TargetKnown DEF ReleaseGeneration
  <2>2. CASE Succeeds(a)
    BY <1>0, <2>1, <2>2, SucceedsMoves
  <2>3. CASE /\ cmd' = [cmd EXCEPT ![a] = Target(a)] /\ pc' = [pc EXCEPT ![a] = "dispatch"]
             /\ UNCHANGED <<todo, opened>>
    <3>1. /\ ActorTypes' /\ \A b \in Actors \ {a} : ActorSame(b)
          /\ pc'[a] = "dispatch" /\ todo'[a] = todo[a] /\ opened'[a] = opened[a]
          /\ cmd'[a] = Target(a)
      BY <1>0, <2>1, <2>3 DEF ActorTypes, ActorSame
    <3>2. StepOk(a)'
      BY <1>0, <2>1, <3>1 DEF StepOk, Plan, At, Doing
    <3>3. \A g \in Known(a)' : g \in Known(a)
      BY <2>1, <3>1 DEF Known, HasCommand, Plan
    <3> QED BY <3>1, <3>2, <3>3, OthersMove
  <2> QED BY <1>4, <2>2, <2>3 DEF ReleaseGeneration, Goto
<1> QED BY <1>1, <1>2, <1>3, <1>4 DEF Dispatches

\* What the watchdog selects are leases, whoever owns them.
LEMMA WatchdogMoves ==
  ASSUME TypeInv, GenInv, StepInv, WatchdogSelects \/ WatchdogExits
  PROVE  ActorMoves("watchdog")
<1> DEFINE a == "watchdog"
<1>0. /\ a \in Actors /\ a \notin Clients /\ a # "shutdown" /\ ActorTypes /\ LeaseTypes /\ HeldTypes
      /\ StepOk(a)
      /\ pc \in [Actors \union {"shutdown"} -> {"new", "idle", "ready", "submit", "dispatch",
                                               "wait", "release", "exited", "drain", "join"}]
      /\ todo \in [Actors -> Seq(Steps)] /\ cmd \in [Actors -> Commands]
  BY InputAssumption DEF Actors, TypeInv, ActorTypes, StepInv
<1>1. CASE WatchdogSelects
  <2>0. lease' = lease /\ pc[a] = "idle"
    BY <1>1 DEF WatchdogSelects, leaseVars, At
  <2>1. PICK due \in SUBSET Held : todo' = [todo EXCEPT ![a] = SetToSeq(Releases(due))]
    <3>1. PICK expired \in SUBSET Held :
             LET due == IF lifecycle THEN Held
                        ELSE expired \union {k \in Held : lease[k].phase = "releaseRetry"}
             IN  todo' = [todo EXCEPT ![a] = SetToSeq(Releases(due))]
      BY <1>1 DEF WatchdogSelects
    <3> QED BY <3>1
  <2>2. /\ IsFiniteSet(Releases(due)) /\ Releases(due) \subseteq Steps
        /\ \A s \in Releases(due) :
               s.do = "release" /\ ~s.opens /\ \E k \in due : s.gen = lease[k].gen
    BY <1>0, ReleasesFacts
  <2> DEFINE steps == SetToSeq(Releases(due))
  <2>3. steps \in Seq(Steps) /\ Range(steps) \subseteq Releases(due)
    BY <2>2, SetToSeqElements, SeqMonotone
  <2>4. todo' = [todo EXCEPT ![a] = steps] /\ UNCHANGED <<pc, opened, cmd>>
    BY <1>1, <2>1 DEF WatchdogSelects
  <2> HIDE DEF steps
  <2>5. /\ ActorTypes' /\ \A b \in Actors \ {a} : ActorSame(b)
        /\ pc'[a] = "idle" /\ todo'[a] = steps /\ opened'[a] = opened[a]
    BY <1>0, <2>0, <2>3, <2>4 DEF ActorTypes, ActorSame
  <2>6. \A s \in Plan(a)' : s \in Plan(a) \/ s \in Releases(due)
    BY <2>3, <2>5 DEF Plan
  <2>7. StepOk(a)'
    BY <1>0, <2>2, <2>5, <2>6 DEF StepOk, At
  <2>8. \A h \in Known(a)' : h \in Known(a) \/ \E k \in due : h = lease[k].gen
    <3>1. ~HasCommand(a)'
      BY <2>5 DEF HasCommand
    <3>2. \A s \in Plan(a)' : s.do = "release" => s.gen \in Known(a) \/ \E k \in due : s.gen = lease[k].gen
      BY <2>2, <2>6 DEF Known
    <3> QED BY <3>1, <3>2 DEF Known
  <2>9. ASSUME NEW h, NEW k \in due, h = lease[k].gen PROVE Learned(a, h)'
    BY <1>0, <2>0, <2>9 DEF Learned, Held
  <2> QED BY <1>0, <2>5, <2>7, <2>8, <2>9, OthersMove
<1>2. CASE WatchdogExits
  <2>1. pc' = [pc EXCEPT ![a] = "exited"] /\ UNCHANGED <<todo, opened, cmd>>
    BY <1>2 DEF WatchdogExits, Goto
  <2>2. /\ ActorTypes' /\ \A b \in Actors \ {a} : ActorSame(b)
        /\ pc'[a] = "exited" /\ todo'[a] = todo[a] /\ opened'[a] = opened[a]
    BY <1>0, <2>1 DEF ActorTypes, ActorSame
  <2>3. StepOk(a)' /\ \A g \in Known(a)' : g \in Known(a)
    BY <1>0, <2>2 DEF StepOk, Plan, At, Known, HasCommand
  <2> QED BY <1>0, <2>2, <2>3, OthersMove
<1> QED BY <1>1, <1>2

\* Every actor stays at its step, and knows nothing but leases it may act on.
LEMMA NextActors ==
  TypeInv /\ GenInv /\ StepInv /\ [Next]_vars =>
      /\ ActorTypes' /\ StepInv'
      /\ \A a \in Actors : \A g \in Known(a)' : g \in Known(a) \/ Learned(a, g)'
<1> SUFFICES ASSUME TypeInv, GenInv, StepInv, [Next]_vars
             PROVE  /\ ActorTypes' /\ StepInv'
                    /\ \A a \in Actors : \A g \in Known(a)' : g \in Known(a) \/ Learned(a, g)'
  OBVIOUS
<1>0. ActorTypes
  BY DEF TypeInv
<1>1. ASSUME NEW b \in Actors, ActorSame(b) PROVE StepOk(b)' /\ Known(b)' = Known(b)
  BY <1>1 DEF ActorSame, StepInv, StepOk, Known, Plan, HasCommand, At, Doing
<1>2. ASSUME NEW a \in Actors, ActorMoves(a)
      PROVE  /\ ActorTypes' /\ StepInv'
             /\ \A b \in Actors : \A g \in Known(b)' : g \in Known(b) \/ Learned(b, g)'
  <2>1. \A b \in Actors : StepOk(b)'
    BY <1>1, <1>2 DEF ActorMoves
  <2>2. \A b \in Actors : \A g \in Known(b)' : g \in Known(b) \/ Learned(b, g)'
    BY <1>1, <1>2 DEF ActorMoves
  <2> QED BY <1>2, <2>1, <2>2 DEF ActorMoves, StepInv
<1>3. ASSUME UNCHANGED <<todo, opened, cmd>>, \A a \in Actors : pc'[a] = pc[a], ActorTypes'
      PROVE  /\ ActorTypes' /\ StepInv'
             /\ \A b \in Actors : \A g \in Known(b)' : g \in Known(b) \/ Learned(b, g)'
  <2>1. \A b \in Actors : ActorSame(b)
    BY <1>3 DEF ActorSame
  <2> QED BY <1>1, <1>3, <2>1 DEF StepInv
<1>4. ASSUME UNCHANGED actorVars PROVE ActorTypes'
  BY <1>0, <1>4 DEF actorVars, ActorTypes
<1>5. CASE \E c \in Clients : Call(c) \/ Client(c)
  <2>1. PICK c \in Clients : Call(c) \/ Client(c)
    BY <1>5
  <2>2. c \in Actors
    BY DEF Actors
  <2>3. ActorMoves(c)
    BY <2>1, <2>2, ClientMoves, DispatchesMoves DEF Client
  <2> QED BY <1>2, <2>2, <2>3
<1>6. CASE Watchdog
  <2>1. "watchdog" \in Actors
    BY DEF Actors
  <2>2. ActorMoves("watchdog")
    BY <1>6, <2>1, WatchdogMoves, DispatchesMoves DEF Watchdog
  <2> QED BY <1>2, <2>1, <2>2
<1>7. CASE MainApplies \/ MainRefuses \/ ReleaseForLifecycle \/ UNCHANGED vars
  <2>1. UNCHANGED actorVars
    BY <1>7 DEF MainApplies, MainRefuses, Took, ReleaseForLifecycle, vars
  <2> QED BY <1>3, <1>4, <2>1 DEF actorVars
<1>8. CASE MainCompletes
  <2>1. CASE UNCHANGED actorVars
    BY <1>3, <1>4, <2>1 DEF actorVars
  <2>2. CASE \E a \in Actors : At(a, "wait") /\ Ends(a, outcome = "ok")
    <3>1. PICK a \in Actors : pc[a] = "wait" /\ Ends(a, outcome = "ok")
      BY <2>2 DEF At
    <3>2. ActorMoves(a)
      BY <1>0, <3>1, EndsMoves
    <3> QED BY <1>2, <3>2
  <2> QED BY <1>8, <2>1, <2>2 DEF MainCompletes
<1>9. CASE ShutdownBegins \/ ShutdownStops
  <2>1. /\ UNCHANGED <<todo, opened, cmd>>
        /\ \E where \in {"drain", "join"} : pc' = [pc EXCEPT !["shutdown"] = where]
    BY <1>9 DEF ShutdownBegins, ShutdownStops, Goto
  <2>2. "shutdown" \notin Actors
    BY InputAssumption DEF Actors
  <2>3. ActorTypes' /\ \A a \in Actors : pc'[a] = pc[a]
    BY <1>0, <2>1, <2>2 DEF ActorTypes
  <2> QED BY <1>3, <2>1, <2>3
<1> QED BY <1>5, <1>6, <1>7, <1>8, <1>9 DEF Next, Main

\* Nobody acts on a lease that is not its own, whatever became of the lease.
LEMMA NextOwn ==
  TypeInv /\ GenInv /\ StepInv /\ OwnInv /\ [Next]_vars =>
      /\ OwnInv'
      /\ gens <= gens' /\ \A k \in Keys : lease'[k] = NoLease \/ lease'[k].gen \in 1..gens'
      /\ \A a \in Actors : Known(a)' \subseteq 1..gens'
<1> SUFFICES ASSUME TypeInv, GenInv, StepInv, OwnInv, [Next]_vars
             PROVE  /\ OwnInv'
                    /\ gens <= gens' /\ \A k \in Keys : lease'[k] = NoLease \/ lease'[k].gen \in 1..gens'
                    /\ \A a \in Actors : Known(a)' \subseteq 1..gens'
  OBVIOUS
<1>0. /\ LeaseTypes' /\ HeldTypes' /\ LeaseTypes
      /\ KeepsLeases \/ \E c \in Clients, k \in Keys : GivesLease(c, k)
      /\ \A a \in Actors : \A g \in Known(a)' : g \in Known(a) \/ Learned(a, g)'
  BY NextLeases, NextActors DEF TypeInv
<1>1. /\ gens \in Nat /\ gens' \in Nat /\ gens <= gens'
      /\ lease \in [Keys -> Leases] /\ lease' \in [Keys -> Leases]
  BY <1>0, InputAssumption DEF LeaseTypes, KeepsLeases, GivesLease
<1>2. ASSUME NEW k \in Keys, lease'[k] # NoLease
      PROVE  \/ /\ lease[k].gen \in 1..gens
                /\ lease'[k].gen = lease[k].gen /\ lease'[k].owner = lease[k].owner
             \/ gens' = gens + 1 /\ lease'[k].gen = gens + 1
  <2>1. CASE KeepsLeases
    BY <1>2, <2>1 DEF KeepsLeases, Held, GenInv
  <2>2. ASSUME NEW c \in Clients, NEW l \in Keys, GivesLease(c, l)
        PROVE  \/ /\ lease[k].gen \in 1..gens
                  /\ lease'[k].gen = lease[k].gen /\ lease'[k].owner = lease[k].owner
               \/ gens' = gens + 1 /\ lease'[k].gen = gens + 1
    <3>1. CASE k = l
      BY <1>1, <2>2, <3>1 DEF GivesLease
    <3>2. CASE k # l
      <4>1. lease'[k] = lease[k]
        BY <1>1, <2>2, <3>2 DEF GivesLease
      <4> QED BY <1>2, <4>1 DEF GenInv
    <3> QED BY <3>1, <3>2
  <2> QED BY <1>0, <2>1, <2>2
<1>3. \A k \in Keys : lease'[k] = NoLease \/ lease'[k].gen \in 1..gens'
  BY <1>1, <1>2
<1>4. \A a, g : Learned(a, g)' => g \in 1..gens'
  BY <1>3 DEF Learned, Held
<1>5. \A a \in Actors : Known(a)' \subseteq 1..gens'
  <2>1. \A a \in Actors : \A g \in Known(a) : g \in 1..gens'
    BY <1>1 DEF GenInv
  <2> QED BY <1>0, <1>4, <2>1
<1>6. ASSUME NEW c \in Clients, NEW g \in Known(c)', NEW k \in Keys, lease'[k].gen = g
      PROVE  lease'[k].owner = Owner[c]
  <2>0. c \in Actors
    BY DEF Actors
  <2>1. g \in 1..gens' /\ lease'[k] # NoLease
    BY <1>5, <1>6, <2>0 DEF NoLease
  <2>2. CASE g \in Known(c)
    <3>1. g \in 1..gens /\ OwnedBy(g, Owner[c])
      BY <2>0, <2>2 DEF GenInv, OwnInv
    <3>2. lease'[k].gen = lease[k].gen /\ lease'[k].owner = lease[k].owner
      BY <1>1, <1>2, <1>6, <2>1, <3>1
    <3> QED BY <1>6, <3>1, <3>2 DEF OwnedBy
  <2>3. CASE Learned(c, g)'
    <3>1. PICK l \in Held' : lease'[l].gen = g /\ lease'[l].owner = Owner[c]
      BY <2>3 DEF Learned
    <3>2. k \in Held'
      BY <2>1 DEF Held
    <3>3. k = l
      BY <1>0, <1>6, <3>1, <3>2 DEF HeldTypes
    <3> QED BY <3>1, <3>3
  <2> QED BY <1>0, <2>0, <2>2, <2>3
<1>7. OwnInv'
  BY <1>6 DEF OwnInv, OwnedBy
<1> QED BY <1>1, <1>3, <1>5, <1>7

-----------------------------------------------------------------------------
(* The commands on their way to the main thread.                           *)

\* No actor takes up a command.
NothingComes ==
    /\ \A b \in Actors : Carries(b)' => Carries(b) /\ cmd'[b] = cmd[b]
    /\ \A b \in Actors : At(b, "submit")' => At(b, "submit") /\ cmd'[b] = cmd[b]

\* No actor but a does.
OnlyComes(a) ==
    /\ \A b \in Actors \ {a} : Carries(b)' => Carries(b) /\ cmd'[b] = cmd[b]
    /\ \A b \in Actors \ {a} : At(b, "submit")' => At(b, "submit") /\ cmd'[b] = cmd[b]

\* What a step does not add to.
Fewer == Coming' \subseteq Coming /\ Alive' \subseteq Alive /\ UniqueInv'

LEMMA MovesCome ==
  ASSUME NEW a \in Actors, ActorMoves(a)
  PROVE  /\ OnlyComes(a)
         /\ pc'[a] \notin {"submit", "dispatch"} => NothingComes /\ ~Carries(a)'
BY DEF ActorMoves, ActorSame, OnlyComes, NothingComes, Carries, At

\* The commands are commands of generations that were given out.
LEMMA AliveTypes ==
  ASSUME TypeInv, GenInv, StepInv
  PROVE  /\ Coming \subseteq Alive /\ Alive \subseteq Commands
         /\ \A m \in Alive : m.key \in Keys /\ m.gen \in 1..gens /\ m.gen \in Generations
                            /\ m.up \in BOOLEAN
         /\ \A a \in Actors : Carries(a) => cmd[a] \in Coming
<1>1. Range(queue) \subseteq Commands /\ Range(run) \subseteq Commands
  BY DEF TypeInv, MainTypes, Range
<1>2. \A a \in Actors : cmd[a] \in Commands
  BY DEF TypeInv, ActorTypes
<1>3. 1..gens \subseteq Generations
  BY InputAssumption DEF TypeInv, LeaseTypes, Generations
<1>4. Coming \subseteq Alive /\ Alive \subseteq Commands
  BY <1>1, <1>2 DEF Coming, Alive
<1>5. \A m \in Alive : m.gen \in 1..gens
  BY DEF GenInv
<1> QED BY <1>3, <1>4, <1>5 DEF Commands, Coming

LEMMA NothingNew ==
  ASSUME UniqueInv, NothingComes, Range(queue') \subseteq Range(queue), Range(run') \subseteq Range(run)
  PROVE  Fewer
<1>1. \A b \in Actors : Carries(b)' => Carries(b) /\ cmd'[b] = cmd[b]
  BY DEF NothingComes
<1>2. UniqueInv'
  BY <1>1 DEF UniqueInv, Twin
<1> QED BY <1>1, <1>2 DEF Fewer, Coming, Alive

\* Of a command that leaves an actor and goes nowhere nothing is left.
LEMMA NoTwinLeft ==
  ASSUME UniqueInv, NothingComes, NEW a \in Actors, Carries(a), ~Carries(a)',
         Range(queue') \subseteq Range(queue), Range(run') \subseteq Range(run)
  PROVE  \A n \in Alive' : ~Twin(n, cmd[a])
<1>1. \A b \in Actors : Carries(b)' => Carries(b) /\ cmd'[b] = cmd[b] /\ b # a
  BY DEF NothingComes
<1>2. \A m, n : Twin(m, n) => Twin(n, m)
  BY DEF Twin
<1>3. ASSUME NEW b \in Actors, Carries(b)' PROVE ~Twin(cmd'[b], cmd[a])
  BY <1>1, <1>3 DEF UniqueInv
<1>4. ASSUME NEW n \in Range(queue') \union Range(run') PROVE ~Twin(n, cmd[a])
  BY <1>2, <1>4 DEF UniqueInv
<1> QED BY <1>3, <1>4 DEF Alive, Coming

\* A command that an actor takes up has no twin yet.
LEMMA CommandComes ==
  ASSUME UniqueInv, NEW a \in Actors, OnlyComes(a), ~Carries(a), NEW m, cmd'[a] = m,
         queue' = queue, run' = run, \A n \in Alive : ~Twin(n, m)
  PROVE  /\ UniqueInv' /\ Coming' \subseteq Coming \union {m} /\ Alive' \subseteq Alive \union {m}
<1>1. \A b \in Actors : Carries(b)' => (b = a /\ cmd'[b] = m) \/ (b # a /\ Carries(b) /\ cmd'[b] = cmd[b])
  BY DEF OnlyComes
<1>2. \A n \in Alive : ~Twin(m, n)
  BY DEF Twin
<1>3. ASSUME NEW b \in Actors, NEW c \in Actors, Carries(b)', Carries(c)', Twin(cmd'[b], cmd'[c])
      PROVE  b = c
  <2>1. \A d \in Actors : Carries(d) => cmd[d] \in Alive
    BY DEF Alive, Coming
  <2> QED BY <1>1, <1>2, <1>3, <2>1 DEF UniqueInv
<1>4. ASSUME NEW b \in Actors, NEW n \in Range(queue) \union Range(run), Carries(b)'
      PROVE  ~Twin(cmd'[b], n)
  <2>1. n \in Alive
    BY DEF Alive, Coming
  <2> QED BY <1>1, <1>2, <1>4, <2>1 DEF UniqueInv
<1>5. UniqueInv'
  <2>1. \A b, c \in Actors : (Carries(b) /\ Carries(c) /\ Twin(cmd[b], cmd[c]))' => b = c
    BY <1>3 DEF Twin
  <2>2. \A b \in Actors : \A n \in Range(queue') \union Range(run') : Carries(b)' => ~Twin(cmd'[b], n)
    BY <1>4
  <2>3. /\ \A n, o \in Range(queue') : Twin(n, o) => n = o
        /\ \A n \in Range(queue'), o \in Range(run') : ~Twin(n, o)
    BY DEF UniqueInv
  <2> QED BY <2>1, <2>2, <2>3 DEF UniqueInv, Twin
<1> QED BY <1>1, <1>5 DEF Coming, Alive

\* A command that is dispatched goes from the actor to the queue.
LEMMA CommandQueued ==
  ASSUME TypeInv, UniqueInv, NEW a \in Actors, NothingComes, Carries(a), ~Carries(a)',
         queue' = Append(queue, cmd[a]), run' = run
  PROVE  Fewer /\ queue' \in Seq(Commands) /\ IsInjective(queue')
<1> DEFINE m == cmd[a]
<1>0. queue \in Seq(Commands) /\ IsInjective(queue) /\ m \in Commands
  BY DEF TypeInv, MainTypes, ActorTypes
<1>1. \A b \in Actors : Carries(b)' => b # a /\ Carries(b) /\ cmd'[b] = cmd[b]
  BY DEF NothingComes
<1>2. \A n \in Range(queue) \union Range(run) : ~Twin(m, n) /\ ~Twin(n, m)
  BY DEF UniqueInv, Twin
<1>3. m \notin Range(queue)
  BY <1>2 DEF Twin
<1>4. Range(queue') = Range(queue) \union {m} /\ IsInjective(queue')
  BY <1>0, <1>3, AppendDistinct
<1>5. \A b \in Actors : Carries(b)' => ~Twin(cmd'[b], m)
  BY <1>1 DEF UniqueInv
<1> HIDE DEF m
<1>6. UniqueInv'
  <2>1. \A b, c \in Actors : (Carries(b) /\ Carries(c) /\ Twin(cmd[b], cmd[c]))' => b = c
    BY <1>1 DEF UniqueInv, Twin
  <2>2. \A b \in Actors : \A n \in Range(queue') \union Range(run') : Carries(b)' => ~Twin(cmd'[b], n)
    BY <1>1, <1>4, <1>5 DEF UniqueInv
  <2>3. \A n, o \in Range(queue') : Twin(n, o) => n = o
    BY <1>2, <1>4 DEF UniqueInv
  <2>4. \A n \in Range(queue'), o \in Range(run') : ~Twin(n, o)
    BY <1>2, <1>4 DEF UniqueInv
  <2> QED BY <2>1, <2>2, <2>3, <2>4 DEF UniqueInv, Twin
<1>7. m \in Coming
  BY DEF Coming, m
<1>8. Coming' \subseteq Coming /\ Alive' \subseteq Alive
  BY <1>1, <1>4, <1>7 DEF Coming, Alive
<1>9. queue' \in Seq(Commands)
  BY <1>0 DEF m
<1> QED BY <1>4, <1>6, <1>8, <1>9 DEF Fewer

\* A command that the main thread takes is the only one of its generation and kind.
LEMMA CommandTaken ==
  ASSUME TypeInv, UniqueInv, NEW m, NEW begun, Took(m, begun)
  PROVE  /\ Fewer /\ queue' \in Seq(Commands) /\ IsInjective(queue')
         /\ m \in Coming /\ m \in Commands /\ Range(run') = {m}
         /\ run' \in Seq(Commands) /\ Len(run') <= 1
         /\ \A n \in Coming' : ~Twin(n, m)
         /\ \A b \in Actors : Carries(b)' => Carries(b) /\ cmd'[b] = cmd[b]
         /\ NothingComes
<1>0. /\ queue # <<>> /\ m = Head(queue) /\ queue' = Tail(queue) /\ run' = <<m>> /\ run = <<>>
      /\ UNCHANGED <<pc, cmd>> /\ queue \in Seq(Commands) /\ IsInjective(queue)
  BY DEF Took, TypeInv, MainTypes, actorVars
<1>1. /\ queue' \in Seq(Commands) /\ IsInjective(queue') /\ m \in Range(queue)
      /\ Range(queue') = Range(queue) \ {m}
  BY <1>0, TailDistinct
<1>2. m \in Commands
  BY <1>0, HeadTailProperties
<1>3. run' \in Seq(Commands) /\ Len(run') <= 1 /\ Range(run') = {m} /\ Range(run) = {}
  <2>1. /\ run' \in Seq(Commands) /\ Len(run') = 1 /\ DOMAIN run' = {1} /\ run'[1] = m
        /\ DOMAIN run = {}
    BY <1>0, <1>2
  <2> QED BY <2>1 DEF Range
<1>4. NothingComes
  BY <1>0 DEF NothingComes, Carries, At
<1>5. \A b \in Actors : Carries(b)' => Carries(b) /\ cmd'[b] = cmd[b]
  BY <1>4 DEF NothingComes
<1>6. \A n \in Range(queue') : ~Twin(n, m)
  BY <1>1 DEF UniqueInv
<1>7. \A b \in Actors : Carries(b)' => ~Twin(cmd'[b], m)
  BY <1>1, <1>5 DEF UniqueInv
<1>8. UniqueInv'
  <2>1. \A b, c \in Actors : (Carries(b) /\ Carries(c) /\ Twin(cmd[b], cmd[c]))' => b = c
    BY <1>5 DEF UniqueInv, Twin
  <2>2. \A b \in Actors : \A n \in Range(queue') \union Range(run') : Carries(b)' => ~Twin(cmd'[b], n)
    BY <1>1, <1>3, <1>5, <1>7 DEF UniqueInv
  <2>3. \A n, o \in Range(queue') : Twin(n, o) => n = o
    BY <1>1 DEF UniqueInv
  <2>4. \A n \in Range(queue'), o \in Range(run') : ~Twin(n, o)
    BY <1>3, <1>6
  <2> QED BY <2>1, <2>2, <2>3, <2>4 DEF UniqueInv, Twin
<1>9. m \in Coming /\ Coming' \subseteq Coming /\ Alive' \subseteq Alive
  BY <1>1, <1>3, <1>5 DEF Coming, Alive
<1>10. \A n \in Coming' : ~Twin(n, m)
  BY <1>6, <1>7 DEF Coming
<1> QED BY <1>1, <1>2, <1>3, <1>4, <1>5, <1>8, <1>9, <1>10 DEF Fewer

-----------------------------------------------------------------------------
(* What a step makes of the commands' invariants, one kind of step at a    *)
(* time.                                                                   *)

\* The part of GenInv that the commands, the gates and the game have in it.
CommandGens ==
    /\ \A m \in Alive : m.gen \in 1..gens
    /\ \A k \in Keys : held[k] <= gens
    /\ \A g \in Generations : g > gens => press[g] = "none"

Commanded == MainTypes /\ UniqueInv /\ CoreInv /\ CommandGens

\* A step that touches no lease, no gate and not the game.
LEMMA CoreSame ==
  ASSUME IInv, Fewer, NothingComes, queue' \in Seq(Commands), IsInjective(queue'),
         UNCHANGED <<leaseVars, mainVars, overtaken>>
  PROVE  Commanded'
<1>0. /\ UNCHANGED <<lease, gens, press, lift, run, outcome, held, overtaken>>
      /\ \A b \in Actors : At(b, "submit")' => At(b, "submit") /\ cmd'[b] = cmd[b]
  BY DEF leaseVars, mainVars, NothingComes
<1>1. PressInv'
  BY <1>0 DEF IInv, CoreInv, PressInv, Fewer
<1>2. SubmitInv' /\ GateInv' /\ UpInv' /\ RunInv' /\ HeldIsLeased'
  BY <1>0 DEF IInv, CoreInv, SubmitInv, GateInv, UpInv, RunInv, HeldIsLeased, Fewer
<1>3. CommandGens'
  BY <1>0 DEF IInv, GenInv, CommandGens, Fewer
<1>4. MainTypes'
  BY <1>0 DEF IInv, TypeInv, MainTypes
<1> QED BY <1>1, <1>2, <1>3, <1>4 DEF Commanded, CoreInv, Fewer

\* The numbers and the tables that the lemmas below reason about.
LEMMA CoreTypes ==
  ASSUME IInv
  PROVE  /\ lease \in [Keys -> Leases] /\ press \in [Generations -> Gates]
         /\ gens \in Nat /\ 1..gens \subseteq Generations /\ held \in [Keys -> 0..MaxGen]
         /\ \A k \in Keys : lease[k] = NoLease \/ lease[k].gen \in 1..gens
         /\ NoLease.gen = 0 /\ NoLease.phase = "none"
         /\ \A k, l \in Keys : lease[k].gen = lease[l].gen /\ lease[k].gen # 0 => k = l
<1>1. \A k, l \in Keys : lease[k].gen = lease[l].gen /\ lease[k].gen # 0 => k \in Held /\ l \in Held
  BY DEF NoLease, Held
<1>2. \A k, l \in Keys : lease[k].gen = lease[l].gen /\ lease[k].gen # 0 => k = l
  BY <1>1 DEF IInv, TypeInv, HeldTypes
<1> QED BY <1>2, InputAssumption DEF IInv, TypeInv, LeaseTypes, MainTypes, GenInv, NoLease, Generations

\* A new lease: its press comes, without a gate.
LEMMA LeaseGiven ==
  ASSUME IInv, NEW c \in Actors, OnlyComes(c), ~Carries(c), NEW k \in Keys, lease[k] = NoLease,
         NEW g, g = gens + 1, g \in Generations,
         NEW owner, lease' = [lease EXCEPT ![k] = [gen |-> g, owner |-> owner, phase |-> "downPending"]],
         gens' = g, cmd'[c] = Command(k, g, FALSE), queue' = queue,
         UNCHANGED <<press, lift, mainVars, overtaken>>
  PROVE  Commanded'
<1> DEFINE m == Command(k, g, FALSE)
<1>0. /\ UNCHANGED <<press, run, outcome, held, overtaken>>
      /\ lease \in [Keys -> Leases] /\ press \in [Generations -> Gates]
      /\ gens \in Nat /\ \A l \in Keys : lease[l] = NoLease \/ lease[l].gen \in 1..gens
      /\ lease[k].gen = 0
  BY CoreTypes DEF mainVars
<1>1. m.key = k /\ m.gen = g /\ ~m.up
  BY DEF Command
<1>2. \A n \in Alive : n.gen \in 1..gens /\ n.gen # g /\ n.key \in Keys
  BY <1>0, AliveTypes DEF IInv
<1>3. UniqueInv' /\ Coming' \subseteq Coming \union {m} /\ Alive' \subseteq Alive \union {m}
  <2>1. \A n \in Alive : ~Twin(n, m)
    BY <1>1, <1>2 DEF Twin
  <2> QED BY <1>0, <2>1, CommandComes DEF IInv
<1>4. /\ lease'[k] = [gen |-> g, owner |-> owner, phase |-> "downPending"]
      /\ \A l \in Keys : l # k => lease'[l] = lease[l]
  BY <1>0
<1>5. press[g] = "none" /\ \A l \in Keys : held[l] <= gens /\ held[l] # g
  BY <1>0, CoreTypes DEF IInv, GenInv
<1>6. \A l \in Keys : lease[l].gen # g /\ lease'[l].gen = (IF l = k THEN g ELSE lease[l].gen)
  BY <1>0, <1>4
<1> HIDE DEF m
<1>7. PressInv'
  <2> SUFFICES ASSUME NEW n \in Coming', ~n.up
               PROVE  /\ press[n.gen] # "begun"
                      /\ \A l \in Keys : held[l] # n.gen
                      /\ \A l \in Keys : lease'[l].gen = n.gen =>
                             lease'[l].phase = "downPending" \/ n.gen \in overtaken
                      /\ \A o \in Alive' : o.up /\ o.gen = n.gen => n.gen \in overtaken
                      /\ press[n.gen] = "queued" => lease'[n.key].gen = n.gen \/ n.gen \in overtaken
    BY <1>0 DEF PressInv
  <2>1. CASE n = m
    BY <1>1, <1>2, <1>3, <1>4, <1>5, <1>6, <2>1
  <2>2. CASE n \in Coming
    <3>1. n \in Alive /\ PressInv
      BY <2>2 DEF Alive, IInv, CoreInv
    <3>2. n.gen # g /\ n.gen # 0 /\ n.key \in Keys
      BY <1>0, <1>2, <3>1
    <3>3. \A o \in Alive' : o.up => o \in Alive
      BY <1>1, <1>3
    <3>4. \A l \in Keys : lease'[l].gen = n.gen => lease'[l] = lease[l] /\ lease[l].gen = n.gen
      BY <1>4, <1>6, <3>2
    <3>5. lease[n.key].gen = n.gen => lease'[n.key].gen = n.gen
      BY <1>0, <1>4, <3>2
    <3> QED BY <2>2, <3>1, <3>3, <3>4, <3>5 DEF PressInv
  <2> QED BY <1>3, <2>1, <2>2
<1>8. SubmitInv'
  <2>1. \A b \in Actors \ {c} : At(b, "submit")' => At(b, "submit") /\ cmd'[b] = cmd[b]
    BY DEF OnlyComes
  <2> QED BY <1>0, <1>1, <1>5, <2>1 DEF IInv, CoreInv, SubmitInv, m
<1>9. GateInv'
  <2>1. \A h \in Generations : press[h] = "cancelled" => h # g
    BY <1>5
  <2> QED BY <1>0, <1>6, <2>1 DEF IInv, CoreInv, GateInv
<1>10. UpInv'
  <2> SUFFICES ASSUME NEW n \in Alive', n.up, NEW l \in Keys, lease'[l].gen = n.gen
               PROVE  lease'[l].phase = "releasePending"
    BY DEF UpInv
  <2>1. n \in Alive /\ n.gen # g
    BY <1>1, <1>2, <1>3
  <2> QED BY <1>4, <1>6, <2>1 DEF IInv, CoreInv, UpInv
<1>11. RunInv' /\ HeldIsLeased'
  BY <1>0, <1>4, <1>6 DEF IInv, CoreInv, RunInv, HeldIsLeased
<1>12. CommandGens'
  BY <1>0, <1>1, <1>2, <1>3, <1>5, CoreTypes DEF IInv, GenInv, CommandGens, Generations
<1>13. MainTypes'
  BY <1>0 DEF IInv, TypeInv, MainTypes
<1> QED BY <1>3, <1>7, <1>8, <1>9, <1>10, <1>11, <1>12, <1>13 DEF Commanded, CoreInv

\* A press gets its gate.
LEMMA PressSubmitted ==
  ASSUME IInv, NEW c \in Actors, At(c, "submit"), ~At(c, "submit")', NothingComes,
         lease[cmd[c].key].gen = cmd[c].gen, press' = [press EXCEPT ![cmd[c].gen] = "queued"],
         UNCHANGED <<lease, gens, lift, queue, mainVars, overtaken>>
  PROVE  Commanded'
<1>0. /\ UNCHANGED <<lease, gens, lift, queue, run, outcome, held, overtaken>>
      /\ lease \in [Keys -> Leases] /\ press \in [Generations -> Gates]
  BY CoreTypes DEF mainVars
<1>1. PICK m \in Coming : m = cmd[c] /\ m.key \in Keys /\ m.gen \in 1..gens /\ m.gen \in Generations /\ ~m.up
  <2>1. Carries(c) /\ ~cmd[c].up
    BY DEF Carries, At, IInv, StepInv, StepOk
  <2> QED BY <2>1, AliveTypes DEF IInv
<1>2. Fewer
  BY <1>0, NothingNew DEF IInv
<1>3. \A h \in Generations : press'[h] = IF h = m.gen THEN "queued" ELSE press[h]
  BY <1>0, <1>1
<1>4. /\ \A b \in Actors : Carries(b) /\ ~cmd[b].up /\ cmd[b].gen = m.gen => b = c
      /\ \A n \in Coming : ~n.up /\ n.gen = m.gen => n = m
  <2>1. Carries(c)
    BY DEF Carries, At
  <2>2. \A n \in Alive : ~n.up /\ n.gen = m.gen => Twin(cmd[c], n) /\ Twin(n, cmd[c])
    <3>1. m.up \in BOOLEAN /\ \A n \in Alive : n.up \in BOOLEAN
      BY AliveTypes DEF IInv
    <3> QED BY <1>1, <3>1 DEF Twin
  <2>3. ASSUME NEW b \in Actors, Carries(b), ~cmd[b].up, cmd[b].gen = m.gen PROVE b = c
    <3>1. Twin(cmd[b], cmd[c])
      BY <2>2, <2>3 DEF Alive, Coming
    <3> QED BY <2>1, <2>3, <3>1 DEF IInv, UniqueInv
  <2>4. ASSUME NEW n \in Range(queue), ~n.up, n.gen = m.gen PROVE FALSE
    <3>1. Twin(cmd[c], n)
      BY <2>2, <2>4 DEF Alive, Coming
    <3> QED BY <2>1, <3>1 DEF IInv, UniqueInv
  <2> QED BY <1>1, <2>3, <2>4 DEF Coming
<1>5. \A k \in Keys : held[k] # m.gen
  BY <1>1 DEF IInv, CoreInv, PressInv
<1>6. PressInv'
  <2> SUFFICES ASSUME NEW n \in Coming, n \in Coming', ~n.up
               PROVE  /\ press'[n.gen] # "begun"
                      /\ \A l \in Keys : held[l] # n.gen
                      /\ \A l \in Keys : lease[l].gen = n.gen =>
                             lease[l].phase = "downPending" \/ n.gen \in overtaken
                      /\ \A o \in Alive' : o.up /\ o.gen = n.gen => n.gen \in overtaken
                      /\ press'[n.gen] = "queued" => lease[n.key].gen = n.gen \/ n.gen \in overtaken
    BY <1>0, <1>2 DEF PressInv, Fewer
  <2>1. n.gen \in Generations
    BY AliveTypes DEF IInv
  <2> QED BY <1>1, <1>2, <1>3, <1>4, <2>1 DEF IInv, CoreInv, PressInv, Fewer
<1>7. SubmitInv'
  <2> SUFFICES ASSUME NEW b \in Actors, At(b, "submit")' PROVE press'[cmd'[b].gen] = "none"
    BY DEF SubmitInv
  <2>1. At(b, "submit") /\ cmd'[b] = cmd[b] /\ b # c
    BY DEF NothingComes
  <2>2. cmd[b] \in Coming /\ ~cmd[b].up
    BY <2>1 DEF Coming, Carries, At, IInv, StepInv, StepOk
  <2>3. cmd[b].gen # m.gen
    BY <1>4, <2>1, <2>2 DEF Carries, At
  <2>4. cmd[b].gen \in Generations
    BY <2>2, AliveTypes DEF IInv
  <2> QED BY <1>3, <2>1, <2>3, <2>4 DEF IInv, CoreInv, SubmitInv
<1>8. GateInv'
  BY <1>0, <1>3, <1>5 DEF IInv, CoreInv, GateInv
<1>9. UpInv' /\ RunInv' /\ HeldIsLeased'
  BY <1>0, <1>2 DEF IInv, CoreInv, UpInv, RunInv, HeldIsLeased, Fewer
<1>10. CommandGens'
  BY <1>0, <1>1, <1>2, <1>3, CoreTypes DEF IInv, GenInv, CommandGens, Fewer
<1>11. MainTypes'
  BY <1>0 DEF IInv, TypeInv, MainTypes
<1> QED BY <1>2, <1>6, <1>7, <1>8, <1>9, <1>10, <1>11 DEF Commanded, CoreInv, Fewer

\* Presses that are revoked while they are queued, with their leases.
LEMMA PressesRevoked ==
  ASSUME IInv, Fewer, NothingComes, NEW revoked \in SUBSET Keys,
         \A k \in revoked : lease[k] # NoLease /\ press[lease[k].gen] = "queued",
         \A k \in Keys : lease'[k] = IF k \in revoked THEN NoLease ELSE lease[k],
         \A g \in Generations : press'[g] = IF \E k \in revoked : lease[k].gen = g
                                            THEN "cancelled" ELSE press[g],
         UNCHANGED <<gens, lift, queue, mainVars, overtaken>>
  PROVE  Commanded'
<1>0. /\ UNCHANGED <<gens, lift, queue, run, outcome, held, overtaken>>
      /\ lease \in [Keys -> Leases] /\ press \in [Generations -> Gates]
      /\ 1..gens \subseteq Generations /\ NoLease.gen = 0
      /\ \A k \in Keys : lease[k] = NoLease \/ lease[k].gen \in 1..gens
      /\ \A k, l \in Keys : lease[k].gen = lease[l].gen /\ lease[k].gen # 0 => k = l
  BY CoreTypes DEF mainVars
<1>1. \A k \in Keys, g \in Generations : lease'[k].gen = g => lease'[k] = lease[k] /\ k \notin revoked
  BY <1>0 DEF Generations
<1>2. \A g \in Generations : press'[g] = press[g] \/ (press[g] = "queued" /\ press'[g] = "cancelled")
  BY <1>0
<1>3. ASSUME NEW k \in Keys, NEW g \in Generations, lease[k].gen = g, press'[g] = "queued"
      PROVE  lease'[k] = lease[k]
  BY <1>3
<1>4. PressInv'
  <2> SUFFICES ASSUME NEW n \in Coming, n \in Coming', ~n.up
               PROVE  /\ press'[n.gen] # "begun"
                      /\ \A l \in Keys : held[l] # n.gen
                      /\ \A l \in Keys : lease'[l].gen = n.gen =>
                             lease'[l].phase = "downPending" \/ n.gen \in overtaken
                      /\ \A o \in Alive' : o.up /\ o.gen = n.gen => n.gen \in overtaken
                      /\ press'[n.gen] = "queued" => lease'[n.key].gen = n.gen \/ n.gen \in overtaken
    BY <1>0 DEF PressInv, Fewer
  <2>1. n.gen \in Generations /\ n.key \in Keys
    BY AliveTypes DEF IInv
  <2>2. press'[n.gen] # "begun" /\ (press'[n.gen] = "queued" => press[n.gen] = "queued")
    BY <1>2, <2>1 DEF IInv, CoreInv, PressInv
  <2>3. \A l \in Keys : lease'[l].gen = n.gen => lease'[l].phase = "downPending" \/ n.gen \in overtaken
    BY <1>1, <2>1 DEF IInv, CoreInv, PressInv
  <2>4. press'[n.gen] = "queued" => lease'[n.key].gen = n.gen \/ n.gen \in overtaken
    BY <1>3, <2>1, <2>2 DEF IInv, CoreInv, PressInv
  <2> QED BY <2>2, <2>3, <2>4 DEF IInv, CoreInv, PressInv, Fewer
<1>5. SubmitInv'
  <2> SUFFICES ASSUME NEW b \in Actors, At(b, "submit")' PROVE press'[cmd'[b].gen] = "none"
    BY DEF SubmitInv
  <2>1. At(b, "submit") /\ cmd'[b] = cmd[b]
    BY DEF NothingComes
  <2>2. cmd[b].gen \in Generations
    BY <2>1, AliveTypes DEF IInv, Carries, At
  <2> QED BY <1>2, <2>1, <2>2 DEF IInv, CoreInv, SubmitInv
<1>6. GateInv'
  <2> SUFFICES ASSUME NEW g \in Generations, NEW k \in Keys
               PROVE  /\ press'[g] = "queued" => held[k] # g
                      /\ press'[g] = "cancelled" => lease'[k].gen # g
    BY <1>0 DEF GateInv
  <2>1. press'[g] = "queued" => held[k] # g
    BY <1>2 DEF IInv, CoreInv, GateInv
  <2>2. ASSUME press'[g] = "cancelled", lease'[k].gen = g PROVE FALSE
    <3>1. lease[k].gen = g /\ k \notin revoked /\ g # 0
      BY <1>1, <2>2 DEF Generations
    <3>2. CASE \E l \in revoked : lease[l].gen = g
      BY <1>0, <3>1, <3>2
    <3>3. CASE press[g] = "cancelled"
      BY <3>1, <3>3 DEF IInv, CoreInv, GateInv
    <3> QED BY <2>2, <3>2, <3>3
  <2> QED BY <2>1, <2>2
<1>7. UpInv'
  <2> SUFFICES ASSUME NEW n \in Alive, n \in Alive', n.up, NEW l \in Keys, lease'[l].gen = n.gen
               PROVE  lease'[l].phase = "releasePending"
    BY DEF UpInv, Fewer
  <2>1. n.gen \in Generations
    BY AliveTypes DEF IInv
  <2>2. lease'[l] = lease[l]
    BY <1>1, <2>1
  <2> QED BY <2>2 DEF IInv, CoreInv, UpInv
<1>8. RunInv'
  BY <1>0 DEF IInv, CoreInv, RunInv
<1>9. HeldIsLeased'
  <2> SUFFICES ASSUME NEW k \in Keys, held[k] # 0, held[k] # lease'[k].gen PROVE held[k] \in overtaken
    BY <1>0 DEF HeldIsLeased
  <2>1. CASE k \in revoked
    <3>1. lease[k].gen \in Generations /\ press[lease[k].gen] = "queued"
      BY <1>0, <2>1
    <3>2. held[k] # lease[k].gen
      BY <3>1 DEF IInv, CoreInv, GateInv
    <3> QED BY <3>2 DEF IInv, CoreInv, HeldIsLeased
  <2>2. CASE lease'[k] = lease[k]
    BY <2>2 DEF IInv, CoreInv, HeldIsLeased
  <2> QED BY <2>1, <2>2
<1>10. CommandGens'
  BY <1>0, <1>2 DEF IInv, GenInv, CommandGens, Fewer
<1>11. MainTypes'
  BY <1>0 DEF IInv, TypeInv, MainTypes
<1> QED BY <1>4, <1>5, <1>6, <1>7, <1>8, <1>9, <1>10, <1>11 DEF Commanded, CoreInv, Fewer

\* A release is decided.  If the press it ends has no gate yet, or one that a
\* release decided before has passed, the press is overtaken.
LEMMA ReleaseDecided ==
  ASSUME IInv, NEW a \in Actors, OnlyComes(a), ~Carries(a), ~At(a, "submit")',
         NEW m \in Commands, m.up, m.gen \in 1..gens, cmd'[a] = m, queue' = queue,
         lease[m.key].gen = m.gen, lease[m.key].phase # "releasePending",
         ~(lease[m.key].phase = "downPending" /\ press[m.gen] = "queued"),
         lease' = [lease EXCEPT ![m.key].phase = "releasePending"],
         overtaken' = IF lease[m.key].phase = "downPending" /\ press[m.gen] = "none"
                      THEN overtaken \union {m.gen} ELSE overtaken,
         UNCHANGED <<gens, press, mainVars>>
  PROVE  Commanded'
<1>0. /\ UNCHANGED <<gens, press, run, outcome, held>> /\ m.key \in Keys
      /\ lease \in [Keys -> Leases] /\ press \in [Generations -> Gates]
      /\ gens \in Nat /\ 1..gens \subseteq Generations /\ m.gen # 0 /\ m.gen \in Generations
      /\ \A k, l \in Keys : lease[k].gen = lease[l].gen /\ lease[k].gen # 0 => k = l
      /\ overtaken \subseteq overtaken'
  BY CoreTypes DEF mainVars, Commands
<1>1. \A k \in Keys : /\ lease'[k].gen = lease[k].gen
                      /\ k # m.key => lease'[k] = lease[k]
                      /\ k = m.key => lease'[k].phase = "releasePending"
  BY <1>0 DEF Leases
<1>2. \A k \in Keys : lease[k].gen = m.gen => k = m.key
  BY <1>0
<1>3. UniqueInv' /\ Coming' \subseteq Coming \union {m} /\ Alive' \subseteq Alive \union {m}
  <2>1. \A n \in Alive : n.up => n.gen # m.gen
    BY <1>0 DEF IInv, CoreInv, UpInv
  <2>2. \A n \in Alive : ~Twin(n, m)
    BY <2>1 DEF Twin
  <2> QED BY <1>0, <2>2, CommandComes DEF IInv, mainVars
<1>4. ASSUME NEW n \in Coming, ~n.up, n.gen = m.gen PROVE m.gen \in overtaken'
  <2>1. press[m.gen] # "begun" /\ (lease[m.key].phase = "downPending" \/ m.gen \in overtaken)
    BY <1>0, <1>4 DEF IInv, CoreInv, PressInv
  <2>2. press[m.gen] # "cancelled"
    BY <1>0 DEF IInv, CoreInv, GateInv
  <2>3. press[m.gen] \in {"none", "queued", "begun", "cancelled"}
    BY <1>0 DEF Gates
  <2> QED BY <2>1, <2>2, <2>3
<1>5. PressInv'
  <2> SUFFICES ASSUME NEW n \in Coming', ~n.up
               PROVE  /\ press[n.gen] # "begun"
                      /\ \A l \in Keys : held[l] # n.gen
                      /\ \A l \in Keys : lease'[l].gen = n.gen =>
                             lease'[l].phase = "downPending" \/ n.gen \in overtaken'
                      /\ \A o \in Alive' : o.up /\ o.gen = n.gen => n.gen \in overtaken'
                      /\ press[n.gen] = "queued" => lease'[n.key].gen = n.gen \/ n.gen \in overtaken'
    BY <1>0 DEF PressInv
  <2>1. n \in Coming /\ n.key \in Keys
    BY <1>3, AliveTypes DEF IInv
  <2>2. CASE n.gen = m.gen
    <3>1. n.gen \in overtaken'
      BY <1>4, <2>1, <2>2
    <3>2. press[n.gen] # "begun" /\ \A l \in Keys : held[l] # n.gen
      BY <2>1 DEF IInv, CoreInv, PressInv
    <3> QED BY <3>1, <3>2
  <2>3. CASE n.gen # m.gen
    <3>1. \A l \in Keys : lease'[l].gen = n.gen => lease'[l] = lease[l]
      BY <1>0, <1>1, <2>3
    <3>2. \A o \in Alive' : o.up /\ o.gen = n.gen => o \in Alive
      BY <1>3, <2>3
    <3>3. /\ press[n.gen] # "begun" /\ \A l \in Keys : held[l] # n.gen
          /\ \A l \in Keys : lease[l].gen = n.gen => lease[l].phase = "downPending" \/ n.gen \in overtaken
          /\ \A o \in Alive : o.up /\ o.gen = n.gen => n.gen \in overtaken
          /\ press[n.gen] = "queued" => lease[n.key].gen = n.gen \/ n.gen \in overtaken
      BY <2>1 DEF IInv, CoreInv, PressInv
    <3>4. n.gen \in overtaken => n.gen \in overtaken'
      BY <1>0
    <3>5. lease'[n.key].gen = lease[n.key].gen
      BY <1>1, <2>1
    <3> QED BY <3>1, <3>2, <3>3, <3>4, <3>5
  <2> QED BY <2>2, <2>3
<1>6. SubmitInv'
  <2>1. \A b \in Actors : At(b, "submit")' => At(b, "submit") /\ cmd'[b] = cmd[b]
    BY DEF OnlyComes
  <2> QED BY <1>0, <2>1 DEF IInv, CoreInv, SubmitInv
<1>7. GateInv' /\ RunInv'
  BY <1>0, <1>1 DEF IInv, CoreInv, GateInv, RunInv
<1>8. UpInv'
  <2> SUFFICES ASSUME NEW n \in Alive', n.up, NEW l \in Keys, lease'[l].gen = n.gen
               PROVE  lease'[l].phase = "releasePending"
    BY DEF UpInv
  <2>1. CASE n = m
    BY <1>1, <1>2, <2>1
  <2>2. CASE n \in Alive
    BY <1>1, <2>2 DEF IInv, CoreInv, UpInv
  <2> QED BY <1>3, <2>1, <2>2
<1>9. HeldIsLeased'
  BY <1>0, <1>1 DEF IInv, CoreInv, HeldIsLeased
<1>10. CommandGens'
  BY <1>0, <1>3 DEF IInv, GenInv, CommandGens
<1>11. MainTypes'
  BY <1>0 DEF IInv, TypeInv, MainTypes
<1> QED BY <1>3, <1>5, <1>6, <1>7, <1>8, <1>9, <1>10, <1>11 DEF Commanded, CoreInv

\* The main thread takes a command, and passes or refuses it.
LEMMA Taken ==
  ASSUME IInv, NEW m, NEW begun, Took(m, begun),
         \/ begun /\ outcome' = "ok" /\ held' = [held EXCEPT ![m.key] = IF m.up THEN 0 ELSE m.gen]
         \/ outcome' = "failed" /\ held' = held
  PROVE  Commanded'
<1>0. /\ UNCHANGED <<lease, gens, overtaken>>
      /\ begun = Begins(IF m.up THEN lift[m.gen] ELSE press[m.gen])
      /\ press' = IF begun /\ ~m.up THEN [press EXCEPT ![m.gen] = "begun"] ELSE press
      /\ run' = <<m>>
  BY DEF Took
<1>1. /\ Fewer /\ queue' \in Seq(Commands) /\ IsInjective(queue')
      /\ m \in Coming /\ m \in Commands /\ Range(run') = {m}
      /\ run' \in Seq(Commands) /\ Len(run') <= 1
      /\ \A n \in Coming' : ~Twin(n, m)
      /\ NothingComes
  BY CommandTaken DEF IInv
<1>2. /\ lease \in [Keys -> Leases] /\ press \in [Generations -> Gates]
      /\ gens \in Nat /\ 1..gens \subseteq Generations /\ held \in [Keys -> 0..MaxGen]
      /\ m.key \in Keys /\ m.gen \in 1..gens /\ m.gen \in Generations /\ m.gen # 0
  BY <1>1, CoreTypes, AliveTypes DEF IInv
<1>3. \A g \in Generations : \/ press'[g] = press[g]
                             \/ g = m.gen /\ ~m.up /\ press[g] = "queued" /\ press'[g] = "begun"
  BY <1>0, <1>2 DEF Begins
<1>4. \A k \in Keys : \/ held'[k] = held[k]
                      \/ held'[k] = 0
                      \/ k = m.key /\ held'[k] = m.gen /\ ~m.up /\ begun
  BY <1>2
<1>5. \A n \in Coming' : ~n.up /\ ~m.up => n.gen # m.gen
  <2>1. m.up \in BOOLEAN /\ \A n \in Coming' : n.up \in BOOLEAN
    BY <1>1, AliveTypes DEF IInv, Fewer
  <2> QED BY <1>1, <2>1 DEF Twin
<1>6. ~m.up => \A k \in Keys : held[k] # m.gen
  BY <1>1 DEF IInv, CoreInv, PressInv
<1>7. ~m.up /\ begun => press[m.gen] = "queued" /\ (lease[m.key].gen = m.gen \/ m.gen \in overtaken)
  BY <1>0, <1>1 DEF IInv, CoreInv, PressInv, Begins
<1>8. PressInv'
  <2> SUFFICES ASSUME NEW n \in Coming, n \in Coming', ~n.up
               PROVE  /\ press'[n.gen] # "begun"
                      /\ \A l \in Keys : held'[l] # n.gen
                      /\ \A l \in Keys : lease[l].gen = n.gen =>
                             lease[l].phase = "downPending" \/ n.gen \in overtaken
                      /\ \A o \in Alive' : o.up /\ o.gen = n.gen => n.gen \in overtaken
                      /\ press'[n.gen] = "queued" => lease[n.key].gen = n.gen \/ n.gen \in overtaken
    BY <1>0, <1>1 DEF PressInv, Fewer
  <2>1. n.gen \in Generations /\ n.gen # 0 /\ (m.up \/ n.gen # m.gen)
    BY <1>2, <1>5, AliveTypes DEF IInv
  <2>2. press'[n.gen] = press[n.gen]
    BY <1>3, <2>1
  <2>3. \A l \in Keys : held'[l] # n.gen
    BY <1>4, <2>1 DEF IInv, CoreInv, PressInv
  <2> QED BY <1>1, <2>2, <2>3 DEF IInv, CoreInv, PressInv, Fewer
<1>9. SubmitInv'
  <2> SUFFICES ASSUME NEW b \in Actors, At(b, "submit")' PROVE press'[cmd'[b].gen] = "none"
    BY DEF SubmitInv
  <2>1. At(b, "submit") /\ cmd'[b] = cmd[b]
    BY <1>1 DEF NothingComes
  <2>2. cmd[b].gen \in Generations
    BY <2>1, AliveTypes DEF IInv, Carries, At
  <2> QED BY <1>3, <2>1, <2>2 DEF IInv, CoreInv, SubmitInv
<1>10. GateInv'
  <2> SUFFICES ASSUME NEW g \in Generations, NEW k \in Keys
               PROVE  /\ press'[g] = "queued" => held'[k] # g
                      /\ press'[g] = "cancelled" => lease[k].gen # g
    BY <1>0 DEF GateInv
  <2>1. ASSUME press'[g] = "queued" PROVE held'[k] # g
    <3>1. g # 0 /\ press[g] = "queued"
      BY <1>3, <2>1 DEF Generations
    <3>2. CASE held'[k] = m.gen /\ ~m.up /\ begun
      <4>1. press'[m.gen] = "begun"
        BY <1>0, <1>2, <3>2
      <4> QED BY <2>1, <3>2, <4>1
    <3> QED BY <1>4, <3>1, <3>2 DEF IInv, CoreInv, GateInv
  <2>2. press'[g] = "cancelled" => lease[k].gen # g
    BY <1>3 DEF IInv, CoreInv, GateInv
  <2> QED BY <2>1, <2>2
<1>11. UpInv'
  BY <1>0, <1>1 DEF IInv, CoreInv, UpInv, Fewer
<1>12. RunInv'
  BY <1>0, <1>1, <1>2, <1>6 DEF RunInv
<1>13. HeldIsLeased'
  BY <1>0, <1>4, <1>7 DEF IInv, CoreInv, HeldIsLeased
<1>14. CommandGens'
  <2>1. \A g \in Generations : g > gens => press'[g] = "none"
    BY <1>2, <1>3 DEF IInv, GenInv
  <2>2. \A k \in Keys : held'[k] <= gens
    BY <1>2, <1>4 DEF IInv, GenInv
  <2> QED BY <1>0, <1>1, <2>1, <2>2 DEF IInv, GenInv, CommandGens, Fewer
<1>15. MainTypes'
  <2>1. held' \in [Keys -> 0..MaxGen]
    BY <1>2, InputAssumption DEF Commands, Generations
  <2> QED BY <1>0, <1>1, <2>1 DEF IInv, TypeInv, MainTypes
<1> QED BY <1>1, <1>8, <1>9, <1>10, <1>11, <1>12, <1>13, <1>14, <1>15 DEF Commanded, CoreInv, Fewer

\* A command completes, and was the last of its generation and kind.
LEMMA Completed ==
  ASSUME IInv, Fewer, NothingComes, NEW m \in Alive, NEW ok \in BOOLEAN, Complete(m, ok),
         \A n \in Alive' : ~Twin(n, m),
         ~ok /\ ~m.up => \A k \in Keys : held[k] # m.gen,
         ok /\ m.up => held[m.key] = 0,
         RunInv', run' \in Seq(Commands), Len(run') <= 1, outcome' \in {"none", "ok", "failed"},
         UNCHANGED <<queue, held, overtaken>>
  PROVE  Commanded'
<1>0. /\ UNCHANGED <<queue, held, overtaken>> /\ gens' = gens
      /\ lease \in [Keys -> Leases] /\ press \in [Generations -> Gates]
      /\ NoLease.gen = 0
      /\ \A k \in Keys : lease[k] = NoLease \/ lease[k].gen \in 1..gens
      /\ m.key \in Keys /\ m.gen \in 1..gens /\ m.gen \in Generations /\ m.gen # 0
      /\ m.up \in BOOLEAN
  BY CoreTypes, AliveTypes DEF IInv, Complete, UpComplete, DownComplete
\* What becomes of a lease, and of the gate of the press.
<1>1. \A k \in Keys : \/ lease'[k] = lease[k]
                      \/ /\ k = m.key /\ lease[k].gen = m.gen
                         /\ \/ lease'[k] = NoLease /\ (ok <=> m.up)
                            \/ /\ lease'[k].gen = m.gen
                               /\ \/ ~m.up /\ lease[k].phase = "downPending"
                                  \/ m.up
  <2>1. CASE m.up
    <3>1. lease' = [lease EXCEPT ![m.key] = IF @.gen # m.gen THEN @
                                            ELSE IF ok THEN NoLease
                                            ELSE [@ EXCEPT !.phase = "releaseRetry"]]
      BY <2>1 DEF Complete, UpComplete
    <3>2. lease[m.key].gen = m.gen => [lease[m.key] EXCEPT !.phase = "releaseRetry"].gen = m.gen
      BY <1>0 DEF Leases
    <3>3. ok /\ lease[m.key].gen = m.gen => lease'[m.key] = NoLease
      BY <1>0, <3>1
    <3>4. ~ok /\ lease[m.key].gen = m.gen => lease'[m.key].gen = m.gen
      BY <1>0, <3>1, <3>2
    <3>5. \A k \in Keys : k # m.key \/ lease[k].gen # m.gen => lease'[k] = lease[k]
      BY <1>0, <3>1
    <3> QED BY <2>1, <3>3, <3>4, <3>5
  <2>2. CASE ~m.up
    <3>1. CASE lease[m.key].gen = m.gen /\ ok
      <4>1. lease' = [lease EXCEPT ![m.key].phase = IF @ = "downPending" THEN "pressed" ELSE @]
        BY <2>2, <3>1 DEF Complete, DownComplete
      <4>2. lease'[m.key].gen = m.gen /\ \A k \in Keys : k # m.key => lease'[k] = lease[k]
        BY <1>0, <3>1, <4>1 DEF Leases
      <4>3. lease[m.key].phase # "downPending" => lease'[m.key] = lease[m.key]
        BY <1>0, <4>1 DEF Leases
      <4> QED BY <2>2, <3>1, <4>2, <4>3
    <3>2. CASE lease[m.key].gen = m.gen /\ ~ok
      <4>1. lease' = [lease EXCEPT ![m.key] = NoLease]
        BY <2>2, <3>2 DEF Complete, DownComplete
      <4> QED BY <1>0, <2>2, <3>2, <4>1
    <3>3. CASE lease[m.key].gen # m.gen
      BY <2>2, <3>3 DEF Complete, DownComplete
    <3> QED BY <3>1, <3>2, <3>3
  <2> QED BY <1>0, <2>1, <2>2
<1>2. \A g \in Generations : \/ press'[g] = press[g]
                             \/ g = m.gen /\ ~m.up /\ press[g] = "begun" /\ press'[g] = "none"
  BY <1>0 DEF Complete, UpComplete, DownComplete
<1>3. \A n \in Alive' : n \in Alive /\ (n.up = m.up => n.gen # m.gen)
  BY DEF Twin, Fewer
<1>4. PressInv'
  <2> SUFFICES ASSUME NEW n \in Coming, n \in Coming', n \in Alive', ~n.up
               PROVE  /\ press'[n.gen] # "begun"
                      /\ \A l \in Keys : held[l] # n.gen
                      /\ \A l \in Keys : lease'[l].gen = n.gen =>
                             lease'[l].phase = "downPending" \/ n.gen \in overtaken
                      /\ \A o \in Alive' : o.up /\ o.gen = n.gen => n.gen \in overtaken
                      /\ press'[n.gen] = "queued" => lease'[n.key].gen = n.gen \/ n.gen \in overtaken
    <3>1. Coming' \subseteq Alive'
      BY DEF Alive
    <3> QED BY <1>0, <3>1 DEF PressInv, Fewer
  <2>1. n.gen \in Generations /\ n.gen # 0 /\ n.key \in Keys /\ n.up = FALSE
    BY AliveTypes DEF IInv, Generations
  <2>2. /\ press[n.gen] # "begun" /\ \A l \in Keys : held[l] # n.gen
        /\ \A l \in Keys : lease[l].gen = n.gen => lease[l].phase = "downPending" \/ n.gen \in overtaken
        /\ \A o \in Alive : o.up /\ o.gen = n.gen => n.gen \in overtaken
        /\ press[n.gen] = "queued" => lease[n.key].gen = n.gen \/ n.gen \in overtaken
    BY DEF IInv, CoreInv, PressInv
  <2>3. n.gen \in overtaken \/ \A l \in Keys : lease[l].gen = n.gen => lease'[l] = lease[l]
    <3>1. CASE m.up
      BY <1>1, <2>2, <3>1
    <3>2. CASE ~m.up
      BY <1>0, <1>1, <1>3, <2>1, <3>2
    <3> QED BY <3>1, <3>2
  <2>4. \A l \in Keys : lease'[l].gen = n.gen => lease[l].gen = n.gen
    BY <1>0, <1>1, <2>1
  <2>5. press'[n.gen] # "begun" /\ (press'[n.gen] = "queued" => press[n.gen] = "queued")
    BY <1>2, <2>1, <2>2
  <2>6. \A l \in Keys : lease'[l].gen = n.gen => lease'[l].phase = "downPending" \/ n.gen \in overtaken
    BY <2>2, <2>3, <2>4
  <2>7. press'[n.gen] = "queued" => lease'[n.key].gen = n.gen \/ n.gen \in overtaken
    BY <2>1, <2>2, <2>3, <2>5
  <2> QED BY <1>3, <2>2, <2>5, <2>6, <2>7
<1>5. SubmitInv'
  <2> SUFFICES ASSUME NEW b \in Actors, At(b, "submit")' PROVE press'[cmd'[b].gen] = "none"
    BY DEF SubmitInv
  <2>1. At(b, "submit") /\ cmd'[b] = cmd[b]
    BY DEF NothingComes
  <2>2. cmd[b].gen \in Generations
    BY <2>1, AliveTypes DEF IInv, Carries, At
  <2> QED BY <1>2, <2>1, <2>2 DEF IInv, CoreInv, SubmitInv
<1>6. GateInv'
  <2> SUFFICES ASSUME NEW g \in Generations, NEW k \in Keys
               PROVE  /\ press'[g] = "queued" => held[k] # g
                      /\ press'[g] = "cancelled" => lease'[k].gen # g
    BY <1>0 DEF GateInv
  <2>1. lease'[k].gen = g => lease[k].gen = g
    BY <1>0, <1>1 DEF Generations
  <2> QED BY <1>2, <2>1 DEF IInv, CoreInv, GateInv
<1>7. UpInv'
  <2> SUFFICES ASSUME NEW n \in Alive, n \in Alive', n.up, NEW l \in Keys, lease'[l].gen = n.gen
               PROVE  lease'[l].phase = "releasePending"
    BY DEF UpInv, Fewer
  <2>1. n.gen # 0 /\ n.up = TRUE
    BY AliveTypes DEF IInv
  <2>2. lease[l].gen = n.gen
    BY <1>0, <1>1, <2>1
  <2>3. lease[l].phase = "releasePending"
    BY <2>2 DEF IInv, CoreInv, UpInv
  <2>4. lease'[l] = lease[l]
    BY <1>0, <1>1, <1>3, <2>1, <2>2, <2>3
  <2> QED BY <2>3, <2>4
<1>8. HeldIsLeased'
  <2> SUFFICES ASSUME NEW k \in Keys, held[k] # 0, held[k] # lease'[k].gen PROVE held[k] \in overtaken
    BY <1>0 DEF HeldIsLeased
  <2>1. held[k] # lease[k].gen
    BY <1>0, <1>1
  <2> QED BY <2>1 DEF IInv, CoreInv, HeldIsLeased
<1>9. CommandGens'
  BY <1>0, <1>2 DEF IInv, GenInv, CommandGens, Fewer
<1>10. MainTypes'
  BY <1>0 DEF IInv, TypeInv, MainTypes
<1> QED BY <1>4, <1>5, <1>6, <1>7, <1>8, <1>9, <1>10 DEF Commanded, CoreInv, Fewer

\* Every step is one of those.
LEMMA NextCommanded ==
  IInv /\ [Next]_vars => Commanded'
<1> SUFFICES ASSUME IInv, [Next]_vars PROVE Commanded'
  OBVIOUS
<1>0. /\ TypeInv /\ GenInv /\ StepInv /\ UniqueInv /\ ActorTypes
      /\ queue \in Seq(Commands) /\ IsInjective(queue)
      /\ run \in Seq(Commands) /\ Len(run) <= 1 /\ outcome \in {"none", "ok", "failed"}
      /\ pc \in [Actors \union {"shutdown"} -> {"new", "idle", "ready", "submit", "dispatch",
                                               "wait", "release", "exited", "drain", "join"}]
  BY DEF IInv, TypeInv, MainTypes, ActorTypes
<1>a. ASSUME NEW a \in Actors, ActorMoves(a),
             NEW where \in {"idle", "ready", "wait", "release", "exited"},
             pc' = [pc EXCEPT ![a] = where]
      PROVE  NothingComes /\ OnlyComes(a) /\ ~Carries(a)'
  <2>1. pc'[a] = where
    BY <1>0, <1>a
  <2> QED BY <1>a, <2>1, MovesCome
<1>b. ASSUME NothingComes, UNCHANGED <<leaseVars, queue, mainVars, overtaken>> PROVE Commanded'
  <2>1. queue' = queue /\ run' = run
    BY <1>b DEF mainVars
  <2>2. Fewer
    BY <1>0, <1>b, <2>1, NothingNew
  <2> QED BY <1>0, <1>b, <2>1, <2>2, CoreSame
<1>1. ASSUME NEW c \in Clients, Call(c) \/ Client(c), ~Dispatches(c)
      PROVE  Commanded'
  <2>0. c \in Actors
    BY DEF Actors
  <2>1. ActorMoves(c)
    BY <1>0, <1>1, ClientMoves DEF Client
  <2>2. ASSUME UNCHANGED <<leaseVars, queue, mainVars, overtaken>>,
               NEW where \in {"idle", "ready", "release"}, pc' = [pc EXCEPT ![c] = where]
        PROVE  Commanded'
    BY <1>a, <1>b, <2>0, <2>1, <2>2
  <2>3. CASE Call(c) \/ RequireReady(c) \/ Find(c) \/ SelectOwn(c)
    BY <2>2, <2>3 DEF Call, RequireReady, Find, SelectOwn, Succeeds, Throws, Goto
  <2>4. CASE Acquire(c)
    <3>0. /\ pc[c] = "ready" /\ todo[c] # <<>> /\ todo[c] \in Seq(Steps)
          /\ UNCHANGED <<queue, mainVars, overtaken>>
      BY <1>0, <2>0, <2>4 DEF Acquire, At, Doing, ActorTypes
    <3>1. PICK k \in Keys : k = Head(todo[c]).key
      <4>1. Head(todo[c]) \in Steps
        BY <3>0, HeadTailProperties
      <4> QED BY <4>1 DEF Steps
    <3>2. PICK g : g = gens + 1
      OBVIOUS
    <3>3. CASE (Throws(c) \/ Succeeds(c)) /\ UNCHANGED leaseVars
      BY <2>2, <3>0, <3>3 DEF Throws, Succeeds, Goto
    <3>4. CASE /\ lease[k] = NoLease /\ g \in Generations
               /\ lease' = [lease EXCEPT ![k] = [gen |-> g, owner |-> Owner[c], phase |-> "downPending"]]
               /\ gens' = g
               /\ cmd' = [cmd EXCEPT ![c] = Command(k, g, FALSE)]
               /\ UNCHANGED <<press, lift>>
      <4>1. OnlyComes(c)
        BY <2>0, <2>1, MovesCome
      <4>2. cmd'[c] = Command(k, g, FALSE) /\ ~Carries(c)
        BY <1>0, <2>0, <3>0, <3>4 DEF ActorTypes, Carries
      <4> QED BY <2>0, <3>0, <3>2, <3>4, <4>1, <4>2, LeaseGiven
    <3> QED BY <2>4, <3>1, <3>2, <3>3, <3>4 DEF Acquire
  <2>5. CASE SubmitDown(c)
    <3>0. pc[c] = "submit" /\ UNCHANGED <<lease, gens, lift, queue, mainVars, overtaken>>
      BY <2>5 DEF SubmitDown, At
    <3>1. CASE Throws(c) /\ UNCHANGED press
      BY <2>2, <3>0, <3>1 DEF Throws, Goto, leaseVars
    <3>2. CASE /\ lease[cmd[c].key].gen = cmd[c].gen
               /\ press' = [press EXCEPT ![cmd[c].gen] = "queued"]
               /\ pc' = [pc EXCEPT ![c] = "dispatch"]
               /\ UNCHANGED cmd
      <4>1. pc'[c] = "dispatch" /\ OnlyComes(c)
        BY <1>0, <2>0, <2>1, <3>2, MovesCome
      <4>2. NothingComes /\ At(c, "submit") /\ ~At(c, "submit")'
        BY <3>0, <3>2, <4>1 DEF OnlyComes, NothingComes, Carries, At
      <4> QED BY <2>0, <3>0, <3>2, <4>2, PressSubmitted
    <3> QED BY <2>5, <3>1, <3>2 DEF SubmitDown, Goto
  <2> QED BY <1>1, <2>3, <2>4, <2>5 DEF Client
<1>2. ASSUME NEW a \in Actors, Dispatches(a) PROVE Commanded'
  <2>1. ActorMoves(a)
    BY <1>0, <1>2, DispatchesMoves
  <2>2. CASE Dispatch(a)
    <3>1. /\ pc[a] = "dispatch" /\ pc' = [pc EXCEPT ![a] = "wait"] /\ queue' = Append(queue, cmd[a])
          /\ UNCHANGED <<leaseVars, mainVars, overtaken>>
      BY <2>2 DEF Dispatch, At, Goto
    <3>2. NothingComes /\ Carries(a) /\ ~Carries(a)'
      BY <1>a, <2>1, <3>1 DEF Carries
    <3>3. Fewer /\ queue' \in Seq(Commands) /\ IsInjective(queue')
      BY <1>0, <3>1, <3>2, CommandQueued DEF mainVars
    <3> QED BY <3>1, <3>2, <3>3, CoreSame
  <2>3. CASE Timeout(a)
    <3>1. pc' = [pc EXCEPT ![a] = "idle"] /\ UNCHANGED <<leaseVars, mainVars, overtaken>>
      BY <2>3 DEF Timeout, Succeeds, Goto
    <3>2. NothingComes
      BY <1>a, <2>1, <3>1
    <3>3. queue' \in Seq(Commands) /\ IsInjective(queue') /\ Range(queue') \subseteq Range(queue)
      <4>1. CASE \E i \in DOMAIN queue : queue' = RemoveAt(queue, i)
        <5>1. PICK i \in DOMAIN queue : queue' = RemoveAt(queue, i)
          BY <4>1
        <5>2. RemoveAt(queue, i) \in Seq(Commands)
          BY <1>0, RemoveElements
        <5>3. IsInjective(RemoveAt(queue, i)) /\ Range(RemoveAt(queue, i)) = Range(queue) \ {queue[i]}
          BY <1>0, RemoveDistinct
        <5> QED BY <5>1, <5>2, <5>3
      <4>2. CASE queue' = queue
        BY <1>0, <4>2
      <4> QED BY <2>3, <4>1, <4>2 DEF Timeout
    <3>4. Fewer
      BY <1>0, <3>1, <3>2, <3>3, NothingNew DEF mainVars
    <3> QED BY <3>1, <3>2, <3>3, <3>4, CoreSame
  <2>4. CASE DispatchFails(a)
    <3>1. /\ pc[a] = "dispatch" /\ Complete(cmd[a], FALSE)
          /\ UNCHANGED <<queue, run, outcome, held, overtaken>>
      BY <2>4 DEF DispatchFails, At, mainVars
    <3>2. pc' = [pc EXCEPT ![a] = "idle"]
      BY <1>0, <2>4, <3>1, EndsMoves DEF DispatchFails
    <3>3. NothingComes /\ Carries(a) /\ ~Carries(a)'
      BY <1>a, <2>1, <3>1, <3>2 DEF Carries
    <3>4. Fewer
      BY <1>0, <3>1, <3>3, NothingNew
    <3>5. \A n \in Alive' : ~Twin(n, cmd[a])
      BY <1>0, <3>1, <3>3, NoTwinLeft
    <3>6. PICK m \in Alive : m = cmd[a]
      BY <3>3 DEF Alive, Coming
    <3>7. m \in Coming /\ Complete(m, FALSE) /\ \A n \in Alive' : ~Twin(n, m)
      BY <3>1, <3>3, <3>5, <3>6 DEF Coming, Complete, UpComplete, DownComplete
    <3>8. ~m.up => \A k \in Keys : held[k] # m.gen
      BY <3>7 DEF IInv, CoreInv, PressInv
    <3>9. RunInv'
      BY <3>1 DEF IInv, CoreInv, RunInv
    <3> QED BY <1>0, <3>1, <3>3, <3>4, <3>7, <3>8, <3>9, Completed
  <2>5. CASE ReleaseGeneration(a)
    <3>0. /\ pc[a] \in {"release", "idle"}
          /\ \/ At(a, "release")
             \/ At(a, "idle") /\ Doing(a, "release")
          /\ UNCHANGED <<queue, mainVars>> /\ cmd \in [Actors -> Commands]
      BY <1>0, <2>5 DEF ReleaseGeneration, At, ActorTypes
    <3>1. PICK m \in Commands : m = Target(a) /\ m.up /\ m.gen \in 1..gens
      BY <1>0, <3>0, TargetKnown
    <3>2. CASE Succeeds(a) /\ UNCHANGED <<leaseVars, overtaken>>
      <4>1. NothingComes
        BY <1>a, <2>1, <3>2 DEF Succeeds, Goto
      <4> QED BY <1>b, <3>0, <3>2, <4>1
    <3>3. CASE /\ lease[m.key].gen = m.gen /\ press[m.gen] = "queued"
               /\ press' = [press EXCEPT ![m.gen] = "cancelled"]
               /\ lease' = [lease EXCEPT ![m.key] = NoLease]
               /\ Succeeds(a)
               /\ UNCHANGED <<gens, lift, overtaken>>
      <4>1. NothingComes
        BY <1>a, <2>1, <3>3 DEF Succeeds, Goto
      <4>2. Fewer
        BY <1>0, <3>0, <4>1, NothingNew DEF mainVars
      <4>3. /\ m.key \in Keys /\ lease \in [Keys -> Leases] /\ press \in [Generations -> Gates]
            /\ lease[m.key] # NoLease
        BY <3>1, <3>3, CoreTypes DEF Commands
      <4>4. PICK revoked \in SUBSET Keys : revoked = {m.key}
        BY <4>3
      <4>5. /\ \A k \in revoked : lease[k] # NoLease /\ press[lease[k].gen] = "queued"
            /\ \A k \in Keys : lease'[k] = IF k \in revoked THEN NoLease ELSE lease[k]
            /\ \A g \in Generations : press'[g] = IF \E k \in revoked : lease[k].gen = g
                                                  THEN "cancelled" ELSE press[g]
        BY <3>3, <4>3, <4>4
      <4> QED BY <3>0, <3>3, <4>1, <4>2, <4>5, PressesRevoked
    <3>4. CASE /\ lease[m.key].gen = m.gen /\ lease[m.key].phase # "releasePending"
               /\ ~(lease[m.key].phase = "downPending" /\ press[m.gen] = "queued")
               /\ lease' = [lease EXCEPT ![m.key].phase = "releasePending"]
               /\ overtaken' = IF lease[m.key].phase = "downPending" /\ press[m.gen] = "none"
                               THEN overtaken \union {m.gen} ELSE overtaken
               /\ cmd' = [cmd EXCEPT ![a] = m]
               /\ pc' = [pc EXCEPT ![a] = "dispatch"]
               /\ UNCHANGED <<gens, press>>
      <4>1. OnlyComes(a) /\ ~Carries(a) /\ ~At(a, "submit")' /\ cmd'[a] = m
        BY <1>0, <2>1, <3>0, <3>4, MovesCome DEF Carries, At
      <4> QED BY <3>0, <3>1, <3>4, <4>1, ReleaseDecided
    <3> QED BY <2>5, <3>1, <3>2, <3>3, <3>4
            DEF ReleaseGeneration, SameLease, Pending, Revokes, Goto
  <2> QED BY <1>2, <2>2, <2>3, <2>4, <2>5 DEF Dispatches
<1>3. ASSUME WatchdogSelects \/ WatchdogExits PROVE Commanded'
  <2>1. "watchdog" \in Actors /\ ActorMoves("watchdog")
    BY <1>0, <1>3, WatchdogMoves DEF Actors
  <2>2. CASE WatchdogSelects
    <3>1. pc' = pc /\ pc["watchdog"] = "idle"
      BY <2>2 DEF WatchdogSelects, At
    <3>2. pc' = [pc EXCEPT !["watchdog"] = "idle"]
      BY <1>0, <3>1
    <3> QED BY <1>a, <1>b, <2>1, <2>2, <3>2 DEF WatchdogSelects
  <2>3. CASE WatchdogExits
    BY <1>a, <1>b, <2>1, <2>3 DEF WatchdogExits, Goto
  <2> QED BY <1>3, <2>2, <2>3
<1>4. CASE MainApplies
  <2>1. PICK m : Took(m, TRUE) /\ outcome' = "ok" /\ held' = [held EXCEPT ![m.key] = IF m.up THEN 0 ELSE m.gen]
    BY <1>4 DEF MainApplies
  <2> QED BY <2>1, Taken
<1>5. CASE MainRefuses
  <2>1. PICK m, begun : Took(m, begun) /\ outcome' = "failed" /\ held' = held
    BY <1>5 DEF MainRefuses
  <2> QED BY <2>1, Taken
<1>6. CASE MainCompletes
  <2>1. /\ run[1] \in Commands /\ Range(run) = {run[1]} /\ run[1] \in Alive
        /\ \E ok \in BOOLEAN : (ok <=> outcome = "ok") /\ Complete(run[1], ok)
    BY <1>0, <1>6, MainCompletesRun
  <2>2. PICK ok \in BOOLEAN : (ok <=> outcome = "ok") /\ Complete(run[1], ok)
    BY <2>1
  <2>3. PICK m \in Alive : m = run[1]
    BY <2>1
  <2>4. Complete(m, ok)
    BY <2>2, <2>3 DEF Complete, UpComplete, DownComplete
  <2>5. run' = <<>> /\ outcome' = "none" /\ UNCHANGED <<queue, held, overtaken>>
    BY <1>6 DEF MainCompletes
  <2>6. Range(run') = {}
    BY <2>5 DEF Range
  <2>7. NothingComes
    <3>1. CASE UNCHANGED actorVars
      BY <3>1 DEF actorVars, NothingComes, Carries, At
    <3>2. CASE \E a \in Actors : At(a, "wait") /\ Ends(a, outcome = "ok")
      <4>1. PICK a \in Actors : pc[a] = "wait" /\ Ends(a, outcome = "ok")
        BY <3>2 DEF At
      <4>2. ActorMoves(a) /\ pc' = [pc EXCEPT ![a] = "idle"]
        BY <1>0, <4>1, EndsMoves
      <4> QED BY <1>a, <4>2
    <3> QED BY <1>6, <3>1, <3>2 DEF MainCompletes
  <2>8. Fewer
    BY <1>0, <2>5, <2>6, <2>7, NothingNew
  <2>9. \A n \in Alive' : ~Twin(n, m)
    <3>1. \A b \in Actors : Carries(b)' => Carries(b) /\ cmd'[b] = cmd[b]
      BY <2>7 DEF NothingComes
    <3>2. \A b \in Actors : Carries(b)' => ~Twin(cmd'[b], m)
      BY <1>0, <2>1, <2>3, <3>1 DEF UniqueInv
    <3>3. \A n \in Range(queue') : ~Twin(n, m)
      BY <1>0, <2>1, <2>3, <2>5 DEF UniqueInv
    <3> QED BY <2>6, <3>2, <3>3 DEF Alive, Coming
  <2>10. /\ ~ok /\ ~m.up => \A k \in Keys : held[k] # m.gen
         /\ ok /\ m.up => held[m.key] = 0
    BY <2>1, <2>2, <2>3 DEF IInv, CoreInv, RunInv
  <2>11. RunInv'
    BY <2>5, <2>6 DEF RunInv
  <2>12. run' \in Seq(Commands) /\ Len(run') <= 1
    BY <2>5
  <2> QED BY <2>4, <2>5, <2>7, <2>8, <2>9, <2>10, <2>11, <2>12, Completed
<1>7. ASSUME CancelQueuedDowns, \A b \in Actors : pc'[b] = pc[b],
             UNCHANGED <<cmd, queue, mainVars, overtaken>>
      PROVE  Commanded'
  <2>1. NothingComes
    BY <1>7 DEF NothingComes, Carries, At
  <2>2. Fewer
    BY <1>0, <1>7, <2>1, NothingNew DEF mainVars
  <2>3. PICK revoked \in SUBSET Keys :
           revoked = {k \in Held : lease[k].phase = "downPending" /\ Revokes(lease[k].gen)}
    BY DEF Held
  <2>4. /\ \A k \in revoked : lease[k] # NoLease /\ press[lease[k].gen] = "queued"
        /\ \A k \in Keys : lease'[k] = IF k \in revoked THEN NoLease ELSE lease[k]
        /\ \A g \in Generations : press'[g] = IF \E k \in revoked : lease[k].gen = g
                                              THEN "cancelled" ELSE press[g]
        /\ UNCHANGED <<gens, lift>>
    BY <1>7, <2>3 DEF CancelQueuedDowns, Held, Revokes
  <2> QED BY <1>7, <2>1, <2>2, <2>4, PressesRevoked
<1>8. CASE ReleaseForLifecycle \/ ShutdownBegins \/ ShutdownStops
  <2>1. \A b \in Actors : pc'[b] = pc[b]
    <3>1. "shutdown" \notin Actors
      BY InputAssumption DEF Actors
    <3> QED BY <1>0, <1>8, <3>1 DEF ReleaseForLifecycle, ShutdownBegins, ShutdownStops, Goto, actorVars
  <2> QED BY <1>7, <1>8, <2>1 DEF ReleaseForLifecycle, ShutdownBegins, ShutdownStops, actorVars
<1>9. CASE UNCHANGED vars
  <2>1. NothingComes
    BY <1>9 DEF vars, actorVars, NothingComes, Carries, At
  <2> QED BY <1>9, <1>b, <2>1 DEF vars
<1>10. CASE \E c \in Clients : Call(c) \/ Client(c)
  <2>1. PICK c \in Clients : Call(c) \/ Client(c)
    BY <1>10
  <2>2. c \in Actors
    BY DEF Actors
  <2> QED BY <1>1, <1>2, <2>1, <2>2
<1>11. CASE Watchdog
  <2>1. "watchdog" \in Actors
    BY DEF Actors
  <2> QED BY <1>2, <1>3, <1>11, <2>1 DEF Watchdog
<1> QED BY <1>4, <1>5, <1>6, <1>8, <1>9, <1>10, <1>11 DEF Next, Main

-----------------------------------------------------------------------------
\* The invariant is inductive.

LEMMA InitIInv == Init => IInv
<1> SUFFICES ASSUME Init PROVE IInv
  OBVIOUS
<1>0. /\ lease = [k \in Keys |-> NoLease] /\ gens = 0
      /\ press = [g \in Generations |-> "none"] /\ lift = [g \in Generations |-> "none"]
      /\ pc = [a \in Actors \union {"shutdown"} |-> IF a \in Clients THEN "new" ELSE "idle"]
      /\ todo = [a \in Actors |-> <<>>] /\ opened = [a \in Actors |-> {}]
      /\ cmd = [a \in Actors |-> NoCommand]
      /\ queue = <<>> /\ run = <<>> /\ outcome = "none"
      /\ held = [k \in Keys |-> 0] /\ overtaken = {}
      /\ accepting = TRUE /\ lifecycle = FALSE /\ stop = FALSE
      /\ MaxGen \in Nat /\ MaxHeld \in Nat /\ "shutdown" \notin Actors
  BY InputAssumption DEF Init, Actors
<1>1. Range(queue) = {} /\ Range(run) = {} /\ \A a \in Actors : Range(todo[a]) = {}
  BY <1>0 DEF Range
<1>2. /\ \A a \in Actors : pc[a] \in {"new", "idle"}
      /\ \A a \in Actors : ~Carries(a) /\ ~HasCommand(a)
      /\ \A a \in Actors : Plan(a) = {} /\ opened[a] = {}
  <2>1. \A a \in Actors : pc[a] \in {"new", "idle"}
    BY <1>0
  <2> QED BY <1>0, <1>1, <2>1 DEF Carries, HasCommand, Plan
<1>3. Coming = {} /\ Alive = {} /\ Held = {} /\ \A a \in Actors : Known(a) = {}
  BY <1>0, <1>1, <1>2 DEF Coming, Alive, Held, Known
<1>4. TypeInv
  <2>1. LeaseTypes
    BY <1>0 DEF LeaseTypes, NoLease, Leases, Gates
  <2>2. HeldTypes
    BY <1>0, <1>3, FS_EmptySet DEF HeldTypes
  <2>3. ActorTypes
    <3>1. NoCommand \in Commands
      <4>1. (CHOOSE k \in Keys : TRUE) \in Keys
        BY InputAssumption
      <4> QED BY <4>1, InputAssumption DEF NoCommand, Command, Commands
    <3>2. pc \in [Actors \union {"shutdown"} ->
                     {"new", "idle", "ready", "submit", "dispatch", "wait", "release", "exited",
                      "drain", "join"}]
      BY <1>0
    <3>3. (\A a \in Actors : pc[a] \notin {"drain", "join"}) /\ pc["shutdown"] = "idle"
      BY <1>0, <1>2, InputAssumption
    <3>4. todo \in [Actors -> Seq(Steps)]
      BY <1>0
    <3>5. opened \in [Actors -> SUBSET Steps] /\ \A a \in Actors : IsFiniteSet(opened[a])
      BY <1>0, FS_EmptySet
    <3>6. cmd \in [Actors -> Commands]
      BY <1>0, <3>1
    <3> QED BY <3>2, <3>3, <3>4, <3>5, <3>6 DEF ActorTypes
  <2>4. SwitchTypes /\ MainTypes
    <3>1. queue \in Seq(Commands) /\ run \in Seq(Commands) /\ Len(run) <= 1
      BY <1>0
    <3>2. DOMAIN queue = {}
      BY <1>0
    <3>3. IsInjective(queue)
      BY <3>2 DEF IsInjective
    <3>4. held \in [Keys -> 0..MaxGen]
      BY <1>0
    <3> QED BY <1>0, <3>1, <3>3, <3>4 DEF SwitchTypes, MainTypes
  <2> QED BY <2>1, <2>2, <2>3, <2>4 DEF TypeInv
<1>5. GenInv
  BY <1>0, <1>3 DEF GenInv
<1>6. StepInv /\ OwnInv /\ UniqueInv
  <2>1. StepInv
    BY <1>2 DEF StepInv, StepOk, At
  <2>2. OwnInv
    BY <1>3 DEF OwnInv, Actors
  <2> QED BY <1>1, <1>2, <2>1, <2>2 DEF UniqueInv
<1>7. CoreInv
  <2>1. PressInv /\ UpInv
    BY <1>3 DEF PressInv, UpInv
  <2>2. SubmitInv /\ GateInv /\ RunInv /\ HeldIsLeased
    BY <1>0, <1>1, <1>2 DEF SubmitInv, At, GateInv, RunInv, HeldIsLeased
  <2> QED BY <2>1, <2>2 DEF CoreInv
<1> QED BY <1>4, <1>5, <1>6, <1>7 DEF IInv

LEMMA NextIInv == IInv /\ [Next]_vars => IInv'
<1> SUFFICES ASSUME IInv, [Next]_vars PROVE IInv'
  OBVIOUS
<1>0. TypeInv /\ GenInv /\ StepInv /\ OwnInv
  BY DEF IInv
<1>1. LeaseTypes' /\ HeldTypes' /\ ActorTypes' /\ StepInv'
  BY <1>0, NextLeases, NextActors
<1>2. /\ OwnInv'
      /\ \A k \in Keys : lease'[k] = NoLease \/ lease'[k].gen \in 1..gens'
      /\ \A a \in Actors : Known(a)' \subseteq 1..gens'
  BY <1>0, NextOwn
<1>3. Commanded'
  BY NextCommanded
<1>4. SwitchTypes'
  <2>1. SwitchTypes
    BY <1>0 DEF TypeInv
  <2>2. CASE ReleaseForLifecycle \/ ShutdownBegins \/ ShutdownStops \/ Watchdog
    BY <2>1, <2>2 DEF SwitchTypes, ReleaseForLifecycle, ShutdownBegins, ShutdownStops, Watchdog,
       WatchdogSelects, WatchdogExits, Dispatches, ReleaseGeneration, Dispatch, DispatchFails,
       Timeout, switches
  <2>3. CASE Main \/ UNCHANGED vars
    BY <2>1, <2>3 DEF SwitchTypes, Main, MainApplies, MainRefuses, MainCompletes, Took, vars, switches
  <2>4. CASE \E c \in Clients : Call(c) \/ Client(c)
    BY <2>1, <2>4 DEF SwitchTypes, Call, Client, RequireReady, Acquire, SubmitDown, Find, SelectOwn,
       Dispatches, ReleaseGeneration, Dispatch, DispatchFails, Timeout, switches
  <2> QED BY <2>2, <2>3, <2>4 DEF Next
<1>5. TypeInv' /\ GenInv'
  BY <1>1, <1>2, <1>3, <1>4 DEF TypeInv, GenInv, Commanded, CommandGens
<1> QED BY <1>1, <1>2, <1>3, <1>5 DEF IInv, Commanded

THEOREM Invariant == Spec => []IInv
<1> QED BY InitIInv, NextIInv, PTL DEF Spec

-----------------------------------------------------------------------------
\* The types, with the limit on held keys and the uniqueness of generations and
\* of queued commands: nothing the listener threads, the watchdog, the lifecycle
\* messages and Shutdown do to leases, gates and queue breaks them.
THEOREM TypeCorrect == Spec => []TypeOK
<1>1. IInv => TypeOK
  <2> SUFFICES ASSUME IInv PROVE TypeOK
    OBVIOUS
  <2>1. \A a \in Actors :
           pc[a] \in {"new", "idle", "ready", "submit", "dispatch", "wait", "release", "exited"}
    BY DEF IInv, TypeInv, ActorTypes
  <2> QED BY <2>1 DEF IInv, TypeInv, LeaseTypes, HeldTypes, ActorTypes, SwitchTypes, MainTypes, TypeOK
<1> QED BY <1>1, Invariant, PTL

\* A key that the game believes pressed has a lease, unless the release of that
\* lease overtook its press between Acquire and SubmitDown: no order of presses,
\* releases, timeouts, refusals and lifecycle messages leaves a key down that
\* nobody would release, but that one.
THEOREM HeldLeased == Spec => []HeldIsLeased
<1>1. IInv => HeldIsLeased
  BY DEF IInv, CoreInv
<1> QED BY <1>1, Invariant, PTL

\* A client that looked a lease up and releases it in a later critical section
\* never ends a lease of another owner: generations are not reused.
THEOREM OwnReleased == Spec => OnlyOwnReleased
<1>1. IInv /\ [Next]_vars => [\A c \in Clients, k \in Keys :
          (ReleaseGeneration(c) /\ lease[k] # NoLease /\ lease[k].owner # Owner[c])
              => lease'[k] = lease[k]]_vars
  <2> SUFFICES ASSUME IInv, NEW c \in Clients, NEW k \in Keys, ReleaseGeneration(c),
                      lease[k].owner # Owner[c]
               PROVE  lease'[k] = lease[k]
    OBVIOUS
  <2>1. c \in Actors
    BY DEF Actors
  <2>2. PICK m \in Commands : m = Target(c) /\ m.gen \in Known(c)
    BY <2>1, TargetKnown DEF IInv, ReleaseGeneration
  <2>3. lease[k].gen # m.gen
    BY <2>2 DEF IInv, OwnInv, OwnedBy
  <2>4. lease \in [Keys -> Leases]
    BY CoreTypes
  <2>5. \/ lease' = lease
        \/ /\ lease[m.key].gen = m.gen
           /\ \/ lease' = [lease EXCEPT ![m.key] = NoLease]
              \/ lease' = [lease EXCEPT ![m.key].phase = "releasePending"]
    BY <2>2 DEF ReleaseGeneration, SameLease, leaseVars
  <2> QED BY <2>3, <2>4, <2>5
<1> QED BY <1>1, Invariant, PTL DEF Spec, OnlyOwnReleased

-----------------------------------------------------------------------------
(***************************************************************************)
(* VR's tracked-set sequences. A sequence is one generation of the         *)
(* transaction, and a thread acts for the generation that it was started   *)
(* with. The invariant says of the latest generation who may still touch   *)
(* it: one start is about it, a task on the main thread has one thread     *)
(* waiting for it or none, what was applied is what the frames say and     *)
(* what is kept is the game's own, and its end was published by whoever    *)
(* claimed it or is written down for whoever restores. A thread of an      *)
(* earlier generation finds another one and leaves it alone.               *)
(***************************************************************************)
CONSTANTS Starts, Stops, Lifecycles, Submitted, Whose, Internal, Survives, Forced, Token, Reason,
          Space, Own, Attempts, Fails, Exhausted, None

VARIABLES ready, hooked, events, txn, current, pendingEvent, published, recovery, game, previous,
          thread, frames, tasks, running, silent, fails

VR == INSTANCE VRInput WITH Owner <- Whose, Force <- Forced


\* The starts that have begun a sequence.
Outside == {"idle", "checked", "refused"}
Entered == {s \in Starts : thread[VR!Start(s)].pc \notin Outside}

\* Where a thread is about a sequence, and which.
Acting == {"apply", "applying", "commit", "spawn", "play", "finish", "restore", "restoring", "giveUp",
           "wait", "detach", "schedule", "spawnRecovery", "sleep", "clear"}
Of(t) == thread[t].gen

\* A sequence is starting, played, being restored or claimed by who finishes it.
TransactionInv ==
    /\ txn.claimed => ~txn.starting /\ ~txn.active
    /\ txn.claimed /\ txn.restoring => txn.applied
    /\ txn.active => txn.applied /\ ~txn.starting /\ ~txn.restoring
    /\ txn.starting => ~txn.restoring
    /\ txn.applied => txn.starting \/ txn.active \/ txn.restoring
    /\ txn.generation # 0 => txn.claimed \/ txn.starting \/ txn.active \/ txn.restoring
    /\ txn.generation = 0 => ~txn.claimed /\ ~txn.starting /\ ~txn.active /\ ~txn.restoring

\* A start has a generation of its own, and the latest is the transaction's.
StartInv ==
    /\ txn.generation = Cardinality(Entered)
    /\ \A s \in Entered : Of(VR!Start(s)) # 0
    /\ \A s, u \in Entered : Of(VR!Start(s)) = Of(VR!Start(u)) => s = u
    /\ txn.generation # 0 => txn.token \in Entered /\ Of(VR!Start(txn.token)) = txn.generation
    /\ \A s \in Starts : ~VR!At(VR!Start(s), "idle") /\ ~VR!At(VR!Start(s), "refused") => VR!Valid(frames[s])

\* A thread acts for a sequence that has begun.
ThreadInv ==
    /\ \A t \in VR!Threads : Of(t) <= txn.generation /\ (thread[t].pc \in Acting => Of(t) # 0)
    /\ \A t \in VR!Threads : thread[t].pc \in {"apply", "applying", "commit", "spawn"} =>
          \E s \in Starts : t = VR!Start(s)
    /\ \A s \in Starts : ~VR!At(VR!Playback(s), "idle") => VR!At(VR!Start(s), "queued") /\ Of(VR!Playback(s)) = Of(VR!Start(s))
    /\ \A l \in Lifecycles : ~VR!At(VR!Cleanup(l), "idle") => thread[VR!Caller(l)].pc \in {"unready", "done"}
    /\ \A g \in VR!Generations : ~VR!At(VR!Recovery(g), "idle") => Of(VR!Recovery(g)) = g
    /\ \A g \in VR!Generations : thread[VR!Recovery(g)].pc \notin {"schedule", "spawnRecovery"}

\* There is one recovery of a sequence, or one about to be started.
RecoveryInv ==
    /\ \A g \in VR!Generations :
          thread[VR!Recovery(g)].pc \notin {"idle", "done"} /\ g = txn.generation => recovery = g
    /\ \A t \in VR!Threads : VR!At(t, "spawnRecovery") =>
          /\ VR!Mine(t) => recovery = Of(t)
          /\ thread[VR!Recovery(Of(t))].pc \in {"idle", "done"}
          /\ \A u \in VR!Threads : VR!At(u, "spawnRecovery") /\ Of(u) = Of(t) => u = t

\* A task that is waited for is its thread's.
WaitsFor(t, k) == thread[t].pc = (IF k.kind = "apply" THEN "applying" ELSE "restoring") /\ k.gen = Of(t)
TaskInv ==
    /\ \A i \in DOMAIN tasks : tasks[i].thread \in VR!Threads /\ WaitsFor(tasks[i].thread, tasks[i])
    /\ running # None => running.gen <= txn.generation
    /\ running # None /\ running.thread # None =>
          /\ running.thread \in VR!Threads /\ WaitsFor(running.thread, running)
          /\ \A i \in DOMAIN tasks : tasks[i].thread # running.thread

\* The controllers of a sequence are given once.
ApplyInv ==
    /\ \A t \in VR!Threads : VR!At(t, "apply") /\ VR!Mine(t) => ~txn.applied
    /\ \A i \in DOMAIN tasks : tasks[i].kind = "apply" /\ tasks[i].gen = txn.generation => ~txn.applied
    /\ running # None /\ running.kind = "apply" =>
          /\ running.gen = txn.generation => ~txn.applied
          /\ \A t \in VR!Threads : VR!At(t, "apply") => Of(t) # running.gen
          /\ \A i \in DOMAIN tasks : tasks[i].kind = "apply" => tasks[i].gen # running.gen

\* Who restores the game has claimed the end of its sequence, or somebody before.
RestoreInv ==
    /\ \A t \in VR!Threads :
          VR!Mine(t) /\ thread[t].pc \in {"restore", "restoring", "giveUp", "wait"} => txn.claimed
    /\ running # None /\ running.kind = "restore" /\ running.gen = txn.generation => txn.claimed
    /\ \A s \in Stops : VR!At(VR!Stop(s), "stopped") /\ VR!Mine(VR!Stop(s)) => txn.claimed /\ ~txn.applied
    /\ \A t \in VR!Threads : VR!Mine(t) /\ thread[t].pc \in {"schedule", "spawnRecovery", "sleep"} =>
          txn.claimed \/ txn.generation \in silent
    /\ \A g \in VR!Generations :
          g = txn.generation /\ ~VR!At(VR!Recovery(g), "idle") => txn.claimed \/ g \in silent

\* What the game's controllers and the hooks have.
Sides(f) == [left |-> f.left, right |-> f.right]
GameInv ==
    /\ ~txn.applied => game = Own
    /\ txn.applied => previous = Own /\ game = Sides(frames[txn.token][1])
    /\ txn.active => \E i \in DOMAIN frames[txn.token] : current = frames[txn.token][i]

\* What was published of a sequence, and what is still to be.
Ended(g) == \E e \in Range(published) : e.gen = g /\ e.event \in VR!Terminal
EventInv ==
    /\ \A i \in DOMAIN published : published[i].gen <= txn.generation
    /\ \A i, j \in DOMAIN published : i < j /\ published[i].gen = published[j].gen =>
          published[i].event = "started" /\ published[j].event \in VR!Terminal
    /\ \A i \in DOMAIN published : published[i].gen = txn.generation =>
          IF published[i].event = "started" THEN ~txn.starting ELSE txn.claimed /\ ~txn.restoring
    /\ \A t \in VR!Threads : thread[t].pc \in {"play", "finish"} =>
          thread[t].event \in VR!Terminal \/ \E g \in VR!Generations : t = VR!Recovery(g)
    /\ txn.claimed /\ txn.generation \notin silent =>
          IF txn.restoring THEN pendingEvent \in VR!Terminal ELSE events => Ended(txn.generation)

TrackedCore ==
    /\ TransactionInv /\ StartInv /\ ThreadInv /\ RecoveryInv /\ TaskInv /\ ApplyInv /\ RestoreInv
    /\ GameInv /\ EventInv
VRInv == VR!TypeOK /\ TrackedCore

-----------------------------------------------------------------------------
\* The threads are told apart.
LEMMA Names ==
  /\ \A s \in Starts : VR!Start(s) \in VR!Threads /\ VR!Playback(s) \in VR!Threads
  /\ \A s \in Stops : VR!Stop(s) \in VR!Threads
  /\ \A l \in Lifecycles : VR!Caller(l) \in VR!Threads /\ VR!Cleanup(l) \in VR!Threads
  /\ \A g \in VR!Generations : VR!Recovery(g) \in VR!Threads
BY DEF VR!Threads

LEMMA OwnNames ==
  /\ \A x, y : VR!Start(x) = VR!Start(y) => x = y
  /\ \A x, y : VR!Playback(x) = VR!Playback(y) => x = y
  /\ \A x, y : VR!Recovery(x) = VR!Recovery(y) => x = y
  /\ \A x, y : VR!Start(x) # VR!Playback(y) /\ VR!Start(x) # VR!Stop(y) /\ VR!Start(x) # VR!Caller(y)
               /\ VR!Start(x) # VR!Cleanup(y) /\ VR!Start(x) # VR!Recovery(y)
  /\ \A x, y : VR!Playback(x) # VR!Stop(y) /\ VR!Playback(x) # VR!Caller(y) /\ VR!Playback(x) # VR!Cleanup(y)
               /\ VR!Playback(x) # VR!Recovery(y)
  /\ \A x, y : VR!Stop(x) # VR!Caller(y) /\ VR!Stop(x) # VR!Cleanup(y) /\ VR!Stop(x) # VR!Recovery(y)
  /\ \A x, y : VR!Caller(x) # VR!Cleanup(y) /\ VR!Caller(x) # VR!Recovery(y) /\ VR!Cleanup(x) # VR!Recovery(y)
<1>1. \A x, y : VR!Start(x)[1] = "start" /\ VR!Playback(x)[1] = "playback" /\ VR!Stop(x)[1] = "stop"
                /\ VR!Caller(x)[1] = "lifecycle" /\ VR!Cleanup(x)[1] = "cleanup" /\ VR!Recovery(x)[1] = "recovery"
  BY DEF VR!Start, VR!Playback, VR!Stop, VR!Caller, VR!Cleanup, VR!Recovery
<1>2. \A x : VR!Start(x)[2] = x /\ VR!Playback(x)[2] = x /\ VR!Recovery(x)[2] = x
  BY DEF VR!Start, VR!Playback, VR!Recovery
<1> QED BY <1>1, <1>2

LEMMA Kinds ==
  /\ \A x : VR!Start(x)[1] = "start" /\ VR!Playback(x)[1] = "playback" /\ VR!Stop(x)[1] = "stop"
            /\ VR!Caller(x)[1] = "lifecycle" /\ VR!Cleanup(x)[1] = "cleanup" /\ VR!Recovery(x)[1] = "recovery"
  /\ \A t \in VR!Threads : t[1] = "start" => \E s \in Starts : t = VR!Start(s)
  /\ \A t \in VR!Threads : t[1] = "recovery" => \E g \in VR!Generations : t = VR!Recovery(g)
<1>1. \A x : VR!Start(x)[1] = "start" /\ VR!Playback(x)[1] = "playback" /\ VR!Stop(x)[1] = "stop"
             /\ VR!Caller(x)[1] = "lifecycle" /\ VR!Cleanup(x)[1] = "cleanup" /\ VR!Recovery(x)[1] = "recovery"
  BY DEF VR!Start, VR!Playback, VR!Stop, VR!Caller, VR!Cleanup, VR!Recovery
<1> QED BY <1>1 DEF VR!Threads

\* The instance has operators of its own for what its modules define.
LEMMA SameOperators ==
  /\ \A S : VR!Cardinality(S) = Cardinality(S) /\ (VR!IsFiniteSet(S) <=> IsFiniteSet(S))
  /\ \A f : VR!Range(f) = Range(f)
  /\ \A q, i : VR!RemoveAt(q, i) = RemoveAt(q, i)
<1>1. \A S : VR!Cardinality(S) = Cardinality(S)
  BY Zenon DEF VR!Cardinality, Cardinality
<1>2. \A S : (VR!IsFiniteSet(S) <=> IsFiniteSet(S))
  BY Zenon DEF VR!IsFiniteSet, IsFiniteSet
<1>3. \A f : VR!Range(f) = Range(f)
  BY DEF VR!Range, Range
<1>4. \A q, i : VR!RemoveAt(q, i) = RemoveAt(q, i)
  BY DEF VR!RemoveAt, RemoveAt
<1> QED BY <1>1, <1>2, <1>3, <1>4

\* The numbers of the sequences.
LEMMA Numbers ==
  ASSUME VR!VRAssumption
  PROVE  /\ Cardinality(Starts) \in Nat
         /\ VR!Generations = 1..Cardinality(Starts) /\ VR!Known = 0..Cardinality(Starts)
         /\ \A g \in VR!Known : g \in Nat /\ (g # 0 => g \in VR!Generations)
         /\ 0 \in VR!Known /\ VR!Generations \subseteq VR!Known
<1>1. Cardinality(Starts) \in Nat
  <2>1. IsFiniteSet(Starts)
    BY SameOperators DEF VR!VRAssumption
  <2> QED BY <2>1, FS_CardinalityType
<1>2. VR!Generations = 1..Cardinality(Starts)
  BY SameOperators DEF VR!Generations
<1> QED BY <1>1, <1>2 DEF VR!Known

\* A frame of a sequence is of its controllers, which differ.
LEMMA Pairs ==
  ASSUME VR!VRAssumption, NEW f \in Submitted, VR!Valid(f)
  PROVE  /\ 1 \in DOMAIN f /\ f[1] \in VR!Frame /\ DOMAIN f = 1..Len(f) /\ Len(f) \in Nat
         /\ \A i \in DOMAIN f : /\ f[i] \in VR!Frame /\ f[i].left = f[1].left /\ f[i].right = f[1].right
                                /\ f[i].left # f[i].right
<1>1. f \in Seq(VR!Frame) /\ f # <<>>
  BY DEF VR!VRAssumption, VR!Valid
<1>2. 1 \in DOMAIN f /\ f[1] \in VR!Frame /\ DOMAIN f = 1..Len(f) /\ Len(f) \in Nat
  BY <1>1
<1>3. ASSUME NEW i \in DOMAIN f
      PROVE  f[i] \in VR!Frame /\ f[i].left = f[1].left /\ f[i].right = f[1].right /\ f[i].left # f[i].right
  <2>1. f[i].left = f[1].left /\ f[i].right = f[1].right /\ Cardinality({0, f[i].left, f[i].right}) = 3
    BY <1>3, SameOperators DEF VR!Valid
  <2>0. f[i] \in VR!Frame
    BY <1>1, <1>3
  <2>2. ASSUME f[i].left = f[i].right PROVE FALSE
    <3>1. {0, f[i].left, f[i].right} = {0} \union {f[i].left}
      BY <2>2
    <3>2. IsFiniteSet({0}) /\ Cardinality({0}) = 1
      BY FS_Singleton
    <3>3. Cardinality({0} \union {f[i].left}) \in {1, 2}
      BY <3>2, FS_AddElement
    <3> QED BY <2>1, <3>1, <3>3
  <2> QED BY <2>0, <2>1, <2>2
<1> QED BY <1>2, <1>3

-----------------------------------------------------------------------------
(* What a step of one thread leaves alone.                                 *)
Early == {"apply", "applying", "commit", "spawn"}
Recoverers == {"schedule", "spawnRecovery"}
Waiting == {"applying", "restoring"}
Restorers == {"restore", "restoring", "giveUp", "wait"}

\* A thread that is about a sequence is so after the step, and no new one is.
Continues(u) ==
    /\ thread'[u].gen = thread[u].gen
    /\ thread'[u].pc = "idle" <=> thread[u].pc = "idle"
    /\ thread'[u].pc \in Outside <=> thread[u].pc \in Outside
    /\ thread'[u].pc = "refused" <=> thread[u].pc = "refused"
    /\ thread'[u].pc \in Acting => thread[u].pc \in Acting
    /\ thread'[u].pc \in Early => thread[u].pc \in Early
    /\ thread[u].pc = "queued" => thread'[u].pc = "queued"
    /\ thread[u].pc \in {"unready", "done"} => thread'[u].pc \in {"unready", "done"}
    /\ thread'[u].pc \in Recoverers => thread[u].pc \in Recoverers \/ ~\E g \in VR!Generations : u = VR!Recovery(g)

\* Others move one thread, or none.
Others(t) == \A u \in VR!Threads : u # t => thread'[u] = thread[u]

LEMMA OthersContinue ==
  ASSUME NEW t \in VR!Threads, Others(t), Continues(t)
  PROVE  \A u \in VR!Threads : Continues(u)
BY DEF Others, Continues

LEMMA StartSame ==
  ASSUME StartInv, \A s \in Starts : Continues(VR!Start(s)), frames' = frames,
         txn'.generation = txn.generation, txn'.token = txn.token
  PROVE  StartInv'
<1>1. Entered' = Entered
  BY DEF Entered, Continues
<1>2. \A s \in Entered : s \in Starts /\ thread'[VR!Start(s)].gen = thread[VR!Start(s)].gen
  BY DEF Entered, Continues
<1>3. (\A s \in Entered : Of(VR!Start(s)) # 0)' /\ (\A s, u \in Entered : Of(VR!Start(s)) = Of(VR!Start(u)) => s = u)'
  BY <1>1, <1>2 DEF StartInv, Of
<1>4. (txn.generation # 0 => txn.token \in Entered /\ Of(VR!Start(txn.token)) = txn.generation)'
  BY <1>1, <1>2 DEF StartInv, Of
<1>5. (\A s \in Starts : ~VR!At(VR!Start(s), "idle") /\ ~VR!At(VR!Start(s), "refused") => VR!Valid(frames[s]))'
  BY DEF StartInv, Continues, VR!At
<1> QED BY <1>1, <1>3, <1>4, <1>5 DEF StartInv

LEMMA ThreadSame ==
  ASSUME ThreadInv, \A u \in VR!Threads : Continues(u), txn'.generation = txn.generation
  PROVE  ThreadInv'
<1>1. \A u \in VR!Threads : Continues(u) 
  OBVIOUS
<1>2. (\A t \in VR!Threads : Of(t) <= txn.generation /\ (thread[t].pc \in Acting => Of(t) # 0))'
  BY DEF ThreadInv, Continues, Of
<1>3. (\A t \in VR!Threads : thread[t].pc \in Early => \E s \in Starts : t = VR!Start(s))'
  BY DEF ThreadInv, Continues, Early
<1>4. (\A s \in Starts : ~VR!At(VR!Playback(s), "idle") => VR!At(VR!Start(s), "queued") /\ Of(VR!Playback(s)) = Of(VR!Start(s)))'
  BY Names DEF ThreadInv, Continues, Of, VR!At
<1>5. (\A l \in Lifecycles : ~VR!At(VR!Cleanup(l), "idle") => thread[VR!Caller(l)].pc \in {"unready", "done"})'
  BY Names DEF ThreadInv, Continues, VR!At
<1>6. (\A g \in VR!Generations : ~VR!At(VR!Recovery(g), "idle") => Of(VR!Recovery(g)) = g)'
  BY Names DEF ThreadInv, Continues, Of, VR!At
<1>7. (\A g \in VR!Generations : thread[VR!Recovery(g)].pc \notin {"schedule", "spawnRecovery"})'
  BY Names DEF ThreadInv, Continues, Recoverers
<1> QED BY <1>2, <1>3, <1>4, <1>5, <1>6, <1>7 DEF ThreadInv, Early

LEMMA RecoverySame ==
  ASSUME VR!VRAssumption, VR!TypeOK, ThreadInv, RecoveryInv, recovery' = recovery, txn'.generation = txn.generation,
         \A u \in VR!Threads : thread'[u].pc = "spawnRecovery" =>
            thread[u].pc = "spawnRecovery" /\ thread'[u].gen = thread[u].gen,
         \A g \in VR!Generations : thread'[VR!Recovery(g)].pc \in {"idle", "done"} <=>
            thread[VR!Recovery(g)].pc \in {"idle", "done"}
  PROVE  RecoveryInv'
<1>1. (\A g \in VR!Generations :
          thread[VR!Recovery(g)].pc \notin {"idle", "done"} /\ g = txn.generation => recovery = g)'
  BY DEF RecoveryInv
<1>2. ASSUME NEW t \in VR!Threads, thread'[t].pc = "spawnRecovery"
      PROVE  /\ txn'.generation = thread'[t].gen => recovery' = thread'[t].gen
             /\ thread'[VR!Recovery(thread'[t].gen)].pc \in {"idle", "done"}
             /\ \A u \in VR!Threads : thread'[u].pc = "spawnRecovery" /\ thread'[u].gen = thread'[t].gen => u = t
  <2>1. VR!At(t, "spawnRecovery") /\ thread'[t].gen = thread[t].gen
    BY <1>2 DEF VR!At
  <2>2. Of(t) \in VR!Known /\ Of(t) # 0
    BY <2>1 DEF VR!TypeOK, ThreadInv, VR!At, Acting, Of
  <2>3. Of(t) \in VR!Generations
    BY <2>2, Numbers
  <2>4. /\ txn.generation = thread[t].gen => recovery = thread[t].gen
        /\ thread[VR!Recovery(thread[t].gen)].pc \in {"idle", "done"}
        /\ \A u \in VR!Threads : thread[u].pc = "spawnRecovery" /\ thread[u].gen = thread[t].gen => u = t
    BY <2>1 DEF RecoveryInv, VR!At, Of, VR!Mine
  <2> QED BY <2>1, <2>3, <2>4 DEF Of
<1> QED BY <1>1, <1>2 DEF RecoveryInv, VR!At, Of, VR!Mine

LEMMA TaskSame ==
  ASSUME TaskInv, tasks' = tasks, running' = running, txn'.generation = txn.generation,
         \A u \in VR!Threads : thread[u].pc \in Waiting => thread'[u].pc = thread[u].pc /\ thread'[u].gen = thread[u].gen
  PROVE  TaskInv'
BY DEF TaskInv, WaitsFor, Waiting, Of

LEMMA ApplySame ==
  ASSUME ApplyInv, tasks' = tasks, running' = running, txn'.generation = txn.generation,
         txn'.applied => txn.applied,
         \A u \in VR!Threads : thread'[u].pc = "apply" => thread[u].pc = "apply" /\ thread'[u].gen = thread[u].gen
  PROVE  ApplyInv'
BY DEF ApplyInv, VR!At, Of, VR!Mine

LEMMA ThreadFields ==
  \A p, g, e, c : /\ VR!Thread(p, g, e, c).pc = p /\ VR!Thread(p, g, e, c).gen = g
                  /\ VR!Thread(p, g, e, c).event = e /\ VR!Thread(p, g, e, c).count = c
BY DEF VR!Thread

\* What is known of the claims.
LEMMA RestoreChanges ==
  ASSUME RestoreInv, (running # None /\ running.kind = "restore" /\ running.gen = txn.generation => txn.claimed)',
         txn'.generation = txn.generation, silent \subseteq silent',
         txn.claimed => txn'.claimed, txn.claimed /\ ~txn.applied => ~txn'.applied,
         \A u \in VR!Threads :
            /\ thread'[u].pc # thread[u].pc \/ thread'[u].gen = thread[u].gen
            /\ thread'[u].gen = txn.generation /\ thread'[u].pc # thread[u].pc =>
                  /\ thread'[u].pc \in Restorers => txn'.claimed
                  /\ thread'[u].pc = "stopped" => txn'.claimed /\ ~txn'.applied
                  /\ thread'[u].pc \in {"schedule", "spawnRecovery", "sleep"} =>
                        txn'.claimed \/ txn.generation \in silent',
         \A g \in VR!Generations : g = txn.generation /\ thread'[VR!Recovery(g)].pc # "idle" =>
            thread[VR!Recovery(g)].pc # "idle" \/ txn'.claimed \/ g \in silent'
  PROVE  RestoreInv'
<1>1. (\A t \in VR!Threads :
          VR!Mine(t) /\ thread[t].pc \in {"restore", "restoring", "giveUp", "wait"} => txn.claimed)'
  BY DEF RestoreInv, VR!Mine, Restorers
<1>2. (running # None /\ running.kind = "restore" /\ running.gen = txn.generation => txn.claimed)'
  OBVIOUS
<1>3. (\A s \in Stops : VR!At(VR!Stop(s), "stopped") /\ VR!Mine(VR!Stop(s)) => txn.claimed /\ ~txn.applied)'
  BY Names DEF RestoreInv, VR!Mine, VR!At
<1>4. (\A t \in VR!Threads : VR!Mine(t) /\ thread[t].pc \in {"schedule", "spawnRecovery", "sleep"} =>
          txn.claimed \/ txn.generation \in silent)'
  BY DEF RestoreInv, VR!Mine
<1>5. (\A g \in VR!Generations :
          g = txn.generation /\ ~VR!At(VR!Recovery(g), "idle") => txn.claimed \/ g \in silent)'
  BY DEF RestoreInv, VR!At
<1> QED BY <1>1, <1>2, <1>3, <1>4, <1>5 DEF RestoreInv

LEMMA RestoreSame ==
  ASSUME RestoreInv, running' = running,
         txn'.generation = txn.generation, silent \subseteq silent',
         txn.claimed => txn'.claimed, txn.claimed /\ ~txn.applied => ~txn'.applied,
         \A u \in VR!Threads :
            /\ thread'[u].pc # thread[u].pc \/ thread'[u].gen = thread[u].gen
            /\ thread'[u].gen = txn.generation /\ thread'[u].pc # thread[u].pc =>
                  /\ thread'[u].pc \in Restorers => txn'.claimed
                  /\ thread'[u].pc = "stopped" => txn'.claimed /\ ~txn'.applied
                  /\ thread'[u].pc \in {"schedule", "spawnRecovery", "sleep"} =>
                        txn'.claimed \/ txn.generation \in silent',
         \A g \in VR!Generations : g = txn.generation /\ thread'[VR!Recovery(g)].pc # "idle" =>
            thread[VR!Recovery(g)].pc # "idle" \/ txn'.claimed \/ g \in silent'
  PROVE  RestoreInv'
<1>1. (running # None /\ running.kind = "restore" /\ running.gen = txn.generation => txn.claimed)'
  BY DEF RestoreInv
<1> QED BY <1>1, RestoreChanges

\* What is known of the events.
LEMMA EventSame ==
  ASSUME EventInv, published' = published, pendingEvent' = pendingEvent, events' => events,
         silent \subseteq silent', txn'.generation = txn.generation, txn'.starting => txn.starting,
         txn'.claimed <=> txn.claimed, txn.claimed => (txn'.restoring <=> txn.restoring),
         \A u \in VR!Threads : thread'[u].pc \in {"play", "finish"} =>
            thread'[u].event \in VR!Terminal \/ \E g \in VR!Generations : u = VR!Recovery(g)
  PROVE  EventInv'
<1>1. (\A i \in DOMAIN published : published[i].gen <= txn.generation)'
  BY DEF EventInv
<1>2. (\A i, j \in DOMAIN published : i < j /\ published[i].gen = published[j].gen =>
          published[i].event = "started" /\ published[j].event \in VR!Terminal)'
  BY DEF EventInv
<1>3. (\A i \in DOMAIN published : published[i].gen = txn.generation =>
          IF published[i].event = "started" THEN ~txn.starting ELSE txn.claimed /\ ~txn.restoring)'
  BY DEF EventInv
<1>4. (\A t \in VR!Threads : thread[t].pc \in {"play", "finish"} =>
          thread[t].event \in VR!Terminal \/ \E g \in VR!Generations : t = VR!Recovery(g))'
  OBVIOUS
<1>5. (txn.claimed /\ txn.generation \notin silent =>
          IF txn.restoring THEN pendingEvent \in VR!Terminal ELSE events => Ended(txn.generation))'
  BY DEF EventInv, Ended
<1> QED BY <1>1, <1>2, <1>3, <1>4, <1>5 DEF EventInv

LEMMA GameSame ==
  ASSUME GameInv, game' = game, previous' = previous, frames' = frames, txn'.token = txn.token,
         txn'.applied <=> txn.applied, txn'.active => txn.active /\ current' = current
  PROVE  GameInv'
BY DEF GameInv

\* The transaction, but for an attempt that is over.
TxnSame ==
    /\ txn'.starting = txn.starting /\ txn'.active = txn.active /\ txn'.restoring = txn.restoring
    /\ txn'.claimed = txn.claimed /\ txn'.applied = txn.applied
    /\ txn'.generation = txn.generation /\ txn'.token = txn.token

LEMMA TransactionSame ==
  ASSUME TransactionInv, TxnSame
  PROVE  TransactionInv'
BY DEF TransactionInv, TxnSame

\* One thread moves.
LEMMA Moved ==
  ASSUME VR!TypeOK, NEW t \in VR!Threads
  PROVE  /\ \A p : thread' = [thread EXCEPT ![t].pc = p] =>
              /\ thread'[t].pc = p /\ thread'[t].gen = thread[t].gen /\ thread'[t].event = thread[t].event
              /\ thread'[t].count = thread[t].count /\ Others(t)
         /\ \A r : thread' = [thread EXCEPT ![t] = r] => thread'[t] = r /\ Others(t)
         /\ \A p, c : thread' = [thread EXCEPT ![t].pc = p, ![t].count = c] =>
              /\ thread'[t].pc = p /\ thread'[t].gen = thread[t].gen /\ thread'[t].event = thread[t].event
              /\ thread'[t].count = c /\ Others(t)
<1>1. thread \in [VR!Threads -> [pc : VR!Places, gen : VR!Known, event : VR!Terminal \union {VR!NoEvent}, count : Nat]]
  BY DEF VR!TypeOK
<1> QED BY <1>1 DEF Others

LEMMA MovedTo ==
  ASSUME VR!TypeOK, NEW t \in VR!Threads, NEW p, NEW g, NEW e, NEW c,
         thread' = [thread EXCEPT ![t] = VR!Thread(p, g, e, c)]
  PROVE  thread'[t].pc = p /\ thread'[t].gen = g /\ thread'[t].event = e /\ thread'[t].count = c /\ Others(t)
<1>1. thread'[t] = VR!Thread(p, g, e, c) /\ Others(t)
  BY Moved
<1> QED BY <1>1, ThreadFields

\* A step of one thread that changes neither the transaction nor the queue.
Steady == TxnSame /\ tasks' = tasks /\ running' = running /\ published' = published /\ pendingEvent' = pendingEvent /\ game' = game /\ previous' = previous
          /\ (events' => events) /\ silent \subseteq silent'

LEMMA PlainParts ==
  ASSUME VR!VRAssumption, VRInv, NEW t \in VR!Threads, Others(t), Continues(t), Steady, GameInv',
         frames' = frames,
         thread[t].pc \notin Waiting, thread'[t].pc # "apply",
         thread'[t].pc \in {"play", "finish"} => thread'[t].event \in VR!Terminal \/ \E g \in VR!Generations : t = VR!Recovery(g),
         thread[t].gen = txn.generation =>
                  /\ thread'[t].pc \in Restorers => txn.claimed
                  /\ thread'[t].pc = "stopped" => txn.claimed /\ ~txn.applied
                  /\ thread'[t].pc \in {"schedule", "spawnRecovery", "sleep"} =>
                        txn.claimed \/ txn.generation \in silent'
  PROVE  TransactionInv' /\ StartInv' /\ ThreadInv' /\ TaskInv' /\ ApplyInv' /\ RestoreInv' /\ EventInv'
<1>0. TransactionInv /\ StartInv /\ ThreadInv /\ RecoveryInv /\ TaskInv /\ ApplyInv /\ RestoreInv
      /\ GameInv /\ EventInv /\ VR!TypeOK
  BY DEF VRInv, TrackedCore
<1>1. \A u \in VR!Threads : Continues(u)
  BY OthersContinue
<1>2. \A u \in VR!Threads : u # t => thread'[u] = thread[u]
  BY DEF Others
<1>3. TransactionInv'
  BY <1>0, TransactionSame DEF Steady
<1>4. StartInv'
  BY <1>0, <1>1, StartSame, Names DEF Steady, TxnSame
<1>5. ThreadInv'
  BY <1>0, <1>1, ThreadSame DEF Steady, TxnSame
<1>7. TaskInv'
  BY <1>0, <1>2, TaskSame DEF Steady, TxnSame
<1>8. ApplyInv'
  BY <1>0, <1>2, ApplySame DEF Steady, TxnSame
<1>9. RestoreInv'
  <2>1. \A g \in VR!Generations : thread'[VR!Recovery(g)].pc # "idle" => thread[VR!Recovery(g)].pc # "idle"
    BY <1>1, Names DEF Continues
  <2>2. \A u \in VR!Threads :
            /\ thread'[u].pc # thread[u].pc \/ thread'[u].gen = thread[u].gen
            /\ thread'[u].gen = txn.generation /\ thread'[u].pc # thread[u].pc =>
                  /\ thread'[u].pc \in Restorers => txn'.claimed
                  /\ thread'[u].pc = "stopped" => txn'.claimed /\ ~txn'.applied
                  /\ thread'[u].pc \in {"schedule", "spawnRecovery", "sleep"} =>
                        txn'.claimed \/ txn.generation \in silent'
    BY <1>2 DEF Steady, TxnSame, Continues
  <2> QED BY <1>0, <2>1, <2>2, RestoreSame DEF Steady, TxnSame
<1>10. EventInv'
  <2>1. \A u \in VR!Threads : thread'[u].pc \in {"play", "finish"} =>
            thread'[u].event \in VR!Terminal \/ \E g \in VR!Generations : u = VR!Recovery(g)
    BY <1>0, <1>2 DEF EventInv
  <2> QED BY <1>0, <2>1, EventSame DEF Steady, TxnSame
<1> QED BY <1>3, <1>4, <1>5, <1>7, <1>8, <1>9, <1>10

LEMMA Plain ==
  ASSUME VR!VRAssumption, VRInv, NEW t \in VR!Threads, Others(t), Continues(t), Steady, GameInv', recovery' = recovery,
         frames' = frames,
         thread[t].pc \notin Waiting, thread'[t].pc \notin {"apply", "spawnRecovery"},
         thread'[t].pc \in {"play", "finish"} => thread'[t].event \in VR!Terminal \/ \E g \in VR!Generations : t = VR!Recovery(g),
         thread'[t].pc # "done" \/ ~\E g \in VR!Generations : t = VR!Recovery(g),
         thread[t].pc \notin {"idle", "done"},
         thread[t].gen = txn.generation =>
                  /\ thread'[t].pc \in Restorers => txn.claimed
                  /\ thread'[t].pc = "stopped" => txn.claimed /\ ~txn.applied
                  /\ thread'[t].pc \in {"schedule", "spawnRecovery", "sleep"} =>
                        txn.claimed \/ txn.generation \in silent'
  PROVE  TrackedCore'
<1>0. TransactionInv /\ StartInv /\ ThreadInv /\ RecoveryInv /\ TaskInv /\ ApplyInv /\ RestoreInv
      /\ GameInv /\ EventInv /\ VR!TypeOK
  BY DEF VRInv, TrackedCore
<1>1. \A u \in VR!Threads : Continues(u)
  BY OthersContinue
<1>2. \A u \in VR!Threads : u # t => thread'[u] = thread[u]
  BY DEF Others
<1>3. TransactionInv' /\ StartInv' /\ ThreadInv' /\ TaskInv' /\ ApplyInv' /\ RestoreInv' /\ EventInv'
  BY PlainParts
<1>6. RecoveryInv'
  <2>1. \A u \in VR!Threads : thread'[u].pc = "spawnRecovery" =>
            thread[u].pc = "spawnRecovery" /\ thread'[u].gen = thread[u].gen
    BY <1>2
  <2>2. \A g \in VR!Generations : thread'[VR!Recovery(g)].pc \in {"idle", "done"} <=>
            thread[VR!Recovery(g)].pc \in {"idle", "done"}
    BY <1>2, Names DEF Continues
  <2> QED BY <1>0, <2>1, <2>2, RecoverySame DEF Steady, TxnSame
<1> QED BY <1>3, <1>6 DEF TrackedCore

-----------------------------------------------------------------------------
(* The invariant, action by action.                                        *)
LEMMA Parts ==
  ASSUME VRInv
  PROVE  TransactionInv /\ StartInv /\ ThreadInv /\ RecoveryInv /\ TaskInv /\ ApplyInv /\ RestoreInv
         /\ GameInv /\ EventInv /\ VR!TypeOK
BY DEF VRInv, TrackedCore

\* A step of some threads other than recoveries, none of which restores the game
\* or is about to.
Aside(T) ==
    /\ T \subseteq VR!Threads /\ \A u \in VR!Threads \ T : thread'[u] = thread[u]
    /\ \A u \in T : /\ thread[u].pc \notin Waiting
                    /\ thread'[u].pc \notin {"apply", "spawnRecovery"}
                    /\ thread'[u].pc # thread[u].pc
                    /\ thread'[u].pc \notin Restorers \union {"stopped", "sleep", "schedule"}
                    /\ thread'[u].pc \in {"play", "finish"} => thread'[u].event \in VR!Terminal
                    /\ \A g \in VR!Generations : u # VR!Recovery(g)

LEMMA AsideKeeps ==
  ASSUME VR!VRAssumption, VRInv, Steady, recovery' = recovery, NEW T, Aside(T)
  PROVE  /\ TransactionInv' /\ RecoveryInv' /\ TaskInv' /\ ApplyInv' /\ RestoreInv' /\ EventInv'
<1>0. TransactionInv /\ StartInv /\ ThreadInv /\ RecoveryInv /\ TaskInv /\ ApplyInv /\ RestoreInv
      /\ GameInv /\ EventInv /\ VR!TypeOK
  BY Parts
<1> USE DEF Aside
<1>1. TransactionInv'
  BY <1>0, TransactionSame DEF Steady
<1>2. RecoveryInv'
  <2>1. \A u \in VR!Threads : thread'[u].pc = "spawnRecovery" =>
            thread[u].pc = "spawnRecovery" /\ thread'[u].gen = thread[u].gen
    OBVIOUS
  <2>2. \A g \in VR!Generations : thread'[VR!Recovery(g)].pc \in {"idle", "done"} <=>
            thread[VR!Recovery(g)].pc \in {"idle", "done"}
    BY Names
  <2> QED BY <1>0, <2>1, <2>2, RecoverySame DEF Steady, TxnSame
<1>3. TaskInv'
  <2>1. \A u \in VR!Threads : thread[u].pc \in Waiting => thread'[u].pc = thread[u].pc /\ thread'[u].gen = thread[u].gen
    OBVIOUS
  <2> QED BY <1>0, <2>1, TaskSame DEF Steady, TxnSame
<1>4. ApplyInv'
  <2>1. \A u \in VR!Threads : thread'[u].pc = "apply" => thread[u].pc = "apply" /\ thread'[u].gen = thread[u].gen
    OBVIOUS
  <2> QED BY <1>0, <2>1, ApplySame DEF Steady, TxnSame
<1>5. RestoreInv'
  <2>1. \A u \in VR!Threads :
            /\ thread'[u].pc # thread[u].pc \/ thread'[u].gen = thread[u].gen
            /\ thread'[u].gen = txn.generation /\ thread'[u].pc # thread[u].pc =>
                  /\ thread'[u].pc \in Restorers => txn'.claimed
                  /\ thread'[u].pc = "stopped" => txn'.claimed /\ ~txn'.applied
                  /\ thread'[u].pc \in {"schedule", "spawnRecovery", "sleep"} =>
                        txn'.claimed \/ txn.generation \in silent'
    OBVIOUS
  <2>2. \A g \in VR!Generations : thread'[VR!Recovery(g)].pc # "idle" => thread[VR!Recovery(g)].pc # "idle"
    BY Names
  <2> QED BY <1>0, <2>1, <2>2, RestoreSame DEF Steady, TxnSame
<1>6. EventInv'
  <2>1. \A u \in VR!Threads : thread'[u].pc \in {"play", "finish"} =>
            thread'[u].event \in VR!Terminal \/ \E g \in VR!Generations : u = VR!Recovery(g)
    BY <1>0 DEF EventInv
  <2> QED BY <1>0, <2>1, EventSame DEF Steady, TxnSame
<1> QED BY <1>1, <1>2, <1>3, <1>4, <1>5, <1>6

LEMMA MakesReadyKeeps ==
  ASSUME VR!VRAssumption, VRInv, VR!MakesReady
  PROVE  TrackedCore'
<1>0. TransactionInv /\ StartInv /\ ThreadInv /\ RecoveryInv /\ TaskInv /\ ApplyInv /\ RestoreInv
      /\ GameInv /\ EventInv /\ VR!TypeOK
  BY Parts
<1>1. UNCHANGED <<txn, current, thread, tasks, running, frames, published, pendingEvent, game, previous, events, recovery>>
      /\ silent' = silent
  BY DEF VR!MakesReady, VR!eventVars, VR!gameVars, VR!mainVars
<1>2. TransactionInv' /\ StartInv' /\ ThreadInv' /\ RecoveryInv'
  BY <1>0, <1>1 DEF TransactionInv, StartInv, ThreadInv, RecoveryInv, Entered, Of, VR!At, VR!Mine
<1>3. TaskInv' /\ ApplyInv' /\ RestoreInv' /\ GameInv' /\ EventInv'
  BY <1>0, <1>1 DEF TaskInv, ApplyInv, RestoreInv, GameInv, EventInv, Of, VR!At, VR!Mine, WaitsFor, Ended
<1> QED BY <1>2, <1>3 DEF TrackedCore

\* A start that is checked, or refused.
LEMMA OutsideKeeps ==
  ASSUME VR!VRAssumption, VRInv, NEW s \in Starts, Steady, current' = current, recovery' = recovery,
         thread[VR!Start(s)].pc \in {"idle", "checked"}, thread'[VR!Start(s)].pc \in {"checked", "refused"},
         thread'[VR!Start(s)].pc # thread[VR!Start(s)].pc, thread'[VR!Start(s)].gen = thread[VR!Start(s)].gen, Others(VR!Start(s)),
         \A u \in Starts : u # s => frames'[u] = frames[u],
         thread'[VR!Start(s)].pc # "refused" => VR!Valid(frames'[s])
  PROVE  TrackedCore'
<1> DEFINE t == VR!Start(s)
<1>0. TransactionInv /\ StartInv /\ ThreadInv /\ RecoveryInv /\ TaskInv /\ ApplyInv /\ RestoreInv
      /\ GameInv /\ EventInv /\ VR!TypeOK
  BY Parts
<1>1. /\ t \in VR!Threads /\ thread[t].pc \in {"idle", "checked"}
      /\ UNCHANGED <<current, tasks, running, published, pendingEvent, game, previous, recovery>>
      /\ txn'.active = txn.active /\ txn'.applied = txn.applied /\ txn'.generation = txn.generation
      /\ txn'.token = txn.token
  BY Names DEF Steady, TxnSame
<1>3. /\ thread'[t].pc \in {"checked", "refused"} /\ thread'[t].gen = thread[t].gen
      /\ thread'[t].pc # thread[t].pc /\ \A u \in VR!Threads : u # t => thread'[u] = thread[u]
  BY DEF Others
<1>4. /\ \A u \in Starts : u # s => frames'[u] = frames[u]
      /\ thread'[t].pc # "refused" => VR!Valid(frames'[s])
  OBVIOUS
<1>5. \A u \in Starts : u # s => thread'[VR!Start(u)] = thread[VR!Start(u)]
  BY <1>3, Names, OwnNames
<1>6. Entered' = Entered
  BY <1>1, <1>3, <1>5 DEF Entered, Outside
<1>7. s \notin Entered
  BY <1>1 DEF Entered, Outside
<1>8. StartInv'
  <2>1. \A u \in Entered : u \in Starts /\ thread'[VR!Start(u)] = thread[VR!Start(u)]
    BY <1>5, <1>7 DEF Entered
  <2>2. (\A u \in Entered : Of(VR!Start(u)) # 0)' /\ (\A u, v \in Entered : Of(VR!Start(u)) = Of(VR!Start(v)) => u = v)'
    BY <1>0, <1>6, <2>1 DEF StartInv, Of
  <2>3. (txn.generation # 0 => txn.token \in Entered /\ Of(VR!Start(txn.token)) = txn.generation)'
    BY <1>0, <1>1, <1>6, <2>1 DEF StartInv, Of
  <2>4. (\A u \in Starts : ~VR!At(VR!Start(u), "idle") /\ ~VR!At(VR!Start(u), "refused") => VR!Valid(frames[u]))'
    BY <1>0, <1>4, <1>5 DEF StartInv, VR!At
  <2>5. (txn.generation = Cardinality(Entered))'
    BY <1>0, <1>1, <1>6 DEF StartInv
  <2> QED BY <2>2, <2>3, <2>4, <2>5 DEF StartInv
<1>9. ThreadInv'
  <2>1. \A l \in Stops \union Lifecycles \union VR!Generations \union Starts :
            t # VR!Playback(l) /\ t # VR!Stop(l) /\ t # VR!Caller(l) /\ t # VR!Cleanup(l) /\ t # VR!Recovery(l)
    BY OwnNames
  <2>2. (\A u \in VR!Threads : Of(u) <= txn.generation /\ (thread[u].pc \in Acting => Of(u) # 0))'
    BY <1>0, <1>1, <1>3 DEF ThreadInv, Of, Acting
  <2>3. (\A u \in VR!Threads : thread[u].pc \in {"apply", "applying", "commit", "spawn"} => \E v \in Starts : u = VR!Start(v))'
    BY <1>0, <1>3 DEF ThreadInv
  <2>4. (\A u \in Starts : ~VR!At(VR!Playback(u), "idle") => VR!At(VR!Start(u), "queued") /\ Of(VR!Playback(u)) = Of(VR!Start(u)))'
    <3>1. \A u \in Starts : thread'[VR!Playback(u)] = thread[VR!Playback(u)]
      BY <1>3, <2>1, Names
    <3> QED BY <1>0, <1>1, <1>5, <3>1 DEF ThreadInv, VR!At, Of
  <2>5. (\A l \in Lifecycles : ~VR!At(VR!Cleanup(l), "idle") => thread[VR!Caller(l)].pc \in {"unready", "done"})'
    BY <1>0, <1>3, <2>1, Names DEF ThreadInv, VR!At
  <2>6. (\A g \in VR!Generations : ~VR!At(VR!Recovery(g), "idle") => Of(VR!Recovery(g)) = g)'
        /\ (\A g \in VR!Generations : thread[VR!Recovery(g)].pc \notin {"schedule", "spawnRecovery"})'
    BY <1>0, <1>3, <2>1, Names DEF ThreadInv, VR!At, Of
  <2> QED BY <2>2, <2>3, <2>4, <2>5, <2>6 DEF ThreadInv
<1>10. TransactionInv' /\ RecoveryInv' /\ TaskInv' /\ ApplyInv' /\ RestoreInv' /\ EventInv'
  <2>1. \A g \in VR!Generations : t # VR!Recovery(g)
    BY OwnNames
  <2> DEFINE T == {t}
  <2>2. Aside(T)
    BY <1>1, <1>3, <2>1 DEF Aside, Waiting, Restorers
  <2> HIDE DEF T
  <2> QED BY <2>2, AsideKeeps
<1>11. GameInv'
  <2>1. txn.applied \/ txn.active => txn.generation # 0
    BY <1>0 DEF TransactionInv
  <2>2. txn.applied \/ txn.active => txn.token \in Starts /\ txn.token # s
    BY <1>0, <1>7, <2>1 DEF StartInv, Entered
  <2> QED BY <1>0, <1>1, <1>4, <2>2 DEF GameInv
<1> QED BY <1>8, <1>9, <1>10, <1>11 DEF TrackedCore

\* The checks before the lock.
LEMMA CheckKeeps ==
  ASSUME VR!VRAssumption, VRInv, NEW s \in Starts, VR!Check(s)
  PROVE  TrackedCore'
<1> DEFINE t == VR!Start(s)
<1>1. /\ thread[t].pc = "idle" /\ t \in VR!Threads /\ VR!TypeOK
      /\ Steady /\ current' = current /\ recovery' = recovery
  BY Names DEF VR!Check, VR!At, VR!gateVars, VR!eventVars, VR!gameVars, VR!mainVars, Steady, TxnSame, VRInv
<1>2. PICK f \in Submitted : IF ready /\ VR!Valid(f) /\ f[1].origin = Space /\ (s \in Survives => s \in Internal)
        THEN VR!Goes(t, "checked") /\ frames' = [frames EXCEPT ![s] = f]
        ELSE VR!Goes(t, "refused") /\ UNCHANGED frames
  BY DEF VR!Check
<1>3. thread'[t].pc \in {"checked", "refused"} /\ thread'[t].gen = thread[t].gen /\ Others(t)
  BY <1>1, <1>2, Moved DEF VR!Goes
<1>4. DOMAIN frames = Starts
  BY <1>1 DEF VR!TypeOK
<1>5. /\ \A u \in Starts : u # s => frames'[u] = frames[u]
      /\ thread'[t].pc # "refused" => VR!Valid(frames'[s])
  <2>2. CASE ready /\ VR!Valid(f) /\ f[1].origin = Space /\ (s \in Survives => s \in Internal)
    BY <1>2, <1>4, <2>2
  <2>3. CASE ~(ready /\ VR!Valid(f) /\ f[1].origin = Space /\ (s \in Survives => s \in Internal))
    <3>1. thread'[t].pc = "refused"
      BY <1>1, <1>2, <2>3, Moved DEF VR!Goes
    <3> QED BY <1>2, <2>3, <3>1
  <2> QED BY <2>2, <2>3
<1> QED BY <1>1, <1>3, <1>5, OutsideKeeps

\* A sequence that begins has a number of its own.
LEMMA BeginCounts ==
  ASSUME VR!VRAssumption, VRInv, NEW s \in Starts, VR!At(VR!Start(s), "checked"),
         \A u \in Starts : u # s => thread'[VR!Start(u)] = thread[VR!Start(u)],
         thread'[VR!Start(s)].pc = "apply"
  PROVE  /\ s \notin Entered /\ Entered' = Entered \union {s} /\ txn.generation \in Nat
         /\ Cardinality(Entered') = txn.generation + 1
         /\ txn.generation + 1 \in VR!Generations
<1>0. VR!TypeOK /\ StartInv
  BY Parts
<1>1. s \notin Entered /\ Entered' = Entered \union {s}
  BY DEF Entered, Outside, VR!At
<1>2. IsFiniteSet(Starts) /\ Entered \subseteq Starts /\ Entered' \subseteq Starts
  BY SameOperators DEF VR!VRAssumption, Entered
<1>3. IsFiniteSet(Entered) /\ IsFiniteSet(Entered')
  BY <1>2, FS_Subset
<1>4. Cardinality(Entered') = txn.generation + 1 /\ txn.generation \in Nat
  <2>1. Cardinality(Entered) \in Nat /\ Cardinality(Entered) = txn.generation
    BY <1>0, <1>3, FS_CardinalityType DEF StartInv
  <2> QED BY <1>1, <1>3, <2>1, FS_AddElement
<1>5. Cardinality(Entered') <= Cardinality(Starts) /\ Cardinality(Starts) \in Nat
  BY <1>2, FS_Subset, FS_CardinalityType
<1> QED BY <1>1, <1>4, <1>5, Numbers

\* Nothing is about a sequence that has not begun.
LEMMA Numbered ==
  ASSUME VR!VRAssumption, VRInv
  PROVE  /\ txn.generation \in Nat /\ txn.generation \in VR!Known
         /\ \A u \in VR!Threads : thread[u].gen \in Nat /\ thread[u].gen \in VR!Known /\ thread[u].gen <= txn.generation
         /\ running # None => running.gen \in Nat /\ running.gen \in VR!Generations /\ running.gen <= txn.generation
         /\ \A i \in DOMAIN published : published[i].gen \in Nat /\ published[i].gen <= txn.generation
<1>0. ThreadInv /\ TaskInv /\ EventInv /\ VR!TypeOK
  BY Parts
<1>1. txn.generation \in VR!Known /\ \A u \in VR!Threads : thread[u].gen \in VR!Known
  BY <1>0 DEF VR!TypeOK
<1>2. running # None => running.gen \in VR!Generations
  BY <1>0 DEF VR!TypeOK, VR!Tasks
<1>3. \A i \in DOMAIN published : published[i].gen \in VR!Generations
  <2>1. published \in Seq([event : VR!Terminal \union {"started"}, gen : VR!Generations])
    BY <1>0 DEF VR!TypeOK
  <2>2. ASSUME NEW S, published \in Seq(S) PROVE \A i \in DOMAIN published : published[i] \in S
    BY <2>2
  <2>3. \A i \in DOMAIN published : published[i] \in [event : VR!Terminal \union {"started"}, gen : VR!Generations]
    BY <2>1, <2>2
  <2> QED BY <2>3
<1>4. \A g \in VR!Known : g \in Nat
  BY Numbers
<1>5. \A g \in VR!Generations : g \in Nat
  BY Numbers
<1> QED BY <1>0, <1>1, <1>2, <1>3, <1>4, <1>5 DEF ThreadInv, TaskInv, EventInv, Of

LEMMA BeginKeeps ==
  ASSUME VR!VRAssumption, VRInv, NEW s \in Starts, VR!Begin(s)
  PROVE  TrackedCore'
<1> DEFINE t == VR!Start(s)
<1>0. TransactionInv /\ StartInv /\ ThreadInv /\ RecoveryInv /\ TaskInv /\ ApplyInv /\ RestoreInv
      /\ GameInv /\ EventInv /\ VR!TypeOK
  BY Parts
<1>1. /\ thread[t].pc = "checked" /\ t \in VR!Threads
      /\ UNCHANGED <<current, tasks, running, published, game, previous, events, recovery, silent, frames>>
  BY Names DEF VR!Begin, VR!At, VR!gateVars, VR!eventVars, VR!gameVars, VR!mainVars
<1>2. CASE VR!Busy
  <2>1. VR!Goes(t, "refused") /\ txn' = txn /\ pendingEvent' = pendingEvent
    BY <1>2 DEF VR!Begin
  <2>2. thread'[t].pc = "refused" /\ thread'[t].gen = thread[t].gen /\ Others(t)
    BY <1>0, <1>1, <2>1, Moved DEF VR!Goes
  <2>3. Steady
    BY <1>1, <2>1 DEF Steady, TxnSame
  <2> QED BY <1>1, <2>2, <2>3, OutsideKeeps
<1>3. CASE ~VR!Busy
  <2> DEFINE g == txn.generation + 1
  <2>1. txn' = VR!Begun(s) /\ pendingEvent' = VR!NoEvent /\ thread' = [thread EXCEPT ![t] = VR!Thread("apply", txn'.generation, VR!NoEvent, 0)]
    BY <1>3 DEF VR!Begin
  <2>2. /\ txn'.generation = g /\ txn'.token = s /\ txn'.starting /\ ~txn'.active /\ ~txn'.restoring
        /\ ~txn'.claimed /\ ~txn'.applied
    BY <2>1 DEF VR!Begun
  <2>3. /\ thread'[t] = VR!Thread("apply", g, VR!NoEvent, 0)
        /\ \A u \in VR!Threads : u # t => thread'[u] = thread[u]
    BY <1>0, <1>1, <2>1, <2>2, Moved DEF Others
  <2>4. thread'[t].pc = "apply" /\ thread'[t].gen = g
    BY <2>3, ThreadFields
  <2>5. \A u \in Starts : u # s => thread'[VR!Start(u)] = thread[VR!Start(u)]
    BY <2>3, Names, OwnNames
  <2>6. /\ s \notin Entered /\ Entered' = Entered \union {s} /\ txn.generation \in Nat
        /\ Cardinality(Entered') = g /\ g \in VR!Generations /\ g \in Nat
    BY <1>1, <2>4, <2>5, BeginCounts, Numbers DEF VR!At
  <2>7. g # 0 /\ g > txn.generation
    BY <2>6
  <2>8. \A u \in VR!Threads : thread[u].gen \in Nat /\ thread[u].gen <= txn.generation
    BY Numbered
  <2> HIDE DEF g
  <2>9. \A u \in VR!Threads : thread[u].gen < g /\ thread[u].gen # g
    BY <2>6, <2>7, <2>8
  <2>10. ~txn.applied /\ ~txn.starting /\ ~txn.active /\ ~txn.restoring
    BY <1>3 DEF VR!Busy
  <2>11. TransactionInv'
    BY <2>2, <2>7 DEF TransactionInv
  <2>12. StartInv'
    <3>1. \A u \in Entered : u \in Starts /\ u # s /\ thread'[VR!Start(u)] = thread[VR!Start(u)] /\ thread[VR!Start(u)].gen # g
      BY <2>5, <2>6, <2>9, Names DEF Entered
    <3>2. (\A u \in Entered : Of(VR!Start(u)) # 0)' /\ (\A u, v \in Entered : Of(VR!Start(u)) = Of(VR!Start(v)) => u = v)'
      BY <1>0, <2>4, <2>6, <2>7, <3>1 DEF StartInv, Of
    <3>3. (txn.generation # 0 => txn.token \in Entered /\ Of(VR!Start(txn.token)) = txn.generation)'
      BY <2>2, <2>4, <2>6 DEF Of
    <3>4. (\A u \in Starts : ~VR!At(VR!Start(u), "idle") /\ ~VR!At(VR!Start(u), "refused") => VR!Valid(frames[u]))'
      BY <1>0, <1>1, <2>5 DEF StartInv, VR!At
    <3>5. (txn.generation = Cardinality(Entered))'
      BY <2>2, <2>6
    <3> QED BY <3>2, <3>3, <3>4, <3>5 DEF StartInv
  <2>13. \A l \in Stops \union Lifecycles \union VR!Generations \union Starts :
            t # VR!Playback(l) /\ t # VR!Stop(l) /\ t # VR!Caller(l) /\ t # VR!Cleanup(l) /\ t # VR!Recovery(l)
    BY OwnNames
  <2>14. ThreadInv'
    <3>1. (\A u \in VR!Threads : Of(u) <= txn.generation /\ (thread[u].pc \in Acting => Of(u) # 0))'
      <4>1. ASSUME NEW u \in VR!Threads
            PROVE  thread'[u].gen <= g /\ (thread'[u].pc \in Acting => thread'[u].gen # 0)
        <5>1. CASE u = t
          BY <2>4, <2>6, <2>7, <5>1
        <5>2. CASE u # t
          <6>1. thread'[u] = thread[u] /\ (thread[u].pc \in Acting => thread[u].gen # 0)
            BY <1>0, <2>3, <5>2 DEF ThreadInv, Of
          <6>2. thread[u].gen <= g
            BY <2>6, <2>7, Numbered
          <6> QED BY <6>1, <6>2
        <5> QED BY <5>1, <5>2
      <4> QED BY <2>2, <4>1 DEF Of
    <3>2. (\A u \in VR!Threads : thread[u].pc \in {"apply", "applying", "commit", "spawn"} => \E v \in Starts : u = VR!Start(v))'
      BY <1>0, <2>3 DEF ThreadInv
    <3>3. (\A u \in Starts : ~VR!At(VR!Playback(u), "idle") => VR!At(VR!Start(u), "queued") /\ Of(VR!Playback(u)) = Of(VR!Start(u)))'
      <4>1. \A u \in Starts : thread'[VR!Playback(u)] = thread[VR!Playback(u)]
        BY <2>3, <2>13, Names
      <4> QED BY <1>0, <1>1, <2>5, <4>1 DEF ThreadInv, VR!At, Of
    <3>4. (\A l \in Lifecycles : ~VR!At(VR!Cleanup(l), "idle") => thread[VR!Caller(l)].pc \in {"unready", "done"})'
      <4>1. \A l \in Lifecycles : thread'[VR!Cleanup(l)] = thread[VR!Cleanup(l)] /\ thread'[VR!Caller(l)] = thread[VR!Caller(l)]
        BY <2>3, <2>13, Names
      <4> QED BY <1>0, <4>1 DEF ThreadInv, VR!At
    <3>5. (\A r \in VR!Generations : ~VR!At(VR!Recovery(r), "idle") => Of(VR!Recovery(r)) = r)'
          /\ (\A r \in VR!Generations : thread[VR!Recovery(r)].pc \notin {"schedule", "spawnRecovery"})'
      <4>1. \A r \in VR!Generations : thread'[VR!Recovery(r)] = thread[VR!Recovery(r)]
        BY <2>3, <2>13, Names
      <4> QED BY <1>0, <4>1 DEF ThreadInv, VR!At, Of
    <3> QED BY <3>1, <3>2, <3>3, <3>4, <3>5 DEF ThreadInv
  <2>15. \A r \in VR!Generations : thread'[VR!Recovery(r)] = thread[VR!Recovery(r)] /\ VR!Recovery(r) \in VR!Threads
    BY <2>3, <2>13, Names
  <2>16. thread'[VR!Recovery(g)].pc = "idle" /\ thread[VR!Recovery(g)].pc = "idle"
    <3>1. VR!Recovery(g) \in VR!Threads
      BY <2>6, Names
    <3>2. VR!At(VR!Recovery(g), "idle")
      BY <1>0, <2>6, <2>9, <3>1 DEF ThreadInv, Of
    <3> QED BY <2>6, <2>15, <3>2 DEF VR!At
  <2>17. RecoveryInv'
    <3>1. (\A r \in VR!Generations :
            thread[VR!Recovery(r)].pc \notin {"idle", "done"} /\ r = txn.generation => recovery = r)'
      BY <2>2, <2>16
    <3>2. ASSUME NEW u \in VR!Threads, thread'[u].pc = "spawnRecovery"
          PROVE  /\ thread'[u].gen # g
                 /\ thread'[VR!Recovery(thread'[u].gen)].pc \in {"idle", "done"}
                 /\ \A v \in VR!Threads : thread'[v].pc = "spawnRecovery" /\ thread'[v].gen = thread'[u].gen => v = u
      <4>1. u # t /\ thread'[u] = thread[u] /\ thread[u].gen # g
        BY <2>3, <2>4, <2>9, <3>2
      <4>2. thread[u].gen \in VR!Generations
        BY <1>0, <3>2, <4>1, Numbers DEF VR!TypeOK, ThreadInv, Acting, Of
      <4>3. /\ thread[VR!Recovery(thread[u].gen)].pc \in {"idle", "done"}
            /\ \A v \in VR!Threads : thread[v].pc = "spawnRecovery" /\ thread[v].gen = thread[u].gen => v = u
        BY <1>0, <3>2, <4>1 DEF RecoveryInv, VR!At, Of
      <4> QED BY <2>3, <2>4, <2>15, <4>1, <4>2, <4>3
    <3> QED BY <2>2, <3>1, <3>2 DEF RecoveryInv, VR!At, Of, VR!Mine
  <2>18. TaskInv'
    <3>1. \A k : WaitsFor(t, k) => FALSE
      BY <1>1 DEF WaitsFor
    <3>2. running # None => running.gen <= g /\ running.gen # g
      BY <2>6, <2>7, Numbered
    <3>3. \A u \in VR!Threads : \A k : WaitsFor(u, k) => thread'[u] = thread[u]
      BY <2>3, <3>1
    <3>4. (\A i \in DOMAIN tasks : tasks[i].thread \in VR!Threads /\ WaitsFor(tasks[i].thread, tasks[i]))'
      BY <1>0, <1>1, <3>3 DEF TaskInv, WaitsFor, Of
    <3>5. (running # None /\ running.thread # None =>
          /\ running.thread \in VR!Threads /\ WaitsFor(running.thread, running)
          /\ \A i \in DOMAIN tasks : tasks[i].thread # running.thread)'
      BY <1>0, <1>1, <3>3 DEF TaskInv, WaitsFor, Of
    <3> QED BY <1>1, <2>2, <3>2, <3>4, <3>5 DEF TaskInv
  <2>19. ApplyInv'
    <3>1. running # None => running.gen # g
      BY <2>6, <2>7, Numbered
    <3>2. (running # None /\ running.kind = "apply" =>
            \A u \in VR!Threads : VR!At(u, "apply") => Of(u) # running.gen)'
      BY <1>0, <1>1, <2>3, <2>4, <3>1 DEF ApplyInv, VR!At, Of
    <3>3. (running # None /\ running.kind = "apply" =>
            \A i \in DOMAIN tasks : tasks[i].kind = "apply" => tasks[i].gen # running.gen)'
      BY <1>0, <1>1 DEF ApplyInv
    <3> QED BY <2>2, <3>2, <3>3 DEF ApplyInv
  <2>20. RestoreInv'
    <3>1. \A u \in VR!Threads : thread'[u].gen = g => u = t
      BY <2>3, <2>9
    <3>2. running # None => running.gen # g
      BY <2>6, <2>7, Numbered
    <3>3. \A u \in Stops : VR!Stop(u) \in VR!Threads /\ VR!Stop(u) # t
      BY <2>13, Names
    <3>4. \A u \in VR!Threads : txn'.generation # thread'[u].gen \/ thread'[u].pc = "apply"
      BY <2>2, <2>4, <3>1
    <3>5. (\A u \in VR!Threads : ~VR!Mine(u) \/ thread[u].pc = "apply")'
      BY <3>4 DEF VR!Mine
    <3>6. (\A u \in Stops : ~VR!Mine(VR!Stop(u)))'
      BY <2>2, <3>1, <3>3 DEF VR!Mine
    <3>7. (\A r \in VR!Generations : r = txn.generation => VR!At(VR!Recovery(r), "idle"))'
      BY <2>2, <2>16 DEF VR!At
    <3> HIDE DEF t
    <3> QED BY <1>1, <2>2, <3>2, <3>5, <3>6, <3>7 DEF RestoreInv
  <2>21. GameInv'
    BY <1>0, <1>1, <2>2, <2>10 DEF GameInv
  <2>22. EventInv'
    <3>1. \A i \in DOMAIN published : published[i].gen <= g /\ published[i].gen # g
      BY <2>6, <2>7, Numbered
    <3>2. (\A u \in VR!Threads : thread[u].pc \in {"play", "finish"} =>
            thread[u].event \in VR!Terminal \/ \E r \in VR!Generations : u = VR!Recovery(r))'
      BY <1>0, <2>3, <2>4 DEF EventInv
    <3>3. (\A i, j \in DOMAIN published : i < j /\ published[i].gen = published[j].gen =>
          published[i].event = "started" /\ published[j].event \in VR!Terminal)'
      BY <1>0, <1>1 DEF EventInv
    <3> QED BY <1>1, <2>2, <3>1, <3>2, <3>3 DEF EventInv
  <2> QED BY <2>11, <2>12, <2>14, <2>17, <2>18, <2>19, <2>20, <2>21, <2>22 DEF TrackedCore
<1> QED BY <1>2, <1>3

\* The elements of a queue.
LEMMA Appended ==
  ASSUME NEW S, NEW q \in Seq(S), NEW x
  PROVE  /\ DOMAIN Append(q, x) = DOMAIN q \union {Len(q) + 1} /\ Append(q, x)[Len(q) + 1] = x
         /\ \A i \in DOMAIN q : Append(q, x)[i] = q[i] /\ i < Len(q) + 1 /\ i \in Nat
         /\ Len(q) + 1 \notin DOMAIN q /\ Len(q) + 1 \in Nat /\ Len(q) \in Nat
OBVIOUS

\* The start that a sequence is of.
LEMMA Same ==
  ASSUME VR!VRAssumption, VRInv, NEW s \in Starts, thread[VR!Start(s)].pc \notin Outside,
         thread[VR!Start(s)].gen = txn.generation
  PROVE  txn.generation # 0 /\ txn.token = s /\ VR!Valid(frames[s]) /\ frames[s] \in Submitted
<1>0. StartInv /\ VR!TypeOK
  BY Parts
<1>1. s \in Entered
  BY DEF Entered
<1>2. txn.generation # 0 /\ txn.token = s
  BY <1>0, <1>1 DEF StartInv, Of
<1>3. VR!Valid(frames[s])
  BY <1>0 DEF StartInv, Outside, VR!At
<1>4. frames[s] # <<>>
  BY <1>3 DEF VR!Valid
<1> QED BY <1>0, <1>2, <1>3, <1>4 DEF VR!TypeOK

\* A thread queues a task that it waits for.
LEMMA QueuedKeeps ==
  ASSUME VR!VRAssumption, VRInv, NEW t \in VR!Threads, NEW kind \in {"apply", "restore"}, VR!Queue(t, kind),
         thread[t].pc = kind, thread[t].gen # 0,
         VR!Goes(t, IF kind = "apply" THEN "applying" ELSE "restoring"),
         UNCHANGED <<VR!gateVars, txn, current, VR!eventVars, recovery, VR!gameVars, frames, running, silent>>
  PROVE  TrackedCore'
<1> DEFINE k == [thread |-> t, kind |-> kind, gen |-> thread[t].gen]
           to == IF kind = "apply" THEN "applying" ELSE "restoring"
<1>0. TransactionInv /\ StartInv /\ ThreadInv /\ RecoveryInv /\ TaskInv /\ ApplyInv /\ RestoreInv
      /\ GameInv /\ EventInv /\ VR!TypeOK
  BY Parts
<1>1. UNCHANGED <<txn, current, running, published, pendingEvent, game, previous, events, recovery, silent, frames>>
  BY DEF VR!gateVars, VR!eventVars, VR!gameVars
<1>2. /\ thread'[t].pc = to /\ thread'[t].gen = thread[t].gen /\ thread'[t].event = thread[t].event
      /\ Others(t) /\ \A u \in VR!Threads : u # t => thread'[u] = thread[u]
  <2> HIDE DEF to
  <2>1. thread' = [thread EXCEPT ![t].pc = to]
    BY DEF VR!Goes, to
  <2>2. Others(t) /\ thread'[t].pc = to /\ thread'[t].gen = thread[t].gen /\ thread'[t].event = thread[t].event
    BY <1>0, <2>1, Moved
  <2> QED BY <2>2 DEF Others
<1>3. Continues(t)
  BY <1>2 DEF Continues, Outside, Acting, Early, Recoverers
<1>4. \A u \in VR!Threads : Continues(u)
  BY <1>2, <1>3, OthersContinue
<1>5. tasks \in Seq(VR!Tasks) /\ tasks' = Append(tasks, k)
  BY <1>0 DEF VR!TypeOK, VR!Queue
<1>6. /\ DOMAIN tasks' = DOMAIN tasks \union {Len(tasks) + 1} /\ tasks'[Len(tasks) + 1] = k
      /\ \A i \in DOMAIN tasks : tasks'[i] = tasks[i]
  BY <1>5, Appended
<1>7. k.thread = t /\ k.kind = kind /\ k.gen = thread[t].gen
  OBVIOUS
<1>8. \A i \in DOMAIN tasks : tasks[i].thread # t
  BY <1>0 DEF TaskInv, WaitsFor
<1>9. running # None /\ running.thread # None => running.thread # t
  BY <1>0 DEF TaskInv, WaitsFor
<1> HIDE DEF k, to
<1>10. TransactionInv'
  BY <1>0, <1>1, TransactionSame DEF TxnSame
<1>11. StartInv'
  BY <1>0, <1>1, <1>4, StartSame, Names
<1>12. ThreadInv'
  BY <1>0, <1>1, <1>4, ThreadSame
<1>13. to \in {"applying", "restoring"} /\ (kind = "apply" => to = "applying") /\ (kind = "restore" => to = "restoring")
  BY DEF to
<1>14. RecoveryInv'
  <2>1. \A u \in VR!Threads : thread'[u].pc = "spawnRecovery" =>
            thread[u].pc = "spawnRecovery" /\ thread'[u].gen = thread[u].gen
    BY <1>2, <1>13
  <2>2. \A g \in VR!Generations : thread'[VR!Recovery(g)].pc \in {"idle", "done"} <=>
            thread[VR!Recovery(g)].pc \in {"idle", "done"}
    BY <1>2, <1>13, Names
  <2> QED BY <1>0, <1>1, <2>1, <2>2, RecoverySame
<1>15. TaskInv'
  <2>1. \A i \in DOMAIN tasks' : tasks'[i].thread \in VR!Threads
            /\ thread'[tasks'[i].thread].pc = (IF tasks'[i].kind = "apply" THEN "applying" ELSE "restoring")
            /\ tasks'[i].gen = thread'[tasks'[i].thread].gen
    <3>1. ASSUME NEW i \in DOMAIN tasks
          PROVE  tasks'[i].thread \in VR!Threads
            /\ thread'[tasks'[i].thread].pc = (IF tasks'[i].kind = "apply" THEN "applying" ELSE "restoring")
            /\ tasks'[i].gen = thread'[tasks'[i].thread].gen
      BY <1>0, <1>2, <1>6, <1>8 DEF TaskInv, WaitsFor, Of
    <3>2. /\ k.thread \in VR!Threads
          /\ thread'[k.thread].pc = (IF k.kind = "apply" THEN "applying" ELSE "restoring")
          /\ k.gen = thread'[k.thread].gen
      BY <1>2, <1>7, <1>13
    <3> QED BY <1>6, <3>1, <3>2
  <2>2. (running # None => running.gen <= txn.generation)'
    BY <1>0, <1>1 DEF TaskInv
  <2>3. (running # None /\ running.thread # None =>
          running.thread \in VR!Threads /\ WaitsFor(running.thread, running))'
    BY <1>0, <1>1, <1>2, <1>9 DEF TaskInv, WaitsFor, Of
  <2>4. (running # None /\ running.thread # None =>
          \A i \in DOMAIN tasks : tasks[i].thread # running.thread)'
    BY <1>0, <1>1, <1>6, <1>7, <1>9 DEF TaskInv
  <2> QED BY <2>1, <2>2, <2>3, <2>4 DEF TaskInv, WaitsFor, Of
<1>16. ApplyInv'
  <2>1. (\A u \in VR!Threads : VR!At(u, "apply") /\ VR!Mine(u) => ~txn.applied)'
    BY <1>0, <1>1, <1>2, <1>13 DEF ApplyInv, VR!At, VR!Mine
  <2>2. kind = "apply" => VR!At(t, "apply")
    BY DEF VR!At
  <2>3. (\A i \in DOMAIN tasks : tasks[i].kind = "apply" /\ tasks[i].gen = txn.generation => ~txn.applied)'
    <3>1. kind = "apply" /\ k.gen = txn.generation => ~txn.applied
      BY <1>0, <1>7, <2>2 DEF ApplyInv, VR!Mine
    <3> QED BY <1>0, <1>1, <1>6, <1>7, <3>1 DEF ApplyInv
  <2>4. (running # None /\ running.kind = "apply" =>
          /\ running.gen = txn.generation => ~txn.applied
          /\ \A u \in VR!Threads : VR!At(u, "apply") => Of(u) # running.gen)'
    BY <1>0, <1>1, <1>2, <1>13 DEF ApplyInv, VR!At, Of
  <2>5. (running # None /\ running.kind = "apply" =>
          \A i \in DOMAIN tasks : tasks[i].kind = "apply" => tasks[i].gen # running.gen)'
    <3>1. running # None /\ running.kind = "apply" /\ kind = "apply" => k.gen # running.gen
      BY <1>0, <1>7, <2>2 DEF ApplyInv, Of
    <3> QED BY <1>0, <1>1, <1>6, <1>7, <3>1 DEF ApplyInv
  <2> QED BY <2>1, <2>3, <2>4, <2>5 DEF ApplyInv
<1>17. RestoreInv'
  <2>1. to = "restoring" => thread[t].pc \in Restorers
    BY DEF to, Restorers
  <2>2. txn.generation = thread[t].gen /\ to = "restoring" => txn.claimed
    BY <1>0, <2>1 DEF RestoreInv, VR!Mine, Restorers
  <2>3. \A u \in VR!Threads :
            /\ thread'[u].pc # thread[u].pc \/ thread'[u].gen = thread[u].gen
            /\ thread'[u].gen = txn.generation /\ thread'[u].pc # thread[u].pc =>
                  /\ thread'[u].pc \in Restorers => txn'.claimed
                  /\ thread'[u].pc = "stopped" => txn'.claimed /\ ~txn'.applied
                  /\ thread'[u].pc \in {"schedule", "spawnRecovery", "sleep"} =>
                        txn'.claimed \/ txn.generation \in silent'
    BY <1>1, <1>2, <1>13, <2>2 DEF Restorers
  <2>4. \A g \in VR!Generations : thread'[VR!Recovery(g)].pc # "idle" => thread[VR!Recovery(g)].pc # "idle"
    BY <1>4, Names DEF Continues
  <2> QED BY <1>0, <1>1, <2>3, <2>4, RestoreSame
<1>18. GameInv'
  BY <1>0, <1>1, GameSame
<1>19. EventInv'
  <2>1. \A u \in VR!Threads : thread'[u].pc \in {"play", "finish"} =>
            thread'[u].event \in VR!Terminal \/ \E g \in VR!Generations : u = VR!Recovery(g)
    BY <1>0, <1>2, <1>13 DEF EventInv
  <2> QED BY <1>0, <1>1, <2>1, EventSame
<1> QED BY <1>10, <1>11, <1>12, <1>14, <1>15, <1>16, <1>17, <1>18, <1>19 DEF TrackedCore

LEMMA Events ==
  "started" # VR!NoEvent /\ \A e \in VR!Terminal : e # VR!NoEvent /\ e # "started"
BY DEF VR!NoEvent, VR!Terminal

\* A start that fails goes to the end of its sequence.
LEMMA AbortsKeeps ==
  ASSUME VR!VRAssumption, VRInv, NEW s \in Starts, thread[VR!Start(s)].pc \in {"apply", "commit", "spawn"},
         thread' = [thread EXCEPT ![VR!Start(s)] = VR!Aborts(s)],
         Steady, current' = current, frames' = frames, recovery' = recovery
  PROVE  TrackedCore'
<1> DEFINE t == VR!Start(s)
<1>0. VR!TypeOK /\ GameInv
  BY Parts
<1>1. t \in VR!Threads
  BY Names
<1>2. thread'[t] = VR!Aborts(s) /\ Others(t)
  BY <1>0, <1>1, Moved
<1>3. thread'[t].pc = "finish" /\ thread'[t].gen = thread[t].gen /\ thread'[t].event = "aborted"
  BY <1>2, ThreadFields DEF VR!Aborts
<1> HIDE DEF t
<1>4. thread[t].pc \in {"apply", "commit", "spawn"}
  BY DEF t
<1>5. Continues(t)
  BY <1>3, <1>4 DEF Continues, Outside, Acting, Early, Recoverers
<1>6. GameInv'
  BY <1>0, GameSame DEF Steady, TxnSame
<1> QED BY <1>1, <1>2, <1>3, <1>4, <1>5, <1>6, Plain DEF VR!Terminal, Restorers, Waiting

LEMMA ApplyKeeps ==
  ASSUME VR!VRAssumption, VRInv, NEW s \in Starts, VR!Apply(s)
  PROVE  TrackedCore'
<1> DEFINE t == VR!Start(s)
<1>0. VR!TypeOK /\ ThreadInv
  BY Parts
<1>1. /\ t \in VR!Threads /\ thread[t].pc = "apply"
      /\ UNCHANGED <<VR!gateVars, txn, current, VR!eventVars, recovery, VR!gameVars, frames, running, silent>>
  BY Names DEF VR!Apply, VR!At
<1>2. thread[t].gen # 0
  BY <1>0, <1>1 DEF ThreadInv, Of, Acting
<1>3. CASE VR!Queue(t, "apply") /\ VR!Goes(t, "applying")
  <2> HIDE DEF t
  <2>1. VR!Goes(t, IF "apply" = "apply" THEN "applying" ELSE "restoring")
    BY <1>3
  <2> QED BY <1>1, <1>2, <1>3, <2>1, QueuedKeeps
<1>4. CASE thread' = [thread EXCEPT ![t] = VR!Aborts(s)] /\ UNCHANGED tasks
  <2>1. Steady /\ current' = current /\ frames' = frames /\ recovery' = recovery
    BY <1>1, <1>4 DEF Steady, TxnSame, VR!gateVars, VR!eventVars, VR!gameVars
  <2> QED BY <1>1, <1>4, <2>1, AbortsKeeps
<1> QED BY <1>3, <1>4 DEF VR!Apply

LEMMA CommitKeeps ==
  ASSUME VR!VRAssumption, VRInv, NEW s \in Starts, VR!Commit(s)
  PROVE  TrackedCore'
<1> DEFINE t == VR!Start(s)
           g == thread[VR!Start(s)].gen
<1>0. TransactionInv /\ StartInv /\ ThreadInv /\ RecoveryInv /\ TaskInv /\ ApplyInv /\ RestoreInv
      /\ GameInv /\ EventInv /\ VR!TypeOK
  BY Parts
<1>1. /\ t \in VR!Threads /\ thread[t].pc = "commit"
      /\ UNCHANGED <<tasks, running, pendingEvent, game, previous, events, recovery, silent, frames>>
  BY Names DEF VR!Commit, VR!At, VR!gateVars, VR!gameVars, VR!mainVars
<1>2. CASE ~(VR!CanApply(g) /\ txn.applied)
  <2>1. thread' = [thread EXCEPT ![t] = VR!Aborts(s)] /\ UNCHANGED <<txn, current, published>>
    BY <1>2 DEF VR!Commit
  <2>2. Steady
    BY <1>1, <2>1 DEF Steady, TxnSame
  <2> QED BY <1>1, <2>1, <2>2, AbortsKeeps
<1>3. CASE VR!CanApply(g) /\ txn.applied
  <2>1. /\ txn' = [txn EXCEPT !.starting = FALSE, !.active = TRUE]
        /\ current' = frames[s][1]
        /\ VR!Publish("started", g)
        /\ VR!Goes(t, "spawn")
    BY <1>3 DEF VR!Commit
  <2>2. /\ ~txn'.starting /\ txn'.active /\ txn'.restoring = txn.restoring /\ txn'.claimed = txn.claimed
        /\ txn'.applied = txn.applied /\ txn'.generation = txn.generation /\ txn'.token = txn.token
    BY <1>0, <2>1 DEF VR!TypeOK
  <2>3. txn.starting /\ txn.generation = g /\ txn.applied /\ ~txn.claimed /\ ~txn.restoring /\ ~txn.active
    BY <1>0, <1>3 DEF VR!CanApply, TransactionInv
  <2>4. txn.generation # 0 /\ txn.token = s /\ VR!Valid(frames[s]) /\ frames[s] \in Submitted
    BY <1>1, <2>3, Same DEF Outside
  <2>5. thread'[t].pc = "spawn" /\ thread'[t].gen = thread[t].gen /\ Others(t)
    BY <1>0, <1>1, <2>1, Moved DEF VR!Goes
  <2>6. published' = IF events THEN Append(published, [event |-> "started", gen |-> g]) ELSE published
    BY <2>1, Events DEF VR!Publish
  <2> HIDE DEF t, g
  <2>7. Continues(t)
    BY <1>1, <2>5 DEF Continues, Outside, Acting, Early, Recoverers
  <2>8. \A u \in VR!Threads : Continues(u)
    BY <1>1, <2>5, <2>7, OthersContinue
  <2>9. \A u \in VR!Threads : u # t => thread'[u] = thread[u]
    BY <2>5 DEF Others
  <2>10. TransactionInv'
    BY <2>2, <2>3, <2>4 DEF TransactionInv
  <2>11. StartInv'
    BY <1>0, <1>1, <2>2, <2>8, StartSame, Names
  <2>12. ThreadInv'
    BY <1>0, <2>2, <2>8, ThreadSame
  <2>13. RecoveryInv'
    <3>1. \A u \in VR!Threads : thread'[u].pc = "spawnRecovery" =>
              thread[u].pc = "spawnRecovery" /\ thread'[u].gen = thread[u].gen
      BY <2>5, <2>9
    <3>2. \A r \in VR!Generations : thread'[VR!Recovery(r)].pc \in {"idle", "done"} <=>
              thread[VR!Recovery(r)].pc \in {"idle", "done"}
      BY <1>1, <2>5, <2>9, Names
    <3> QED BY <1>0, <1>1, <2>2, <3>1, <3>2, RecoverySame
  <2>14. TaskInv'
    BY <1>0, <1>1, <2>2, <2>9, TaskSame DEF Waiting
  <2>15. ApplyInv'
    BY <1>0, <1>1, <2>2, <2>5, <2>9, ApplySame
  <2>16. RestoreInv'
    <3>1. \A u \in VR!Threads :
            /\ thread'[u].pc # thread[u].pc \/ thread'[u].gen = thread[u].gen
            /\ thread'[u].gen = txn.generation /\ thread'[u].pc # thread[u].pc =>
                  /\ thread'[u].pc \in Restorers => txn'.claimed
                  /\ thread'[u].pc = "stopped" => txn'.claimed /\ ~txn'.applied
                  /\ thread'[u].pc \in {"schedule", "spawnRecovery", "sleep"} =>
                        txn'.claimed \/ txn.generation \in silent'
      BY <2>5, <2>9 DEF Restorers
    <3>2. \A r \in VR!Generations : thread'[VR!Recovery(r)].pc # "idle" => thread[VR!Recovery(r)].pc # "idle"
      BY <2>8, Names DEF Continues
    <3> QED BY <1>0, <1>1, <2>2, <3>1, <3>2, RestoreSame
  <2>17. GameInv'
    <3>1. 1 \in DOMAIN frames[s]
      BY <2>4, Pairs
    <3> QED BY <1>0, <1>1, <2>1, <2>2, <2>3, <2>4, <3>1 DEF GameInv
  <2>18. EventInv'
    <3>1. \A i \in DOMAIN published : published[i].gen # g
      BY <1>0, <2>3 DEF EventInv
    <3>2. (\A u \in VR!Threads : thread[u].pc \in {"play", "finish"} =>
            thread[u].event \in VR!Terminal \/ \E r \in VR!Generations : u = VR!Recovery(r))'
      BY <1>0, <2>5, <2>9 DEF EventInv
    <3>3. CASE ~events
      <4>1. published' = published
        BY <2>6, <3>3
      <4> QED BY <1>0, <2>2, <2>3, <3>1, <3>2, <4>1 DEF EventInv
    <3>4. CASE events
      <4> DEFINE e == [event |-> "started", gen |-> g]
                 n == Len(published) + 1
      <4>1. published' = Append(published, e) /\ e.event = "started" /\ e.gen = g
        BY <2>6, <3>4
      <4>2. published \in Seq([event : VR!Terminal \union {"started"}, gen : VR!Generations])
        BY <1>0 DEF VR!TypeOK
      <4> HIDE DEF e
      <4>3. /\ DOMAIN published' = DOMAIN published \union {n} /\ published'[n] = e
            /\ \A i \in DOMAIN published : published'[i] = published[i] /\ i < n /\ i \in Nat
            /\ n \in Nat
        BY <4>1, <4>2, Appended
      <4> HIDE DEF n
      <4>4. (\A i \in DOMAIN published : published[i].gen <= txn.generation)'
        BY <1>0, <2>2, <2>3, <4>1, <4>3, Numbered DEF EventInv
      <4>5. (\A i, j \in DOMAIN published : i < j /\ published[i].gen = published[j].gen =>
          published[i].event = "started" /\ published[j].event \in VR!Terminal)'
        BY <1>0, <3>1, <4>1, <4>3 DEF EventInv
      <4>6. (\A i \in DOMAIN published : published[i].gen = txn.generation =>
          IF published[i].event = "started" THEN ~txn.starting ELSE txn.claimed /\ ~txn.restoring)'
        BY <2>2, <2>3, <3>1, <4>1, <4>3
      <4> QED BY <2>2, <2>3, <3>2, <4>4, <4>5, <4>6 DEF EventInv
    <3> QED BY <3>3, <3>4
  <2> QED BY <2>10, <2>11, <2>12, <2>13, <2>14, <2>15, <2>16, <2>17, <2>18 DEF TrackedCore
<1> QED BY <1>2, <1>3

\* A thread that goes on from where it did nothing.
Enters(u) ==
    /\ thread'[u].gen <= txn.generation /\ (thread'[u].pc \in Acting => thread'[u].gen # 0)
    /\ thread'[u].pc \notin Early \union Recoverers
    /\ \A s \in Starts : u # VR!Start(s)
    /\ \A s \in Starts : u = VR!Playback(s) =>
          thread'[VR!Start(s)].pc = "queued" /\ thread'[u].gen = thread'[VR!Start(s)].gen
    /\ \A l \in Lifecycles : u = VR!Cleanup(l) => thread'[VR!Caller(l)].pc \in {"unready", "done"}
    /\ \A l \in Lifecycles : u = VR!Caller(l) =>
          thread'[VR!Cleanup(l)].pc = "idle" \/ thread'[u].pc \in {"unready", "done"}
    /\ \A g \in VR!Generations : u = VR!Recovery(g) => thread'[u].gen = g

LEMMA EntersKeeps ==
  ASSUME ThreadInv, \A u \in VR!Threads : Continues(u) \/ Enters(u), txn'.generation = txn.generation
  PROVE  ThreadInv'
<1>2. (\A t \in VR!Threads : Of(t) <= txn.generation /\ (thread[t].pc \in Acting => Of(t) # 0))'
  BY DEF ThreadInv, Continues, Enters, Of
<1>3. (\A t \in VR!Threads : thread[t].pc \in Early => \E s \in Starts : t = VR!Start(s))'
  BY DEF ThreadInv, Continues, Enters, Early
<1>4. (\A s \in Starts : ~VR!At(VR!Playback(s), "idle") => VR!At(VR!Start(s), "queued") /\ Of(VR!Playback(s)) = Of(VR!Start(s)))'
  <2>1. \A s \in Starts : Continues(VR!Start(s))
    BY Names DEF Enters
  <2>2. ASSUME NEW s \in Starts, thread'[VR!Playback(s)].pc # "idle"
        PROVE  thread'[VR!Start(s)].pc = "queued" /\ thread'[VR!Playback(s)].gen = thread'[VR!Start(s)].gen
    <3>1. CASE Continues(VR!Playback(s))
      BY <2>1, <2>2, <3>1 DEF ThreadInv, Continues, Of, VR!At
    <3>2. CASE Enters(VR!Playback(s))
      BY <3>2 DEF Enters
    <3> QED BY <3>1, <3>2, Names
  <2> QED BY <2>2 DEF VR!At, Of
<1>5. (\A l \in Lifecycles : ~VR!At(VR!Cleanup(l), "idle") => thread[VR!Caller(l)].pc \in {"unready", "done"})'
  <2>2. ASSUME NEW l \in Lifecycles, thread'[VR!Cleanup(l)].pc # "idle"
        PROVE  thread'[VR!Caller(l)].pc \in {"unready", "done"}
    <3>1. CASE Continues(VR!Cleanup(l)) /\ Continues(VR!Caller(l))
      BY <2>2, <3>1 DEF ThreadInv, Continues, VR!At
    <3>2. CASE Enters(VR!Cleanup(l)) \/ Enters(VR!Caller(l))
      BY <2>2, <3>2 DEF Enters
    <3> QED BY <3>1, <3>2, Names
  <2> QED BY <2>2 DEF VR!At
<1>6. (\A g \in VR!Generations : ~VR!At(VR!Recovery(g), "idle") => Of(VR!Recovery(g)) = g)'
  BY Names DEF ThreadInv, Continues, Enters, Of, VR!At
<1>7. (\A g \in VR!Generations : thread[VR!Recovery(g)].pc \notin {"schedule", "spawnRecovery"})'
  BY Names DEF ThreadInv, Continues, Enters, Recoverers
<1> QED BY <1>2, <1>3, <1>4, <1>5, <1>6, <1>7 DEF ThreadInv, Early

LEMMA AsideSame ==
  ASSUME VR!VRAssumption, VRInv, Steady, recovery' = recovery, frames' = frames, current' = current,
         NEW T, Aside(T), \A s \in Starts : Continues(VR!Start(s)), \A u \in T : Continues(u) \/ Enters(u)
  PROVE  TrackedCore'
<1>0. TransactionInv /\ StartInv /\ ThreadInv /\ RecoveryInv /\ TaskInv /\ ApplyInv /\ RestoreInv
      /\ GameInv /\ EventInv /\ VR!TypeOK
  BY Parts
<1>1. TransactionInv' /\ RecoveryInv' /\ TaskInv' /\ ApplyInv' /\ RestoreInv' /\ EventInv'
  BY AsideKeeps
<1>2. StartInv'
  BY <1>0, StartSame DEF Steady, TxnSame
<1>3. ThreadInv'
  <2>1. \A u \in VR!Threads : Continues(u) \/ Enters(u)
    BY DEF Aside, Continues
  <2> QED BY <1>0, <2>1, EntersKeeps DEF Steady, TxnSame
<1>4. GameInv'
  BY <1>0, GameSame DEF Steady, TxnSame
<1> QED BY <1>1, <1>2, <1>3, <1>4 DEF TrackedCore

LEMMA SpawnKeeps ==
  ASSUME VR!VRAssumption, VRInv, NEW s \in Starts, VR!Spawn(s)
  PROVE  TrackedCore'
<1> DEFINE t == VR!Start(s)
           p == VR!Playback(s)
<1>0. VR!TypeOK /\ ThreadInv
  BY Parts
<1>1. /\ t \in VR!Threads /\ p \in VR!Threads /\ t # p /\ thread[t].pc = "spawn"
      /\ Steady /\ current' = current /\ frames' = frames /\ recovery' = recovery
  BY Names, OwnNames DEF VR!Spawn, VR!At, Steady, TxnSame, VR!gateVars, VR!eventVars, VR!gameVars, VR!mainVars
<1>2. CASE thread' = [thread EXCEPT ![t] = VR!Aborts(s)]
  BY <1>1, <1>2, AbortsKeeps
<1>3. CASE thread' = [thread EXCEPT ![t].pc = "queued", ![p] = VR!Thread("play", thread[t].gen, "finished", 1)]
  <2>1. /\ thread'[t].pc = "queued" /\ thread'[t].gen = thread[t].gen
        /\ thread'[p] = VR!Thread("play", thread[t].gen, "finished", 1)
        /\ \A u \in VR!Threads \ {t, p} : thread'[u] = thread[u]
    <3>1. thread \in [VR!Threads -> [pc : VR!Places, gen : VR!Known, event : VR!Terminal \union {VR!NoEvent}, count : Nat]]
      BY <1>0 DEF VR!TypeOK
    <3> HIDE DEF t, p
    <3> QED BY <1>1, <1>3, <3>1
  <2>2. thread'[p].pc = "play" /\ thread'[p].gen = thread[t].gen /\ thread'[p].event = "finished"
    BY <2>1, ThreadFields
  <2>3. thread[p].pc = "idle"
    BY <1>0, <1>1 DEF ThreadInv, VR!At
  <2>4. thread[t].gen # 0 /\ thread[t].gen <= txn.generation
    BY <1>0, <1>1 DEF ThreadInv, Of, Acting
  <2>5. \A l \in Lifecycles \union VR!Generations : t # VR!Caller(l) /\ t # VR!Cleanup(l) /\ t # VR!Recovery(l)
            /\ p # VR!Caller(l) /\ p # VR!Cleanup(l) /\ p # VR!Recovery(l)
    BY OwnNames
  <2>6. \A u \in Starts : p # VR!Start(u) /\ (p = VR!Playback(u) => t = VR!Start(u))
    BY OwnNames
  <2> DEFINE T == {t, p}
  <2> HIDE DEF t, p
  <2>7. Continues(t)
    BY <1>1, <2>1 DEF Continues, Outside, Acting, Early, Recoverers
  <2>8. Enters(p)
    BY <2>1, <2>2, <2>4, <2>5, <2>6 DEF Enters, Early, Recoverers
  <2>9. Aside(T)
    BY <1>1, <2>1, <2>2, <2>3, <2>5 DEF Aside, Waiting, Restorers, VR!Terminal
  <2>10. \A u \in Starts : Continues(VR!Start(u))
    BY <2>1, <2>6, <2>7, Names DEF Continues
  <2>11. \A u \in T : Continues(u) \/ Enters(u)
    BY <2>7, <2>8
  <2> HIDE DEF T
  <2> QED BY <1>1, <2>9, <2>10, <2>11, AsideSame
<1> QED BY <1>2, <1>3 DEF VR!Spawn

LEMMA PlaysKeeps ==
  ASSUME VR!VRAssumption, VRInv, NEW s \in Starts, VR!Plays(s)
  PROVE  TrackedCore'
<1> DEFINE t == VR!Playback(s)
           next == thread[t].count + 1
<1>0. VR!TypeOK /\ ThreadInv /\ GameInv /\ EventInv
  BY Parts
<1>1. /\ t \in VR!Threads /\ thread[t].pc = "play"
      /\ Steady /\ frames' = frames /\ recovery' = recovery
  BY Names DEF VR!Plays, VR!At, Steady, TxnSame, VR!gateVars, VR!eventVars, VR!gameVars, VR!mainVars
<1>2. \A g \in VR!Generations : t # VR!Recovery(g)
  BY OwnNames
<1>3. thread[t].count \in Nat
  BY <1>0, <1>1 DEF VR!TypeOK
<1>4. \/ (~txn.active \/ ~VR!Mine(t)) /\ VR!Goes(t, "done") /\ UNCHANGED current
      \/ /\ txn.active /\ VR!Mine(t) /\ next <= Len(frames[s])
         /\ current' = frames[s][next] /\ thread' = [thread EXCEPT ![t].count = next]
      \/ VR!Goes(t, "finish") /\ UNCHANGED current
  BY DEF VR!Plays
<1>5. ASSUME NEW p \in {"done", "finish"}, VR!Goes(t, p), current' = current
      PROVE  TrackedCore'
  <2> HIDE DEF t
  <2>1. thread'[t].pc = p /\ thread'[t].gen = thread[t].gen /\ thread'[t].event = thread[t].event /\ Others(t)
    BY <1>0, <1>1, <1>5, Moved DEF VR!Goes
  <2>2. Continues(t)
    BY <1>1, <2>1 DEF Continues, Outside, Acting, Early, Recoverers
  <2>3. GameInv'
    BY <1>0, <1>1, <1>5, GameSame DEF Steady, TxnSame
  <2>4. thread[t].event \in VR!Terminal
    BY <1>0, <1>1, <1>2 DEF EventInv
  <2> QED BY <1>1, <1>2, <2>1, <2>2, <2>3, <2>4, Plain DEF Waiting, Restorers
<1>6. CASE /\ txn.active /\ VR!Mine(t) /\ next <= Len(frames[s])
           /\ current' = frames[s][next] /\ thread' = [thread EXCEPT ![t].count = next]
  <2>1. thread'[t].pc = "play" /\ thread'[t].gen = thread[t].gen /\ thread'[t].event = thread[t].event /\ Others(t)
    <3>1. thread \in [VR!Threads -> [pc : VR!Places, gen : VR!Known, event : VR!Terminal \union {VR!NoEvent}, count : Nat]]
      BY <1>0 DEF VR!TypeOK
    <3> HIDE DEF t
    <3> QED BY <1>1, <1>6, <3>1 DEF Others
  <2>2. thread[VR!Start(s)].pc = "queued" /\ thread[VR!Start(s)].gen = thread[t].gen
    BY <1>0, <1>1 DEF ThreadInv, VR!At, Of
  <2>3. txn.token = s /\ VR!Valid(frames[s]) /\ frames[s] \in Submitted
    BY <1>6, <2>2, Same DEF Outside, VR!Mine
  <2>4. next \in DOMAIN frames[s]
    BY <1>3, <1>6, <2>3, Pairs
  <2> HIDE DEF next
  <2>5. GameInv'
    BY <1>0, <1>1, <1>6, <2>3, <2>4 DEF GameInv, Steady, TxnSame
  <2> HIDE DEF t
  <2>6. Continues(t)
    BY <1>1, <2>1 DEF Continues, Outside, Acting, Early, Recoverers
  <2>7. thread[t].event \in VR!Terminal
    BY <1>0, <1>1, <1>2 DEF EventInv
  <2> QED BY <1>1, <1>2, <2>1, <2>5, <2>6, <2>7, Plain DEF Waiting, Restorers
<1> HIDE DEF t
<1> QED BY <1>4, <1>5, <1>6

LEMMA ReleaseKeeps ==
  ASSUME VR!VRAssumption, VRInv, NEW s \in Stops, VR!Release(s)
  PROVE  TrackedCore'
<1> DEFINE t == VR!Stop(s)
<1>0. VR!TypeOK /\ ThreadInv /\ TransactionInv
  BY Parts
<1>1. /\ t \in VR!Threads /\ thread[t].pc = "idle"
      /\ Steady /\ current' = current /\ frames' = frames /\ recovery' = recovery
  BY Names DEF VR!Release, VR!At, Steady, TxnSame, VR!gateVars, VR!eventVars, VR!gameVars, VR!mainVars
<1>2. \/ thread' = [thread EXCEPT ![t] = VR!Thread("notActive", 0, VR!NoEvent, 0)]
      \/ thread' = [thread EXCEPT ![t] = VR!Thread("denied", 0, VR!NoEvent, 0)]
      \/ VR!Busy /\ thread' = [thread EXCEPT ![t] = VR!Thread("finish", txn.generation, "stopped", 0)]
  <2>1. CASE ~VR!Busy
    BY <2>1 DEF VR!Release
  <2>2. CASE VR!Busy
    BY <2>2 DEF VR!Release
  <2> QED BY <2>1, <2>2
<1>3. VR!Busy => txn.generation # 0
  BY <1>0 DEF VR!Busy, TransactionInv
<1>4. /\ Others(t) /\ thread'[t].gen <= txn.generation
      /\ \/ thread'[t].pc \in {"notActive", "denied"}
         \/ thread'[t].pc = "finish" /\ thread'[t].event = "stopped" /\ thread'[t].gen # 0
  <2> HIDE DEF t
  <2>4. txn.generation \in Nat
    BY Numbered
  <2>1. CASE thread' = [thread EXCEPT ![t] = VR!Thread("notActive", 0, VR!NoEvent, 0)]
    <3>1. thread'[t].pc = "notActive" /\ thread'[t].gen = 0 /\ Others(t)
      BY <1>0, <1>1, <2>1, MovedTo
    <3> QED BY <2>4, <3>1
  <2>2. CASE thread' = [thread EXCEPT ![t] = VR!Thread("denied", 0, VR!NoEvent, 0)]
    <3>1. thread'[t].pc = "denied" /\ thread'[t].gen = 0 /\ Others(t)
      BY <1>0, <1>1, <2>2, MovedTo
    <3> QED BY <2>4, <3>1
  <2>3. CASE VR!Busy /\ thread' = [thread EXCEPT ![t] = VR!Thread("finish", txn.generation, "stopped", 0)]
    <3>1. /\ thread'[t].pc = "finish" /\ thread'[t].event = "stopped"
          /\ thread'[t].gen = txn.generation /\ Others(t)
      BY <1>0, <1>1, <2>3, MovedTo
    <3> QED BY <1>3, <2>3, <2>4, <3>1
  <2> QED BY <1>2, <2>1, <2>2, <2>3
<1>5. /\ \A l \in Lifecycles \union VR!Generations \union Starts :
            t # VR!Caller(l) /\ t # VR!Cleanup(l) /\ t # VR!Recovery(l) /\ t # VR!Start(l) /\ t # VR!Playback(l)
  BY OwnNames
<1> DEFINE T == {t}
<1> HIDE DEF t
<1>6. Enters(t)
  BY <1>4, <1>5 DEF Enters, Early, Recoverers, Acting
<1>7. Aside(T)
  BY <1>1, <1>4, <1>5 DEF Aside, Waiting, Restorers, VR!Terminal, Others
<1>8. \A u \in Starts : Continues(VR!Start(u))
  BY <1>4, <1>5, Names DEF Continues, Others
<1>9. \A u \in T : Continues(u) \/ Enters(u)
  BY <1>6
<1> HIDE DEF T
<1> QED BY <1>1, <1>7, <1>8, <1>9, AsideSame

LEMMA LifecycleKeeps ==
  ASSUME VR!VRAssumption, VRInv, NEW l \in Lifecycles, VR!Lifecycle(l)
  PROVE  TrackedCore'
<1> DEFINE t == VR!Caller(l)
<1>0. TransactionInv /\ StartInv /\ ThreadInv /\ RecoveryInv /\ TaskInv /\ ApplyInv /\ RestoreInv
      /\ GameInv /\ EventInv /\ VR!TypeOK
  BY Parts
<1>1. /\ t \in VR!Threads /\ thread[t].pc = "idle" /\ VR!Cleanup(l) \in VR!Threads
      /\ UNCHANGED <<tasks, running, pendingEvent, published, game, previous, events, recovery, silent, frames>>
  BY Names DEF VR!Lifecycle, VR!At, VR!gateVars, VR!eventVars, VR!gameVars, VR!mainVars
<1>2. /\ \A u \in Stops \union VR!Generations \union Starts :
            t # VR!Stop(u) /\ t # VR!Recovery(u) /\ t # VR!Start(u) /\ t # VR!Playback(u)
      /\ \A u \in Lifecycles : t # VR!Cleanup(u) /\ (t = VR!Caller(u) => u = l)
  <2>1. \A u : VR!Caller(u)[2] = u
    BY DEF VR!Caller
  <2> QED BY <2>1, OwnNames
<1>3. thread[VR!Cleanup(l)].pc = "idle"
  BY <1>0, <1>1 DEF ThreadInv, VR!At
<1>4. CASE VR!Goes(t, VR!Released(l)) /\ UNCHANGED <<txn, current>>
  <2>1. VR!Released(l) \in {"done", "unready"}
    BY DEF VR!Released
  <2> HIDE DEF t
  <2>2. thread'[t].pc \in {"done", "unready"} /\ thread'[t].gen = thread[t].gen /\ Others(t)
    BY <1>0, <1>1, <1>4, <2>1, Moved DEF VR!Goes
  <2>3. Enters(t)
    BY <1>2, <2>2, Numbered, <1>1 DEF Enters, Early, Recoverers, Acting
  <2> DEFINE T == {t}
  <2>4. Aside(T)
    BY <1>1, <1>2, <2>2 DEF Aside, Waiting, Restorers, Others
  <2>5. \A u \in Starts : Continues(VR!Start(u))
    BY <1>2, <2>2, Names DEF Continues, Others
  <2>6. \A u \in T : Continues(u) \/ Enters(u)
    BY <2>3
  <2>7. Steady
    BY <1>1, <1>4 DEF Steady, TxnSame
  <2> HIDE DEF T
  <2> QED BY <1>1, <1>4, <2>4, <2>5, <2>6, <2>7, AsideSame
<1>5. CASE /\ VR!Busy
           /\ txn' = VR!Cancelled /\ current' = None
           /\ thread' = [thread EXCEPT ![t] = VR!Thread("detach", txn.generation, VR!NoEvent, 0)]
  <2>1. /\ txn'.generation = txn.generation /\ txn'.token = txn.token /\ txn'.claimed = txn.claimed
        /\ txn'.applied = txn.applied /\ ~txn'.starting /\ ~txn'.active
        /\ IF txn.starting \/ txn.active THEN txn'.restoring ELSE txn'.restoring = txn.restoring
    BY <1>0, <1>5 DEF VR!TypeOK, VR!Cancelled
  <2>2. txn.generation # 0
    BY <1>0, <1>5 DEF VR!Busy, TransactionInv
  <2> HIDE DEF t
  <2>3. thread'[t].pc = "detach" /\ thread'[t].gen = txn.generation /\ Others(t)
    <3>1. thread' = [thread EXCEPT ![t] = VR!Thread("detach", txn.generation, VR!NoEvent, 0)]
      BY <1>5
    <3>2. VR!TypeOK /\ t \in VR!Threads
      BY <1>0, <1>1
    <3>3. thread'[t] = VR!Thread("detach", txn.generation, VR!NoEvent, 0) /\ Others(t)
      BY <3>1, <3>2, Moved
    <3> QED BY <3>3, ThreadFields
  <2>4. \A u \in VR!Threads : u # t => thread'[u] = thread[u]
    BY <2>3 DEF Others
  <2>5. TransactionInv'
    BY <1>0, <2>1 DEF TransactionInv
  <2>6. StartInv'
    <3>1. \A u \in Starts : Continues(VR!Start(u))
      BY <1>2, <2>4, Names DEF Continues
    <3> QED BY <1>0, <1>1, <2>1, <3>1, StartSame
  <2>7. ThreadInv'
    <3>1. VR!Cleanup(l) # t /\ thread'[VR!Cleanup(l)].pc = "idle"
      BY <1>1, <1>2, <1>3, <2>4
    <3>2. Enters(t)
      BY <1>2, <2>2, <2>3, <3>1, Numbered DEF Enters, Early, Recoverers
    <3>3. \A u \in VR!Threads : Continues(u) \/ Enters(u)
      BY <2>4, <3>2 DEF Continues
    <3> QED BY <1>0, <2>1, <3>3, EntersKeeps
  <2>8. RecoveryInv'
    <3>1. \A u \in VR!Threads : thread'[u].pc = "spawnRecovery" =>
              thread[u].pc = "spawnRecovery" /\ thread'[u].gen = thread[u].gen
      BY <2>3, <2>4
    <3>2. \A r \in VR!Generations : thread'[VR!Recovery(r)].pc \in {"idle", "done"} <=>
              thread[VR!Recovery(r)].pc \in {"idle", "done"}
      BY <1>2, <2>4, Names
    <3> QED BY <1>0, <1>1, <2>1, <3>1, <3>2, RecoverySame
  <2>9. TaskInv'
    BY <1>0, <1>1, <2>1, <2>4, TaskSame DEF Waiting
  <2>10. ApplyInv'
    BY <1>0, <1>1, <2>1, <2>3, <2>4, ApplySame
  <2>11. RestoreInv'
    <3>1. \A u \in VR!Threads :
            /\ thread'[u].pc # thread[u].pc \/ thread'[u].gen = thread[u].gen
            /\ thread'[u].gen = txn.generation /\ thread'[u].pc # thread[u].pc =>
                  /\ thread'[u].pc \in Restorers => txn'.claimed
                  /\ thread'[u].pc = "stopped" => txn'.claimed /\ ~txn'.applied
                  /\ thread'[u].pc \in {"schedule", "spawnRecovery", "sleep"} =>
                        txn'.claimed \/ txn.generation \in silent'
      BY <1>1, <2>3, <2>4 DEF Restorers
    <3>2. \A r \in VR!Generations : thread'[VR!Recovery(r)].pc # "idle" => thread[VR!Recovery(r)].pc # "idle"
      BY <1>2, <2>4, Names
    <3> QED BY <1>0, <1>1, <2>1, <3>1, <3>2, RestoreSame
  <2>12. GameInv'
    BY <1>0, <1>1, <2>1, GameSame
  <2>13. EventInv'
    <3>1. \A u \in VR!Threads : thread'[u].pc \in {"play", "finish"} =>
            thread'[u].event \in VR!Terminal \/ \E r \in VR!Generations : u = VR!Recovery(r)
      BY <1>0, <2>3, <2>4 DEF EventInv
    <3>2. txn.claimed => (txn'.restoring <=> txn.restoring)
      BY <1>0, <2>1 DEF TransactionInv
    <3> QED BY <1>0, <1>1, <2>1, <3>1, <3>2, EventSame
  <2> QED BY <2>5, <2>6, <2>7, <2>8, <2>9, <2>10, <2>11, <2>12, <2>13 DEF TrackedCore
<1> QED BY <1>4, <1>5 DEF VR!Lifecycle

LEMMA DetachKeeps ==
  ASSUME VR!VRAssumption, VRInv, NEW l \in Lifecycles, VR!Detach(l)
  PROVE  TrackedCore'
<1> DEFINE t == VR!Caller(l)
           c == VR!Cleanup(l)
<1>0. VR!TypeOK /\ ThreadInv /\ GameInv
  BY Parts
<1>1. /\ t \in VR!Threads /\ c \in VR!Threads /\ t # c /\ thread[t].pc = "detach"
      /\ Steady /\ current' = current /\ frames' = frames /\ recovery' = recovery
  BY Names, OwnNames DEF VR!Detach, VR!At, Steady, TxnSame, VR!gateVars, VR!eventVars, VR!gameVars, VR!mainVars
<1>2. /\ \A u \in Stops \union VR!Generations \union Starts : 
            /\ t # VR!Stop(u) /\ t # VR!Recovery(u) /\ t # VR!Start(u) /\ t # VR!Playback(u)
            /\ c # VR!Stop(u) /\ c # VR!Recovery(u) /\ c # VR!Start(u) /\ c # VR!Playback(u)
      /\ \A u \in Lifecycles : t # VR!Cleanup(u) /\ (c = VR!Cleanup(u) => u = l) /\ c # VR!Caller(u)
  <2>1. \A u : VR!Cleanup(u)[2] = u
    BY DEF VR!Cleanup
  <2> QED BY <2>1, OwnNames
<1>3. thread[c].pc = "idle"
  BY <1>0, <1>1 DEF ThreadInv, VR!At
<1>4. VR!Released(l) \in {"done", "unready"}
  BY DEF VR!Released
<1>5. CASE thread' = [thread EXCEPT ![t].pc = VR!Released(l), ![c] = VR!Thread("finish", thread[t].gen, "stopped", 0)]
  <2>1. /\ thread'[t].pc = VR!Released(l) /\ thread'[t].gen = thread[t].gen
        /\ thread'[c] = VR!Thread("finish", thread[t].gen, "stopped", 0)
        /\ \A u \in VR!Threads \ {t, c} : thread'[u] = thread[u]
    <3>1. thread \in [VR!Threads -> [pc : VR!Places, gen : VR!Known, event : VR!Terminal \union {VR!NoEvent}, count : Nat]]
      BY <1>0 DEF VR!TypeOK
    <3> HIDE DEF t, c
    <3> QED BY <1>1, <1>5, <3>1
  <2>2. thread'[c].pc = "finish" /\ thread'[c].gen = thread[t].gen /\ thread'[c].event = "stopped"
    BY <2>1, ThreadFields
  <2>4. thread[t].gen # 0 /\ thread[t].gen <= txn.generation
    BY <1>0, <1>1 DEF ThreadInv, Of, Acting
  <2>5. \A u \in Lifecycles : c = VR!Cleanup(u) => VR!Caller(u) = t
    BY <1>2
  <2> DEFINE T == {t, c}
  <2> HIDE DEF t, c
  <2>7. Continues(t)
    BY <1>1, <1>4, <2>1 DEF Continues, Outside, Acting, Early, Recoverers
  <2>8. Enters(c)
    BY <1>2, <1>4, <2>1, <2>2, <2>4, <2>5 DEF Enters, Early, Recoverers
  <2>9. Aside(T)
    BY <1>1, <1>2, <1>3, <1>4, <2>1, <2>2 DEF Aside, Waiting, Restorers, VR!Terminal
  <2>10. \A u \in Starts : Continues(VR!Start(u))
    BY <1>2, <2>1, Names DEF Continues
  <2>11. \A u \in T : Continues(u) \/ Enters(u)
    BY <2>7, <2>8
  <2> HIDE DEF T
  <2> QED BY <1>1, <2>9, <2>10, <2>11, AsideSame
<1>6. CASE VR!Goes(t, "schedule") /\ silent' = silent \union {thread[t].gen}
  <2> HIDE DEF t, c
  <2>1. thread'[t].pc = "schedule" /\ thread'[t].gen = thread[t].gen /\ Others(t)
    BY <1>0, <1>1, <1>6, Moved DEF VR!Goes
  <2>2. Continues(t)
    BY <1>1, <1>2, <2>1 DEF Continues, Outside, Acting, Early, Recoverers
  <2>3. GameInv'
    BY <1>0, <1>1, GameSame DEF Steady, TxnSame
  <2> QED BY <1>1, <1>2, <1>6, <2>1, <2>2, <2>3, Plain DEF Waiting, Restorers
<1> QED BY <1>5, <1>6 DEF VR!Detach

LEMMA UnreadyKeeps ==
  ASSUME VR!VRAssumption, VRInv, NEW l \in Lifecycles, VR!Unready(l)
  PROVE  TrackedCore'
<1> DEFINE t == VR!Caller(l)
<1>0. VR!TypeOK /\ GameInv
  BY Parts
<1>1. /\ t \in VR!Threads /\ thread[t].pc = "unready" /\ VR!Goes(t, "done")
      /\ Steady /\ current' = current /\ frames' = frames /\ recovery' = recovery
  BY Names DEF VR!Unready, VR!At, Steady, TxnSame, VR!eventVars, VR!gameVars, VR!mainVars
<1>2. \A g \in VR!Generations : t # VR!Recovery(g)
  BY OwnNames
<1> HIDE DEF t
<1>3. thread'[t].pc = "done" /\ thread'[t].gen = thread[t].gen /\ Others(t)
  BY <1>0, <1>1, Moved DEF VR!Goes
<1>4. Continues(t)
  BY <1>1, <1>3 DEF Continues, Outside, Acting, Early, Recoverers
<1>5. GameInv'
  BY <1>0, <1>1, GameSame DEF Steady, TxnSame
<1> QED BY <1>1, <1>2, <1>3, <1>4, <1>5, Plain DEF Waiting, Restorers

LEMMA WaitsKeeps ==
  ASSUME VR!VRAssumption, VRInv, NEW s \in Stops, VR!Waits(s)
  PROVE  TrackedCore'
<1> DEFINE t == VR!Stop(s)
           restored == ~VR!Mine(t) \/ (~txn.restoring /\ ~txn.applied)
<1>0. VR!TypeOK /\ GameInv /\ RestoreInv
  BY Parts
<1>1. /\ t \in VR!Threads /\ thread[t].pc = "wait"
      /\ Steady /\ current' = current /\ frames' = frames /\ recovery' = recovery
  BY Names DEF VR!Waits, VR!At, Steady, TxnSame, VR!gateVars, VR!eventVars, VR!gameVars, VR!mainVars
<1>2. \A g \in VR!Generations : t # VR!Recovery(g)
  BY OwnNames
<1>3. VR!Goes(t, IF restored THEN "stopped" ELSE "pending") \/ VR!Goes(t, "pending")
  BY DEF VR!Waits
<1> HIDE DEF t
<1>4. /\ thread'[t].pc \in {"stopped", "pending"} /\ thread'[t].gen = thread[t].gen /\ Others(t)
      /\ thread'[t].pc = "stopped" => restored
  <2>1. CASE VR!Goes(t, "stopped") /\ restored
    BY <1>0, <1>1, <2>1, Moved DEF VR!Goes
  <2>2. CASE VR!Goes(t, "pending")
    <3>1. thread'[t].pc = "pending" /\ thread'[t].gen = thread[t].gen /\ Others(t)
      BY <1>0, <1>1, <2>2, Moved DEF VR!Goes
    <3> QED BY <3>1
  <2> QED BY <1>3, <2>1, <2>2
<1>5. Continues(t)
  BY <1>1, <1>4 DEF Continues, Outside, Acting, Early, Recoverers
<1>6. GameInv'
  BY <1>0, <1>1, GameSame DEF Steady, TxnSame
<1>7. thread[t].gen = txn.generation => txn.claimed /\ (thread'[t].pc = "stopped" => ~txn.applied)
  BY <1>0, <1>1, <1>4 DEF RestoreInv, VR!Mine
<1> QED BY <1>1, <1>2, <1>4, <1>5, <1>6, <1>7, Plain DEF Waiting, Restorers

\* The end of a sequence is published.
LEMMA Publishes ==
  ASSUME VR!VRAssumption, VRInv, NEW e \in VR!Terminal \union {VR!NoEvent}, VR!Publish(e, txn.generation),
         txn.generation # 0, \A i \in DOMAIN published : published[i].gen = txn.generation => published[i].event = "started",
         txn'.generation = txn.generation, txn'.claimed, ~txn'.restoring, ~txn'.starting,
         e \in VR!Terminal \/ txn.generation \in silent, silent' = silent, events' = events,
         \A u \in VR!Threads : thread'[u].pc \in {"play", "finish"} =>
            thread'[u].event \in VR!Terminal \/ \E g \in VR!Generations : u = VR!Recovery(g)
  PROVE  EventInv'
<1> DEFINE x == [event |-> e, gen |-> txn.generation]
           n == Len(published) + 1
<1>0. EventInv /\ VR!TypeOK
  BY DEF VRInv, TrackedCore
<1>1. (\A t \in VR!Threads : thread[t].pc \in {"play", "finish"} =>
          thread[t].event \in VR!Terminal \/ \E g \in VR!Generations : t = VR!Recovery(g))'
  OBVIOUS
<1>2. CASE ~(events /\ e # VR!NoEvent)
  <2>1. published' = published
    BY <1>2 DEF VR!Publish
  <2>2. txn.generation \in silent \/ ~events
    BY <1>2, Events
  <2> QED BY <1>0, <1>1, <2>1, <2>2 DEF EventInv
<1>3. CASE events /\ e # VR!NoEvent
  <2>1. published' = Append(published, x) /\ x.event = e /\ x.gen = txn.generation
    BY <1>3 DEF VR!Publish
  <2>2. published \in Seq([event : VR!Terminal \union {"started"}, gen : VR!Generations])
    BY <1>0 DEF VR!TypeOK
  <2>3. e \in VR!Terminal /\ x.event # "started"
    BY <1>3, <2>1, Events
  <2> HIDE DEF x
  <2>4. /\ DOMAIN published' = DOMAIN published \union {n} /\ published'[n] = x
        /\ \A i \in DOMAIN published : published'[i] = published[i] /\ i < n /\ i \in Nat
        /\ n \in Nat
    BY <2>1, <2>2, Appended
  <2> HIDE DEF n
  <2>5. (\A i \in DOMAIN published : published[i].gen <= txn.generation)'
    BY <1>0, <2>1, <2>4, Numbered DEF EventInv
  <2>6. (\A i, j \in DOMAIN published : i < j /\ published[i].gen = published[j].gen =>
      published[i].event = "started" /\ published[j].event \in VR!Terminal)'
    <3>1. \A i, j \in DOMAIN published : i < j /\ published[i].gen = published[j].gen =>
            published[i].event = "started" /\ published[j].event \in VR!Terminal
      BY <1>0 DEF EventInv
    <3> QED BY <2>1, <2>3, <2>4, <3>1
  <2>7. (\A i \in DOMAIN published : published[i].gen = txn.generation =>
      IF published[i].event = "started" THEN ~txn.starting ELSE txn.claimed /\ ~txn.restoring)'
    BY <2>1, <2>4
  <2>8. Ended(txn.generation)'
    <3>1. x \in Range(published')
      BY <2>4 DEF Range
    <3> QED BY <2>1, <2>3, <3>1 DEF Ended
  <2> QED BY <1>1, <2>5, <2>6, <2>7, <2>8 DEF EventInv
<1> QED BY <1>2, <1>3

-----------------------------------------------------------------------------
(* From Finish on.                                                         *)

\* Where a thread goes when Finish returns to it.
LEMMA Returns ==
  ASSUME NEW t \in VR!Threads, NEW ok \in BOOLEAN
  PROVE  /\ VR!Returned(t, ok) \in {"stopped", "wait", "clear", "sleep", "failed", "schedule", "done"}
         /\ VR!Returned(t, ok) \in {"stopped", "wait"} => t[1] = "stop"
         /\ VR!Returned(t, ok) \in {"clear", "sleep"} => t[1] = "recovery"
         /\ VR!Returned(t, ok) \in {"schedule", "done"} => t[1] # "recovery"
         /\ VR!Returned(t, ok) \in {"stopped", "clear", "failed", "done"} <=> ok
<1>1. CASE t[1] = "stop"
  BY <1>1 DEF VR!Returned
<1>2. CASE t[1] = "recovery"
  BY <1>2 DEF VR!Returned
<1>3. CASE t[1] = "start"
  BY <1>3 DEF VR!Returned
<1>4. CASE t[1] \notin {"stop", "recovery", "start"}
  <2>1. VR!Returned(t, ok) = IF ok THEN "done" ELSE "schedule"
    BY <1>4 DEF VR!Returned
  <2> QED BY <1>4, <2>1
<1> QED BY <1>1, <1>2, <1>3, <1>4

LEMMA NotRecovery ==
  ASSUME NEW t \in VR!Threads
  PROVE  t[1] # "recovery" <=> ~\E g \in VR!Generations : t = VR!Recovery(g)
BY Kinds

\* A thread goes on after Finish with nothing changed.
LEMMA ReturnsKeeps ==
  ASSUME VR!VRAssumption, VRInv, NEW t \in VR!Threads, NEW ok \in BOOLEAN,
         thread[t].pc \in {"finish", "giveUp"}, thread'[t].pc = VR!Returned(t, ok), thread'[t].gen = thread[t].gen,
         Others(t), Steady, current' = current, frames' = frames, recovery' = recovery,
         thread[t].gen = txn.generation => txn.claimed /\ (ok => ~txn.applied)
  PROVE  TrackedCore'
<1>0. VR!TypeOK /\ GameInv
  BY Parts
<1>1. /\ thread'[t].pc \in {"stopped", "wait", "clear", "sleep", "failed", "schedule", "done"}
      /\ thread'[t].pc \in {"schedule", "done"} => ~\E g \in VR!Generations : t = VR!Recovery(g)
      /\ thread'[t].pc = "stopped" => ok
  BY Returns, NotRecovery
<1>2. Continues(t)
  BY <1>1 DEF Continues, Outside, Acting, Early, Recoverers
<1>3. GameInv'
  BY <1>0, GameSame DEF Steady, TxnSame
<1> QED BY <1>1, <1>2, <1>3, Plain DEF Waiting, Restorers

\* A step that claims the end of a sequence, or that of who has.
LEMMA ClaimedKeeps ==
  ASSUME VR!VRAssumption, VRInv, NEW t \in VR!Threads, Others(t), thread[t].pc = "finish",
         thread'[t].gen = thread[t].gen,
         \/ thread'[t].pc = "restore"
         \/ \E ok \in BOOLEAN : thread'[t].pc = VR!Returned(t, ok) /\ ~txn.applied,
         txn'.claimed, ~txn'.starting, ~txn'.active, txn'.restoring => txn.applied, txn'.applied = txn.applied,
         txn'.applied => txn'.restoring,
         txn'.generation = txn.generation, txn'.token = txn.token, txn.generation # 0,
         tasks' = tasks, running' = running, frames' = frames, recovery' = recovery, silent' = silent,
         game' = game, previous' = previous, EventInv'
  PROVE  TrackedCore'
<1>0. TransactionInv /\ StartInv /\ ThreadInv /\ RecoveryInv /\ TaskInv /\ ApplyInv /\ RestoreInv
      /\ GameInv /\ EventInv /\ VR!TypeOK
  BY Parts
<1>1. /\ thread'[t].pc \in {"restore", "stopped", "wait", "clear", "sleep", "failed", "schedule", "done"}
      /\ thread'[t].pc \in {"schedule", "done"} => ~\E g \in VR!Generations : t = VR!Recovery(g)
      /\ thread'[t].pc = "stopped" => ~txn.applied
  <2>1. CASE thread'[t].pc = "restore"
    BY <2>1
  <2>2. ASSUME NEW ok \in BOOLEAN, thread'[t].pc = VR!Returned(t, ok), ~txn.applied
        PROVE  /\ thread'[t].pc \in {"restore", "stopped", "wait", "clear", "sleep", "failed", "schedule", "done"}
               /\ thread'[t].pc \in {"schedule", "done"} => ~\E g \in VR!Generations : t = VR!Recovery(g)
               /\ thread'[t].pc = "stopped" => ~txn.applied
    BY <2>2, Returns, NotRecovery
  <2> QED BY <2>1, <2>2
<1>2. Continues(t)
  BY <1>1 DEF Continues, Outside, Acting, Early, Recoverers
<1>3. \A u \in VR!Threads : Continues(u)
  BY <1>2, OthersContinue
<1>4. \A u \in VR!Threads : u # t => thread'[u] = thread[u]
  BY DEF Others
<1>5. TransactionInv'
  BY DEF TransactionInv
<1>6. StartInv'
  BY <1>0, <1>3, StartSame, Names
<1>7. ThreadInv'
  BY <1>0, <1>3, ThreadSame
<1>8. RecoveryInv'
  <2>1. \A u \in VR!Threads : thread'[u].pc = "spawnRecovery" =>
            thread[u].pc = "spawnRecovery" /\ thread'[u].gen = thread[u].gen
    BY <1>1, <1>4
  <2>2. \A g \in VR!Generations : thread'[VR!Recovery(g)].pc \in {"idle", "done"} <=>
            thread[VR!Recovery(g)].pc \in {"idle", "done"}
    BY <1>1, <1>4, Names
  <2> QED BY <1>0, <2>1, <2>2, RecoverySame
<1>9. TaskInv'
  BY <1>0, <1>4, TaskSame DEF Waiting
<1>10. ApplyInv'
  BY <1>0, <1>1, <1>4, ApplySame
<1>11. RestoreInv'
  <2>1. \A g \in VR!Generations : thread'[VR!Recovery(g)].pc # "idle" => thread[VR!Recovery(g)].pc # "idle"
    BY <1>3, Names DEF Continues
  <2>2. \A u \in VR!Threads :
            /\ thread'[u].pc # thread[u].pc \/ thread'[u].gen = thread[u].gen
            /\ thread'[u].gen = txn.generation /\ thread'[u].pc # thread[u].pc =>
                  /\ thread'[u].pc \in Restorers => txn'.claimed
                  /\ thread'[u].pc = "stopped" => txn'.claimed /\ ~txn'.applied
                  /\ thread'[u].pc \in {"schedule", "spawnRecovery", "sleep"} =>
                        txn'.claimed \/ txn.generation \in silent'
    BY <1>1, <1>4
  <2> QED BY <1>0, <2>1, <2>2, RestoreSame
<1>12. GameInv'
  BY <1>0, GameSame
<1> QED BY <1>5, <1>6, <1>7, <1>8, <1>9, <1>10, <1>11, <1>12 DEF TrackedCore

LEMMA FinishKeeps ==
  ASSUME VR!VRAssumption, VRInv, NEW t \in VR!Threads, VR!Finish(t)
  PROVE  TrackedCore'
<1> DEFINE g == thread[t].gen
           action == VR!Action(g)
<1>0. TransactionInv /\ StartInv /\ ThreadInv /\ RecoveryInv /\ TaskInv /\ ApplyInv /\ RestoreInv
      /\ GameInv /\ EventInv /\ VR!TypeOK
  BY Parts
<1>1. /\ thread[t].pc = "finish" /\ g # 0
      /\ UNCHANGED <<tasks, running, game, previous, events, recovery, silent, frames>>
  BY <1>0 DEF VR!Finish, VR!At, VR!gateVars, VR!gameVars, VR!mainVars, ThreadInv, Acting, Of
<1>2. /\ txn' = VR!Claimed(g)
      /\ current' = IF action # "none" /\ ~txn.claimed THEN None ELSE current
      /\ IF action = "publish" THEN pendingEvent' = VR!NoEvent /\ VR!Publish(thread[t].event, g)
         ELSE /\ pendingEvent' = IF action = "restore" /\ ~txn.claimed THEN thread[t].event
                                 ELSE pendingEvent
              /\ UNCHANGED published
      /\ thread' = IF action = "restore" THEN [thread EXCEPT ![t].pc = "restore", ![t].count = 1]
                   ELSE [thread EXCEPT ![t].pc =
                        VR!Returned(t, action = "publish" \/ (~txn.restoring /\ ~txn.applied))]
  BY DEF VR!Finish
<1>3. action \in {"none", "publish", "restore"}
  BY DEF VR!Action
<1>4. thread[t].event \in VR!Terminal \union {VR!NoEvent} /\ (thread[t].event \in VR!Terminal \/ \E r \in VR!Generations : t = VR!Recovery(r))
  BY <1>0, <1>1 DEF EventInv, VR!TypeOK
<1>5. txn.generation = g => txn.claimed \/ thread[t].event \in VR!Terminal \/ txn.generation \in silent
  <2>1. ASSUME NEW r \in VR!Generations, t = VR!Recovery(r), txn.generation = g
        PROVE  txn.claimed \/ txn.generation \in silent
    <3>1. thread[VR!Recovery(r)].pc # "idle"
      BY <1>1, <2>1
    <3>2. r = g
      BY <1>0, <2>1, <3>1 DEF ThreadInv, Of, VR!At
    <3> QED BY <1>0, <2>1, <3>1, <3>2 DEF RestoreInv, VR!At
  <2> QED BY <1>4, <2>1
<1>6. CASE action = "none"
  <2>1. /\ txn' = txn /\ current' = current /\ pendingEvent' = pendingEvent /\ published' = published
        /\ thread' = [thread EXCEPT ![t].pc = VR!Returned(t, ~txn.restoring /\ ~txn.applied)]
    BY <1>2, <1>6 DEF VR!Claimed
  <2>2. thread'[t].pc = VR!Returned(t, ~txn.restoring /\ ~txn.applied) /\ thread'[t].gen = g /\ Others(t)
    BY <1>0, <2>1, Moved
  <2>3. g = txn.generation => txn.claimed
    BY <1>6 DEF VR!Action
  <2>4. Steady
    BY <1>1, <2>1 DEF Steady, TxnSame
  <2>5. (~txn.restoring /\ ~txn.applied) \in BOOLEAN
    OBVIOUS
  <2> DEFINE ok == ~txn.restoring /\ ~txn.applied
  <2>6. ok \in BOOLEAN /\ (ok => ~txn.applied) /\ thread'[t].pc = VR!Returned(t, ok)
    BY <2>2
  <2> HIDE DEF ok
  <2> QED BY <1>1, <2>1, <2>2, <2>3, <2>4, <2>6, ReturnsKeeps
<1>7. CASE action = "publish"
  <2>1. g = txn.generation /\ ~txn.claimed /\ ~txn.applied
    BY <1>7 DEF VR!Action
  <2>2. txn' = [txn EXCEPT !.claimed = TRUE, !.starting = FALSE, !.active = FALSE, !.restoring = FALSE]
    BY <1>2, <1>7 DEF VR!Claimed
  <2>3. /\ txn'.claimed /\ ~txn'.starting /\ ~txn'.active /\ ~txn'.restoring /\ txn'.applied = txn.applied
        /\ txn'.generation = txn.generation /\ txn'.token = txn.token
    BY <1>0, <2>2 DEF VR!TypeOK
  <2>4. thread' = [thread EXCEPT ![t].pc = VR!Returned(t, TRUE)] /\ VR!Publish(thread[t].event, txn.generation)
    BY <1>2, <1>7, <2>1
  <2>5. thread'[t].pc = VR!Returned(t, TRUE) /\ thread'[t].gen = g /\ thread'[t].event = thread[t].event /\ Others(t)
    BY <1>0, <2>4, Moved
  <2>6. \A i \in DOMAIN published : published[i].gen = txn.generation => published[i].event = "started"
    BY <1>0, <2>1 DEF EventInv
  <2>7. \A u \in VR!Threads : thread'[u].pc \in {"play", "finish"} =>
            thread'[u].event \in VR!Terminal \/ \E r \in VR!Generations : u = VR!Recovery(r)
    <3>1. thread'[t].pc \notin {"play", "finish"}
      BY <2>5, Returns
    <3> QED BY <1>0, <2>5, <3>1 DEF EventInv, Others
  <2> HIDE DEF g, action
  <2>8. EventInv'
    BY <1>1, <1>4, <1>5, <2>1, <2>3, <2>4, <2>6, <2>7, Publishes
  <2> QED BY <1>1, <2>1, <2>3, <2>5, <2>8, ClaimedKeeps DEF g
<1>8. CASE action = "restore"
  <2>1. g = txn.generation /\ ((~txn.claimed /\ txn.applied) \/ (txn.claimed /\ txn.restoring))
    BY <1>8 DEF VR!Action
  <2>2. txn' = [txn EXCEPT !.claimed = TRUE, !.starting = FALSE, !.active = FALSE, !.restoring = TRUE,
                        !.attempt = TRUE]
    BY <1>2, <1>8 DEF VR!Claimed
  <2>3. /\ txn'.claimed /\ ~txn'.starting /\ ~txn'.active /\ txn'.restoring /\ txn'.applied = txn.applied
        /\ txn'.generation = txn.generation /\ txn'.token = txn.token
    BY <1>0, <2>2 DEF VR!TypeOK
  <2>4. /\ thread' = [thread EXCEPT ![t].pc = "restore", ![t].count = 1] /\ published' = published
        /\ pendingEvent' = IF ~txn.claimed THEN thread[t].event ELSE pendingEvent
    BY <1>2, <1>8
  <2>5. thread'[t].pc = "restore" /\ thread'[t].gen = g /\ Others(t)
    BY <1>0, <2>4, Moved
  <2>6. txn.applied
    BY <1>0, <2>1 DEF TransactionInv
  <2>7. \A u \in VR!Threads : thread'[u].pc \in {"play", "finish"} =>
            thread'[u].event \in VR!Terminal \/ \E r \in VR!Generations : u = VR!Recovery(r)
    BY <1>0, <2>5 DEF EventInv, Others
  <2> HIDE DEF g, action
  <2>8. EventInv'
    <3>1. (\A i \in DOMAIN published : published[i].gen <= txn.generation)'
      BY <1>0, <2>3, <2>4 DEF EventInv
    <3>2. (\A i, j \in DOMAIN published : i < j /\ published[i].gen = published[j].gen =>
            published[i].event = "started" /\ published[j].event \in VR!Terminal)'
      BY <1>0, <2>4 DEF EventInv
    <3>3. (\A i \in DOMAIN published : published[i].gen = txn.generation =>
            IF published[i].event = "started" THEN ~txn.starting ELSE txn.claimed /\ ~txn.restoring)'
      BY <1>0, <2>1, <2>3, <2>4 DEF EventInv
    <3>4. txn.generation \notin silent => pendingEvent' \in VR!Terminal
      BY <1>0, <1>5, <2>1, <2>4 DEF EventInv
    <3> QED BY <1>1, <2>3, <2>7, <3>1, <3>2, <3>3, <3>4 DEF EventInv
  <2> QED BY <1>1, <2>1, <2>3, <2>5, <2>6, <2>8, ClaimedKeeps DEF g
<1> QED BY <1>3, <1>6, <1>7, <1>8

\* An attempt that failed is made again, or is given up.
LEMMA Retries ==
  ASSUME VR!TypeOK, NEW t \in VR!Threads, thread' = VR!Retried(t)
  PROVE  /\ thread'[t].pc \in {"restore", "giveUp"} /\ thread'[t].gen = thread[t].gen
         /\ thread'[t].event = thread[t].event /\ Others(t)
<1>0. thread \in [VR!Threads -> [pc : VR!Places, gen : VR!Known, event : VR!Terminal \union {VR!NoEvent}, count : Nat]]
  BY DEF VR!TypeOK
<1>1. CASE thread[t].count < Attempts
  <2>1. thread' = [thread EXCEPT ![t].pc = "restore", ![t].count = thread[t].count + 1]
    BY <1>0, <1>1 DEF VR!Retried
  <2> QED BY <1>0, <2>1 DEF Others
<1>2. CASE ~(thread[t].count < Attempts)
  <2>1. thread' = [thread EXCEPT ![t].pc = "giveUp", ![t].count = 0]
    BY <1>2 DEF VR!Retried
  <2> QED BY <1>0, <2>1 DEF Others
<1> QED BY <1>1, <1>2

LEMMA RestoreKeeps ==
  ASSUME VR!VRAssumption, VRInv, NEW t \in VR!Threads, VR!Restore(t)
  PROVE  TrackedCore'
<1>0. VR!TypeOK /\ ThreadInv /\ RestoreInv /\ GameInv
  BY Parts
<1>1. /\ thread[t].pc = "restore"
      /\ UNCHANGED <<VR!gateVars, txn, current, VR!eventVars, recovery, VR!gameVars, frames, running, silent>>
  BY DEF VR!Restore, VR!At
<1>2. thread[t].gen # 0
  BY <1>0, <1>1 DEF ThreadInv, Of, Acting
<1>3. CASE VR!Queue(t, "restore") /\ VR!Goes(t, "restoring")
  <2>1. VR!Goes(t, IF "restore" = "apply" THEN "applying" ELSE "restoring")
    BY <1>3
  <2> QED BY <1>1, <1>2, <1>3, <2>1, QueuedKeeps
<1>4. CASE thread' = VR!Retried(t) /\ UNCHANGED tasks
  <2>1. Steady /\ current' = current /\ frames' = frames /\ recovery' = recovery
    BY <1>1, <1>4 DEF Steady, TxnSame, VR!gateVars, VR!eventVars, VR!gameVars
  <2>2. /\ thread'[t].pc \in {"restore", "giveUp"} /\ thread'[t].gen = thread[t].gen /\ Others(t)
    BY <1>0, <1>4, Retries
  <2>3. Continues(t)
    BY <1>1, <2>2 DEF Continues, Outside, Acting, Early, Recoverers
  <2>4. thread[t].gen = txn.generation => txn.claimed
    BY <1>0, <1>1 DEF RestoreInv, VR!Mine
  <2>5. GameInv'
    BY <1>0, <2>1, GameSame DEF Steady, TxnSame
  <2> QED BY <1>1, <2>1, <2>2, <2>3, <2>4, <2>5, Plain DEF Waiting
<1> QED BY <1>3, <1>4 DEF VR!Restore

LEMMA GivesUpKeeps ==
  ASSUME VR!VRAssumption, VRInv, NEW t \in VR!Threads, VR!GivesUp(t)
  PROVE  TrackedCore'
<1>0. VR!TypeOK /\ RestoreInv
  BY Parts
<1>1. /\ thread[t].pc = "giveUp" /\ current' = current /\ frames' = frames /\ recovery' = recovery
      /\ UNCHANGED <<tasks, running, published, pendingEvent, game, previous, events, silent>>
      /\ thread' = [thread EXCEPT ![t].pc = VR!Returned(t, FALSE)]
  BY DEF VR!GivesUp, VR!At, VR!Goes, VR!gateVars, VR!eventVars, VR!gameVars, VR!mainVars
<1>2. TxnSame
  BY <1>0 DEF VR!GivesUp, VR!TypeOK, TxnSame
<1>3. Steady
  BY <1>1, <1>2 DEF Steady
<1>4. thread'[t].pc = VR!Returned(t, FALSE) /\ thread'[t].gen = thread[t].gen /\ Others(t)
  BY <1>0, <1>1, Moved
<1>5. thread[t].gen = txn.generation => txn.claimed
  BY <1>0, <1>1 DEF RestoreInv, VR!Mine
<1> DEFINE ok == FALSE
<1>6. ok \in BOOLEAN /\ thread'[t].pc = VR!Returned(t, ok) /\ ~ok
  BY <1>4
<1> HIDE DEF ok
<1> QED BY <1>1, <1>3, <1>4, <1>5, <1>6, ReturnsKeeps

-----------------------------------------------------------------------------
(* The main thread, and who does not wait for it.                          *)

\* A thread that waited for the main thread goes on.
LEMMA AnsweredKeeps ==
  ASSUME VR!VRAssumption, VRInv, NEW t \in VR!Threads, Others(t), thread[t].pc \in Waiting,
         thread'[t].gen = thread[t].gen, txn'.generation = txn.generation, txn'.token = txn.token,
         frames' = frames, recovery' = recovery,
         \/ thread'[t].pc \in {"restore", "giveUp", "finish"}
         \/ thread'[t].pc = "commit" /\ thread[t].pc = "applying"
         \/ thread'[t].pc = VR!Returned(t, TRUE)
  PROVE  /\ StartInv' /\ ThreadInv' /\ RecoveryInv'
         /\ \A u \in VR!Threads : Continues(u)
         /\ thread'[t].pc \notin Waiting \union {"apply", "schedule", "spawnRecovery", "sleep", "wait", "play"}
<1>0. VR!TypeOK /\ StartInv /\ ThreadInv /\ RecoveryInv
  BY Parts
<1>1. /\ thread'[t].pc \in {"restore", "giveUp", "finish", "commit", "stopped", "clear", "failed", "done"}
      /\ thread'[t].pc = "commit" => thread[t].pc = "applying"
      /\ thread'[t].pc = "done" => ~\E g \in VR!Generations : t = VR!Recovery(g)
  BY Returns, NotRecovery
<1>2. Continues(t)
  BY <1>1 DEF Continues, Outside, Acting, Early, Recoverers, Waiting
<1>3. \A u \in VR!Threads : Continues(u)
  BY <1>2, OthersContinue
<1>4. StartInv'
  BY <1>0, <1>3, StartSame, Names
<1>5. ThreadInv'
  BY <1>0, <1>3, ThreadSame
<1>6. RecoveryInv'
  <2>1. \A u \in VR!Threads : thread'[u].pc = "spawnRecovery" =>
            thread[u].pc = "spawnRecovery" /\ thread'[u].gen = thread[u].gen
    BY <1>1 DEF Others
  <2>2. \A g \in VR!Generations : thread'[VR!Recovery(g)].pc \in {"idle", "done"} <=>
            thread[VR!Recovery(g)].pc \in {"idle", "done"}
    BY <1>1, Names DEF Others, Waiting
  <2> QED BY <1>0, <2>1, <2>2, RecoverySame
<1> QED BY <1>1, <1>3, <1>4, <1>5, <1>6 DEF Waiting

\* Nobody else waits for the task of a thread that has been answered.
LEMMA TaskAnswered ==
  ASSUME TaskInv, NEW t \in VR!Threads, Others(t), \A i \in DOMAIN tasks : tasks[i].thread # t,
         tasks' = tasks, running' = None, txn'.generation = txn.generation
  PROVE  TaskInv'
BY DEF TaskInv, WaitsFor, Of, Others

LEMMA TimesOutKeeps ==
  ASSUME VR!VRAssumption, VRInv, NEW t \in VR!Threads, VR!TimesOut(t)
  PROVE  TrackedCore'
<1>0. TransactionInv /\ StartInv /\ ThreadInv /\ RecoveryInv /\ TaskInv /\ ApplyInv /\ RestoreInv
      /\ GameInv /\ EventInv /\ VR!TypeOK
  BY Parts
<1>1. /\ thread[t].pc \in Waiting
      /\ UNCHANGED <<txn, current, published, pendingEvent, game, previous, events, recovery, silent, frames>>
  BY DEF VR!TimesOut, VR!gateVars, VR!eventVars, VR!gameVars, Waiting
<1>2. /\ thread'[t].gen = thread[t].gen /\ Others(t)
      /\ \/ thread'[t].pc = "finish" /\ thread'[t].event = "aborted" /\ thread[t].pc = "applying"
         \/ thread'[t].pc = "giveUp" /\ thread[t].pc = "restoring"
  <2>1. thread \in [VR!Threads -> [pc : VR!Places, gen : VR!Known, event : VR!Terminal \union {VR!NoEvent}, count : Nat]]
    BY <1>0 DEF VR!TypeOK
  <2>2. CASE thread[t].pc = "applying"
    <3>1. thread' = [thread EXCEPT ![t] = VR!Thread("finish", thread[t].gen, "aborted", 0)]
      BY <2>1, <2>2 DEF VR!TimesOut
    <3>2. thread'[t] = VR!Thread("finish", thread[t].gen, "aborted", 0) /\ Others(t)
      BY <1>0, <3>1, Moved
    <3> QED BY <2>2, <3>2, ThreadFields
  <2>3. CASE thread[t].pc = "restoring"
    <3>1. thread' = [thread EXCEPT ![t] = VR!Thread("giveUp", thread[t].gen, thread[t].event, 0)]
      BY <2>1, <2>3 DEF VR!TimesOut
    <3>2. thread'[t] = VR!Thread("giveUp", thread[t].gen, thread[t].event, 0) /\ Others(t)
      BY <1>0, <3>1, Moved
    <3> QED BY <2>3, <3>2, ThreadFields
  <2> QED BY <1>1, <2>2, <2>3 DEF Waiting
<1>3. /\ StartInv' /\ ThreadInv' /\ RecoveryInv' /\ \A u \in VR!Threads : Continues(u)
      /\ thread'[t].pc \notin Waiting \union {"apply", "schedule", "spawnRecovery", "sleep", "wait", "play"}
  <2>1. thread'[t].pc \in {"restore", "giveUp", "finish"}
    BY <1>2
  <2> QED BY <1>1, <1>2, <2>1, AnsweredKeeps
<1>4. \A u \in VR!Threads : u # t => thread'[u] = thread[u]
  BY <1>2 DEF Others
<1>5. \/ /\ running # None /\ running.thread = t
         /\ running' = [running EXCEPT !.thread = None] /\ tasks' = tasks
      \/ /\ ~(running # None /\ running.thread = t) /\ running' = running
         /\ \E i \in DOMAIN tasks : tasks[i].thread = t /\ tasks' = RemoveAt(tasks, i)
  BY SameOperators DEF VR!TimesOut
<1>6. running' # None => /\ running # None /\ running'.kind = running.kind /\ running'.gen = running.gen
                         /\ running'.thread # None => running'.thread = running.thread /\ running.thread # t
  <2>1. CASE running' = running /\ ~(running # None /\ running.thread = t)
    BY <2>1
  <2>2. CASE running # None /\ running' = [running EXCEPT !.thread = None]
    <3>1. running \in VR!Tasks
      BY <1>0, <2>2 DEF VR!TypeOK
    <3> QED BY <2>2, <3>1 DEF VR!Tasks
  <2> QED BY <1>5, <2>1, <2>2
<1>7. \A i \in DOMAIN tasks' : \E j \in DOMAIN tasks : tasks'[i] = tasks[j] /\ tasks[j].thread # t
  <2>1. CASE running # None /\ running.thread = t /\ tasks' = tasks
    <3>1. t # None => \A j \in DOMAIN tasks : tasks[j].thread # t
      BY <1>0, <2>1 DEF TaskInv
    <3>2. \A j \in DOMAIN tasks : tasks[j].thread # t
      BY <3>1 DEF VR!VRAssumption
    <3> QED BY <2>1, <3>2
  <2>2. ASSUME NEW i \in DOMAIN tasks, tasks[i].thread = t, tasks' = RemoveAt(tasks, i)
        PROVE  \A k \in DOMAIN tasks' : \E j \in DOMAIN tasks : tasks'[k] = tasks[j] /\ tasks[j].thread # t
    <3>1. tasks \in Seq(VR!Tasks)
      BY <1>0 DEF VR!TypeOK
    <3>2. /\ tasks' \in Seq(VR!Tasks) /\ Len(tasks') = Len(tasks) - 1
          /\ \A j \in 1..Len(tasks)-1 : tasks'[j] = IF j < i THEN tasks[j] ELSE tasks[j+1]
      BY <2>2, <3>1, RemoveElements
    <3>3. DOMAIN tasks' = 1..Len(tasks)-1 /\ DOMAIN tasks = 1..Len(tasks) /\ Len(tasks) \in Nat /\ i \in Nat
      BY <3>1, <3>2
    <3>4. \A j \in DOMAIN tasks : j # i => tasks[j].thread # t
      BY <1>0, <2>2 DEF VR!TypeOK
    <3> QED
      <4>1. ASSUME NEW k \in DOMAIN tasks'
            PROVE  \E j \in DOMAIN tasks : tasks'[k] = tasks[j] /\ tasks[j].thread # t
        <5>1. CASE k < i
          BY <3>2, <3>3, <3>4, <5>1
        <5>2. CASE ~(k < i)
          <6>1. k + 1 \in DOMAIN tasks /\ k + 1 # i
            BY <3>3, <5>2
          <6> QED BY <3>2, <3>3, <3>4, <5>2, <6>1
        <5> QED BY <5>1, <5>2
      <4> QED BY <4>1
  <2> QED BY <1>5, <2>1, <2>2
<1>8. TransactionInv'
  BY <1>0, <1>1, TransactionSame DEF TxnSame
<1>9. TaskInv'
  <2>1. (\A i \in DOMAIN tasks : tasks[i].thread \in VR!Threads /\ WaitsFor(tasks[i].thread, tasks[i]))'
    BY <1>0, <1>4, <1>7 DEF TaskInv, WaitsFor, Of
  <2>2. (running # None => running.gen <= txn.generation)'
    BY <1>0, <1>1, <1>6 DEF TaskInv
  <2>3. (running # None /\ running.thread # None =>
          running.thread \in VR!Threads /\ WaitsFor(running.thread, running))'
    BY <1>0, <1>4, <1>6 DEF TaskInv, WaitsFor, Of
  <2>4. (running # None /\ running.thread # None => \A i \in DOMAIN tasks : tasks[i].thread # running.thread)'
    BY <1>0, <1>6, <1>7 DEF TaskInv
  <2> QED BY <2>1, <2>2, <2>3, <2>4 DEF TaskInv
<1>10. ApplyInv'
  <2>1. (\A u \in VR!Threads : VR!At(u, "apply") /\ VR!Mine(u) => ~txn.applied)'
    BY <1>0, <1>1, <1>3, <1>4 DEF ApplyInv, VR!At, VR!Mine
  <2>2. (\A i \in DOMAIN tasks : tasks[i].kind = "apply" /\ tasks[i].gen = txn.generation => ~txn.applied)'
    BY <1>0, <1>1, <1>7 DEF ApplyInv
  <2>3. (running # None /\ running.kind = "apply" =>
          /\ running.gen = txn.generation => ~txn.applied
          /\ \A u \in VR!Threads : VR!At(u, "apply") => Of(u) # running.gen)'
    BY <1>0, <1>1, <1>3, <1>4, <1>6 DEF ApplyInv, VR!At, Of
  <2>4. (running # None /\ running.kind = "apply" =>
          \A i \in DOMAIN tasks : tasks[i].kind = "apply" => tasks[i].gen # running.gen)'
    BY <1>0, <1>6, <1>7 DEF ApplyInv
  <2> QED BY <2>1, <2>2, <2>3, <2>4 DEF ApplyInv
<1>11. RestoreInv'
  <2>1. (running # None /\ running.kind = "restore" /\ running.gen = txn.generation => txn.claimed)'
    BY <1>0, <1>1, <1>6 DEF RestoreInv
  <2>2. \A g \in VR!Generations : thread'[VR!Recovery(g)].pc # "idle" => thread[VR!Recovery(g)].pc # "idle"
    BY <1>3, Names DEF Continues
  <2>3. thread'[t].pc \in Restorers /\ thread[t].gen = txn.generation => txn.claimed
    BY <1>0, <1>2 DEF RestoreInv, VR!Mine, Restorers
  <2>4. \A u \in VR!Threads :
            /\ thread'[u].pc # thread[u].pc \/ thread'[u].gen = thread[u].gen
            /\ thread'[u].gen = txn.generation /\ thread'[u].pc # thread[u].pc =>
                  /\ thread'[u].pc \in Restorers => txn'.claimed
                  /\ thread'[u].pc = "stopped" => txn'.claimed /\ ~txn'.applied
                  /\ thread'[u].pc \in {"schedule", "spawnRecovery", "sleep"} =>
                        txn'.claimed \/ txn.generation \in silent'
    BY <1>1, <1>2, <1>4, <2>3
  <2> QED BY <1>0, <1>1, <2>1, <2>2, <2>4, RestoreChanges
<1>12. GameInv'
  BY <1>0, <1>1, GameSame
<1>13. EventInv'
  <2>1. \A u \in VR!Threads : thread'[u].pc \in {"play", "finish"} =>
            thread'[u].event \in VR!Terminal \/ \E g \in VR!Generations : u = VR!Recovery(g)
    BY <1>0, <1>2, <1>4 DEF EventInv, VR!Terminal
  <2> QED BY <1>0, <1>1, <2>1, EventSame
<1> QED BY <1>3, <1>8, <1>9, <1>10, <1>11, <1>12, <1>13 DEF TrackedCore

LEMMA MainStartsKeeps ==
  ASSUME VR!VRAssumption, VRInv, VR!MainStarts
  PROVE  TrackedCore'
<1> DEFINE k == Head(tasks)
<1>0. TransactionInv /\ StartInv /\ ThreadInv /\ RecoveryInv /\ TaskInv /\ ApplyInv /\ RestoreInv
      /\ GameInv /\ EventInv /\ VR!TypeOK
  BY Parts
<1>1. /\ tasks # <<>> /\ running' = k /\ tasks' = Tail(tasks)
      /\ UNCHANGED <<txn, current, published, pendingEvent, game, previous, events, recovery, silent, frames, thread>>
  BY DEF VR!MainStarts, VR!gateVars, VR!eventVars, VR!gameVars
<1>2. tasks \in Seq(VR!Tasks)
  BY <1>0 DEF VR!TypeOK
<1>3. /\ 1 \in DOMAIN tasks /\ k = tasks[1] /\ tasks' \in Seq(VR!Tasks)
      /\ \A i \in DOMAIN tasks' : i + 1 \in DOMAIN tasks /\ i + 1 # 1 /\ tasks'[i] = tasks[i + 1]
  BY <1>1, <1>2
<1>4. \A i \in DOMAIN tasks' : \E j \in DOMAIN tasks : j # 1 /\ tasks'[i] = tasks[j]
  BY <1>3
<1> HIDE DEF k
<1>5. k.thread \in VR!Threads /\ WaitsFor(k.thread, k)
  BY <1>0, <1>3 DEF TaskInv
<1>6. \A i \in DOMAIN tasks : i # 1 => tasks[i].thread # k.thread
  BY <1>0, <1>3 DEF VR!TypeOK
<1>7. k.gen <= txn.generation
  BY <1>0, <1>5 DEF ThreadInv, WaitsFor, Of
<1>8. TransactionInv' /\ StartInv' /\ ThreadInv' /\ RecoveryInv'
  BY <1>0, <1>1 DEF TransactionInv, StartInv, ThreadInv, RecoveryInv, Entered, Of, VR!At, VR!Mine
<1>9. TaskInv'
  <2>1. (\A i \in DOMAIN tasks : tasks[i].thread \in VR!Threads /\ WaitsFor(tasks[i].thread, tasks[i]))'
    BY <1>0, <1>1, <1>4 DEF TaskInv, WaitsFor, Of
  <2>2. (running # None => running.gen <= txn.generation)'
    BY <1>1, <1>7
  <2>3. (running # None /\ running.thread # None =>
          /\ running.thread \in VR!Threads /\ WaitsFor(running.thread, running)
          /\ \A i \in DOMAIN tasks : tasks[i].thread # running.thread)'
    BY <1>1, <1>4, <1>5, <1>6 DEF WaitsFor, Of
  <2> QED BY <2>1, <2>2, <2>3 DEF TaskInv
<1>10. ApplyInv'
  <2>1. (\A u \in VR!Threads : VR!At(u, "apply") /\ VR!Mine(u) => ~txn.applied)'
    BY <1>0, <1>1 DEF ApplyInv, VR!At, VR!Mine
  <2>2. (\A i \in DOMAIN tasks : tasks[i].kind = "apply" /\ tasks[i].gen = txn.generation => ~txn.applied)'
    BY <1>0, <1>1, <1>4 DEF ApplyInv
  <2>3. k.kind = "apply" /\ k.gen = txn.generation => ~txn.applied
    BY <1>0, <1>3 DEF ApplyInv
  <2>4. ASSUME NEW u \in VR!Threads, thread[u].pc \in {"apply", "applying"}, thread[u].gen = k.gen, k.kind = "apply"
        PROVE  u = k.thread
    <3>1. thread[k.thread].pc = "applying" /\ thread[k.thread].gen = k.gen
      BY <1>5, <2>4 DEF WaitsFor, Of
    <3>2. PICK s \in Starts : k.thread = VR!Start(s)
      BY <1>0, <1>5, <3>1 DEF ThreadInv
    <3>3. PICK v \in Starts : u = VR!Start(v)
      BY <1>0, <2>4 DEF ThreadInv
    <3>4. s \in Entered /\ v \in Entered
      BY <2>4, <3>1, <3>2, <3>3 DEF Entered, Outside
    <3> QED BY <1>0, <2>4, <3>1, <3>2, <3>3, <3>4 DEF StartInv, Of
  <2>5. k.kind = "apply" => thread[k.thread].pc = "applying"
    BY <1>5 DEF WaitsFor
  <2>6. k.kind = "apply" => \A u \in VR!Threads : thread[u].pc = "apply" => thread[u].gen # k.gen
    BY <2>4, <2>5
  <2>7. ASSUME k.kind = "apply", NEW i \in DOMAIN tasks', tasks'[i].kind = "apply", tasks'[i].gen = k.gen
        PROVE  FALSE
    <3>1. PICK j \in DOMAIN tasks : j # 1 /\ tasks'[i] = tasks[j]
      BY <1>4
    <3>2. tasks[j].thread \in VR!Threads /\ thread[tasks[j].thread].pc = "applying" /\ thread[tasks[j].thread].gen = k.gen
      BY <1>0, <2>7, <3>1 DEF TaskInv, WaitsFor, Of
    <3>3. tasks[j].thread = k.thread
      BY <2>4, <2>7, <3>2
    <3> QED BY <1>6, <3>1, <3>3
  <2>8. (running # None /\ running.kind = "apply" =>
          /\ running.gen = txn.generation => ~txn.applied
          /\ \A u \in VR!Threads : VR!At(u, "apply") => Of(u) # running.gen
          /\ \A i \in DOMAIN tasks : tasks[i].kind = "apply" => tasks[i].gen # running.gen)'
    BY <1>1, <2>3, <2>6, <2>7 DEF VR!At, Of
  <2> QED BY <2>1, <2>2, <2>8 DEF ApplyInv
<1>11. RestoreInv'
  <2>1. k \in VR!Tasks
    BY <1>2, <1>3
  <2>2. k.kind = "restore" /\ k.gen = txn.generation => txn.claimed
    <3>1. k.kind = "restore" => thread[k.thread].pc = "restoring" /\ thread[k.thread].gen = k.gen
      BY <1>5 DEF WaitsFor, Of
    <3> QED BY <1>0, <1>5, <3>1 DEF RestoreInv, VR!Mine
  <2>3. (running # None /\ running.kind = "restore" /\ running.gen = txn.generation => txn.claimed)'
    BY <1>1, <2>2
  <2> QED BY <1>0, <1>1, <2>3, RestoreChanges
<1>12. GameInv'
  BY <1>0, <1>1, GameSame
<1>13. EventInv'
  BY <1>0, <1>1 DEF EventInv, Ended
<1> QED BY <1>8, <1>9, <1>10, <1>11, <1>12, <1>13 DEF TrackedCore

\* What the main thread answers, to who waits for it and to who does not.
LEMMA Answers ==
  ASSUME VR!VRAssumption, VRInv, running # None, NEW next, VR!Answer(next)
  PROVE  \/ thread' = thread
         \/ /\ running.thread \in VR!Threads /\ thread' = next
            /\ thread[running.thread].pc = (IF running.kind = "apply" THEN "applying" ELSE "restoring")
            /\ thread[running.thread].gen = running.gen
            /\ \A i \in DOMAIN tasks : tasks[i].thread # running.thread
<1>0. TaskInv
  BY Parts
<1> QED BY <1>0 DEF VR!Answer, TaskInv, WaitsFor, Of

\* The parts that depend on the threads alone, with nothing running any more.
LEMMA RanKeeps ==
  ASSUME VR!VRAssumption, VRInv, running # None, running' = None, tasks' = tasks,
         txn'.generation = txn.generation, txn'.token = txn.token, frames' = frames, recovery' = recovery,
         silent' = silent, txn'.claimed = txn.claimed, txn.claimed /\ ~txn.applied => ~txn'.applied,
         \/ thread' = thread
         \/ \E t \in VR!Threads :
              /\ thread[t].pc \in Waiting /\ \A i \in DOMAIN tasks : tasks[i].thread # t
              /\ Others(t) /\ thread'[t].gen = thread[t].gen
              /\ thread'[t].pc = "finish" => thread'[t].event \in VR!Terminal
              /\ \/ thread'[t].pc \in {"restore", "giveUp"} /\ thread[t].pc = "restoring"
                 \/ thread'[t].pc \in {"commit", "finish"} /\ thread[t].pc = "applying"
                 \/ thread'[t].pc = VR!Returned(t, TRUE) /\ thread[t].pc = "restoring" /\ ~txn'.applied
  PROVE  /\ StartInv' /\ ThreadInv' /\ RecoveryInv' /\ TaskInv' /\ RestoreInv'
         /\ \A u \in VR!Threads : thread'[u].pc = "apply" => thread[u].pc = "apply" /\ thread'[u].gen = thread[u].gen
         /\ \A u \in VR!Threads : thread'[u].pc \in {"play", "finish"} =>
              thread'[u].event \in VR!Terminal \/ \E g \in VR!Generations : u = VR!Recovery(g)
<1>0. TransactionInv /\ StartInv /\ ThreadInv /\ RecoveryInv /\ TaskInv /\ ApplyInv /\ RestoreInv
      /\ GameInv /\ EventInv /\ VR!TypeOK
  BY Parts
<1>1. CASE thread' = thread
  <2>1. StartInv' /\ ThreadInv' /\ RecoveryInv'
    BY <1>0, <1>1 DEF StartInv, ThreadInv, RecoveryInv, Entered, Of, VR!At, VR!Mine
  <2>2. TaskInv'
    BY <1>0, <1>1 DEF TaskInv, WaitsFor, Of
  <2>3. RestoreInv'
    BY <1>0, <1>1, RestoreChanges
  <2>4. \A u \in VR!Threads : thread'[u].pc \in {"play", "finish"} =>
              thread'[u].event \in VR!Terminal \/ \E g \in VR!Generations : u = VR!Recovery(g)
    BY <1>0, <1>1 DEF EventInv
  <2> QED BY <1>1, <2>1, <2>2, <2>3, <2>4
<1>2. ASSUME NEW t \in VR!Threads, thread[t].pc \in Waiting, \A i \in DOMAIN tasks : tasks[i].thread # t,
             Others(t), thread'[t].gen = thread[t].gen,
             thread'[t].pc = "finish" => thread'[t].event \in VR!Terminal,
             \/ thread'[t].pc \in {"restore", "giveUp"} /\ thread[t].pc = "restoring"
             \/ thread'[t].pc \in {"commit", "finish"} /\ thread[t].pc = "applying"
             \/ thread'[t].pc = VR!Returned(t, TRUE) /\ thread[t].pc = "restoring" /\ ~txn'.applied
      PROVE  /\ StartInv' /\ ThreadInv' /\ RecoveryInv' /\ TaskInv' /\ RestoreInv'
             /\ \A u \in VR!Threads : thread'[u].pc = "apply" => thread[u].pc = "apply" /\ thread'[u].gen = thread[u].gen
             /\ \A u \in VR!Threads : thread'[u].pc \in {"play", "finish"} =>
                  thread'[u].event \in VR!Terminal \/ \E g \in VR!Generations : u = VR!Recovery(g)
  <2>1. \/ thread'[t].pc \in {"restore", "giveUp", "finish"}
        \/ thread'[t].pc = "commit" /\ thread[t].pc = "applying"
        \/ thread'[t].pc = VR!Returned(t, TRUE)
    BY <1>2
  <2>2. /\ StartInv' /\ ThreadInv' /\ RecoveryInv' /\ \A u \in VR!Threads : Continues(u)
        /\ thread'[t].pc \notin Waiting \union {"apply", "schedule", "spawnRecovery", "sleep", "wait", "play"}
    BY <1>2, <2>1, AnsweredKeeps
  <2>3. TaskInv'
    BY <1>0, <1>2, TaskAnswered
  <2>4. \A u \in VR!Threads : u # t => thread'[u] = thread[u]
    BY <1>2 DEF Others
  <2>5. thread[t].gen = txn.generation /\ thread[t].pc = "restoring" => txn.claimed
    BY <1>0 DEF RestoreInv, VR!Mine
  <2>6. thread[t].gen = txn.generation =>
          /\ thread'[t].pc \in Restorers => txn.claimed
          /\ thread'[t].pc = "stopped" => txn.claimed /\ ~txn'.applied
    BY <1>2, <2>2, <2>5, Returns DEF Restorers, Waiting
  <2>7. RestoreInv'
    <3>1. \A g \in VR!Generations : thread'[VR!Recovery(g)].pc # "idle" => thread[VR!Recovery(g)].pc # "idle"
      BY <2>2, Names DEF Continues
    <3>2. \A u \in VR!Threads :
            /\ thread'[u].pc # thread[u].pc \/ thread'[u].gen = thread[u].gen
            /\ thread'[u].gen = txn.generation /\ thread'[u].pc # thread[u].pc =>
                  /\ thread'[u].pc \in Restorers => txn'.claimed
                  /\ thread'[u].pc = "stopped" => txn'.claimed /\ ~txn'.applied
                  /\ thread'[u].pc \in {"schedule", "spawnRecovery", "sleep"} =>
                        txn'.claimed \/ txn.generation \in silent'
      BY <1>2, <2>2, <2>4, <2>6
    <3> QED BY <1>0, <3>1, <3>2, RestoreChanges
  <2>8. \A u \in VR!Threads : thread'[u].pc = "apply" => thread[u].pc = "apply" /\ thread'[u].gen = thread[u].gen
    BY <2>2, <2>4
  <2>9. \A u \in VR!Threads : thread'[u].pc \in {"play", "finish"} =>
              thread'[u].event \in VR!Terminal \/ \E g \in VR!Generations : u = VR!Recovery(g)
    BY <1>0, <1>2, <2>2, <2>4 DEF EventInv
  <2> QED BY <2>2, <2>3, <2>7, <2>8, <2>9
<1> QED BY <1>1, <1>2

LEMMA MainAppliesKeeps ==
  ASSUME VR!VRAssumption, VRInv, VR!MainApplies
  PROVE  TrackedCore'
<1> DEFINE t == running.thread
           aborts == [thread EXCEPT ![running.thread] = VR!Thread("finish", @.gen, "aborted", 0)]
           commits == [thread EXCEPT ![running.thread].pc = "commit"]
<1>0. TransactionInv /\ StartInv /\ ThreadInv /\ RecoveryInv /\ TaskInv /\ ApplyInv /\ RestoreInv
      /\ GameInv /\ EventInv /\ VR!TypeOK
  BY Parts
<1>1. /\ running # None /\ running.kind = "apply" /\ running' = None
      /\ UNCHANGED <<current, tasks, published, pendingEvent, events, recovery, silent, frames>>
  BY DEF VR!MainApplies, VR!gateVars, VR!eventVars
<1>2. \/ /\ VR!Answer(aborts) /\ UNCHANGED <<txn, VR!gameVars>>
      \/ /\ VR!CanApply(running.gen) /\ VR!Answer(commits) /\ previous' = game
         /\ game' = [left |-> frames[txn.token][1].left, right |-> frames[txn.token][1].right]
         /\ txn' = [txn EXCEPT !.applied = TRUE]
  BY DEF VR!MainApplies
<1>3. \/ thread' = thread
      \/ \E u \in VR!Threads :
              /\ thread[u].pc \in Waiting /\ \A i \in DOMAIN tasks : tasks[i].thread # u
              /\ Others(u) /\ thread'[u].gen = thread[u].gen
              /\ thread'[u].pc = "finish" => thread'[u].event \in VR!Terminal
              /\ thread'[u].pc \in {"commit", "finish"} /\ thread[u].pc = "applying"
  <2>1. \/ thread' = thread
        \/ /\ t \in VR!Threads /\ (thread' = aborts \/ thread' = commits)
           /\ thread[t].pc = "applying" /\ \A i \in DOMAIN tasks : tasks[i].thread # t
    <3>1. CASE VR!Answer(aborts)
      BY <1>1, <3>1, Answers
    <3>2. CASE VR!Answer(commits)
      BY <1>1, <3>2, Answers
    <3> QED BY <1>2, <3>1, <3>2
  <2>2. ASSUME t \in VR!Threads, thread' = aborts
        PROVE  /\ thread'[t].pc = "finish" /\ thread'[t].gen = thread[t].gen
               /\ thread'[t].event = "aborted" /\ Others(t)
    <3>1. thread' = [thread EXCEPT ![t] = VR!Thread("finish", thread[t].gen, "aborted", 0)]
      BY <2>2
    <3> HIDE DEF t
    <3>2. thread'[t] = VR!Thread("finish", thread[t].gen, "aborted", 0) /\ Others(t)
      BY <1>0, <2>2, <3>1, Moved
    <3> QED BY <3>2, ThreadFields
  <2>3. ASSUME t \in VR!Threads, thread' = commits
        PROVE  thread'[t].pc = "commit" /\ thread'[t].gen = thread[t].gen /\ Others(t)
    <3> HIDE DEF t
    <3>1. thread' = [thread EXCEPT ![t].pc = "commit"]
      BY <2>3 DEF t
    <3> QED BY <1>0, <2>3, <3>1, Moved
  <2> HIDE DEF t
  <2> QED BY <2>1, <2>2, <2>3 DEF Waiting, VR!Terminal
<1>4. CASE UNCHANGED <<txn, VR!gameVars>>
  <2>1. /\ StartInv' /\ ThreadInv' /\ RecoveryInv' /\ TaskInv' /\ RestoreInv'
        /\ \A u \in VR!Threads : thread'[u].pc = "apply" => thread[u].pc = "apply" /\ thread'[u].gen = thread[u].gen
        /\ \A u \in VR!Threads : thread'[u].pc \in {"play", "finish"} =>
              thread'[u].event \in VR!Terminal \/ \E g \in VR!Generations : u = VR!Recovery(g)
    BY <1>1, <1>3, <1>4, RanKeeps
  <2>2. ApplyInv'
    BY <1>0, <1>1, <1>4, <2>1 DEF ApplyInv, VR!At, VR!Mine, Of
  <2>3. TransactionInv' /\ GameInv' /\ EventInv'
    BY <1>0, <1>1, <1>4, <2>1, TransactionSame, GameSame, EventSame DEF TxnSame, VR!gameVars
  <2> QED BY <2>1, <2>2, <2>3 DEF TrackedCore
<1>5. CASE /\ VR!CanApply(running.gen) /\ previous' = game
           /\ game' = [left |-> frames[txn.token][1].left, right |-> frames[txn.token][1].right]
           /\ txn' = [txn EXCEPT !.applied = TRUE]
  <2>1. /\ txn'.applied /\ txn'.starting = txn.starting /\ txn'.active = txn.active
        /\ txn'.restoring = txn.restoring /\ txn'.claimed = txn.claimed
        /\ txn'.generation = txn.generation /\ txn'.token = txn.token
    BY <1>0, <1>5 DEF VR!TypeOK
  <2>2. txn.starting /\ txn.generation = running.gen /\ ~txn.applied /\ ~txn.claimed /\ ~txn.active /\ ~txn.restoring
    BY <1>0, <1>1, <1>5 DEF VR!CanApply, TransactionInv, ApplyInv
  <2>3. /\ StartInv' /\ ThreadInv' /\ RecoveryInv' /\ TaskInv' /\ RestoreInv'
        /\ \A u \in VR!Threads : thread'[u].pc = "apply" => thread[u].pc = "apply" /\ thread'[u].gen = thread[u].gen
        /\ \A u \in VR!Threads : thread'[u].pc \in {"play", "finish"} =>
              thread'[u].event \in VR!Terminal \/ \E g \in VR!Generations : u = VR!Recovery(g)
    BY <1>1, <1>3, <2>1, <2>2, RanKeeps
  <2>4. ApplyInv'
    <3>1. \A u \in VR!Threads : thread[u].pc = "apply" => thread[u].gen # txn.generation
      BY <1>0, <1>1, <2>2 DEF ApplyInv, VR!At, Of
    <3>2. \A i \in DOMAIN tasks : tasks[i].kind = "apply" => tasks[i].gen # txn.generation
      BY <1>0, <1>1, <2>2 DEF ApplyInv
    <3> QED BY <1>1, <2>1, <2>3, <3>1, <3>2 DEF ApplyInv, VR!At, VR!Mine
  <2>5. TransactionInv'
    BY <1>0, <2>1, <2>2 DEF TransactionInv
  <2>6. GameInv'
    BY <1>0, <1>1, <1>5, <2>1, <2>2 DEF GameInv, Sides
  <2>7. EventInv'
    BY <1>0, <1>1, <2>1, <2>2, <2>3, EventSame
  <2> QED BY <2>3, <2>4, <2>5, <2>6, <2>7 DEF TrackedCore
<1> QED BY <1>2, <1>4, <1>5

LEMMA MainRestoresKeeps ==
  ASSUME VR!VRAssumption, VRInv, VR!MainRestores
  PROVE  TrackedCore'
<1> DEFINE t == running.thread
           returns == [thread EXCEPT ![running.thread].pc = VR!Returned(running.thread, TRUE)]
<1>0. TransactionInv /\ StartInv /\ ThreadInv /\ RecoveryInv /\ TaskInv /\ ApplyInv /\ RestoreInv
      /\ GameInv /\ EventInv /\ VR!TypeOK
  BY Parts
<1>1. /\ running # None /\ running.kind = "restore" /\ running' = None
      /\ UNCHANGED <<current, tasks, events, recovery, silent, frames>>
  BY DEF VR!MainRestores, VR!gateVars
<1>2. \/ /\ VR!Answer(IF txn.applied THEN VR!Retried(t) ELSE returns) /\ UNCHANGED <<txn, VR!gameVars, VR!eventVars>>
      \/ /\ VR!Answer(VR!Retried(t)) /\ UNCHANGED <<txn, VR!gameVars, VR!eventVars>>
      \/ /\ txn.restoring /\ txn.generation = running.gen /\ VR!Answer(returns)
         /\ game' = previous /\ UNCHANGED previous
         /\ txn' = [txn EXCEPT !.applied = FALSE, !.restoring = FALSE, !.attempt = FALSE]
         /\ VR!Publish(pendingEvent, running.gen)
  BY DEF VR!MainRestores
<1>3. ASSUME VR!Answer(VR!Retried(t))
      PROVE  \/ thread' = thread
             \/ \E u \in VR!Threads :
                  /\ thread[u].pc = "restoring" /\ \A i \in DOMAIN tasks : tasks[i].thread # u
                  /\ Others(u) /\ thread'[u].gen = thread[u].gen
                  /\ thread'[u].pc \in {"restore", "giveUp"}
  <2>1. \/ thread' = thread
        \/ /\ t \in VR!Threads /\ thread' = VR!Retried(t)
           /\ thread[t].pc = "restoring" /\ \A i \in DOMAIN tasks : tasks[i].thread # t
    BY <1>1, <1>3, Answers
  <2> HIDE DEF t
  <2> QED BY <1>0, <2>1, Retries
<1>4. ASSUME VR!Answer(returns)
      PROVE  \/ thread' = thread
             \/ \E u \in VR!Threads :
                  /\ thread[u].pc = "restoring" /\ \A i \in DOMAIN tasks : tasks[i].thread # u
                  /\ Others(u) /\ thread'[u].gen = thread[u].gen
                  /\ thread'[u].pc = VR!Returned(u, TRUE)
  <2>1. \/ thread' = thread
        \/ /\ t \in VR!Threads /\ thread' = returns
           /\ thread[t].pc = "restoring" /\ \A i \in DOMAIN tasks : tasks[i].thread # t
    BY <1>1, <1>4, Answers
  <2>2. ASSUME t \in VR!Threads, thread' = returns
        PROVE  thread'[t].pc = VR!Returned(t, TRUE) /\ thread'[t].gen = thread[t].gen /\ Others(t)
    <3>1. thread' = [thread EXCEPT ![t].pc = VR!Returned(t, TRUE)]
      BY <2>2
    <3> HIDE DEF t
    <3> QED BY <1>0, <2>2, <3>1, Moved
  <2> HIDE DEF t
  <2> QED BY <2>1, <2>2
<1>5. ASSUME NEW u \in VR!Threads, VR!Returned(u, TRUE) = "finish" PROVE FALSE
  BY <1>5 DEF VR!Returned
<1>6. CASE /\ VR!Answer(IF txn.applied THEN VR!Retried(t) ELSE returns) \/ VR!Answer(VR!Retried(t))
           /\ UNCHANGED <<txn, VR!gameVars, VR!eventVars>>
  <2>1. VR!Answer(VR!Retried(t)) \/ (VR!Answer(returns) /\ ~txn.applied)
    BY <1>6
  <2>2. \/ thread' = thread
        \/ \E u \in VR!Threads :
              /\ thread[u].pc \in Waiting /\ \A i \in DOMAIN tasks : tasks[i].thread # u
              /\ Others(u) /\ thread'[u].gen = thread[u].gen
              /\ thread'[u].pc = "finish" => thread'[u].event \in VR!Terminal
              /\ \/ thread'[u].pc \in {"restore", "giveUp"} /\ thread[u].pc = "restoring"
                 \/ thread'[u].pc = VR!Returned(u, TRUE) /\ thread[u].pc = "restoring" /\ ~txn'.applied
    <3>1. CASE VR!Answer(VR!Retried(t))
      BY <1>3, <3>1 DEF Waiting
    <3>2. CASE VR!Answer(returns) /\ ~txn.applied
      BY <1>4, <1>5, <1>6, <3>2 DEF Waiting
    <3> QED BY <2>1, <3>1, <3>2
  <2>3. /\ StartInv' /\ ThreadInv' /\ RecoveryInv' /\ TaskInv' /\ RestoreInv'
        /\ \A u \in VR!Threads : thread'[u].pc = "apply" => thread[u].pc = "apply" /\ thread'[u].gen = thread[u].gen
        /\ \A u \in VR!Threads : thread'[u].pc \in {"play", "finish"} =>
              thread'[u].event \in VR!Terminal \/ \E g \in VR!Generations : u = VR!Recovery(g)
    BY <1>1, <1>6, <2>2, RanKeeps
  <2>4. ApplyInv'
    BY <1>0, <1>1, <1>6, <2>3 DEF ApplyInv, VR!At, VR!Mine, Of
  <2>5. TransactionInv' /\ GameInv' /\ EventInv'
    BY <1>0, <1>1, <1>6, <2>3, TransactionSame, GameSame, EventSame DEF TxnSame, VR!gameVars, VR!eventVars
  <2> QED BY <2>3, <2>4, <2>5 DEF TrackedCore
<1>7. CASE /\ txn.restoring /\ txn.generation = running.gen /\ VR!Answer(returns)
           /\ game' = previous
           /\ txn' = [txn EXCEPT !.applied = FALSE, !.restoring = FALSE, !.attempt = FALSE]
           /\ VR!Publish(pendingEvent, running.gen)
  <2>1. /\ ~txn'.applied /\ txn'.starting = txn.starting /\ txn'.active = txn.active
        /\ ~txn'.restoring /\ txn'.claimed = txn.claimed
        /\ txn'.generation = txn.generation /\ txn'.token = txn.token
    BY <1>0, <1>7 DEF VR!TypeOK
  <2>2. txn.claimed /\ txn.applied /\ ~txn.starting /\ ~txn.active /\ txn.generation # 0
    BY <1>0, <1>1, <1>7 DEF RestoreInv, TransactionInv
  <2>3. \/ thread' = thread
        \/ \E u \in VR!Threads :
              /\ thread[u].pc \in Waiting /\ \A i \in DOMAIN tasks : tasks[i].thread # u
              /\ Others(u) /\ thread'[u].gen = thread[u].gen
              /\ thread'[u].pc = "finish" => thread'[u].event \in VR!Terminal
              /\ thread'[u].pc = VR!Returned(u, TRUE) /\ thread[u].pc = "restoring" /\ ~txn'.applied
    BY <1>4, <1>5, <1>7, <2>1 DEF Waiting
  <2>4. /\ StartInv' /\ ThreadInv' /\ RecoveryInv' /\ TaskInv' /\ RestoreInv'
        /\ \A u \in VR!Threads : thread'[u].pc = "apply" => thread[u].pc = "apply" /\ thread'[u].gen = thread[u].gen
        /\ \A u \in VR!Threads : thread'[u].pc \in {"play", "finish"} =>
              thread'[u].event \in VR!Terminal \/ \E g \in VR!Generations : u = VR!Recovery(g)
    BY <1>1, <2>1, <2>3, RanKeeps
  <2>5. ApplyInv'
    BY <1>1, <2>1 DEF ApplyInv, VR!Mine
  <2>6. TransactionInv'
    BY <2>1, <2>2 DEF TransactionInv
  <2>7. GameInv'
    BY <1>0, <1>7, <2>1, <2>2 DEF GameInv
  <2>8. EventInv'
    <3>1. pendingEvent \in VR!Terminal \union {VR!NoEvent} /\ (pendingEvent \in VR!Terminal \/ txn.generation \in silent)
      BY <1>0, <1>7, <2>2 DEF EventInv, VR!TypeOK
    <3>2. \A i \in DOMAIN published : published[i].gen = txn.generation => published[i].event = "started"
      BY <1>0, <1>7, <2>2 DEF EventInv
    <3>3. VR!Publish(pendingEvent, txn.generation)
      BY <1>7
    <3> QED BY <1>1, <2>1, <2>2, <2>4, <3>1, <3>2, <3>3, Publishes
  <2> QED BY <2>4, <2>5, <2>6, <2>7, <2>8 DEF TrackedCore
<1> QED BY <1>2, <1>6, <1>7

-----------------------------------------------------------------------------
(* The recoveries.                                                         *)

\* Where a thread goes from the schedule of a recovery.
LEMMA Schedules ==
  ASSUME NEW t \in VR!Threads, ThreadInv, thread[t].pc \in Recoverers
  PROVE  /\ VR!Scheduled(t) \in {"failed", "done", "unready"}
         /\ ~\E g \in VR!Generations : t = VR!Recovery(g)
<1>1. VR!Scheduled(t) \in {"failed", "done", "unready"}
  <2>1. CASE t[1] = "start"
    BY <2>1 DEF VR!Scheduled
  <2>2. CASE t[1] = "lifecycle"
    BY <2>2 DEF VR!Scheduled, VR!Released
  <2>3. CASE t[1] # "start" /\ t[1] # "lifecycle"
    BY <2>3 DEF VR!Scheduled
  <2> QED BY <2>1, <2>2, <2>3
<1>2. ~\E g \in VR!Generations : t = VR!Recovery(g)
  BY DEF ThreadInv, Recoverers
<1> QED BY <1>1, <1>2

LEMMA ScheduleKeeps ==
  ASSUME VR!VRAssumption, VRInv, NEW t \in VR!Threads, VR!Schedule(t)
  PROVE  TrackedCore'
<1>0. VR!TypeOK /\ ThreadInv /\ GameInv /\ RecoveryInv /\ RestoreInv
  BY Parts
<1>1. /\ thread[t].pc = "schedule" /\ Steady /\ current' = current /\ frames' = frames
  BY DEF VR!Schedule, VR!At, Steady, TxnSame, VR!gateVars, VR!eventVars, VR!gameVars, VR!mainVars
<1>2. ~\E g \in VR!Generations : t = VR!Recovery(g)
  BY <1>0, <1>1, Schedules DEF Recoverers
<1>3. GameInv'
  BY <1>0, <1>1, GameSame DEF Steady, TxnSame
<1>4. CASE VR!Goes(t, VR!Scheduled(t)) /\ UNCHANGED recovery
  <2>1. thread'[t].pc = VR!Scheduled(t) /\ thread'[t].gen = thread[t].gen /\ Others(t)
    BY <1>0, <1>4, Moved DEF VR!Goes
  <2>2. thread'[t].pc \in {"failed", "done", "unready"}
    BY <1>0, <1>1, <2>1, Schedules DEF Recoverers
  <2>3. Continues(t)
    BY <1>1, <2>1, <2>2 DEF Continues, Outside, Acting, Early, Recoverers
  <2> QED BY <1>1, <1>2, <1>3, <1>4, <2>1, <2>2, <2>3, Plain DEF Waiting, Restorers
<1>5. CASE /\ VR!Mine(t) /\ txn.restoring /\ recovery # thread[t].gen
           /\ VR!Goes(t, "spawnRecovery") /\ recovery' = thread[t].gen
  <2>1. thread'[t].pc = "spawnRecovery" /\ thread'[t].gen = thread[t].gen /\ Others(t)
    BY <1>0, <1>5, Moved DEF VR!Goes
  <2>2. Continues(t)
    BY <1>1, <1>2, <2>1 DEF Continues, Outside, Acting, Early, Recoverers
  <2>3. thread[t].gen = txn.generation => txn.claimed \/ txn.generation \in silent'
    BY <1>0, <1>1 DEF RestoreInv, VR!Mine, Steady
  <2>4. TransactionInv' /\ StartInv' /\ ThreadInv' /\ TaskInv' /\ ApplyInv' /\ RestoreInv' /\ EventInv'
    BY <1>1, <1>3, <2>1, <2>2, <2>3, PlainParts DEF Waiting, Restorers
  <2>5. /\ txn'.generation = txn.generation /\ recovery' = txn.generation
        /\ thread[t].gen = txn.generation /\ recovery # txn.generation
    BY <1>1, <1>5 DEF Steady, TxnSame, VR!Mine
  <2>6. \A u \in VR!Threads : u # t => thread'[u] = thread[u]
    BY <2>1 DEF Others
  <2>7. txn.generation \in VR!Generations
    <3>1. thread[t].gen # 0
      BY <1>0, <1>1 DEF ThreadInv, Of, Acting
    <3> QED BY <2>5, <3>1, Numbered, Numbers
  <2>8. RecoveryInv'
    <3>1. \A g \in VR!Generations : thread'[VR!Recovery(g)] = thread[VR!Recovery(g)]
      BY <1>2, <2>6, Names
    <3>2. (\A g \in VR!Generations :
              thread[VR!Recovery(g)].pc \notin {"idle", "done"} /\ g = txn.generation => recovery = g)'
      BY <2>5
    <3>3. thread[VR!Recovery(txn.generation)].pc \in {"idle", "done"}
      BY <1>0, <2>5, <2>7 DEF RecoveryInv
    <3>4. \A u \in VR!Threads : thread[u].pc = "spawnRecovery" => thread[u].gen # txn.generation
      BY <1>0, <2>5 DEF RecoveryInv, VR!At, VR!Mine, Of
    <3>5. ASSUME NEW u \in VR!Threads, thread'[u].pc = "spawnRecovery"
          PROVE  /\ txn'.generation = thread'[u].gen => recovery' = thread'[u].gen
                 /\ thread'[VR!Recovery(thread'[u].gen)].pc \in {"idle", "done"}
                 /\ \A v \in VR!Threads : thread'[v].pc = "spawnRecovery" /\ thread'[v].gen = thread'[u].gen => v = u
      <4>1. CASE u = t
        BY <2>1, <2>5, <2>6, <2>7, <3>1, <3>3, <3>4, <4>1
      <4>2. CASE u # t
        <5>1. thread'[u] = thread[u] /\ thread[u].pc = "spawnRecovery" /\ thread[u].gen # txn.generation
          BY <2>6, <3>4, <3>5, <4>2
        <5>2. /\ thread[VR!Recovery(thread[u].gen)].pc \in {"idle", "done"}
              /\ \A v \in VR!Threads : thread[v].pc = "spawnRecovery" /\ thread[v].gen = thread[u].gen => v = u
          BY <1>0, <5>1 DEF RecoveryInv, VR!At, Of
        <5>3. thread[u].gen \in VR!Generations
          <6>1. thread[u].gen # 0
            BY <1>0, <5>1 DEF ThreadInv, Of, Acting
          <6> QED BY <6>1, Numbered, Numbers
        <5> QED BY <2>1, <2>5, <2>6, <3>1, <5>1, <5>2, <5>3
      <4> QED BY <4>1, <4>2
    <3> QED BY <3>2, <3>5 DEF RecoveryInv, VR!At, VR!Mine, Of
  <2> QED BY <1>3, <2>4, <2>8 DEF TrackedCore
<1> QED BY <1>4, <1>5 DEF VR!Schedule

\* Nobody needs the recovery that is cleared.
LEMMA ClearedKeeps ==
  ASSUME VR!VRAssumption, VRInv, NEW g \in VR!Generations, txn'.generation = txn.generation,
         recovery' = VR!Cleared(g), thread'[VR!Recovery(g)].pc \in {"idle", "done"},
         \A u \in VR!Threads : thread'[u].pc = "spawnRecovery" =>
            thread[u].pc = "spawnRecovery" /\ thread'[u].gen = thread[u].gen /\ thread[u].gen # g,
         \A r \in VR!Generations : r # g => thread'[VR!Recovery(r)].pc = thread[VR!Recovery(r)].pc
  PROVE  RecoveryInv'
<1>0. ThreadInv /\ RecoveryInv
  BY Parts
<1>1. recovery = g \/ recovery' = recovery
  BY DEF VR!Cleared
<1>2. (\A r \in VR!Generations :
          thread[VR!Recovery(r)].pc \notin {"idle", "done"} /\ r = txn.generation => recovery = r)'
  BY <1>0, <1>1 DEF RecoveryInv
<1>3. ASSUME NEW u \in VR!Threads, thread'[u].pc = "spawnRecovery"
      PROVE  /\ txn'.generation = thread'[u].gen => recovery' = thread'[u].gen
             /\ thread'[VR!Recovery(thread'[u].gen)].pc \in {"idle", "done"}
             /\ \A v \in VR!Threads : thread'[v].pc = "spawnRecovery" /\ thread'[v].gen = thread'[u].gen => v = u
  <2>1. thread[u].pc = "spawnRecovery" /\ thread'[u].gen = thread[u].gen /\ thread[u].gen # g
    BY <1>3
  <2>2. /\ txn.generation = thread[u].gen => recovery = thread[u].gen
        /\ thread[VR!Recovery(thread[u].gen)].pc \in {"idle", "done"}
        /\ \A v \in VR!Threads : thread[v].pc = "spawnRecovery" /\ thread[v].gen = thread[u].gen => v = u
    BY <1>0, <2>1 DEF RecoveryInv, VR!At, VR!Mine, Of
  <2>3. thread[u].gen \in VR!Generations
    <3>1. thread[u].gen # 0
      BY <1>0, <2>1 DEF ThreadInv, Of, Acting
    <3> QED BY <3>1, Numbered, Numbers
  <2> QED BY <1>1, <2>1, <2>2, <2>3
<1> QED BY <1>2, <1>3 DEF RecoveryInv, VR!At, VR!Mine, Of

LEMMA SpawnRecoveryKeeps ==
  ASSUME VR!VRAssumption, VRInv, NEW t \in VR!Threads, VR!SpawnRecovery(t)
  PROVE  TrackedCore'
<1> DEFINE g == thread[t].gen
           r == VR!Recovery(g)
<1>0. TransactionInv /\ StartInv /\ ThreadInv /\ RecoveryInv /\ TaskInv /\ ApplyInv /\ RestoreInv
      /\ GameInv /\ EventInv /\ VR!TypeOK
  BY Parts
<1>1. /\ thread[t].pc = "spawnRecovery" /\ Steady /\ current' = current /\ frames' = frames
      /\ txn' = txn /\ silent' = silent
  BY DEF VR!SpawnRecovery, VR!At, Steady, TxnSame, VR!gateVars, VR!eventVars, VR!gameVars, VR!mainVars
<1>2. /\ VR!Scheduled(t) \in {"failed", "done", "unready"} /\ ~\E u \in VR!Generations : t = VR!Recovery(u)
  BY <1>0, <1>1, Schedules DEF Recoverers
<1>3. g # 0 /\ g \in VR!Generations /\ g <= txn.generation
  <2>1. g # 0
    BY <1>0, <1>1 DEF ThreadInv, Of, Acting
  <2> QED BY <2>1, Numbered, Numbers
<1>4. r \in VR!Threads /\ r # t /\ thread[r].pc \in {"idle", "done"}
      /\ (txn.generation = g => recovery = g)
      /\ \A u \in VR!Threads : thread[u].pc = "spawnRecovery" /\ thread[u].gen = g => u = t
  BY <1>0, <1>1, <1>2, <1>3, Names DEF RecoveryInv, VR!At, VR!Mine, Of
<1>5. GameInv'
  BY <1>0, <1>1, GameSame DEF Steady, TxnSame
<1>6. txn.generation = g => txn.claimed \/ txn.generation \in silent
  BY <1>0, <1>1 DEF RestoreInv, VR!Mine
<1>7. CASE /\ thread' = [thread EXCEPT ![t].pc = VR!Scheduled(t), ![r] = VR!Thread("sleep", g, VR!NoEvent, 0)]
           /\ UNCHANGED recovery
  <2>1. /\ thread'[t].pc = VR!Scheduled(t) /\ thread'[t].gen = thread[t].gen
        /\ thread'[r] = VR!Thread("sleep", g, VR!NoEvent, 0)
        /\ \A u \in VR!Threads \ {t, r} : thread'[u] = thread[u]
    <3>1. thread \in [VR!Threads -> [pc : VR!Places, gen : VR!Known, event : VR!Terminal \union {VR!NoEvent}, count : Nat]]
      BY <1>0 DEF VR!TypeOK
    <3> HIDE DEF r, g
    <3> QED BY <1>4, <1>7, <3>1
  <2>2. thread'[r].pc = "sleep" /\ thread'[r].gen = g
    BY <2>1, ThreadFields
  <2>3. /\ \A x \in Starts \union Lifecycles : r # VR!Start(x) /\ r # VR!Playback(x) /\ r # VR!Caller(x) /\ r # VR!Cleanup(x)
        /\ \A x \in VR!Generations : r = VR!Recovery(x) => x = g
        /\ \A x \in Stops : r # VR!Stop(x)
    BY OwnNames
  <2>3a. \A x \in VR!Generations : x # g => VR!Recovery(x) # r /\ VR!Recovery(x) # t
    BY <1>2, OwnNames
  <2>4. VR!Recovery(g) = r
    OBVIOUS
  <2>5. thread[t].gen = g
    OBVIOUS
  <2> HIDE DEF r, g
  <2>6. Continues(t)
    BY <1>1, <1>2, <2>1 DEF Continues, Outside, Acting, Early, Recoverers
  <2>7. Enters(r)
    BY <1>3, <2>2, <2>3 DEF Enters, Early, Recoverers
  <2>8. \A u \in VR!Threads : u # r => Continues(u)
    BY <2>1, <2>6 DEF Continues
  <2>9. TransactionInv'
    BY <1>0, <1>1, TransactionSame DEF Steady
  <2>10. StartInv'
    <3>1. \A s \in Starts : Continues(VR!Start(s))
      BY <2>3, <2>8, Names
    <3> QED BY <1>0, <1>1, <3>1, StartSame
  <2>11. ThreadInv'
    BY <1>0, <1>1, <2>7, <2>8, EntersKeeps
  <2>12. RecoveryInv'
    <3>1. (\A x \in VR!Generations :
              thread[VR!Recovery(x)].pc \notin {"idle", "done"} /\ x = txn.generation => recovery = x)'
      <4>1. ASSUME NEW x \in VR!Generations, thread'[VR!Recovery(x)].pc \notin {"idle", "done"}, x = txn.generation
            PROVE  recovery = x
        <5>1. CASE x = g
          BY <1>4, <4>1, <5>1
        <5>2. CASE x # g
          <6>1. thread'[VR!Recovery(x)] = thread[VR!Recovery(x)]
            BY <2>1, <2>3a, <5>2, Names
          <6> QED BY <1>0, <4>1, <6>1 DEF RecoveryInv
        <5> QED BY <5>1, <5>2
      <4> QED BY <1>1, <1>7, <4>1
    <3>2. ASSUME NEW u \in VR!Threads, thread'[u].pc = "spawnRecovery"
          PROVE  /\ txn'.generation = thread'[u].gen => recovery' = thread'[u].gen
                 /\ thread'[VR!Recovery(thread'[u].gen)].pc \in {"idle", "done"}
                 /\ \A v \in VR!Threads : thread'[v].pc = "spawnRecovery" /\ thread'[v].gen = thread'[u].gen => v = u
      <4>1. u # t /\ u # r
        BY <1>2, <2>1, <2>2, <3>2
      <4>2. thread'[u] = thread[u] /\ thread[u].pc = "spawnRecovery"
        BY <2>1, <3>2, <4>1
      <4>3. /\ txn.generation = thread[u].gen => recovery = thread[u].gen
            /\ thread[VR!Recovery(thread[u].gen)].pc \in {"idle", "done"}
            /\ \A v \in VR!Threads : thread[v].pc = "spawnRecovery" /\ thread[v].gen = thread[u].gen => v = u
        BY <1>0, <4>2 DEF RecoveryInv, VR!At, VR!Mine, Of
      <4>4. thread[u].gen # g
        BY <1>4, <4>1, <4>2
      <4>5. thread[u].gen \in VR!Generations
        <5>1. thread[u].gen # 0
          BY <1>0, <4>2 DEF ThreadInv, Of, Acting
        <5> QED BY <5>1, Numbered, Numbers
      <4>6. thread'[VR!Recovery(thread[u].gen)] = thread[VR!Recovery(thread[u].gen)]
        BY <2>1, <2>3a, <4>4, <4>5, Names
      <4>7. \A v \in VR!Threads : thread'[v].pc = "spawnRecovery" => thread'[v] = thread[v]
        BY <1>2, <2>1, <2>2
      <4> QED BY <1>1, <1>7, <4>2, <4>3, <4>6, <4>7
    <3> QED BY <3>1, <3>2 DEF RecoveryInv, VR!At, VR!Mine, Of
  <2>13. TaskInv'
    <3>1. \A u \in VR!Threads : thread[u].pc \in Waiting => thread'[u].pc = thread[u].pc /\ thread'[u].gen = thread[u].gen
      BY <1>1, <1>4, <2>1 DEF Waiting
    <3> QED BY <1>0, <1>1, <3>1, TaskSame DEF Steady
  <2>14. ApplyInv'
    <3>1. \A u \in VR!Threads : thread'[u].pc = "apply" => thread[u].pc = "apply" /\ thread'[u].gen = thread[u].gen
      BY <1>2, <2>1, <2>2
    <3> QED BY <1>0, <1>1, <3>1, ApplySame DEF Steady
  <2>15. RestoreInv'
    <3>1. \A u \in VR!Threads :
            /\ thread'[u].pc # thread[u].pc \/ thread'[u].gen = thread[u].gen
            /\ thread'[u].gen = txn.generation /\ thread'[u].pc # thread[u].pc =>
                  /\ thread'[u].pc \in Restorers => txn'.claimed
                  /\ thread'[u].pc = "stopped" => txn'.claimed /\ ~txn'.applied
                  /\ thread'[u].pc \in {"schedule", "spawnRecovery", "sleep"} =>
                        txn'.claimed \/ txn.generation \in silent'
      <4>1. CASE txn.generation = g
        BY <1>1, <1>2, <1>4, <1>6, <2>1, <2>2, <4>1 DEF Restorers
      <4>2. CASE txn.generation # g
        BY <1>1, <1>2, <1>4, <2>1, <2>2, <4>2 DEF Restorers
      <4> QED BY <4>1, <4>2
    <3>2. \A x \in VR!Generations : x = txn.generation /\ thread'[VR!Recovery(x)].pc # "idle" =>
            thread[VR!Recovery(x)].pc # "idle" \/ txn'.claimed \/ x \in silent'
      <4>1. ASSUME NEW x \in VR!Generations, x = txn.generation, x # g
            PROVE  thread'[VR!Recovery(x)] = thread[VR!Recovery(x)]
        BY <2>1, <2>3a, <4>1, Names
      <4> QED BY <1>1, <1>6, <4>1
    <3> QED BY <1>0, <1>1, <3>1, <3>2, RestoreSame DEF Steady
  <2>16. EventInv'
    <3>1. \A u \in VR!Threads : thread'[u].pc \in {"play", "finish"} =>
              thread'[u].event \in VR!Terminal \/ \E x \in VR!Generations : u = VR!Recovery(x)
      BY <1>0, <1>2, <2>1, <2>2 DEF EventInv
    <3> QED BY <1>0, <1>1, <3>1, EventSame DEF Steady
  <2> QED BY <1>5, <2>9, <2>10, <2>11, <2>12, <2>13, <2>14, <2>15, <2>16 DEF TrackedCore
<1>8. CASE VR!Goes(t, VR!Scheduled(t)) /\ recovery' = VR!Cleared(g)
  <2>1. thread'[t].pc = VR!Scheduled(t) /\ thread'[t].gen = thread[t].gen /\ Others(t)
    BY <1>0, <1>8, Moved DEF VR!Goes
  <2>2. Continues(t)
    BY <1>1, <1>2, <2>1 DEF Continues, Outside, Acting, Early, Recoverers
  <2>3. TransactionInv' /\ StartInv' /\ ThreadInv' /\ TaskInv' /\ ApplyInv' /\ RestoreInv' /\ EventInv'
    BY <1>1, <1>2, <1>5, <2>1, <2>2, PlainParts DEF Waiting, Restorers
  <2>4. \A u \in VR!Threads : u # t => thread'[u] = thread[u]
    BY <2>1 DEF Others
  <2>5. thread'[r].pc \in {"idle", "done"}
    BY <1>4, <2>4
  <2>6. \A u \in VR!Threads : thread'[u].pc = "spawnRecovery" =>
            thread[u].pc = "spawnRecovery" /\ thread'[u].gen = thread[u].gen /\ thread[u].gen # g
    BY <1>2, <1>4, <2>1, <2>4
  <2>7. \A x \in VR!Generations : x # g => thread'[VR!Recovery(x)].pc = thread[VR!Recovery(x)].pc
    BY <1>2, <2>4, Names
  <2>8. RecoveryInv'
    <3>1. g \in VR!Generations /\ recovery' = VR!Cleared(g) /\ thread'[VR!Recovery(g)].pc \in {"idle", "done"}
      BY <1>3, <1>8, <2>5
    <3> HIDE DEF g, r
    <3> QED BY <1>1, <2>6, <2>7, <3>1, ClearedKeeps
  <2> QED BY <1>5, <2>3, <2>8 DEF TrackedCore
<1> QED BY <1>7, <1>8 DEF VR!SpawnRecovery

\* A recovery is over.
LEMMA OverKeeps ==
  ASSUME VR!VRAssumption, VRInv, NEW g \in VR!Generations, thread[VR!Recovery(g)].pc \in {"sleep", "clear"},
         VR!Goes(VR!Recovery(g), "done"), recovery' = VR!Cleared(g), Steady, current' = current, frames' = frames
  PROVE  TrackedCore'
<1> DEFINE t == VR!Recovery(g)
<1>0. VR!TypeOK /\ ThreadInv /\ RecoveryInv /\ GameInv
  BY Parts
<1>1. t \in VR!Threads /\ VR!Recovery(g) = t /\ thread[t].gen = g /\ thread[t].pc \in {"sleep", "clear"}
  BY <1>0, Names DEF ThreadInv, VR!At, Of
<1>2. \A x \in VR!Generations : x # g => VR!Recovery(x) # t
  BY OwnNames
<1>3. VR!Goes(t, "done")
  OBVIOUS
<1> HIDE DEF t
<1>4. thread'[t].pc = "done" /\ thread'[t].gen = thread[t].gen /\ Others(t)
  BY <1>0, <1>1, <1>3, Moved DEF VR!Goes
<1>5. Continues(t)
  BY <1>1, <1>4 DEF Continues, Outside, Acting, Early, Recoverers
<1>6. GameInv'
  BY <1>0, GameSame DEF Steady, TxnSame
<1>7. TransactionInv' /\ StartInv' /\ ThreadInv' /\ TaskInv' /\ ApplyInv' /\ RestoreInv' /\ EventInv'
  BY <1>1, <1>4, <1>5, <1>6, PlainParts DEF Waiting, Restorers
<1>8. \A u \in VR!Threads : u # t => thread'[u] = thread[u]
  BY <1>4 DEF Others
<1>9. ASSUME NEW u \in VR!Threads, thread'[u].pc = "spawnRecovery"
      PROVE  thread[u].pc = "spawnRecovery" /\ thread'[u].gen = thread[u].gen /\ thread[u].gen # g
  <2>1. thread'[u] = thread[u] /\ thread[u].pc = "spawnRecovery"
    BY <1>4, <1>8, <1>9
  <2>2. thread[VR!Recovery(thread[u].gen)].pc \in {"idle", "done"}
    BY <1>0, <2>1 DEF RecoveryInv, VR!At, Of
  <2>3. thread[u].gen # g
    BY <1>1, <2>2
  <2> QED BY <2>1, <2>3
<1>10. \A x \in VR!Generations : x # g => thread'[VR!Recovery(x)].pc = thread[VR!Recovery(x)].pc
  BY <1>2, <1>8, Names
<1>11. RecoveryInv'
  BY <1>1, <1>4, <1>9, <1>10, ClearedKeeps DEF Steady, TxnSame
<1> QED BY <1>6, <1>7, <1>11 DEF TrackedCore

LEMMA WakesKeeps ==
  ASSUME VR!VRAssumption, VRInv, NEW g \in VR!Generations, VR!Wakes(g)
  PROVE  TrackedCore'
<1> DEFINE t == VR!Recovery(g)
<1>0. VR!TypeOK /\ GameInv
  BY Parts
<1>1. /\ t \in VR!Threads /\ thread[t].pc = "sleep" /\ Steady /\ current' = current /\ frames' = frames
  BY Names DEF VR!Wakes, VR!At, Steady, TxnSame, VR!gateVars, VR!eventVars, VR!gameVars, VR!mainVars
<1>2. CASE VR!Goes(t, "done") /\ recovery' = VR!Cleared(g)
  BY <1>1, <1>2, OverKeeps
<1>3. CASE VR!Goes(t, "finish") /\ UNCHANGED recovery
  <2>0. \E x \in VR!Generations : t = VR!Recovery(x)
    OBVIOUS
  <2> HIDE DEF t
  <2>1. thread'[t].pc = "finish" /\ thread'[t].gen = thread[t].gen /\ Others(t)
    BY <1>0, <1>1, <1>3, Moved DEF VR!Goes
  <2>2. Continues(t)
    BY <1>1, <2>1 DEF Continues, Outside, Acting, Early, Recoverers
  <2>3. GameInv'
    BY <1>0, <1>1, GameSame DEF Steady, TxnSame
  <2> QED BY <1>1, <1>3, <2>0, <2>1, <2>2, <2>3, Plain DEF Waiting, Restorers
<1> QED BY <1>2, <1>3 DEF VR!Wakes

LEMMA RecoversKeeps ==
  ASSUME VR!VRAssumption, VRInv, NEW g \in VR!Generations, VR!Recovers(g)
  PROVE  TrackedCore'
<1>1. /\ thread[VR!Recovery(g)].pc = "clear" /\ Steady /\ current' = current /\ frames' = frames
      /\ VR!Goes(VR!Recovery(g), "done") /\ recovery' = VR!Cleared(g)
  BY DEF VR!Recovers, VR!At, Steady, TxnSame, VR!gateVars, VR!eventVars, VR!gameVars, VR!mainVars
<1> QED BY <1>1, OverKeeps

-----------------------------------------------------------------------------
(* The shapes of the variables.                                            *)
GateType == {ready, hooked, events} \subseteq BOOLEAN /\ (ready => hooked)
TxnType == txn \in [starting : BOOLEAN, active : BOOLEAN, restoring : BOOLEAN, attempt : BOOLEAN,
               claimed : BOOLEAN, applied : BOOLEAN, survives : BOOLEAN, generation : VR!Known,
               owner : {Whose[s] : s \in Starts} \union {None}, token : Starts \union {None}]
CurrentType == current \in VR!Frame \union {None}
PendingType == pendingEvent \in VR!Terminal \union {VR!NoEvent}
PublishedType == published \in Seq([event : VR!Terminal \union {"started"}, gen : VR!Generations])
RecoveryType == recovery \in VR!Known
GameType == /\ game \in VR!Controllers /\ previous \in VR!Controllers \union {None}
            /\ (game # Own => game.left # game.right)
ThreadType == thread \in [VR!Threads -> [pc : VR!Places, gen : VR!Known, event : VR!Terminal \union {VR!NoEvent}, count : Nat]]
FramesType == frames \in [Starts -> Submitted \union {<<>>}]
TasksType == tasks \in Seq(VR!Tasks) /\ \A i, j \in DOMAIN tasks : i # j => tasks[i].thread # tasks[j].thread
RunningType == running \in VR!Tasks \union {None}
SilentType == silent \subseteq VR!Generations
FailsType == fails \in 0..Fails

LEMMA TypeParts ==
  VR!TypeOK <=> /\ GateType /\ TxnType /\ CurrentType /\ PendingType /\ PublishedType /\ RecoveryType
             /\ GameType /\ ThreadType /\ FramesType /\ TasksType /\ RunningType /\ SilentType /\ FailsType
BY DEF VR!TypeOK, GateType, TxnType, CurrentType, PendingType, PublishedType, RecoveryType, GameType,
       ThreadType, FramesType, TasksType, RunningType, SilentType, FailsType

LEMMA TypeNext ==
  ASSUME GateType', TxnType', CurrentType', PendingType', PublishedType', RecoveryType',
         GameType', ThreadType', FramesType', TasksType', RunningType', SilentType', FailsType'
  PROVE  VR!TypeOK'
BY DEF VR!TypeOK, GateType, TxnType, CurrentType, PendingType, PublishedType, RecoveryType, GameType,
       ThreadType, FramesType, TasksType, RunningType, SilentType, FailsType

\* What a step leaves alone keeps its shape, and what fails is counted.
LEMMA SameTypes ==
  ASSUME VR!VRAssumption, VR!TypeOK
  PROVE  /\ UNCHANGED <<ready, hooked, events>> => GateType'
         /\ UNCHANGED txn => TxnType'
         /\ UNCHANGED current => CurrentType'
         /\ UNCHANGED pendingEvent => PendingType'
         /\ UNCHANGED published => PublishedType'
         /\ UNCHANGED recovery => RecoveryType'
         /\ UNCHANGED <<game, previous>> => GameType'
         /\ UNCHANGED thread => ThreadType'
         /\ UNCHANGED frames => FramesType'
         /\ UNCHANGED tasks => TasksType'
         /\ UNCHANGED running => RunningType'
         /\ UNCHANGED silent => SilentType'
         /\ UNCHANGED fails \/ VR!Fail => FailsType'
<1>1. GateType /\ TxnType /\ CurrentType /\ PendingType /\ PublishedType /\ RecoveryType
      /\ GameType /\ ThreadType /\ FramesType /\ TasksType /\ RunningType /\ SilentType /\ FailsType
  BY TypeParts
<1>2. UNCHANGED <<ready, hooked, events>> => GateType'
  BY <1>1 DEF GateType
<1>3. UNCHANGED txn => TxnType'
  BY <1>1 DEF TxnType
<1>4. UNCHANGED current => CurrentType'
  BY <1>1 DEF CurrentType
<1>5. (UNCHANGED pendingEvent => PendingType') /\ (UNCHANGED published => PublishedType')
  BY <1>1 DEF PendingType, PublishedType
<1>6. (UNCHANGED recovery => RecoveryType') /\ (UNCHANGED <<game, previous>> => GameType')
  BY <1>1 DEF RecoveryType, GameType
<1>7. (UNCHANGED thread => ThreadType') /\ (UNCHANGED frames => FramesType')
  BY <1>1 DEF ThreadType, FramesType
<1>8. (UNCHANGED tasks => TasksType') /\ (UNCHANGED running => RunningType') /\ (UNCHANGED silent => SilentType')
  BY <1>1 DEF TasksType, RunningType, SilentType
<1>9. UNCHANGED fails \/ VR!Fail => FailsType'
  BY <1>1 DEF FailsType, VR!Fail, VR!VRAssumption
<1> QED BY <1>2, <1>3, <1>4, <1>5, <1>6, <1>7, <1>8, <1>9

\* A thread that moves keeps its shape.
LEMMA ThreadTyped ==
  ASSUME VR!TypeOK, NEW t \in VR!Threads
  PROVE  /\ \A p \in VR!Places : thread' = [thread EXCEPT ![t].pc = p] => ThreadType'
         /\ \A p \in VR!Places, c \in Nat : thread' = [thread EXCEPT ![t].pc = p, ![t].count = c] => ThreadType'
         /\ \A p \in VR!Places, g \in VR!Known, e \in VR!Terminal \union {VR!NoEvent}, c \in Nat :
              thread' = [thread EXCEPT ![t] = VR!Thread(p, g, e, c)] => ThreadType'
<1>1. thread \in [VR!Threads -> [pc : VR!Places, gen : VR!Known, event : VR!Terminal \union {VR!NoEvent}, count : Nat]]
  BY DEF VR!TypeOK
<1>2. \A p \in VR!Places : thread' = [thread EXCEPT ![t].pc = p] => ThreadType'
  BY <1>1 DEF ThreadType
<1>3. ASSUME NEW p \in VR!Places, NEW c \in Nat, thread' = [thread EXCEPT ![t].pc = p, ![t].count = c]
      PROVE  ThreadType'
  <2> DEFINE r == [thread[t] EXCEPT !.pc = p, !.count = c]
  <2>1. r \in [pc : VR!Places, gen : VR!Known, event : VR!Terminal \union {VR!NoEvent}, count : Nat]
    BY <1>1
  <2>2. thread' = [thread EXCEPT ![t] = r]
    BY <1>1, <1>3
  <2> HIDE DEF r
  <2> QED BY <1>1, <2>1, <2>2 DEF ThreadType
<1>4. ASSUME NEW p \in VR!Places, NEW g \in VR!Known, NEW e \in VR!Terminal \union {VR!NoEvent}, NEW c \in Nat,
             thread' = [thread EXCEPT ![t] = VR!Thread(p, g, e, c)]
      PROVE  ThreadType'
  <2>1. VR!Thread(p, g, e, c) \in [pc : VR!Places, gen : VR!Known, event : VR!Terminal \union {VR!NoEvent}, count : Nat]
    BY DEF VR!Thread
  <2> QED BY <1>1, <1>4, <2>1 DEF ThreadType
<1> QED BY <1>2, <1>3, <1>4

LEMMA ThreadTypedTo ==
  ASSUME VR!TypeOK, NEW t \in VR!Threads, NEW p \in VR!Places, NEW g \in VR!Known, NEW e \in VR!Terminal \union {VR!NoEvent},
         NEW c \in Nat, thread' = [thread EXCEPT ![t] = VR!Thread(p, g, e, c)]
  PROVE  ThreadType'
BY ThreadTyped

\* A thread waits for one task.
LEMMA QueueTyped ==
  ASSUME VR!VRAssumption, VRInv, NEW t \in VR!Threads, NEW kind \in {"apply", "restore"}, VR!Queue(t, kind),
         thread[t].pc \notin Waiting, thread[t].gen # 0
  PROVE  TasksType'
<1> DEFINE k == [thread |-> t, kind |-> kind, gen |-> thread[t].gen]
           n == Len(tasks) + 1
<1>0. VR!TypeOK /\ TaskInv
  BY Parts
<1>1. thread[t].gen \in VR!Generations
  BY Numbered, Numbers
<1>2. k \in VR!Tasks /\ k.thread = t
  BY <1>1 DEF VR!Tasks
<1>3. tasks' = Append(tasks, k) /\ tasks \in Seq(VR!Tasks)
  BY <1>0 DEF VR!Queue, VR!TypeOK
<1> HIDE DEF k
<1>4. /\ DOMAIN tasks' = DOMAIN tasks \union {n} /\ tasks'[n] = k /\ n \notin DOMAIN tasks
      /\ \A i \in DOMAIN tasks : tasks'[i] = tasks[i]
  BY <1>3, Appended
<1>5. tasks' \in Seq(VR!Tasks)
  BY <1>2, <1>3
<1> HIDE DEF n
<1>6. \A i \in DOMAIN tasks : tasks[i].thread # t
  BY <1>0 DEF TaskInv, WaitsFor, Waiting
<1>7. \A i, j \in DOMAIN tasks : i # j => tasks[i].thread # tasks[j].thread
  BY <1>0 DEF VR!TypeOK
<1>8. \A i, j \in DOMAIN tasks' : i # j => tasks'[i].thread # tasks'[j].thread
  BY <1>2, <1>4, <1>6, <1>7
<1> QED BY <1>5, <1>8 DEF TasksType

\* A task that is no longer there.
LEMMA RemoveTyped ==
  ASSUME VR!TypeOK, NEW i \in DOMAIN tasks, tasks' = RemoveAt(tasks, i)
  PROVE  TasksType'
<1>1. tasks \in Seq(VR!Tasks) /\ \A j, k \in DOMAIN tasks : j # k => tasks[j].thread # tasks[k].thread
  BY DEF VR!TypeOK
<1>2. /\ tasks' \in Seq(VR!Tasks) /\ Len(tasks') = Len(tasks) - 1
      /\ \A j \in 1..Len(tasks)-1 : tasks'[j] = IF j < i THEN tasks[j] ELSE tasks[j+1]
  BY <1>1, RemoveElements
<1>3. DOMAIN tasks = 1..Len(tasks) /\ Len(tasks) \in Nat /\ DOMAIN tasks' = 1..Len(tasks)-1 /\ i \in Nat
  BY <1>1, <1>2
<1> DEFINE f(j) == IF j < i THEN j ELSE j + 1
<1>4. \A j \in DOMAIN tasks' : f(j) \in DOMAIN tasks /\ tasks'[j] = tasks[f(j)]
  BY <1>2, <1>3
<1>5. \A j, k \in DOMAIN tasks' : j # k => f(j) # f(k)
  BY <1>3
<1> HIDE DEF f
<1>6. \A j, k \in DOMAIN tasks' : j # k => tasks'[j].thread # tasks'[k].thread
  BY <1>1, <1>4, <1>5
<1> QED BY <1>2, <1>6 DEF TasksType

\* What is published has a shape.
LEMMA PublishTyped ==
  ASSUME VR!TypeOK, NEW e \in VR!Terminal \union {"started", VR!NoEvent}, NEW g \in VR!Generations, VR!Publish(e, g)
  PROVE  PublishedType'
<1> DEFINE x == [event |-> e, gen |-> g]
<1>1. published \in Seq([event : VR!Terminal \union {"started"}, gen : VR!Generations])
  BY DEF VR!TypeOK
<1>2. CASE events /\ e # VR!NoEvent
  <2>1. x \in [event : VR!Terminal \union {"started"}, gen : VR!Generations] /\ published' = Append(published, x)
    BY <1>2 DEF VR!Publish
  <2> HIDE DEF x
  <2> QED BY <1>1, <2>1 DEF PublishedType
<1>3. CASE ~(events /\ e # VR!NoEvent)
  BY <1>1, <1>3 DEF VR!Publish, PublishedType
<1> QED BY <1>2, <1>3

LEMMA ReturnedTyped ==
  ASSUME NEW t \in VR!Threads, NEW ok
  PROVE  VR!Returned(t, ok) \in VR!Places /\ VR!Scheduled(t) \in VR!Places
<1>1. VR!Returned(t, ok) \in {"stopped", "wait", "clear", "sleep", "failed", "schedule", "done"}
  <2>1. CASE t[1] = "stop"
    BY <2>1 DEF VR!Returned
  <2>2. CASE t[1] = "recovery"
    BY <2>2 DEF VR!Returned
  <2>3. CASE t[1] = "start"
    BY <2>3 DEF VR!Returned
  <2>4. CASE t[1] \notin {"stop", "recovery", "start"}
    BY <2>4 DEF VR!Returned
  <2> QED BY <2>1, <2>2, <2>3, <2>4
<1>2. VR!Scheduled(t) \in {"failed", "done", "unready"}
  <2>1. CASE t[1] = "start"
    BY <2>1 DEF VR!Scheduled
  <2>2. CASE t[1] = "lifecycle"
    BY <2>2 DEF VR!Scheduled, VR!Released
  <2>3. CASE t[1] # "start" /\ t[1] # "lifecycle"
    BY <2>3 DEF VR!Scheduled
  <2> QED BY <2>1, <2>2, <2>3
<1> QED BY <1>1, <1>2 DEF VR!Places

\* The places that threads go to.
LEMMA PlaceNames ==
  {"checked", "refused", "apply", "applying", "commit", "spawn", "queued", "play", "done", "notActive",
   "denied", "stopped", "pending", "detach", "unready", "finish", "restore", "restoring", "giveUp",
   "schedule", "spawnRecovery", "sleep"} \subseteq VR!Places
BY DEF VR!Places

LEMMA NoEventTyped == VR!NoEvent \in VR!Terminal \union {VR!NoEvent} /\ 0 \in Nat /\ 1 \in Nat
OBVIOUS

LEMMA EventsTyped == {"finished", "stopped", "aborted"} \subseteq VR!Terminal \union {VR!NoEvent}
BY DEF VR!Terminal

\* Who fails goes to the end of its sequence.
LEMMA AbortsTyped ==
  ASSUME VR!VRAssumption, VRInv, NEW s \in Starts, thread' = [thread EXCEPT ![VR!Start(s)] = VR!Aborts(s)]
  PROVE  ThreadType'
<1> DEFINE t == VR!Start(s)
<1>1. VR!TypeOK /\ t \in VR!Threads /\ thread[t].gen \in VR!Known
  BY Parts, Names, Numbered
<1> DEFINE g == thread[t].gen
           e == "aborted"
           p == "finish"
<1>2. thread' = [thread EXCEPT ![t] = VR!Thread(p, g, e, 0)] /\ g \in VR!Known
  BY <1>1 DEF VR!Aborts
<1>3. p \in VR!Places /\ e \in VR!Terminal \union {VR!NoEvent} /\ 0 \in Nat
  BY PlaceNames, EventsTyped
<1> HIDE DEF t, g, e, p
<1> QED BY <1>1, <1>2, <1>3, ThreadTypedTo

LEMMA MakesReadyTypes ==
  ASSUME VR!VRAssumption, VRInv, VR!MakesReady
  PROVE  VR!TypeOK'
<1>0. VR!TypeOK
  BY Parts
<1>1. GateType'
  <2>1. PICK installed \in {hooked, TRUE} : ready' = installed /\ hooked' = installed
    BY DEF VR!MakesReady
  <2>2. hooked \in BOOLEAN /\ events \in BOOLEAN /\ events' = events
    BY <1>0 DEF VR!TypeOK, VR!MakesReady
  <2> QED BY <2>1, <2>2 DEF GateType
<1>2. UNCHANGED <<txn, current, pendingEvent, published, recovery, game, previous, thread, frames, tasks,
                  running, silent, fails>>
  BY DEF VR!MakesReady, VR!eventVars, VR!gameVars, VR!mainVars
<1> QED BY <1>0, <1>1, <1>2, SameTypes, TypeNext

LEMMA CheckTypes ==
  ASSUME VR!VRAssumption, VRInv, NEW s \in Starts, VR!Check(s)
  PROVE  VR!TypeOK'
<1> DEFINE t == VR!Start(s)
<1>0. VR!TypeOK /\ t \in VR!Threads
  BY Parts, Names
<1>1. UNCHANGED <<ready, hooked, events, txn, current, pendingEvent, published, recovery, game, previous, tasks,
                  running, silent, fails>>
  BY DEF VR!Check, VR!gateVars, VR!eventVars, VR!gameVars, VR!mainVars
<1>2. \E f \in Submitted, p \in {"checked", "refused"} :
          VR!Goes(t, p) /\ (frames' = [frames EXCEPT ![s] = f] \/ frames' = frames)
  BY DEF VR!Check
<1> HIDE DEF t
<1>3. ThreadType'
  BY <1>0, <1>2, ThreadTyped, PlaceNames DEF VR!Goes
<1>4. FramesType'
  BY <1>0, <1>2 DEF VR!TypeOK, FramesType
<1> QED BY <1>0, <1>1, <1>3, <1>4, SameTypes, TypeNext

LEMMA BeginTypes ==
  ASSUME VR!VRAssumption, VRInv, NEW s \in Starts, VR!Begin(s)
  PROVE  VR!TypeOK'
<1> DEFINE t == VR!Start(s)
<1>0. VR!TypeOK /\ t \in VR!Threads
  BY Parts, Names
<1>1. /\ UNCHANGED <<ready, hooked, events, current, published, recovery, game, previous, frames, tasks,
                     running, silent, fails>>
      /\ VR!At(VR!Start(s), "checked")
  BY DEF VR!Begin, VR!gateVars, VR!eventVars, VR!gameVars, VR!mainVars
<1>2. CASE VR!Goes(t, "refused") /\ UNCHANGED <<txn, pendingEvent>>
  <2> HIDE DEF t
  <2>1. ThreadType'
    BY <1>0, <1>2, ThreadTyped, PlaceNames DEF VR!Goes
  <2> QED BY <1>0, <1>1, <1>2, <2>1, SameTypes, TypeNext
<1>3. CASE /\ txn' = VR!Begun(s) /\ pendingEvent' = VR!NoEvent
           /\ thread' = [thread EXCEPT ![VR!Start(s)] = VR!Thread("apply", txn'.generation, VR!NoEvent, 0)]
  <2>0. txn'.generation = txn.generation + 1
    BY <1>3 DEF VR!Begun
  <2>1. \A u \in Starts : u # s => thread'[VR!Start(u)] = thread[VR!Start(u)]
    BY <1>0, <1>3, Moved, Names, OwnNames DEF Others
  <2>2. thread'[t].pc = "apply"
    <3>1. thread'[t] = VR!Thread("apply", txn'.generation, VR!NoEvent, 0)
      BY <1>0, <1>3, Moved
    <3> QED BY <3>1, ThreadFields
  <2>3. txn.generation + 1 \in VR!Known
    BY <1>1, <2>1, <2>2, BeginCounts, Numbers
  <2>4. TxnType'
    BY <1>3, <2>3 DEF TxnType, VR!Begun
  <2>5. PendingType'
    BY <1>3 DEF PendingType
  <2>6. ThreadType'
    <3>1. txn'.generation \in VR!Known /\ "apply" \in VR!Places
      BY <2>0, <2>3, PlaceNames
    <3> HIDE DEF t
    <3> QED BY <1>0, <1>3, <3>1, NoEventTyped, ThreadTypedTo DEF t
  <2> QED BY <1>0, <1>1, <2>4, <2>5, <2>6, SameTypes, TypeNext
<1> QED BY <1>2, <1>3 DEF VR!Begin

LEMMA ApplyTypes ==
  ASSUME VR!VRAssumption, VRInv, NEW s \in Starts, VR!Apply(s)
  PROVE  VR!TypeOK'
<1> DEFINE t == VR!Start(s)
<1>0. VR!TypeOK /\ ThreadInv /\ t \in VR!Threads
  BY Parts, Names
<1>1. /\ UNCHANGED <<ready, hooked, events, txn, current, pendingEvent, published, recovery, game, previous, frames,
                     running, silent>>
      /\ thread[t].pc = "apply"
  BY DEF VR!Apply, VR!At, VR!gateVars, VR!eventVars, VR!gameVars
<1>2. CASE VR!Queue(t, "apply") /\ VR!Goes(t, "applying") /\ UNCHANGED fails
  <2> HIDE DEF t
  <2>1. ThreadType'
    BY <1>0, <1>2, ThreadTyped, PlaceNames DEF VR!Goes
  <2>2. thread[t].pc \notin Waiting /\ thread[t].gen # 0
    BY <1>0, <1>1 DEF Waiting, ThreadInv, Of, Acting
  <2>3. TasksType'
    BY <1>0, <1>2, <2>2, QueueTyped
  <2> QED BY <1>0, <1>1, <1>2, <2>1, <2>3, SameTypes, TypeNext
<1>3. CASE VR!Fail /\ thread' = [thread EXCEPT ![VR!Start(s)] = VR!Aborts(s)] /\ UNCHANGED tasks
  <2>1. ThreadType'
    BY <1>3, AbortsTyped
  <2> QED BY <1>0, <1>1, <1>3, <2>1, SameTypes, TypeNext
<1> QED BY <1>2, <1>3 DEF VR!Apply

LEMMA CommitTypes ==
  ASSUME VR!VRAssumption, VRInv, NEW s \in Starts, VR!Commit(s)
  PROVE  VR!TypeOK'
<1> DEFINE t == VR!Start(s)
           g == thread[VR!Start(s)].gen
<1>0. VR!TypeOK /\ StartInv /\ ThreadInv /\ t \in VR!Threads
  BY Parts, Names
<1>1. /\ UNCHANGED <<ready, hooked, events, pendingEvent, recovery, game, previous, frames, tasks,
                     running, silent, fails>>
      /\ thread[t].pc = "commit"
  BY DEF VR!Commit, VR!At, VR!gateVars, VR!gameVars, VR!mainVars
<1>2. CASE thread' = [thread EXCEPT ![VR!Start(s)] = VR!Aborts(s)] /\ UNCHANGED <<txn, current, published>>
  <2>1. ThreadType'
    BY <1>2, AbortsTyped
  <2> QED BY <1>0, <1>1, <1>2, <2>1, SameTypes, TypeNext
<1>3. CASE /\ txn' = [txn EXCEPT !.starting = FALSE, !.active = TRUE] /\ current' = frames[s][1]
           /\ VR!Publish("started", g) /\ VR!Goes(t, "spawn")
  <2>1. TxnType'
    BY <1>0, <1>3 DEF VR!TypeOK, TxnType
  <2>2. CurrentType'
    <3>1. VR!Valid(frames[s])
      BY <1>0, <1>1 DEF StartInv, VR!At
    <3>2. frames[s] \in Submitted
      BY <1>0, <3>1 DEF VR!TypeOK, VR!Valid
    <3> QED BY <1>3, <3>1, <3>2, Pairs DEF CurrentType
  <2>3. g \in VR!Generations
    <3>1. g # 0
      BY <1>0, <1>1 DEF ThreadInv, Of, Acting
    <3> QED BY <1>0, <3>1, Numbered, Numbers
  <2> HIDE DEF t, g
  <2>4. PublishedType'
    BY <1>0, <1>3, <2>3, PublishTyped
  <2>5. ThreadType'
    BY <1>0, <1>3, ThreadTyped, PlaceNames DEF VR!Goes
  <2> QED BY <1>0, <1>1, <2>1, <2>2, <2>4, <2>5, SameTypes, TypeNext
<1> QED BY <1>2, <1>3 DEF VR!Commit

LEMMA SpawnTypes ==
  ASSUME VR!VRAssumption, VRInv, NEW s \in Starts, VR!Spawn(s)
  PROVE  VR!TypeOK'
<1> DEFINE t == VR!Start(s)
           p == VR!Playback(s)
           g == thread[t].gen
<1>0. VR!TypeOK /\ t \in VR!Threads /\ p \in VR!Threads /\ t # p
  BY Parts, Names, OwnNames
<1>1. UNCHANGED <<ready, hooked, events, txn, current, pendingEvent, published, recovery, game, previous, frames, tasks,
                  running, silent>>
  BY DEF VR!Spawn, VR!gateVars, VR!eventVars, VR!gameVars, VR!mainVars
<1>2. CASE VR!NoThread /\ thread' = [thread EXCEPT ![VR!Start(s)] = VR!Aborts(s)]
  <2>1. ThreadType'
    BY <1>2, AbortsTyped
  <2> QED BY <1>0, <1>1, <1>2, <2>1, SameTypes, TypeNext DEF VR!NoThread
<1>3. CASE /\ thread' = [thread EXCEPT ![t].pc = "queued", ![p] = VR!Thread("play", g, "finished", 1)]
           /\ UNCHANGED fails
  <2>1. g \in VR!Known
    BY <1>0, Numbered
  <2>2. "queued" \in VR!Places /\ "play" \in VR!Places /\ "finished" \in VR!Terminal \union {VR!NoEvent}
    BY PlaceNames, EventsTyped
  <2>3. VR!Thread("play", g, "finished", 1) \in
          [pc : VR!Places, gen : VR!Known, event : VR!Terminal \union {VR!NoEvent}, count : Nat]
    BY <2>1, <2>2 DEF VR!Thread
  <2> HIDE DEF t, p, g
  <2>4. ThreadType'
    <3> DEFINE r == VR!Thread("play", g, "finished", 1)
    <3>1. /\ r \in [pc : VR!Places, gen : VR!Known, event : VR!Terminal \union {VR!NoEvent}, count : Nat]
          /\ thread' = [thread EXCEPT ![t].pc = "queued", ![p] = r]
      BY <1>3, <2>3
    <3> HIDE DEF r
    <3> QED BY <1>0, <2>2, <3>1 DEF VR!TypeOK, ThreadType
  <2> QED BY <1>0, <1>1, <1>3, <2>4, SameTypes, TypeNext
<1> QED BY <1>2, <1>3 DEF VR!Spawn

LEMMA PlaysTypes ==
  ASSUME VR!VRAssumption, VRInv, NEW s \in Starts, VR!Plays(s)
  PROVE  VR!TypeOK'
<1> DEFINE t == VR!Playback(s)
           next == thread[t].count + 1
<1>0. VR!TypeOK /\ ThreadInv /\ StartInv /\ t \in VR!Threads
  BY Parts, Names
<1>1. /\ UNCHANGED <<ready, hooked, events, txn, pendingEvent, published, recovery, game, previous, frames, tasks,
                     running, silent, fails>>
      /\ thread[t].pc = "play"
  BY DEF VR!Plays, VR!At, VR!gateVars, VR!eventVars, VR!gameVars, VR!mainVars
<1>2. \/ \E p \in {"done", "finish"} : VR!Goes(t, p) /\ UNCHANGED current
      \/ /\ next <= Len(frames[s])
         /\ current' = frames[s][next] /\ thread' = [thread EXCEPT ![t].count = next]
  BY DEF VR!Plays
<1>3. thread[t].count \in Nat
  BY <1>0 DEF VR!TypeOK
<1>4. CASE \E p \in {"done", "finish"} : VR!Goes(t, p) /\ UNCHANGED current
  <2> HIDE DEF t
  <2>1. ThreadType'
    BY <1>0, <1>4, ThreadTyped, PlaceNames DEF VR!Goes
  <2> QED BY <1>0, <1>1, <1>4, <2>1, SameTypes, TypeNext
<1>5. CASE /\ next <= Len(frames[s])
           /\ current' = frames[s][next] /\ thread' = [thread EXCEPT ![t].count = next]
  <2>1. VR!Valid(frames[s])
    BY <1>0, <1>1 DEF ThreadInv, StartInv, VR!At
  <2>2. frames[s] \in Submitted
    BY <1>0, <2>1 DEF VR!TypeOK, VR!Valid
  <2>3. next \in Nat /\ next \in DOMAIN frames[s]
    BY <1>3, <1>5, <2>1, <2>2, Pairs
  <2> HIDE DEF next
  <2>4. CurrentType'
    BY <1>5, <2>1, <2>2, <2>3, Pairs DEF CurrentType
  <2> HIDE DEF t
  <2>5. ThreadType'
    BY <1>0, <1>5, <2>3 DEF VR!TypeOK, ThreadType
  <2> QED BY <1>0, <1>1, <2>4, <2>5, SameTypes, TypeNext
<1> QED BY <1>2, <1>4, <1>5

LEMMA ReleaseTypes ==
  ASSUME VR!VRAssumption, VRInv, NEW s \in Stops, VR!Release(s)
  PROVE  VR!TypeOK'
<1> DEFINE t == VR!Stop(s)
<1>0. VR!TypeOK /\ t \in VR!Threads
  BY Parts, Names
<1>1. UNCHANGED <<ready, hooked, events, txn, current, pendingEvent, published, recovery, game, previous, frames, tasks,
                  running, silent, fails>>
  BY DEF VR!Release, VR!gateVars, VR!eventVars, VR!gameVars, VR!mainVars
<1>2. \/ thread' = [thread EXCEPT ![t] = VR!Thread("notActive", 0, VR!NoEvent, 0)]
      \/ thread' = [thread EXCEPT ![t] = VR!Thread("denied", 0, VR!NoEvent, 0)]
      \/ thread' = [thread EXCEPT ![t] = VR!Thread("finish", txn.generation, "stopped", 0)]
  <2>1. CASE ~VR!Busy
    BY <2>1 DEF VR!Release
  <2>2. CASE VR!Busy
    BY <2>2 DEF VR!Release
  <2> QED BY <2>1, <2>2
<1> HIDE DEF t
<1>3. 0 \in VR!Known /\ txn.generation \in VR!Known /\ 0 \in Nat
  BY Numbers, Numbered
<1>4. CASE thread' = [thread EXCEPT ![t] = VR!Thread("notActive", 0, VR!NoEvent, 0)]
  <2>1. ThreadType'
    BY <1>0, <1>3, <1>4, PlaceNames, NoEventTyped, ThreadTypedTo
  <2> QED BY <1>0, <1>1, <2>1, SameTypes, TypeNext
<1>5. CASE thread' = [thread EXCEPT ![t] = VR!Thread("denied", 0, VR!NoEvent, 0)]
  <2>1. ThreadType'
    BY <1>0, <1>3, <1>5, PlaceNames, NoEventTyped, ThreadTypedTo
  <2> QED BY <1>0, <1>1, <2>1, SameTypes, TypeNext
<1>6. CASE thread' = [thread EXCEPT ![t] = VR!Thread("finish", txn.generation, "stopped", 0)]
  <2> DEFINE g == txn.generation
             e == "stopped"
  <2>1. /\ g \in VR!Known /\ e \in VR!Terminal \union {VR!NoEvent}
        /\ thread' = [thread EXCEPT ![t] = VR!Thread("finish", g, e, 0)]
    BY <1>3, <1>6, EventsTyped
  <2> HIDE DEF g, e
  <2>2. ThreadType'
    BY <1>0, <1>3, <2>1, PlaceNames, ThreadTypedTo
  <2> QED BY <1>0, <1>1, <2>2, SameTypes, TypeNext
<1> QED BY <1>2, <1>4, <1>5, <1>6

LEMMA LifecycleTypes ==
  ASSUME VR!VRAssumption, VRInv, NEW l \in Lifecycles, VR!Lifecycle(l)
  PROVE  VR!TypeOK'
<1> DEFINE t == VR!Caller(l)
<1>0. VR!TypeOK /\ t \in VR!Threads
  BY Parts, Names
<1>1. UNCHANGED <<ready, hooked, events, pendingEvent, published, recovery, game, previous, frames, tasks,
                  running, silent, fails>>
  BY DEF VR!Lifecycle, VR!gateVars, VR!eventVars, VR!gameVars, VR!mainVars
<1>2. CASE VR!Goes(t, VR!Released(l)) /\ UNCHANGED <<txn, current>>
  <2>1. VR!Released(l) \in VR!Places
    BY PlaceNames DEF VR!Released
  <2> HIDE DEF t
  <2>2. ThreadType'
    BY <1>0, <1>2, <2>1, ThreadTyped DEF VR!Goes
  <2> QED BY <1>0, <1>1, <1>2, <2>2, SameTypes, TypeNext
<1>3. CASE /\ txn' = VR!Cancelled /\ current' = None
           /\ thread' = [thread EXCEPT ![t] = VR!Thread("detach", txn.generation, VR!NoEvent, 0)]
  <2>1. TxnType' /\ CurrentType'
    BY <1>0, <1>3 DEF VR!TypeOK, TxnType, CurrentType, VR!Cancelled
  <2> DEFINE g == txn.generation
  <2>2. g \in VR!Known /\ thread' = [thread EXCEPT ![t] = VR!Thread("detach", g, VR!NoEvent, 0)]
    BY <1>3, Numbered
  <2> HIDE DEF g, t
  <2>3. ThreadType'
    BY <1>0, <2>2, PlaceNames, NoEventTyped, ThreadTypedTo
  <2> QED BY <1>0, <1>1, <2>1, <2>3, SameTypes, TypeNext
<1> QED BY <1>2, <1>3 DEF VR!Lifecycle

LEMMA DetachTypes ==
  ASSUME VR!VRAssumption, VRInv, NEW l \in Lifecycles, VR!Detach(l)
  PROVE  VR!TypeOK'
<1> DEFINE t == VR!Caller(l)
           c == VR!Cleanup(l)
           g == thread[t].gen
<1>0. VR!TypeOK /\ ThreadInv /\ t \in VR!Threads /\ c \in VR!Threads /\ t # c
  BY Parts, Names, OwnNames
<1>1. /\ UNCHANGED <<ready, hooked, events, txn, current, pendingEvent, published, recovery, game, previous,
                     frames, tasks, running>>
      /\ thread[t].pc = "detach"
  BY DEF VR!Detach, VR!At, VR!gateVars, VR!eventVars, VR!gameVars, VR!mainVars
<1>2. g \in VR!Known /\ g \in VR!Generations
  <2>1. g # 0
    BY <1>0, <1>1 DEF ThreadInv, Of, Acting
  <2> QED BY <1>0, <2>1, Numbered, Numbers
<1>3. CASE /\ thread' = [thread EXCEPT ![t].pc = VR!Released(l), ![c] = VR!Thread("finish", g, "stopped", 0)]
           /\ UNCHANGED <<silent, fails>>
  <2> DEFINE r == VR!Thread("finish", g, "stopped", 0)
             p == VR!Released(l)
  <2>1. p \in VR!Places
    BY PlaceNames DEF VR!Released
  <2>2. r \in [pc : VR!Places, gen : VR!Known, event : VR!Terminal \union {VR!NoEvent}, count : Nat]
    BY <1>2, PlaceNames, EventsTyped DEF VR!Thread
  <2>3. thread' = [thread EXCEPT ![t].pc = p, ![c] = r]
    BY <1>3
  <2> HIDE DEF t, c, g, r, p
  <2>4. ThreadType'
    BY <1>0, <2>1, <2>2, <2>3 DEF VR!TypeOK, ThreadType
  <2> QED BY <1>0, <1>1, <1>3, <2>4, SameTypes, TypeNext
<1>4. CASE VR!NoThread /\ VR!Goes(t, "schedule") /\ silent' = silent \union {g}
  <2>1. SilentType'
    BY <1>0, <1>2, <1>4 DEF SilentType, VR!TypeOK
  <2> HIDE DEF t
  <2>2. ThreadType'
    BY <1>0, <1>4, ThreadTyped, PlaceNames DEF VR!Goes
  <2> QED BY <1>0, <1>1, <1>4, <2>1, <2>2, SameTypes, TypeNext DEF VR!NoThread
<1> QED BY <1>3, <1>4 DEF VR!Detach

LEMMA UnreadyTypes ==
  ASSUME VR!VRAssumption, VRInv, NEW l \in Lifecycles, VR!Unready(l)
  PROVE  VR!TypeOK'
<1> DEFINE t == VR!Caller(l)
<1>0. VR!TypeOK /\ t \in VR!Threads
  BY Parts, Names
<1>1. /\ UNCHANGED <<hooked, txn, current, pendingEvent, published, recovery, game, previous, frames, tasks,
                     running, silent, fails>>
      /\ ready' = FALSE /\ events' = (events /\ Reason[l] # "shutdown") /\ VR!Goes(t, "done")
  BY DEF VR!Unready, VR!eventVars, VR!gameVars, VR!mainVars
<1>2. GateType'
  BY <1>0, <1>1 DEF VR!TypeOK, GateType
<1> HIDE DEF t
<1>3. ThreadType'
  BY <1>0, <1>1, ThreadTyped, PlaceNames DEF VR!Goes
<1> QED BY <1>0, <1>1, <1>2, <1>3, SameTypes, TypeNext

LEMMA FinishTypes ==
  ASSUME VR!VRAssumption, VRInv, NEW t \in VR!Threads, VR!Finish(t)
  PROVE  VR!TypeOK'
<1> DEFINE g == thread[t].gen
<1>0. VR!TypeOK /\ ThreadInv
  BY Parts
<1>1. /\ UNCHANGED <<ready, hooked, events, recovery, game, previous, frames, tasks, running, silent, fails>>
      /\ thread[t].pc = "finish"
  BY DEF VR!Finish, VR!At, VR!gateVars, VR!gameVars, VR!mainVars
<1>2. g \in VR!Generations
  <2>1. g # 0
    BY <1>0, <1>1 DEF ThreadInv, Of, Acting
  <2> QED BY <2>1, Numbered, Numbers
<1>3. thread[t].event \in VR!Terminal \union {VR!NoEvent}
  BY <1>0 DEF VR!TypeOK
<1>4. TxnType'
  <2>1. txn' = VR!Claimed(g)
    BY DEF VR!Finish
  <2>2. VR!Action(g) = "none" \/ VR!Action(g) = "publish" \/ VR!Action(g) = "restore"
    BY DEF VR!Action
  <2>3. CASE VR!Action(g) = "none"
    BY <1>0, <2>1, <2>3 DEF VR!Claimed, VR!TypeOK, TxnType
  <2>4. CASE VR!Action(g) = "publish"
    <3>1. txn' = [txn EXCEPT !.claimed = TRUE, !.starting = FALSE, !.active = FALSE, !.restoring = FALSE]
      BY <2>1, <2>4 DEF VR!Claimed
    <3> QED BY <1>0, <3>1 DEF VR!TypeOK, TxnType
  <2>5. CASE VR!Action(g) = "restore"
    <3>1. txn' = [txn EXCEPT !.claimed = TRUE, !.starting = FALSE, !.active = FALSE, !.restoring = TRUE,
                             !.attempt = TRUE]
      BY <2>1, <2>5 DEF VR!Claimed
    <3> QED BY <1>0, <3>1 DEF VR!TypeOK, TxnType
  <2> QED BY <2>2, <2>3, <2>4, <2>5
<1>5. CurrentType'
  <2>1. current' = None \/ current' = current
    BY DEF VR!Finish
  <2> QED BY <1>0, <2>1 DEF VR!TypeOK, CurrentType
<1>6. PendingType' /\ PublishedType'
  <2>1. CASE VR!Action(g) = "publish"
    <3>1. pendingEvent' = VR!NoEvent /\ VR!Publish(thread[t].event, g)
      BY <2>1 DEF VR!Finish
    <3>2. PublishedType'
      <4> DEFINE e == thread[t].event
      <4>1. e \in VR!Terminal \union {"started", VR!NoEvent} /\ VR!Publish(e, g)
        BY <1>3, <3>1
      <4> HIDE DEF e, g
      <4> QED BY <1>0, <1>2, <4>1, PublishTyped
    <3> QED BY <3>1, <3>2 DEF PendingType
  <2>2. CASE VR!Action(g) # "publish"
    <3>1. (pendingEvent' = thread[t].event \/ pendingEvent' = pendingEvent) /\ published' = published
      BY <2>2 DEF VR!Finish
    <3> QED BY <1>0, <1>3, <3>1 DEF VR!TypeOK, PendingType, PublishedType
  <2> QED BY <2>1, <2>2
<1>7. ThreadType'
  <2>1. CASE VR!Action(g) = "restore"
    <3>1. thread' = [thread EXCEPT ![t].pc = "restore", ![t].count = 1]
      BY <2>1 DEF VR!Finish
    <3> QED BY <1>0, <3>1, ThreadTyped, PlaceNames
  <2>2. CASE VR!Action(g) # "restore"
    <3>1. \E ok \in BOOLEAN : thread' = [thread EXCEPT ![t].pc = VR!Returned(t, ok)]
      BY <2>2 DEF VR!Finish
    <3> QED BY <1>0, <3>1, ThreadTyped, ReturnedTyped
  <2> QED BY <2>1, <2>2
<1> QED BY <1>0, <1>1, <1>4, <1>5, <1>6, <1>7, SameTypes, TypeNext

LEMMA RetriedTyped ==
  ASSUME VR!TypeOK, NEW t \in VR!Threads, thread' = VR!Retried(t)
  PROVE  ThreadType'
<1> DEFINE c == thread[t].count + 1
<1>0. c \in Nat /\ 0 \in Nat
  BY DEF VR!TypeOK
<1>1. CASE thread[t].count < Attempts
  <2>1. thread' = [thread EXCEPT ![t].pc = "restore", ![t].count = c]
    BY <1>1 DEF VR!Retried, VR!TypeOK
  <2> HIDE DEF c
  <2> QED BY <1>0, <2>1, ThreadTyped, PlaceNames
<1>2. CASE ~(thread[t].count < Attempts)
  <2>1. thread' = [thread EXCEPT ![t].pc = "giveUp", ![t].count = 0]
    BY <1>2 DEF VR!Retried
  <2> QED BY <1>0, <2>1, ThreadTyped, PlaceNames
<1> QED BY <1>1, <1>2

LEMMA RestoreTypes ==
  ASSUME VR!VRAssumption, VRInv, NEW t \in VR!Threads, VR!Restore(t)
  PROVE  VR!TypeOK'
<1>0. VR!TypeOK /\ ThreadInv
  BY Parts
<1>1. /\ UNCHANGED <<ready, hooked, events, txn, current, pendingEvent, published, recovery, game, previous, frames,
                     running, silent>>
      /\ thread[t].pc = "restore"
  BY DEF VR!Restore, VR!At, VR!gateVars, VR!eventVars, VR!gameVars
<1>2. CASE VR!Queue(t, "restore") /\ VR!Goes(t, "restoring") /\ UNCHANGED fails
  <2>1. ThreadType'
    BY <1>0, <1>2, ThreadTyped, PlaceNames DEF VR!Goes
  <2>2. thread[t].pc \notin Waiting /\ thread[t].gen # 0
    BY <1>0, <1>1 DEF Waiting, ThreadInv, Of, Acting
  <2>3. TasksType'
    BY <1>2, <2>2, QueueTyped
  <2> QED BY <1>0, <1>1, <1>2, <2>1, <2>3, SameTypes, TypeNext
<1>3. CASE VR!Fail /\ thread' = VR!Retried(t) /\ UNCHANGED tasks
  <2>1. ThreadType'
    BY <1>0, <1>3, RetriedTyped
  <2> QED BY <1>0, <1>1, <1>3, <2>1, SameTypes, TypeNext
<1> QED BY <1>2, <1>3 DEF VR!Restore

LEMMA TimesOutTypes ==
  ASSUME VR!VRAssumption, VRInv, NEW t \in VR!Threads, VR!TimesOut(t)
  PROVE  VR!TypeOK'
<1>0. VR!TypeOK
  BY Parts
<1>1. /\ UNCHANGED <<ready, hooked, events, txn, current, pendingEvent, published, recovery, game, previous, frames,
                     silent>>
      /\ VR!Fail
  BY DEF VR!TimesOut, VR!gateVars, VR!eventVars, VR!gameVars
<1>2. ThreadType'
  <2>1. thread \in [VR!Threads -> [pc : VR!Places, gen : VR!Known, event : VR!Terminal \union {VR!NoEvent}, count : Nat]]
    BY <1>0 DEF VR!TypeOK
  <2> DEFINE r == IF thread[t].pc = "applying" THEN VR!Thread("finish", thread[t].gen, "aborted", 0)
                  ELSE VR!Thread("giveUp", thread[t].gen, thread[t].event, 0)
  <2>2. r \in [pc : VR!Places, gen : VR!Known, event : VR!Terminal \union {VR!NoEvent}, count : Nat]
    BY <2>1, PlaceNames, EventsTyped DEF VR!Thread
  <2>3. thread' = [thread EXCEPT ![t] = r]
    BY <2>1 DEF VR!TimesOut
  <2> HIDE DEF r
  <2> QED BY <2>1, <2>2, <2>3 DEF ThreadType
<1>3. RunningType' /\ TasksType'
  <2>1. CASE running # None /\ running.thread = t
    <3>1. running' = [running EXCEPT !.thread = None] /\ UNCHANGED tasks /\ running \in VR!Tasks
      BY <1>0, <2>1 DEF VR!TimesOut, VR!TypeOK
    <3>2. RunningType'
      BY <3>1 DEF RunningType, VR!Tasks
    <3> QED BY <1>0, <3>1, <3>2, SameTypes
  <2>2. CASE ~(running # None /\ running.thread = t)
    <3>1. UNCHANGED running /\ \E i \in DOMAIN tasks : tasks' = RemoveAt(tasks, i)
      BY <2>2, SameOperators DEF VR!TimesOut
    <3> QED BY <1>0, <3>1, RemoveTyped, SameTypes
  <2> QED BY <2>1, <2>2
<1> QED BY <1>0, <1>1, <1>2, <1>3, SameTypes, TypeNext

LEMMA GivesUpTypes ==
  ASSUME VR!VRAssumption, VRInv, NEW t \in VR!Threads, VR!GivesUp(t)
  PROVE  VR!TypeOK'
<1>0. VR!TypeOK
  BY Parts
<1>1. /\ UNCHANGED <<ready, hooked, events, current, pendingEvent, published, recovery, game, previous, frames,
                     tasks, running, silent, fails>>
      /\ VR!Goes(t, VR!Returned(t, FALSE))
  BY DEF VR!GivesUp, VR!gateVars, VR!eventVars, VR!gameVars, VR!mainVars
<1>2. TxnType'
  BY <1>0 DEF VR!GivesUp, VR!TypeOK, TxnType
<1>3. ThreadType'
  BY <1>0, <1>1, ThreadTyped, ReturnedTyped DEF VR!Goes
<1> QED BY <1>0, <1>1, <1>2, <1>3, SameTypes, TypeNext

LEMMA WaitsTypes ==
  ASSUME VR!VRAssumption, VRInv, NEW s \in Stops, VR!Waits(s)
  PROVE  VR!TypeOK'
<1> DEFINE t == VR!Stop(s)
<1>0. VR!TypeOK /\ t \in VR!Threads
  BY Parts, Names
<1>1. /\ UNCHANGED <<ready, hooked, events, txn, current, pendingEvent, published, recovery, game, previous, frames,
                     tasks, running, silent>>
      /\ UNCHANGED fails \/ VR!Fail
      /\ \E p \in {"stopped", "pending"} : VR!Goes(t, p)
  BY DEF VR!Waits, VR!gateVars, VR!eventVars, VR!gameVars, VR!mainVars
<1> HIDE DEF t
<1>2. ThreadType'
  BY <1>0, <1>1, ThreadTyped, PlaceNames DEF VR!Goes
<1> QED BY <1>0, <1>1, <1>2, SameTypes, TypeNext

LEMMA MainStartsTypes ==
  ASSUME VR!VRAssumption, VRInv, VR!MainStarts
  PROVE  VR!TypeOK'
<1>0. VR!TypeOK
  BY Parts
<1>1. /\ UNCHANGED <<ready, hooked, events, txn, current, pendingEvent, published, recovery, game, previous, thread,
                     frames, silent, fails>>
      /\ tasks # <<>> /\ running' = Head(tasks) /\ tasks' = Tail(tasks)
  BY DEF VR!MainStarts, VR!gateVars, VR!eventVars, VR!gameVars
<1>2. tasks \in Seq(VR!Tasks) /\ \A j, k \in DOMAIN tasks : j # k => tasks[j].thread # tasks[k].thread
  BY <1>0 DEF VR!TypeOK
<1>3. running' \in VR!Tasks /\ tasks' \in Seq(VR!Tasks)
  BY <1>1, <1>2
<1>4. \A i \in DOMAIN tasks' : i + 1 \in DOMAIN tasks /\ tasks'[i] = tasks[i + 1] /\ i \in Nat
  BY <1>1, <1>2
<1>5. \A i, j \in DOMAIN tasks' : i # j => tasks'[i].thread # tasks'[j].thread
  BY <1>2, <1>4
<1>6. RunningType' /\ TasksType'
  BY <1>3, <1>5 DEF RunningType, TasksType
<1> QED BY <1>0, <1>1, <1>6, SameTypes, TypeNext

LEMMA MainAppliesTypes ==
  ASSUME VR!VRAssumption, VRInv, VR!MainApplies
  PROVE  VR!TypeOK'
<1> DEFINE t == running.thread
           s == txn.token
           f == frames[s]
           aborts == [thread EXCEPT ![t] = VR!Thread("finish", @.gen, "aborted", 0)]
           commits == [thread EXCEPT ![t].pc = "commit"]
<1>0. VR!TypeOK /\ StartInv /\ TransactionInv /\ GameInv
  BY Parts
<1>1. /\ UNCHANGED <<ready, hooked, events, current, pendingEvent, published, recovery, frames, tasks, silent>>
      /\ UNCHANGED fails \/ VR!Fail
      /\ running # None /\ running' = None
  BY DEF VR!MainApplies, VR!gateVars, VR!eventVars, VR!gameVars
<1>2. \/ VR!Answer(aborts) /\ UNCHANGED <<txn, VR!gameVars>>
      \/ /\ VR!CanApply(running.gen) /\ VR!Answer(commits) /\ previous' = game
         /\ game' = [left |-> f[1].left, right |-> f[1].right]
         /\ txn' = [txn EXCEPT !.applied = TRUE]
  BY DEF VR!MainApplies
<1>3. RunningType'
  BY <1>1 DEF RunningType
<1>4. VR!Answer(aborts) => ThreadType'
  <2>1. SUFFICES ASSUME VR!Answer(aborts) PROVE ThreadType'
    OBVIOUS
  <2>2. thread' = thread \/ (t \in VR!Threads /\ thread' = aborts)
    BY <1>1, <2>1, Answers
  <2>3. CASE t \in VR!Threads /\ thread' = aborts
    <3> DEFINE g == thread[t].gen
               e == "aborted"
               p == "finish"
    <3>1. thread' = [thread EXCEPT ![t] = VR!Thread(p, g, e, 0)]
      BY <2>3
    <3>2. t \in VR!Threads /\ g \in VR!Known /\ p \in VR!Places /\ e \in VR!Terminal \union {VR!NoEvent} /\ 0 \in Nat
      BY <2>3, Numbered, PlaceNames, EventsTyped
    <3> HIDE DEF t, g, e, p, aborts
    <3> QED BY <1>0, <3>1, <3>2, ThreadTypedTo
  <2> QED BY <1>0, <2>2, <2>3, SameTypes
<1>5. VR!Answer(commits) => ThreadType'
  <2>1. SUFFICES ASSUME VR!Answer(commits) PROVE ThreadType'
    OBVIOUS
  <2>2. thread' = thread \/ (t \in VR!Threads /\ thread' = commits)
    BY <1>1, <2>1, Answers
  <2> HIDE DEF t
  <2> QED BY <1>0, <2>2, SameTypes, ThreadTyped, PlaceNames
<1>6. CASE VR!Answer(aborts) /\ UNCHANGED <<txn, VR!gameVars>>
  <2>1. UNCHANGED <<txn, game, previous>>
    BY <1>6 DEF VR!gameVars
  <2> QED BY <1>0, <1>1, <1>3, <1>4, <1>6, <2>1, SameTypes, TypeNext
<1>7. CASE /\ VR!CanApply(running.gen) /\ VR!Answer(commits) /\ previous' = game
           /\ game' = [left |-> f[1].left, right |-> f[1].right]
           /\ txn' = [txn EXCEPT !.applied = TRUE]
  <2>1. TxnType'
    BY <1>0, <1>7 DEF VR!TypeOK, TxnType
  <2>2. s \in Entered
    BY <1>0, <1>7 DEF VR!CanApply, StartInv, TransactionInv
  <2>3. s \in Starts /\ VR!Valid(f)
    BY <1>0, <2>2 DEF Entered, Outside, StartInv, VR!At
  <2>4. f \in Submitted
    BY <1>0, <2>3 DEF VR!TypeOK, VR!Valid
  <2>5. f[1] \in VR!Frame /\ f[1].left # f[1].right
    BY <2>3, <2>4, Pairs
  <2>6. GameType'
    BY <1>0, <1>7, <2>5 DEF GameType, VR!TypeOK, VR!Controllers, VR!Frame
  <2> QED BY <1>0, <1>1, <1>3, <1>5, <1>7, <2>1, <2>6, SameTypes, TypeNext
<1> QED BY <1>2, <1>6, <1>7

LEMMA MainRestoresTypes ==
  ASSUME VR!VRAssumption, VRInv, VR!MainRestores
  PROVE  VR!TypeOK'
<1> DEFINE t == running.thread
           returns == [thread EXCEPT ![t].pc = VR!Returned(t, TRUE)]
<1>0. VR!TypeOK /\ GameInv /\ TransactionInv /\ RestoreInv
  BY Parts
<1>1. /\ UNCHANGED <<ready, hooked, events, current, recovery, frames, tasks, silent>>
      /\ UNCHANGED fails \/ VR!Fail
      /\ running # None /\ running.kind = "restore" /\ running' = None
  BY DEF VR!MainRestores, VR!gateVars, VR!eventVars, VR!gameVars
<1>2. \/ (VR!Answer(VR!Retried(t)) \/ VR!Answer(returns)) /\ UNCHANGED <<txn, VR!gameVars, VR!eventVars>>
      \/ /\ txn.restoring /\ txn.generation = running.gen /\ VR!Answer(returns)
         /\ game' = previous /\ UNCHANGED previous
         /\ txn' = [txn EXCEPT !.applied = FALSE, !.restoring = FALSE, !.attempt = FALSE]
         /\ VR!Publish(pendingEvent, running.gen) /\ pendingEvent' = VR!NoEvent
  BY DEF VR!MainRestores
<1>3. RunningType'
  BY <1>1 DEF RunningType
<1>4. VR!Answer(VR!Retried(t)) => ThreadType'
  <2>1. SUFFICES ASSUME VR!Answer(VR!Retried(t)) PROVE ThreadType'
    OBVIOUS
  <2>2. thread' = thread \/ (t \in VR!Threads /\ thread' = VR!Retried(t))
    BY <1>1, <2>1, Answers
  <2> HIDE DEF t
  <2> QED BY <1>0, <2>2, SameTypes, RetriedTyped
<1>5. VR!Answer(returns) => ThreadType'
  <2>1. SUFFICES ASSUME VR!Answer(returns) PROVE ThreadType'
    OBVIOUS
  <2>2. thread' = thread \/ (t \in VR!Threads /\ thread' = returns)
    BY <1>1, <2>1, Answers
  <2>3. t \in VR!Threads => VR!Returned(t, TRUE) \in VR!Places
    BY ReturnedTyped
  <2> HIDE DEF t
  <2> QED BY <1>0, <2>2, <2>3, SameTypes, ThreadTyped
<1>6. CASE (VR!Answer(VR!Retried(t)) \/ VR!Answer(returns)) /\ UNCHANGED <<txn, VR!gameVars, VR!eventVars>>
  <2>1. UNCHANGED <<txn, game, previous, pendingEvent, published>> /\ ThreadType'
    BY <1>4, <1>5, <1>6 DEF VR!gameVars, VR!eventVars
  <2> QED BY <1>0, <1>1, <1>3, <2>1, SameTypes, TypeNext
<1>7. CASE /\ txn.restoring /\ txn.generation = running.gen /\ VR!Answer(returns)
           /\ game' = previous /\ UNCHANGED previous
           /\ txn' = [txn EXCEPT !.applied = FALSE, !.restoring = FALSE, !.attempt = FALSE]
           /\ VR!Publish(pendingEvent, running.gen) /\ pendingEvent' = VR!NoEvent
  <2>1. TxnType'
    BY <1>0, <1>7 DEF VR!TypeOK, TxnType
  <2>2. previous = Own
    BY <1>0, <1>1, <1>7 DEF RestoreInv, TransactionInv, GameInv
  <2>3. GameType'
    BY <1>0, <1>7, <2>2 DEF GameType, VR!TypeOK, VR!VRAssumption
  <2>4. PublishedType' /\ PendingType'
    <3> DEFINE e == pendingEvent
               g == running.gen
    <3>1. e \in VR!Terminal \union {"started", VR!NoEvent} /\ g \in VR!Generations /\ VR!Publish(e, g)
      BY <1>0, <1>1, <1>7, Numbered DEF VR!TypeOK
    <3> HIDE DEF e, g
    <3>2. PublishedType'
      BY <1>0, <3>1, PublishTyped
    <3> QED BY <1>7, <3>2 DEF PendingType
  <2> QED BY <1>0, <1>1, <1>3, <1>5, <1>7, <2>1, <2>3, <2>4, SameTypes, TypeNext
<1> QED BY <1>2, <1>6, <1>7

LEMMA ScheduleTypes ==
  ASSUME VR!VRAssumption, VRInv, NEW t \in VR!Threads, VR!Schedule(t)
  PROVE  VR!TypeOK'
<1>0. VR!TypeOK
  BY Parts
<1>1. UNCHANGED <<ready, hooked, events, txn, current, pendingEvent, published, game, previous, frames, tasks,
                  running, silent, fails>>
  BY DEF VR!Schedule, VR!gateVars, VR!eventVars, VR!gameVars, VR!mainVars
<1>2. \E p \in VR!Places : VR!Goes(t, p)
  BY ReturnedTyped, PlaceNames DEF VR!Schedule
<1>3. RecoveryType'
  <2>1. recovery' = recovery \/ recovery' = thread[t].gen
    BY DEF VR!Schedule
  <2> QED BY <1>0, <2>1, Numbered DEF RecoveryType, VR!TypeOK
<1>4. ThreadType'
  BY <1>0, <1>2, ThreadTyped DEF VR!Goes
<1> QED BY <1>0, <1>1, <1>3, <1>4, SameTypes, TypeNext

LEMMA ClearedTyped ==
  ASSUME VR!VRAssumption, VR!TypeOK, NEW g, recovery' = VR!Cleared(g)
  PROVE  RecoveryType'
BY Numbers DEF VR!Cleared, RecoveryType, VR!TypeOK

LEMMA SpawnRecoveryTypes ==
  ASSUME VR!VRAssumption, VRInv, NEW t \in VR!Threads, VR!SpawnRecovery(t)
  PROVE  VR!TypeOK'
<1> DEFINE g == thread[t].gen
           r == VR!Recovery(g)
           p == VR!Scheduled(t)
<1>0. VR!TypeOK /\ ThreadInv /\ RecoveryInv
  BY Parts
<1>1. /\ UNCHANGED <<ready, hooked, events, txn, current, pendingEvent, published, game, previous, frames, tasks,
                     running, silent>>
      /\ thread[t].pc = "spawnRecovery"
  BY DEF VR!SpawnRecovery, VR!At, VR!gateVars, VR!eventVars, VR!gameVars, VR!mainVars
<1>2. p \in VR!Places
  BY ReturnedTyped
<1>3. g \in VR!Generations /\ g \in VR!Known
  <2>1. g # 0
    BY <1>0, <1>1 DEF ThreadInv, Of, Acting
  <2> QED BY <2>1, Numbered, Numbers
<1>4. r \in VR!Threads /\ r # t
  BY <1>0, <1>1, <1>3, Names DEF RecoveryInv, VR!At, Of
<1>5. CASE /\ thread' = [thread EXCEPT ![t].pc = p, ![r] = VR!Thread("sleep", g, VR!NoEvent, 0)]
           /\ UNCHANGED <<recovery, fails>>
  <2> DEFINE x == VR!Thread("sleep", g, VR!NoEvent, 0)
  <2>1. x \in [pc : VR!Places, gen : VR!Known, event : VR!Terminal \union {VR!NoEvent}, count : Nat]
    BY <1>3, PlaceNames, NoEventTyped DEF VR!Thread
  <2>2. thread' = [thread EXCEPT ![t].pc = p, ![r] = x]
    BY <1>5
  <2> HIDE DEF x, r, g, p
  <2>3. ThreadType'
    BY <1>0, <1>2, <1>4, <2>1, <2>2 DEF VR!TypeOK, ThreadType
  <2> QED BY <1>0, <1>1, <1>5, <2>3, SameTypes, TypeNext
<1>6. CASE VR!NoThread /\ VR!Goes(t, p) /\ recovery' = VR!Cleared(g)
  <2> HIDE DEF g, p
  <2>1. ThreadType' /\ RecoveryType'
    BY <1>0, <1>2, <1>6, ThreadTyped, ClearedTyped DEF VR!Goes
  <2> QED BY <1>0, <1>1, <1>6, <2>1, SameTypes, TypeNext DEF VR!NoThread
<1> QED BY <1>5, <1>6 DEF VR!SpawnRecovery

LEMMA WakesTypes ==
  ASSUME VR!VRAssumption, VRInv, NEW g \in VR!Generations, VR!Wakes(g) \/ VR!Recovers(g)
  PROVE  VR!TypeOK'
<1> DEFINE t == VR!Recovery(g)
<1>0. VR!TypeOK /\ t \in VR!Threads
  BY Parts, Names
<1>1. UNCHANGED <<ready, hooked, events, txn, current, pendingEvent, published, game, previous, frames, tasks,
                  running, silent, fails>>
  BY DEF VR!Wakes, VR!Recovers, VR!gateVars, VR!eventVars, VR!gameVars, VR!mainVars
<1>2. /\ \E p \in {"done", "finish"} : VR!Goes(t, p)
      /\ UNCHANGED recovery \/ recovery' = VR!Cleared(g)
  BY DEF VR!Wakes, VR!Recovers
<1> HIDE DEF t
<1>3. ThreadType' /\ RecoveryType'
  BY <1>0, <1>2, ThreadTyped, PlaceNames, ClearedTyped, SameTypes DEF VR!Goes
<1> QED BY <1>0, <1>1, <1>3, SameTypes, TypeNext

-----------------------------------------------------------------------------
(* The theorems.                                                           *)
LEMMA ProceedsKeeps ==
  ASSUME VR!VRAssumption, VRInv, NEW t \in VR!Threads, VR!Proceeds(t)
  PROVE  VRInv'
<1>1. CASE VR!Finish(t)
  BY <1>1, FinishKeeps, FinishTypes DEF VRInv
<1>2. CASE VR!Restore(t)
  BY <1>2, RestoreKeeps, RestoreTypes DEF VRInv
<1>3. CASE VR!GivesUp(t)
  BY <1>3, GivesUpKeeps, GivesUpTypes DEF VRInv
<1>4. CASE VR!Schedule(t)
  BY <1>4, ScheduleKeeps, ScheduleTypes DEF VRInv
<1>5. CASE VR!SpawnRecovery(t)
  BY <1>5, SpawnRecoveryKeeps, SpawnRecoveryTypes DEF VRInv
<1> QED BY <1>1, <1>2, <1>3, <1>4, <1>5 DEF VR!Proceeds

LEMMA NextKeeps ==
  ASSUME VR!VRAssumption, VRInv, VR!Next
  PROVE  VRInv'
<1>1. CASE VR!MakesReady
  BY <1>1, MakesReadyKeeps, MakesReadyTypes DEF VRInv
<1>2. ASSUME NEW s \in Starts, VR!Check(s) \/ VR!Begin(s) \/ VR!Apply(s) \/ VR!Commit(s) \/ VR!Spawn(s) \/ VR!Plays(s)
      PROVE  VRInv'
  <2>1. CASE VR!Check(s)
    BY <2>1, CheckKeeps, CheckTypes DEF VRInv
  <2>2. CASE VR!Begin(s)
    BY <2>2, BeginKeeps, BeginTypes DEF VRInv
  <2>3. CASE VR!Apply(s)
    BY <2>3, ApplyKeeps, ApplyTypes DEF VRInv
  <2>4. CASE VR!Commit(s)
    BY <2>4, CommitKeeps, CommitTypes DEF VRInv
  <2>5. CASE VR!Spawn(s)
    BY <2>5, SpawnKeeps, SpawnTypes DEF VRInv
  <2>6. CASE VR!Plays(s)
    BY <2>6, PlaysKeeps, PlaysTypes DEF VRInv
  <2> QED BY <1>2, <2>1, <2>2, <2>3, <2>4, <2>5, <2>6
<1>3. ASSUME NEW s \in Stops, VR!Release(s) \/ VR!Waits(s) PROVE VRInv'
  <2>1. CASE VR!Release(s)
    BY <2>1, ReleaseKeeps, ReleaseTypes DEF VRInv
  <2>2. CASE VR!Waits(s)
    BY <2>2, WaitsKeeps, WaitsTypes DEF VRInv
  <2> QED BY <1>3, <2>1, <2>2
<1>4. ASSUME NEW l \in Lifecycles, VR!Lifecycle(l) \/ VR!Detach(l) \/ VR!Unready(l) PROVE VRInv'
  <2>1. CASE VR!Lifecycle(l)
    BY <2>1, LifecycleKeeps, LifecycleTypes DEF VRInv
  <2>2. CASE VR!Detach(l)
    BY <2>2, DetachKeeps, DetachTypes DEF VRInv
  <2>3. CASE VR!Unready(l)
    BY <2>3, UnreadyKeeps, UnreadyTypes DEF VRInv
  <2> QED BY <1>4, <2>1, <2>2, <2>3
<1>5. ASSUME NEW t \in VR!Threads, VR!TimesOut(t) \/ VR!Proceeds(t) PROVE VRInv'
  <2>1. CASE VR!TimesOut(t)
    BY <2>1, TimesOutKeeps, TimesOutTypes DEF VRInv
  <2> QED BY <1>5, <2>1, ProceedsKeeps
<1>6. CASE VR!MainStarts
  BY <1>6, MainStartsKeeps, MainStartsTypes DEF VRInv
<1>7. CASE VR!MainApplies
  BY <1>7, MainAppliesKeeps, MainAppliesTypes DEF VRInv
<1>8. CASE VR!MainRestores
  BY <1>8, MainRestoresKeeps, MainRestoresTypes DEF VRInv
<1>9. ASSUME NEW g \in VR!Generations, VR!Wakes(g) \/ VR!Recovers(g) PROVE VRInv'
  <2>1. CASE VR!Wakes(g)
    BY <2>1, WakesKeeps, WakesTypes DEF VRInv
  <2>2. CASE VR!Recovers(g)
    BY <2>2, RecoversKeeps, WakesTypes DEF VRInv
  <2> QED BY <1>9, <2>1, <2>2
<1> QED BY <1>1, <1>2, <1>3, <1>4, <1>5, <1>6, <1>7, <1>8, <1>9 DEF VR!Next

LEMMA StutterKeeps ==
  ASSUME VRInv, UNCHANGED VR!vars
  PROVE  VRInv'
<1>1. UNCHANGED <<ready, hooked, events, txn, current, pendingEvent, published, recovery, game, previous, thread,
                  frames, tasks, running, silent, fails>>
  BY DEF VR!vars, VR!gateVars, VR!eventVars, VR!gameVars, VR!mainVars
<1>2. VR!TypeOK'
  BY <1>1, Parts DEF VR!TypeOK
<1>3. TransactionInv' /\ StartInv' /\ ThreadInv' /\ RecoveryInv'
  BY <1>1, Parts DEF TransactionInv, StartInv, ThreadInv, RecoveryInv, Entered, Of, VR!At, VR!Mine
<1>4. TaskInv' /\ ApplyInv' /\ RestoreInv'
  BY <1>1, Parts DEF TaskInv, ApplyInv, RestoreInv, WaitsFor, Of, VR!At, VR!Mine
<1>5. GameInv' /\ EventInv'
  BY <1>1, Parts DEF GameInv, EventInv, Ended
<1> QED BY <1>2, <1>3, <1>4, <1>5 DEF VRInv, TrackedCore

LEMMA InitHolds ==
  ASSUME VR!VRAssumption, VR!Init
  PROVE  VRInv
<1>0. \A t \in VR!Threads : thread[t] = VR!Thread("idle", 0, VR!NoEvent, 0)
  BY DEF VR!Init
<1>1. \A t \in VR!Threads : /\ thread[t].pc = "idle" /\ thread[t].gen = 0 /\ thread[t].event = VR!NoEvent
                         /\ thread[t].count = 0
  BY <1>0, ThreadFields
<1>2. /\ txn.generation = 0 /\ ~txn.starting /\ ~txn.active /\ ~txn.restoring /\ ~txn.claimed /\ ~txn.applied
      /\ game = Own /\ published = <<>> /\ tasks = <<>> /\ running = None
  BY DEF VR!Init
<1>3. GateType /\ CurrentType /\ PendingType /\ RecoveryType /\ SilentType /\ FailsType /\ RunningType
  <2>1. GateType
    BY DEF VR!Init, GateType
  <2>2. CurrentType /\ PendingType /\ SilentType /\ RunningType
    BY DEF VR!Init, CurrentType, PendingType, SilentType, RunningType
  <2>3. RecoveryType
    BY Numbers DEF VR!Init, RecoveryType
  <2>4. FailsType
    BY DEF VR!Init, FailsType, VR!VRAssumption
  <2> QED BY <2>1, <2>2, <2>3, <2>4
<1>4. TxnType
  BY Numbers DEF VR!Init, TxnType
<1>5. GameType
  BY DEF VR!Init, GameType, VR!VRAssumption
<1>6. ThreadType
  <2>1. "idle" \in VR!Places
    BY DEF VR!Places
  <2>2. VR!Thread("idle", 0, VR!NoEvent, 0) \in [pc : VR!Places, gen : VR!Known, event : VR!Terminal \union {VR!NoEvent}, count : Nat]
    BY <2>1, Numbers, NoEventTyped DEF VR!Thread
  <2> QED BY <2>2 DEF VR!Init, ThreadType
<1>7. FramesType /\ TasksType /\ PublishedType
  BY DEF VR!Init, FramesType, TasksType, PublishedType
<1>8. VR!TypeOK
  BY <1>3, <1>4, <1>5, <1>6, <1>7, TypeParts
<1>9. TransactionInv
  BY <1>2 DEF TransactionInv
<1>10. StartInv
  <2>1. Entered = {}
    BY <1>1, Names DEF Entered, Outside
  <2>2. Cardinality(Entered) = 0
    BY <2>1, FS_EmptySet
  <2> QED BY <1>1, <1>2, <2>1, <2>2, Names DEF StartInv, VR!At
<1>11. ThreadInv
  BY <1>1, <1>2, Names DEF ThreadInv, Of, VR!At, Acting
<1>12. RecoveryInv
  BY <1>1, Names DEF RecoveryInv, VR!At
<1>13. TaskInv /\ ApplyInv
  BY <1>1, <1>2 DEF TaskInv, ApplyInv, VR!At
<1>14. RestoreInv
  BY <1>1, <1>2, Names DEF RestoreInv, VR!At
<1>15. GameInv /\ EventInv
  <2>1. DOMAIN published = {}
    BY <1>2
  <2> QED BY <1>1, <1>2, <2>1 DEF GameInv, EventInv
<1> QED BY <1>8, <1>9, <1>10, <1>11, <1>12, <1>13, <1>14, <1>15 DEF VRInv, TrackedCore

\* The inductive invariant, for any starts, stops, lifecycle calls, frames and owners.
THEOREM VRInvariant ==
  ASSUME VR!VRAssumption PROVE VR!Spec => []VRInv
<1>1. VR!Init => VRInv
  BY InitHolds
<1>2. VRInv /\ [VR!Next]_VR!vars => VRInv'
  BY NextKeeps, StutterKeeps
<1> QED BY <1>1, <1>2, PTL DEF VR!Spec

\* Every reachable state is well typed: no thread waits for two tasks of the main thread,
\* and the controllers that the game or the sequence has never share an index.
THEOREM VRTypeCorrect ==
  ASSUME VR!VRAssumption PROVE VR!Spec => []VR!TypeOK
<1>1. VR!Spec => []VRInv
  BY VRInvariant
<1>2. VRInv => VR!TypeOK
  BY Parts
<1> QED BY <1>1, <1>2, PTL

\* VRInput.cpp 384-450: whoever ends a sequence, however late, and whatever fails on the
\* way, the game has its own indices when nothing is applied, and those that are kept for
\* it are its own and never those of another sequence.
THEOREM ControllersBack ==
  ASSUME VR!VRAssumption PROVE VR!Spec => []VR!GivesBack
<1>1. VR!Spec => []VRInv
  BY VRInvariant
<1>2. VRInv => VR!GivesBack
  BY Parts DEF VR!GivesBack, GameInv, TransactionInv
<1> QED BY <1>1, <1>2, PTL

\* The frame that is played is one of the sequence.
LEMMA Played ==
  ASSUME VR!VRAssumption, VRInv, VR!Current # None
  PROVE  /\ txn.active /\ VR!Current = current /\ VR!Current \in VR!Frame
         /\ VR!Current.left # VR!Current.right /\ game = Sides(VR!Current)
<1>0. VR!TypeOK /\ StartInv /\ TransactionInv /\ GameInv
  BY Parts
<1>1. txn.active /\ VR!Current = current
  BY DEF VR!Current
<1> DEFINE f == frames[txn.token]
<1>2. txn.token \in Entered
  BY <1>0, <1>1 DEF TransactionInv, StartInv
<1>3. txn.token \in Starts /\ VR!Valid(f)
  BY <1>0, <1>2 DEF Entered, Outside, StartInv, VR!At
<1>4. f \in Submitted
  BY <1>0, <1>3 DEF VR!TypeOK, VR!Valid
<1>5. PICK i \in DOMAIN f : current = f[i]
  BY <1>0, <1>1 DEF GameInv
<1>6. /\ f[i] \in VR!Frame /\ f[i].left = f[1].left /\ f[i].right = f[1].right /\ f[i].left # f[i].right
  BY <1>3, <1>4, Pairs
<1>7. game = Sides(f[1])
  BY <1>0, <1>1 DEF GameInv, TransactionInv
<1> QED BY <1>1, <1>5, <1>6, <1>7 DEF Sides

LEMMA HooksSay ==
  ASSUME VR!VRAssumption, VRInv
  PROVE  VR!HooksAgree
<1> SUFFICES ASSUME VR!Current # None
             PROVE  /\ game = Sides(VR!Current)
                    /\ \A r \in {"left", "right"} : VR!IndexRole(VR!RoleIndex(r)) = r /\ VR!Synthetic(game[r])
  BY DEF VR!HooksAgree, Sides
<1>1. /\ VR!Current \in VR!Frame /\ VR!Current.left # VR!Current.right /\ game = Sides(VR!Current)
  BY Played
<1>2. ASSUME NEW r \in {"left", "right"} PROVE VR!IndexRole(VR!RoleIndex(r)) = r /\ VR!Synthetic(game[r])
  <2>1. VR!RoleIndex(r) = VR!Current[r]
    BY DEF VR!RoleIndex
  <2>2. \A q \in {"left", "right"} : VR!Current[q] = VR!Current[r] => q = r
    BY <1>1
  <2>3. (CHOOSE q \in {"left", "right"} : VR!Current[q] = VR!Current[r]) = r
    BY <2>2
  <2>4. VR!IndexRole(VR!RoleIndex(r)) = r
    BY <2>1, <2>3 DEF VR!IndexRole
  <2>5. game[r] = VR!Current[r]
    BY <1>1 DEF Sides
  <2>6. VR!Synthetic(game[r])
    BY <2>5 DEF VR!Synthetic
  <2> QED BY <2>4, <2>6
<1> QED BY <1>1, <1>2

\* VRInput.cpp 762-905: while frames are played, the hooks, which read the frame, and the
\* game, whose controllers were changed on the main thread, tell the same.
THEOREM HooksTrue ==
  ASSUME VR!VRAssumption PROVE VR!Spec => []VR!HooksAgree
<1>1. VR!Spec => []VRInv
  BY VRInvariant
<1>2. VRInv => VR!HooksAgree
  BY HooksSay
<1> QED BY <1>1, <1>2, PTL

\* VRInput.cpp 556-607: however a stop, the lifecycle, a failed start, the playback and the
\* recoveries race to finish a sequence, its start is published before its end and its end
\* once, and it is published by the time that the next may begin.
THEOREM EndsAnnounced ==
  ASSUME VR!VRAssumption PROVE VR!Spec => []VR!Announced
<1>1. VR!Spec => []VRInv
  BY VRInvariant
<1>2. VRInv => VR!Announced
  <2> SUFFICES ASSUME VRInv PROVE VR!Announced
    OBVIOUS
  <2>1. TransactionInv /\ EventInv
    BY Parts
  <2>2. \A i, j \in DOMAIN published : i < j /\ published[i].gen = published[j].gen =>
          published[i].event = "started" /\ published[j].event \in VR!Terminal
    BY <2>1 DEF EventInv
  <2>3. ASSUME ~VR!Busy, events, txn.generation \notin silent, txn.generation # 0
        PROVE  \E e \in Range(published) : e.gen = txn.generation /\ e.event \in VR!Terminal
    <3>1. txn.claimed /\ ~txn.restoring
      BY <2>1, <2>3 DEF VR!Busy, TransactionInv
    <3> QED BY <2>1, <2>3, <3>1 DEF EventInv, Ended
  <2> QED BY <2>2, <2>3, SameOperators DEF VR!Announced
<1> QED BY <1>1, <1>2, PTL

\* VRInput.cpp 313-350: a stop is answered with "stopped" only when the game has its own
\* indices back, though another thread restored them or a newer sequence came between.
THEOREM StopsTrue ==
  ASSUME VR!VRAssumption PROVE VR!Spec => []VR!StoppedTrue
<1>1. VR!Spec => []VRInv
  BY VRInvariant
<1>2. VRInv => VR!StoppedTrue
  BY Parts DEF VR!StoppedTrue, RestoreInv, GameInv, TransactionInv, VR!Current
<1> QED BY <1>1, <1>2, PTL
=============================================================================
