---------------------------- MODULE TrackedReplay ----------------------------
(***************************************************************************)
(* How Skyrim VR's recorded poses and controller events become the frames  *)
(* of one tracked-set sequence: an event gets a frame of its own between   *)
(* the samples, moved by as little as it takes, and holds the pose before  *)
(* it.                                                                     *)
(***************************************************************************)
EXTENDS VRFrames, SequencesExt, FiniteSetsExt

CONSTANTS
    Recordings,  \* [samples, events]: see TypeOK
    MaxFrames,   \* kMaximumVRTrackedFrames
    MaxTime,     \* kMaximumVRTrackedDurationMs
    None

VARIABLES
    samples,   \* [at, left, right, exact]: the indices, and the pressed buttons or None
    events,    \* [at, wand, label, button, down], in order
    pc,        \* "define", "place", "done" or "refused"
    timeline,  \* timeline[t]: the sample that the frame at t is of
    placed,    \* replayTMs of the events so far
    state,     \* leftState and rightState
    frames     \* [at, seq, left, right, pressed]

vars == <<samples, events, pc, timeline, placed, state, frames>>

Roles == {"left", "right"}
Released == [r \in Roles |-> {}]

Init ==
    /\ \E recording \in Recordings : samples = recording.samples /\ events = recording.events
    /\ pc = "define" /\ timeline = <<>> /\ placed = <<>> /\ state = Released /\ frames = <<>>

Refuse == pc' = "refused" /\ UNCHANGED <<samples, events, timeline, placed, state, frames>>

\* The samples by their times, and a first frame at once.
Define ==
    /\ pc = "define"
    /\ LET times == {s.at : s \in Range(samples)}
           first == CHOOSE s \in Range(samples) : s.at = Min(times)
           at(t) == IF t \in times THEN CHOOSE s \in Range(samples) : s.at = t ELSE first
       IN IF \/ Cardinality(times) # Len(samples) \/ Max(times) > MaxTime
             \/ 0 \notin times /\ Len(samples) >= MaxFrames
          THEN Refuse
          ELSE /\ timeline' = [t \in times \union {0} |-> at(t)]
               /\ pc' = "place"
               /\ UNCHANGED <<samples, events, placed, state, frames>>

\* The first free time at or after the event's, and after the event's before.
TimeOf(e) ==
    LET from == IF placed = <<>> THEN e.at ELSE Max({e.at, Last(placed) + 1})
    IN Min({t \in from..from + Cardinality(DOMAIN timeline) : t \notin DOMAIN timeline})

\* The next event gets its frame, of the pose that comes before it.
Place ==
    /\ pc = "place" /\ Len(placed) < Len(events)
    /\ LET time == TimeOf(events[Len(placed) + 1])
           before == Max({t \in DOMAIN timeline : t <= time})
       IN IF Cardinality(DOMAIN timeline) >= MaxFrames \/ time > MaxTime THEN Refuse
          ELSE /\ timeline' = [t \in DOMAIN timeline \union {time} |->
                                IF t = time THEN timeline[before] ELSE timeline[t]]
               /\ placed' = Append(placed, time)
               /\ UNCHANGED <<samples, events, pc, state, frames>>

\* ControllerRole: by the wand's index, or by the label of right-handed play.
RoleOf(e, sample) ==
    IF e.wand # None /\ e.wand = sample.left THEN "left"
    ELSE IF e.wand # None /\ e.wand = sample.right THEN "right"
    ELSE IF e.label = "primary" THEN "right"
    ELSE IF e.label = "secondary" THEN "left" ELSE None

\* ApplyControllerEvent, of a button.
Applied(pressed, e, sample) ==
    LET role == RoleOf(e, sample)
    IN IF role = None THEN pressed
       ELSE [pressed EXCEPT ![role] = IF e.down THEN @ \union {e.button} ELSE @ \ {e.button}]

\* The next frame: the exact state of its sample, if there is one, and the
\* events up to its time.
Emit ==
    /\ pc = "place" /\ Len(placed) = Len(events) /\ Len(frames) < Cardinality(DOMAIN timeline)
    /\ LET time == Min({t \in DOMAIN timeline : \A i \in DOMAIN frames : t > frames[i].at})
           sample == timeline[time]
           since == IF frames = <<>> THEN -1 ELSE Last(frames).at
           due == SelectSeq([i \in DOMAIN events |-> i], LAMBDA i : placed[i] > since /\ placed[i] <= time)
           from == IF sample.exact = None THEN state ELSE sample.exact
       IN /\ state' = FoldLeft(LAMBDA pressed, i : Applied(pressed, events[i], sample), from, due)
          /\ frames' = Append(frames, [at |-> time, seq |-> Len(frames) + 1, origin |-> 1, hmd |-> 0,
                                       left |-> sample.left, right |-> sample.right, pressed |-> state'])
    /\ UNCHANGED <<samples, events, pc, timeline, placed>>

\* ParseVRTrackedInputFrames has the last word.
Validate ==
    /\ pc = "place" /\ Len(placed) = Len(events) /\ Len(frames) = Cardinality(DOMAIN timeline)
    /\ pc' = IF Valid(frames) THEN "done" ELSE "refused"
    /\ UNCHANGED <<samples, events, timeline, placed, state, frames>>

Next == Define \/ Place \/ Emit \/ Validate

Spec == Init /\ [][Next]_vars

-----------------------------------------------------------------------------
\* The frame at a time, and the times that the samples define.
FrameAt(t) == CHOOSE f \in Range(frames) : f.at = t
Sampled == {s.at : s \in Range(samples)} \union {0}

\* The shape of every variable; the events come in order.
TypeOK ==
    /\ samples # <<>> /\ \A i \in DOMAIN samples : samples[i].at \in Nat
    /\ \A i, j \in DOMAIN events : i < j => events[i].at <= events[j].at
    /\ pc \in {"define", "place", "done", "refused"}
    /\ DOMAIN timeline \subseteq 0..MaxTime /\ Range(placed) \subseteq DOMAIN timeline
    /\ \A r \in Roles : IsFiniteSet(state[r])

\* RecordingActivity.cpp 280-351: every transition has a frame of its own, in
\* order, that shows it, and none is moved further than the frames before it
\* and the samples make necessary.
TransitionsShown ==
    pc = "done" => \A i \in DOMAIN events :
        LET f == FrameAt(placed[i])
            role == RoleOf(events[i], timeline[placed[i]])
        IN /\ \A j \in 1..i - 1 : placed[j] < placed[i]
           /\ placed[i] \notin Sampled /\ placed[i] >= events[i].at
           /\ \A t \in events[i].at..placed[i] - 1 :
                t \in Sampled \/ \E j \in 1..i - 1 : placed[j] >= t
           /\ role # None => (events[i].down <=> events[i].button \in f.pressed[role])

\* Every sample is played at its time with the buttons that it notes; without
\* such notes a button stays as the latest event of it left it.
StatesKept ==
    pc = "done" =>
        /\ \A s \in Range(samples) : s.exact # None => FrameAt(s.at).pressed = s.exact
        /\ (\A s \in Range(samples) : s.exact = None) =>
            \A i \in 2..Len(frames) : frames[i].at \notin Range(placed) =>
                frames[i].pressed = frames[i - 1].pressed

\* Not so for all recordings: where the samples note the buttons, a second event
\* before the next sample starts again from the sample before it.
HeldStays ==
    pc = "done" => \A i \in 2..Len(frames) : \A r \in Roles :
        \A b \in frames[i - 1].pressed[r] \ frames[i].pressed[r] :
            \/ frames[i].at \in Sampled
            \/ \E e \in Range(events) : e.button = b /\ ~e.down
=============================================================================
