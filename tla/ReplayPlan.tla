----------------------------- MODULE ReplayPlan -----------------------------
(***************************************************************************)
(* The planner of replays: a recording's samples, activity and checkpoints *)
(* become one list of steps for the scenario tool, with the pauses that    *)
(* keep the recorded pace.                                                 *)
(***************************************************************************)
EXTENDS Integers, Sequences, FiniteSets, SequencesExt, TLC

CONSTANTS
    Recordings,    \* [samples, activity, checkpoints, tracked]: see TypeOK
    Restorations,  \* how the scene is restored: "none", "save", "scene" or "clean"
    Window,        \* 1000 ms: a save's command and its event are one
    MaxHold,       \* kMaximumHoldMs - kSafetyMarginMs
    Settle,        \* captureSettle
    LoadSettle,    \* loadSettle, unless the call says otherwise
    Limit,         \* kMaximumTrajectorySamples, of the steps of a scenario
    Budget         \* kReplayPlanningBudget, of a recording

VARIABLES
    recording, restoration,
    pc,      \* "begin", "merge", "done" or "refused"
    index,   \* the item of the timeline that comes next
    steps    \* the plan so far

vars == <<recording, restoration, pc, index, steps>>

Samples == recording.samples
Activity == recording.activity
Checkpoints == recording.checkpoints

Init ==
    /\ recording \in Recordings /\ restoration \in Restorations
    /\ pc = "begin" /\ index = 1 /\ steps = <<>>

-----------------------------------------------------------------------------
(* The timeline.                                                           *)

Saves == {"save", "preSaveGame"}
Near(a, b) == a - b <= Window /\ b - a <= Window

\* Slip: a repetition that is left out counts as the latest.
PlaySlip(acc, e) ==
    IF e.kind \in Saves
    THEN [acc EXCEPT !.latest = {e.at},
                     !.items = IF \E t \in acc.latest : Near(e.at, t) THEN @
                               ELSE Append(@, [kind |-> "game", at |-> e.at])]
    ELSE acc

\* One event of the activity: a save is played unless the latest that is played
\* is near, a change of cell takes three steps, keys come later, and a menu or
\* a command that cannot be played is none.
Play(acc, e) ==
    CASE e.kind \in Saves ->
            IF \E t \in acc.latest : Near(e.at, t) THEN acc
            ELSE [items |-> Append(acc.items, [kind |-> "game", at |-> e.at]), latest |-> {e.at}]
      [] e.kind = "cell" ->
            [acc EXCEPT !.items = @ \o [i \in 1..3 |->
                [kind |-> <<"transition", "loaded", "ready">>[i], at |-> e.at]]]
      [] e.kind = "console" -> [acc EXCEPT !.items = Append(@, [kind |-> "console", at |-> e.at])]
      [] OTHER -> acc

Played == FoldLeft(Play, [items |-> <<>>, latest |-> {}], Activity).items

\* PrepareKeyboardReplayEvents, of one key: an event that lets it go is matched
\* with the latest that pressed it.
Keys == SelectSeq(Activity, LAMBDA e : e.kind \in {"down", "up"})
HeldTooLong ==
    \E i, j \in DOMAIN Keys :
        /\ i < j /\ Keys[i].kind = "down" /\ Keys[j].kind = "up"
        /\ \A k \in i + 1..j - 1 : Keys[k].kind # "down" /\ Keys[k].kind # "up"
        /\ Keys[j].at - Keys[i].at > MaxHold

Poses == [i \in DOMAIN Samples |-> [kind |-> "pose", at |-> Samples[i]]]
Captures == [i \in DOMAIN Checkpoints |-> [kind |-> "capture", at |-> Checkpoints[i]]]

\* stable_sort by time of what was pushed in this order.
Timeline ==
    LET all == Poses \o Played \o Keys \o Captures
        before(i, j) == all[i].at < all[j].at \/ (all[i].at = all[j].at /\ i < j)
        order == SortSeq([i \in DOMAIN all |-> i], before)
    IN [i \in DOMAIN all |-> all[order[i]]]

End == IF Timeline = <<>> THEN 0 ELSE Last(Timeline).at

-----------------------------------------------------------------------------
(* The steps.                                                              *)

Do(kind) == [kind |-> kind, wait |-> 0]
Pause(t) == [kind |-> "wait", wait |-> t]
Enter == <<Do("transition"), Do("loaded"), Do("ready")>>

\* The plan is made before anything is restored: what it notes as `restored'
\* becomes true in the result of its run only.
Restored == FALSE

\* What comes before the timeline: the way back to the scene, what must hold
\* there, and the tracked hands, which are played beside the rest.
Preamble ==
    (CASE restoration = "none" -> <<>>
       [] restoration = "save" -> <<Do("load"), Do("loaded"), Do("ready")>>
       [] restoration = "scene" -> Enter
       [] restoration = "clean" -> Enter \o Enter)
    \o (IF Restored /\ LoadSettle > 0 THEN <<Pause(LoadSettle)>> ELSE <<>>)
    \o <<Do("scene"), Do("noMenu")>>
    \o (IF recording.tracked > 0 THEN <<Do("tracked")>> ELSE <<>>)

\* Keys that were held too long cannot be played.
Begins ==
    /\ pc = "begin"
    /\ IF HeldTooLong THEN pc' = "refused" /\ UNCHANGED steps
                      ELSE pc' = "merge" /\ steps' = Preamble
    /\ UNCHANGED <<recording, restoration, index>>

\* Slip: the time before the first item is lost.
LeadSlip(i) == <<>>

Lead(i) == IF i = 1 /\ Timeline[1].at > 0 THEN <<Pause(Timeline[1].at)>> ELSE <<>>

\* A capture waits for the menus to close and for the picture to settle.
Before(item) ==
    IF item.kind = "capture" /\ Settle > 0
    THEN <<Do("untilNoMenu"), Do("noMenu"), [kind |-> "settle", wait |-> Settle]>>
    ELSE <<>>

\* The pause up to the next item: a pose waits by itself.
Paced(item, pause) ==
    IF pause = 0 THEN <<Do(item.kind)>>
    ELSE IF item.kind = "pose" THEN <<[kind |-> "pose", wait |-> pause]>>
    ELSE <<Do(item.kind), Pause(pause)>>

\* What the tracked hands take longer is waited for at every item.
Tracked == IF recording.tracked > End THEN <<Pause(recording.tracked - End)>> ELSE <<>>

Merge ==
    /\ pc = "merge" /\ index <= Len(Timeline)
    /\ LET item == Timeline[index]
           pause == IF index < Len(Timeline) THEN Timeline[index + 1].at - item.at ELSE 0
       IN steps' = steps \o Lead(index) \o Before(item) \o Paced(item, pause) \o Tracked
    /\ index' = index + 1
    /\ UNCHANGED <<recording, restoration, pc>>

Ends ==
    /\ pc = "merge" /\ index > Len(Timeline)
    /\ pc' = IF Len(steps) > Limit THEN "refused" ELSE "done"
    /\ UNCHANGED <<recording, restoration, index, steps>>

Next == Begins \/ Merge \/ Ends

Spec == Init /\ [][Next]_vars

-----------------------------------------------------------------------------
Times(seq) == \A i, j \in DOMAIN seq : i < j => seq[i] <= seq[j]
ActivityTimes == [i \in DOMAIN Activity |-> Activity[i].at]

\* The shape of every variable; what is recorded comes in order.
TypeOK ==
    /\ Times(Samples) /\ Times(ActivityTimes) /\ Times(Checkpoints)
    /\ recording.tracked \in Nat
    /\ pc \in {"begin", "merge", "done", "refused"} /\ index \in 1..Len(Timeline) + 1

\* The plan without what comes before the timeline, and its items in order.
Body == SubSeq(steps, Len(Preamble) + 1, Len(steps))
Extra == {"wait", "settle", "untilNoMenu", "noMenu"}
Starts == SelectSeq([i \in DOMAIN Body |-> i], LAMBDA i : Body[i].kind \notin Extra)
Elapsed(i) == FoldLeft(LAMBDA t, s : IF s.kind = "settle" THEN t ELSE t + s.wait, 0, SubSeq(Body, 1, i - 1))

\* What the hands take longer than the timeline delays every item after it.
Drift == IF recording.tracked > End THEN recording.tracked - End ELSE 0

\* Everything of the timeline is played once, in order, and at its recorded
\* time but for the settling of captures and for the drift: the tail of tracked
\* hands, which makes them outlast the timeline, is waited for after each item
\* and not only after the last.
KeepsPace ==
    pc = "done" =>
        /\ Len(Starts) = Len(Timeline)
        /\ \A i \in DOMAIN Starts :
            /\ Body[Starts[i]].kind = Timeline[i].kind
            /\ Elapsed(Starts[i]) = Timeline[i].at + (i - 1) * Drift

\* Every item is played at its recorded time: not so when the hands outlast the
\* timeline.  No run checks it.
OnTime ==
    pc = "done" => \A i \in DOMAIN Starts : Elapsed(Starts[i]) = Timeline[i].at

\* A save that the recording notes twice is played once, and every save near to
\* when it was made.
SavesPlayed ==
    LET games == SelectSeq(Timeline, LAMBDA item : item.kind = "game")
    IN /\ \A i \in 1..Len(games) - 1 : ~Near(games[i].at, games[i + 1].at)
       /\ \A i \in DOMAIN Activity : Activity[i].kind \in Saves =>
            \E j \in DOMAIN games : Near(games[j].at, Activity[i].at)

\* "checkpoint would exceed the replayable scenario-step budget": a recording
\* within the budget is not refused for its length.
BudgetReplayable ==
    Len(Samples) + 4 * Len(Activity) + 4 * Len(Checkpoints) <= Budget
        => ~(pc = "refused" /\ index > 1)

\* "Settle delay (ms) inserted after a restore-load before the replayed
\* trajectory runs": a plan that loads a save waits before it plays.
SettlesAfterLoad ==
    pc = "done" /\ restoration = "save" /\ LoadSettle > 0
        => \E i \in 1..Len(Preamble) : steps[i] = Pause(LoadSettle)
=============================================================================
