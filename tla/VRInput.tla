------------------------------- MODULE VRInput -------------------------------
(***************************************************************************)
(* Skyrim VR's tracked-set sequences: one owner at a time plays frames of  *)
(* the headset and both controllers into OpenVR's hooks.  For the time of  *)
(* it the game's own controllers are given the recorded device indices;    *)
(* this is done and undone on the main thread, which may be late, may fail *)
(* and may be given up on, while the lifecycle, a stop and the end of the  *)
(* playback race to finish the sequence.                                   *)
(***************************************************************************)
EXTENDS VRFrames, SequencesExt

CONSTANTS
    Starts, Stops, Lifecycles,  \* the calls of sequence and stop, and of the lifecycle
    Submitted,   \* the sequences of frames that a start may bring
    Owner,       \* Owner[c]: the owner that a start or a stop names
    Internal,    \* the starts and stops that the plugin makes itself
    Survives,    \* the starts with surviveLifecycle
    Force,       \* the stops with `all'
    Token,       \* Token[s]: the start whose controlToken a stop brings, or None
    Reason,      \* Reason[l]: "load", "notReady" or "shutdown"
    Space,       \* the compositor's tracking space
    Own,         \* the device indices that the game gave its controllers
    Attempts,    \* kControllerRestoreAttempts
    Fails,       \* bound on what fails: queueing, controllers, threads, patience
    Exhausted,   \* whether a thread may be refused
    None

VARIABLES
    ready, hooked, events,    \* g_vrReady, g_hooksInstalled, m_events is attached
    txn,                      \* m_transaction
    current,                  \* m_current
    pendingEvent, published,  \* m_pendingTerminalEvent, what the bus was given
    recovery,                 \* m_recoveryGeneration
    game, previous,           \* trackedDeviceIndex of both controllers, and what is kept of it
    thread,                   \* thread[t]: [pc, gen, event, count]
    frames,                   \* frames[s]: the sequence of start s
    tasks, running,           \* the main thread's queue and what it runs
    silent,                   \* generations whose cleanup could not be started
    fails                     \* how often something failed

gateVars == <<ready, hooked, events>>
eventVars == <<pendingEvent, published>>
gameVars == <<game, previous>>
mainVars == <<tasks, running>>
vars == <<gateVars, txn, current, eventVars, recovery, gameVars, thread, frames, mainVars, silent, fails>>

\* m_pendingTerminalEvent when nothing is to be told.
NoEvent == ""
Playback(s) == <<"playback", s>>
Start(s) == <<"start", s>>
Stop(s) == <<"stop", s>>
Caller(l) == <<"lifecycle", l>>
Cleanup(l) == <<"cleanup", l>>
Recovery(g) == <<"recovery", g>>
Generations == 1..Cardinality(Starts)
Threads == {Start(s) : s \in Starts} \union {Playback(s) : s \in Starts} \union {Stop(s) : s \in Stops}
    \union {Caller(l) : l \in Lifecycles} \union {Cleanup(l) : l \in Lifecycles}
    \union {Recovery(g) : g \in Generations}

Thread(pc, gen, event, count) == [pc |-> pc, gen |-> gen, event |-> event, count |-> count]

Init ==
    /\ ready = FALSE /\ hooked = FALSE /\ events = TRUE
    /\ txn = [starting |-> FALSE, active |-> FALSE, restoring |-> FALSE, attempt |-> FALSE,
              claimed |-> FALSE, applied |-> FALSE, survives |-> FALSE, generation |-> 0,
              owner |-> None, token |-> None]
    /\ current = None /\ pendingEvent = NoEvent /\ published = <<>> /\ recovery = 0
    /\ game = Own /\ previous = None
    /\ thread = [t \in Threads |-> Thread("idle", 0, NoEvent, 0)]
    /\ frames = [s \in Starts |-> <<>>]
    /\ tasks = <<>> /\ running = None /\ silent = {} /\ fails = 0

At(t, pc) == thread[t].pc = pc
Goes(t, pc) == thread' = [thread EXCEPT ![t].pc = pc]
Mine(t) == txn.generation = thread[t].gen
Fail == fails < Fails /\ fails' = fails + 1
NoThread == Exhausted /\ Fail

-----------------------------------------------------------------------------
(* VRSequenceTransaction.                                                  *)

\* Slip: a sequence may begin while the one before is being restored.
BusySlip == txn.starting \/ txn.active

Busy == txn.starting \/ txn.active \/ txn.restoring \/ txn.applied
CanApply(g) == txn.starting /\ txn.generation = g

\* Begin of start s.
Begun(s) ==
    [starting |-> TRUE, active |-> FALSE, restoring |-> FALSE, attempt |-> FALSE, claimed |-> FALSE,
     applied |-> FALSE, survives |-> s \in Survives, generation |-> txn.generation + 1,
     owner |-> Owner[s], token |-> s]

\* CancelForLifecycle, of a sequence that does not survive.
Cancelled ==
    IF txn.starting \/ txn.active
    THEN [txn EXCEPT !.starting = FALSE, !.active = FALSE, !.restoring = TRUE]
    ELSE txn

\* AuthorizeStop.
Authorized(s) ==
    /\ s \in Force => s \in Internal
    /\ s \notin Internal => Token[s] = txn.token
    /\ s \notin Force => Owner[s] = txn.owner

\* ClaimFinish: what is left to do for generation g.  The first who claims it
\* names the outcome; a restoration that failed may be claimed again.
Action(g) ==
    IF txn.generation # g THEN "none"
    ELSE IF ~txn.claimed THEN (IF txn.applied THEN "restore" ELSE "publish")
    ELSE IF txn.restoring /\ ~txn.attempt THEN "restore" ELSE "none"

Claimed(g) ==
    CASE Action(g) = "none" -> txn
      [] Action(g) = "publish" ->
            [txn EXCEPT !.claimed = TRUE, !.starting = FALSE, !.active = FALSE, !.restoring = FALSE]
      [] Action(g) = "restore" ->
            [txn EXCEPT !.claimed = TRUE, !.starting = FALSE, !.active = FALSE, !.restoring = TRUE,
                        !.attempt = TRUE]

-----------------------------------------------------------------------------
(* What the hooks tell the game.                                           *)

Current == IF txn.active THEN current ELSE None

\* RoleIndexHook and IndexRoleHook, for a role and an index of the sequence.
RoleIndex(role) == IF Current # None THEN Current[role] ELSE Own[role]
IndexRole(index) ==
    IF Current # None /\ \E r \in {"left", "right"} : Current[r] = index
    THEN CHOOSE r \in {"left", "right"} : Current[r] = index
    ELSE IF \E r \in {"left", "right"} : Own[r] = index
    THEN CHOOSE r \in {"left", "right"} : Own[r] = index ELSE None

\* DeviceClassHook, ConnectedHook and SyntheticController: the devices that are
\* taken from the frame.
Synthetic(index) == Current # None /\ index \in {Current.hmd, Current.left, Current.right}

-----------------------------------------------------------------------------
(* The calls.                                                              *)

Publish(event, g) ==
    published' = IF events /\ event # NoEvent THEN Append(published, [event |-> event, gen |-> g])
                 ELSE published

\* SetVRInputReady(true).
MakesReady ==
    /\ ~ready /\ events
    /\ \E installed \in {hooked, TRUE} : ready' = installed /\ hooked' = installed
    /\ UNCHANGED <<events, txn, current, eventVars, recovery, gameVars, thread, frames, mainVars, silent, fails>>

\* The checks of Start before the lock: readiness, the frames, whose call it is,
\* and that the frames are of the compositor's tracking space.
Check(s) ==
    /\ At(Start(s), "idle")
    /\ \E f \in Submitted :
        IF ready /\ Valid(f) /\ f[1].origin = Space /\ (s \in Survives => s \in Internal)
        THEN Goes(Start(s), "checked") /\ frames' = [frames EXCEPT ![s] = f]
        ELSE Goes(Start(s), "refused") /\ UNCHANGED frames
    /\ UNCHANGED <<gateVars, txn, current, eventVars, recovery, gameVars, mainVars, silent, fails>>

Begin(s) ==
    /\ At(Start(s), "checked")
    /\ IF Busy THEN Goes(Start(s), "refused") /\ UNCHANGED <<txn, pendingEvent>>
       ELSE /\ txn' = Begun(s) /\ pendingEvent' = NoEvent
            /\ thread' = [thread EXCEPT ![Start(s)] = Thread("apply", txn'.generation, NoEvent, 0)]
    /\ UNCHANGED <<gateVars, current, published, recovery, gameVars, frames, mainVars, silent, fails>>

\* AbortActivation: whoever fails goes to Finish.
Aborts(s) == Thread("finish", thread[Start(s)].gen, "aborted", 0)

Queue(t, kind) ==
    tasks' = Append(tasks, [thread |-> t, kind |-> kind, gen |-> thread[t].gen])

\* ApplyControllerIndices, up to where it waits.
Apply(s) ==
    /\ At(Start(s), "apply")
    /\ \/ Queue(Start(s), "apply") /\ Goes(Start(s), "applying") /\ UNCHANGED fails
       \/ Fail /\ thread' = [thread EXCEPT ![Start(s)] = Aborts(s)] /\ UNCHANGED tasks
    /\ UNCHANGED <<gateVars, txn, current, eventVars, recovery, gameVars, frames, running, silent>>

Commit(s) ==
    /\ At(Start(s), "commit")
    /\ IF CanApply(thread[Start(s)].gen) /\ txn.applied
       THEN /\ txn' = [txn EXCEPT !.starting = FALSE, !.active = TRUE]
            /\ current' = frames[s][1]
            /\ Publish("started", thread[Start(s)].gen)
            /\ Goes(Start(s), "spawn")
       ELSE thread' = [thread EXCEPT ![Start(s)] = Aborts(s)] /\ UNCHANGED <<txn, current, published>>
    /\ UNCHANGED <<gateVars, pendingEvent, recovery, gameVars, frames, mainVars, silent, fails>>

\* The playback's thread is started, or cannot be.
Spawn(s) ==
    /\ At(Start(s), "spawn")
    /\ \/ /\ thread' = [thread EXCEPT ![Start(s)].pc = "queued",
                                      ![Playback(s)] = Thread("play", thread[Start(s)].gen, "finished", 1)]
          /\ UNCHANGED fails
       \/ NoThread /\ thread' = [thread EXCEPT ![Start(s)] = Aborts(s)]
    /\ UNCHANGED <<gateVars, txn, current, eventVars, recovery, gameVars, frames, mainVars, silent>>

\* Playback: at the next frame's time, or when it is told to look.
Plays(s) ==
    /\ At(Playback(s), "play")
    /\ LET t == Playback(s)
           next == thread[t].count + 1
       IN IF ~txn.active \/ ~Mine(t) THEN Goes(t, "done") /\ UNCHANGED current
          ELSE IF next <= Len(frames[s])
          THEN current' = frames[s][next] /\ thread' = [thread EXCEPT ![t].count = next]
          ELSE Goes(t, "finish") /\ UNCHANGED current
    /\ UNCHANGED <<gateVars, txn, eventVars, recovery, gameVars, frames, mainVars, silent, fails>>

\* Stop, up to Finish.  A token is known once its start has answered.
Release(s) ==
    /\ At(Stop(s), "idle")
    /\ Token[s] # None => At(Start(Token[s]), "queued")
    /\ thread' = [thread EXCEPT ![Stop(s)] =
            IF ~Busy THEN Thread("notActive", 0, NoEvent, 0)
            ELSE IF ~Authorized(s) THEN Thread("denied", 0, NoEvent, 0)
            ELSE Thread("finish", txn.generation, "stopped", 0)]
    /\ UNCHANGED <<gateVars, txn, current, eventVars, recovery, gameVars, frames, mainVars, silent, fails>>

\* ReleaseVRInputForLifecycle and StopForLifecycle, up to the cleanup.
Released(l) == IF Reason[l] = "load" THEN "done" ELSE "unready"

Lifecycle(l) ==
    /\ At(Caller(l), "idle")
    /\ IF ~ready \/ ~Busy \/ ((txn.starting \/ txn.active) /\ txn.survives)
       THEN Goes(Caller(l), Released(l)) /\ UNCHANGED <<txn, current>>
       ELSE /\ txn' = Cancelled /\ current' = None
            /\ thread' = [thread EXCEPT ![Caller(l)] = Thread("detach", txn.generation, NoEvent, 0)]
    /\ UNCHANGED <<gateVars, eventVars, recovery, gameVars, frames, mainVars, silent, fails>>

\* The cleanup's thread is started; when it cannot be, the recovery is left.
Detach(l) ==
    /\ At(Caller(l), "detach")
    /\ \/ /\ thread' = [thread EXCEPT ![Caller(l)].pc = Released(l),
                                      ![Cleanup(l)] = Thread("finish", thread[Caller(l)].gen, "stopped", 0)]
          /\ UNCHANGED <<silent, fails>>
       \/ NoThread /\ Goes(Caller(l), "schedule") /\ silent' = silent \union {thread[Caller(l)].gen}
    /\ UNCHANGED <<gateVars, txn, current, eventVars, recovery, gameVars, frames, mainVars>>

\* SetVRInputReady(false) and ShutdownVRInput, after the release.
Unready(l) ==
    /\ At(Caller(l), "unready")
    /\ ready' = FALSE /\ events' = (events /\ Reason[l] # "shutdown")
    /\ Goes(Caller(l), "done")
    /\ UNCHANGED <<hooked, txn, current, eventVars, recovery, gameVars, frames, mainVars, silent, fails>>

-----------------------------------------------------------------------------
(* Finish and the restoration.                                             *)

\* Slip: the recovery tries once.
ReturnedSlip(t, ok) ==
    CASE t[1] = "stop" -> IF ok THEN "stopped" ELSE "wait"
      [] t[1] = "recovery" -> "clear"
      [] t[1] = "start" -> IF ok THEN "failed" ELSE "schedule"
      [] OTHER -> IF ok THEN "done" ELSE "schedule"

\* Where a thread goes when Finish returns to it.
Returned(t, ok) ==
    CASE t[1] = "stop" -> IF ok THEN "stopped" ELSE "wait"
      [] t[1] = "recovery" -> IF ok THEN "clear" ELSE "sleep"
      [] t[1] = "start" -> IF ok THEN "failed" ELSE "schedule"
      [] OTHER -> IF ok THEN "done" ELSE "schedule"

Finish(t) ==
    /\ At(t, "finish")
    /\ LET g == thread[t].gen
           action == Action(g)
       IN /\ txn' = Claimed(g)
          /\ current' = IF action # "none" /\ ~txn.claimed THEN None ELSE current
          /\ IF action = "publish" THEN pendingEvent' = NoEvent /\ Publish(thread[t].event, g)
             ELSE /\ pendingEvent' = IF action = "restore" /\ ~txn.claimed THEN thread[t].event
                                     ELSE pendingEvent
                  /\ UNCHANGED published
          /\ thread' = IF action = "restore" THEN [thread EXCEPT ![t].pc = "restore", ![t].count = 1]
                       ELSE [thread EXCEPT ![t].pc =
                            Returned(t, action = "publish" \/ (~txn.restoring /\ ~txn.applied))]
    /\ UNCHANGED <<gateVars, recovery, gameVars, frames, mainVars, silent, fails>>

\* One more attempt, or none: the game refused, or what it answered is not it.
Retried(t) ==
    IF thread[t].count < Attempts
    THEN [thread EXCEPT ![t].pc = "restore", ![t].count = @ + 1]
    ELSE [thread EXCEPT ![t].pc = "giveUp", ![t].count = 0]

\* An attempt of RestoreControllerIndices, up to where it waits.
Restore(t) ==
    /\ At(t, "restore")
    /\ \/ Queue(t, "restore") /\ Goes(t, "restoring") /\ UNCHANGED fails
       \/ Fail /\ thread' = Retried(t) /\ UNCHANGED tasks
    /\ UNCHANGED <<gateVars, txn, current, eventVars, recovery, gameVars, frames, running, silent>>

\* RunAndWait's 504: a task that has not started never will, one that has may
\* still complete.
TimesOut(t) ==
    /\ thread[t].pc \in {"applying", "restoring"} /\ Fail
    /\ IF running # None /\ running.thread = t
       THEN running' = [running EXCEPT !.thread = None] /\ UNCHANGED tasks
       ELSE /\ \E i \in DOMAIN tasks : tasks[i].thread = t /\ tasks' = RemoveAt(tasks, i)
            /\ UNCHANGED running
    /\ thread' = [thread EXCEPT ![t] = IF @.pc = "applying" THEN Thread("finish", @.gen, "aborted", 0)
                                       ELSE Thread("giveUp", @.gen, @.event, 0)]
    /\ UNCHANGED <<gateVars, txn, current, eventVars, recovery, gameVars, frames, silent>>

\* RestoreFailed, under the lock.
GivesUp(t) ==
    /\ At(t, "giveUp")
    /\ txn' = IF Mine(t) /\ txn.restoring THEN [txn EXCEPT !.attempt = FALSE] ELSE txn
    /\ Goes(t, Returned(t, FALSE))
    /\ UNCHANGED <<gateVars, current, eventVars, recovery, gameVars, frames, mainVars, silent, fails>>

\* WaitForConcurrentRestoration, at its end or after its 30 seconds.
Waits(s) ==
    /\ At(Stop(s), "wait")
    /\ LET settled == ~Mine(Stop(s)) \/ ~txn.restoring \/ ~txn.attempt
           restored == ~Mine(Stop(s)) \/ (~txn.restoring /\ ~txn.applied)
       IN \/ settled /\ Goes(Stop(s), IF restored THEN "stopped" ELSE "pending") /\ UNCHANGED fails
          \/ ~settled /\ Fail /\ Goes(Stop(s), "pending")
    /\ UNCHANGED <<gateVars, txn, current, eventVars, recovery, gameVars, frames, mainVars, silent>>

-----------------------------------------------------------------------------
(* The main thread.                                                        *)

MainStarts ==
    /\ running = None /\ tasks # <<>>
    /\ running' = Head(tasks) /\ tasks' = Tail(tasks)
    /\ UNCHANGED <<gateVars, txn, current, eventVars, recovery, gameVars, thread, frames, silent, fails>>

\* Whoever still waits for the task goes on as it should.
Answer(next) == thread' = IF running.thread = None THEN thread ELSE next

\* ApplyControllerIndices: superseded, or without controllers, or applied.
MainApplies ==
    /\ running # None /\ running.kind = "apply"
    /\ LET s == txn.token
           aborts == [thread EXCEPT ![running.thread] = Thread("finish", @.gen, "aborted", 0)]
           commits == [thread EXCEPT ![running.thread].pc = "commit"]
       IN \/ /\ ~CanApply(running.gen) /\ Answer(aborts)
             /\ UNCHANGED <<txn, gameVars, fails>>
          \/ /\ CanApply(running.gen) /\ Fail /\ Answer(aborts)
             /\ UNCHANGED <<txn, gameVars>>
          \/ /\ CanApply(running.gen) /\ Answer(commits)
             /\ previous' = game
             /\ game' = [left |-> frames[s][1].left, right |-> frames[s][1].right]
             /\ txn' = [txn EXCEPT !.applied = TRUE]
             /\ UNCHANGED fails
    /\ running' = None
    /\ UNCHANGED <<gateVars, current, eventVars, recovery, frames, tasks, silent>>

\* RestoreControllerIndices: superseded, or without controllers, or restored,
\* with the event that was waiting for it.
MainRestores ==
    /\ running # None /\ running.kind = "restore"
    /\ LET superseded == ~txn.restoring \/ txn.generation # running.gen
           returns == [thread EXCEPT ![running.thread].pc = Returned(running.thread, TRUE)]
       IN \/ /\ superseded
             /\ Answer(IF txn.applied THEN Retried(running.thread) ELSE returns)
             /\ UNCHANGED <<txn, gameVars, eventVars, fails>>
          \/ /\ ~superseded /\ Fail /\ Answer(Retried(running.thread))
             /\ UNCHANGED <<txn, gameVars, eventVars>>
          \/ /\ ~superseded /\ Answer(returns)
             /\ game' = previous /\ UNCHANGED previous
             /\ txn' = [txn EXCEPT !.applied = FALSE, !.restoring = FALSE, !.attempt = FALSE]
             /\ Publish(pendingEvent, running.gen) /\ pendingEvent' = NoEvent
             /\ UNCHANGED fails
    /\ running' = None
    /\ UNCHANGED <<gateVars, current, recovery, frames, tasks, silent>>

-----------------------------------------------------------------------------
(* ScheduleRestorationRecovery.                                            *)

Scheduled(t) ==
    CASE t[1] = "start" -> "failed"
      [] t[1] = "lifecycle" -> Released(t[2])
      [] OTHER -> "done"

Schedule(t) ==
    /\ At(t, "schedule")
    /\ IF ~Mine(t) \/ ~txn.restoring \/ recovery = thread[t].gen
       THEN Goes(t, Scheduled(t)) /\ UNCHANGED recovery
       ELSE Goes(t, "spawnRecovery") /\ recovery' = thread[t].gen
    /\ UNCHANGED <<gateVars, txn, current, eventVars, gameVars, frames, mainVars, silent, fails>>

Cleared(g) == IF recovery = g THEN 0 ELSE recovery

SpawnRecovery(t) ==
    /\ At(t, "spawnRecovery")
    /\ LET g == thread[t].gen
       IN \/ /\ thread' = [thread EXCEPT ![t].pc = Scheduled(t), ![Recovery(g)] = Thread("sleep", g, NoEvent, 0)]
             /\ UNCHANGED <<recovery, fails>>
          \/ NoThread /\ Goes(t, Scheduled(t)) /\ recovery' = Cleared(g)
    /\ UNCHANGED <<gateVars, txn, current, eventVars, gameVars, frames, mainVars, silent>>

\* The recovery tries once a second for as long as it is needed.
Wakes(g) ==
    /\ At(Recovery(g), "sleep")
    /\ IF txn.generation # g \/ ~txn.restoring
       THEN Goes(Recovery(g), "done") /\ recovery' = Cleared(g)
       ELSE Goes(Recovery(g), "finish") /\ UNCHANGED recovery
    /\ UNCHANGED <<gateVars, txn, current, eventVars, gameVars, frames, mainVars, silent, fails>>

Recovers(g) ==
    /\ At(Recovery(g), "clear")
    /\ Goes(Recovery(g), "done") /\ recovery' = Cleared(g)
    /\ UNCHANGED <<gateVars, txn, current, eventVars, gameVars, frames, mainVars, silent, fails>>

\* The steps of a thread from Finish on.
Proceeds(t) == Finish(t) \/ Restore(t) \/ GivesUp(t) \/ Schedule(t) \/ SpawnRecovery(t)

Next ==
    \/ MakesReady
    \/ \E s \in Starts : Check(s) \/ Begin(s) \/ Apply(s) \/ Commit(s) \/ Spawn(s) \/ Plays(s)
    \/ \E s \in Stops : Release(s) \/ Waits(s)
    \/ \E l \in Lifecycles : Lifecycle(l) \/ Detach(l) \/ Unready(l)
    \/ \E t \in Threads : TimesOut(t) \/ Proceeds(t)
    \/ MainStarts \/ MainApplies \/ MainRestores
    \/ \E g \in Generations : Wakes(g) \/ Recovers(g)

\* Every thread goes on, and so does the game's while it runs frames.
Fairness ==
    /\ \A s \in Starts :
        /\ WF_vars(Begin(s) \/ Apply(s) \/ Commit(s) \/ Spawn(s) \/ Proceeds(Start(s)))
        /\ WF_vars(Plays(s) \/ Proceeds(Playback(s)))
    /\ \A s \in Stops : WF_vars(Waits(s) \/ Proceeds(Stop(s)))
    /\ \A l \in Lifecycles : WF_vars(Detach(l) \/ Proceeds(Caller(l))) /\ WF_vars(Proceeds(Cleanup(l)))
    /\ \A g \in Generations : WF_vars(Wakes(g) \/ Recovers(g) \/ Proceeds(Recovery(g)))
    /\ WF_vars(MainStarts \/ MainApplies \/ MainRestores)

Spec == Init /\ [][Next]_vars /\ Fairness

-----------------------------------------------------------------------------
\* What is assumed of the constants: there are finitely many starts, the bounds are
\* numbers, frames and controllers are of device indices.
Frame == [at : Nat, seq : Nat, origin : Int, hmd : Int, left : Int, right : Int]
Controllers == [left : Int, right : Int]
VRAssumption ==
    /\ IsFiniteSet(Starts) /\ None \notin Starts \union Threads
    /\ Submitted \subseteq Seq(Frame)
    /\ Own \in Controllers
    /\ Attempts \in Nat /\ Fails \in Nat

Terminal == {"finished", "stopped", "aborted"}
Known == Generations \union {0}
Places == {"idle", "checked", "refused", "apply", "applying", "commit", "spawn", "queued", "failed",
           "play", "done", "notActive", "denied", "wait", "stopped", "pending", "detach", "unready",
           "finish", "restore", "restoring", "giveUp", "schedule", "spawnRecovery", "sleep", "clear"}
Tasks == [thread : Threads \union {None}, kind : {"apply", "restore"}, gen : Generations]

\* The shape of every variable; no thread waits for two tasks, and a sequence gives
\* the controllers two indices (the game's own may both be those of no device).
TypeOK ==
    /\ {ready, hooked, events} \subseteq BOOLEAN /\ (ready => hooked)
    /\ txn \in [starting : BOOLEAN, active : BOOLEAN, restoring : BOOLEAN, attempt : BOOLEAN,
               claimed : BOOLEAN, applied : BOOLEAN, survives : BOOLEAN, generation : Known,
               owner : {Owner[s] : s \in Starts} \union {None}, token : Starts \union {None}]
    /\ current \in Frame \union {None}
    /\ pendingEvent \in Terminal \union {NoEvent} /\ recovery \in Known
    /\ published \in Seq([event : Terminal \union {"started"}, gen : Generations])
    /\ game \in Controllers /\ (game # Own => game.left # game.right) /\ previous \in Controllers \union {None}
    /\ thread \in [Threads -> [pc : Places, gen : Known, event : Terminal \union {NoEvent}, count : Nat]]
    /\ frames \in [Starts -> Submitted \union {<<>>}]
    /\ tasks \in Seq(Tasks) /\ running \in Tasks \union {None}
    /\ \A i, j \in DOMAIN tasks : i # j => tasks[i].thread # tasks[j].thread
    /\ silent \subseteq Generations /\ fails \in 0..Fails

\* VRInput.cpp 384-450: the game has its own controller indices back before
\* another sequence can begin, and what is kept of them is never another
\* sequence's: whoever comes late restores nothing of a newer sequence.
GivesBack ==
    /\ ~txn.applied => game = Own
    /\ txn.applied => previous = Own
    /\ txn.active => txn.applied

\* VRInput.cpp 762-905: while frames are played, what the hooks tell of roles
\* and indices is what the game's controllers were given, in every frame.
HooksAgree ==
    Current # None =>
        /\ game = [left |-> Current.left, right |-> Current.right]
        /\ \A r \in {"left", "right"} : IndexRole(RoleIndex(r)) = r /\ Synthetic(game[r])

\* VRInput.cpp 556-607: a sequence starts once and ends once, in this order,
\* whoever of the lifecycle, a stop, a failed start and the playback ends it;
\* and when it is over its end was published, unless no cleanup could be started.
Announced ==
    /\ \A i, j \in DOMAIN published : i < j /\ published[i].gen = published[j].gen =>
          published[i].event = "started" /\ published[j].event \in Terminal
    /\ ~Busy /\ events /\ txn.generation \notin silent /\ txn.generation # 0 =>
          \E e \in Range(published) : e.gen = txn.generation /\ e.event \in Terminal

\* VRInput.cpp 313-350: a stop that was answered with `stopped' left the game
\* with its own indices and no synthetic input of that sequence.
StoppedTrue ==
    \A s \in Stops : At(Stop(s), "stopped") /\ Mine(Stop(s)) => game = Own /\ Current = None
=============================================================================
