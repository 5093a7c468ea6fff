----------------------------- MODULE MainThread -----------------------------
(***************************************************************************)
(* The bridge between the listener threads that run tool handlers and the  *)
(* one main thread of the game.  A listener appends a task to the script   *)
(* extender's task queue and blocks; the main thread runs the queue in     *)
(* order, when the game lets it.  Two protocols share that queue:          *)
(*                                                                         *)
(*   Reads      MainThread::RunAndWait over a QueuedTask                   *)
(*   Mutations  CancelableMutationRunner::Run (camera and menu tools)      *)
(*                                                                         *)
(* Both decide a race between a caller that gives up and a main thread     *)
(* that starts the task by one compare-and-swap on the task's state.       *)
(* The states kReserved, kCancelled of the mutation protocol are called    *)
(* queued and abandoned here, as in QueuedTask.                            *)
(***************************************************************************)
EXTENDS Integers, Sequences, FiniteSets

CONSTANTS
    Reads,      \* the RunAndWait calls, one per listener thread
    Mutations   \* the CancelableMutationRunner calls

Calls == Reads \union Mutations

ASSUME CallsAssumption == /\ IsFiniteSet(Reads)
                          /\ IsFiniteSet(Mutations)
                          /\ Reads \intersect Mutations = {}

VARIABLES
    pc,         \* pc[c]: where c's listener thread is
    reply,      \* reply[c]: what the call returned or threw, "none" before
    keep,       \* keep[c]: the a_keepWaiting flag (TRUE where none is passed)
    late,       \* late[c]: the clock has reached c's deadline
    state,      \* state[c]: the atomic state_ of the task, phase of the work
    body,       \* body[c]: how far the task's function has run
    ready,      \* ready[c]: the task's promise holds a value or an exception
    pending,    \* g_pendingTasks
    queue,      \* the script extender's task queue
    cur,        \* the task the main thread is in, as a sequence of length <= 1
    mpc         \* where the main thread is in that task

callerVars == <<pc, reply, keep>>
taskVars   == <<state, body, ready>>
mainVars   == <<queue, cur, mpc>>
vars == <<pc, reply, keep, late, state, body, ready, pending, queue, cur, mpc>>

Init ==
    /\ pc = [c \in Calls |-> "idle"]
    /\ reply = [c \in Calls |-> "none"]
    /\ keep = [c \in Calls |-> TRUE]
    /\ late = [c \in Calls |-> FALSE]
    /\ state = [c \in Calls |-> "queued"]
    /\ body = [c \in Calls |-> "none"]
    /\ ready = [c \in Calls |-> FALSE]
    /\ pending = 0
    /\ queue = <<>>
    /\ cur = <<>>
    /\ mpc = "idle"

-----------------------------------------------------------------------------
(* The environment: the clock, and the owner of a keepWaiting flag.        *)

Tick(c) == /\ pc[c] # "idle"
           /\ ~late[c]
           /\ late' = [late EXCEPT ![c] = TRUE]
           /\ UNCHANGED <<callerVars, taskVars, pending, mainVars>>

StopWaiting(c) == /\ c \in Reads
                  /\ keep[c]
                  /\ pc[c] # "done"
                  /\ keep' = [keep EXCEPT ![c] = FALSE]
                  /\ UNCHANGED <<pc, reply, late, taskVars, pending, mainVars>>

-----------------------------------------------------------------------------
(* The listener thread.                                                    *)

Goto(c, from, to) == pc[c] = from /\ pc' = [pc EXCEPT ![c] = to]

Return(c, answer) == /\ pc' = [pc EXCEPT ![c] = "done"]
                     /\ reply' = [reply EXCEPT ![c] = answer]

\* RunAndWait with no enqueueTask throws 500 before anything is queued.
NoTaskInterface(c) ==
    /\ c \in Reads
    /\ pc[c] = "idle"
    /\ Return(c, "refused")
    /\ UNCHANGED <<keep, late, taskVars, pending, mainVars>>

\* RunAndWait of a caller that has already stopped waiting.
EnterCleared(c) ==
    /\ c \in Reads
    /\ pc[c] = "idle"
    /\ ~keep[c]
    /\ Return(c, "dropped")
    /\ UNCHANGED <<keep, late, taskVars, pending, mainVars>>

\* RunAndWait takes its deadline and counts the task before it is queued.
Enter(c) ==
    /\ c \in Reads
    /\ keep[c]
    /\ Goto(c, "idle", "enqueue")
    /\ pending' = pending + 1
    /\ UNCHANGED <<reply, keep, late, taskVars, mainVars>>

\* CancelableMutationRunner::Run has no counter and no keepWaiting flag.
EnterMutation(c) ==
    /\ c \in Mutations
    /\ Goto(c, "idle", "enqueue")
    /\ UNCHANGED <<reply, keep, late, taskVars, pending, mainVars>>

Enqueue(c) ==
    /\ Goto(c, "enqueue", "poll")
    /\ queue' = Append(queue, c)
    /\ UNCHANGED <<reply, keep, late, taskVars, pending, cur, mpc>>

\* Slip: the count is not undone.
EnqueueFailsKeepsCount(c) ==
    /\ pc[c] = "enqueue"
    /\ Return(c, "refused")
    /\ state' = [state EXCEPT ![c] = "abandoned"]
    /\ UNCHANGED <<keep, late, pending, body, ready, mainVars>>

\* The script extender refuses the task: undo the count, abandon, throw 503.
\* No other thread holds the task, so its steps cannot be told apart.
EnqueueFails(c) ==
    /\ pc[c] = "enqueue"
    /\ Return(c, "refused")
    /\ IF c \in Reads
       THEN /\ pending' = pending - 1
            /\ state' = [state EXCEPT ![c] = "abandoned"]
       ELSE UNCHANGED <<pending, state>>
    /\ UNCHANGED <<keep, late, body, ready, mainVars>>

\* Slip: the loop waits for the future or the flag, and no longer.
PollWithoutDeadline(c) ==
    /\ pc[c] = "poll"
    /\ \/ ready[c] /\ Return(c, "result")
       \/ ~ready[c] /\ ~keep[c] /\ Goto(c, "poll", "dropAbandon") /\ UNCHANGED reply
    /\ UNCHANGED <<keep, late, taskVars, pending, mainVars>>

\* One round of the wait loop: the value if the future is ready, else give up
\* when keepWaiting is cleared, else break when the deadline has passed, else
\* sleep on.  The three tests are one step: none of the conditions is ever
\* undone, so what happens between two tests can as well happen after them.
\* A mutation sleeps in one wait_for and knows only the first and the last.
Poll(c) ==
    /\ pc[c] = "poll"
    /\ \/ /\ ready[c]
          /\ Return(c, "result")
       \/ /\ ~ready[c] /\ ~keep[c]
          /\ Goto(c, "poll", "dropAbandon")
          /\ UNCHANGED reply
       \/ /\ ~ready[c] /\ keep[c] /\ late[c]
          /\ Goto(c, "poll", IF c \in Reads THEN "final" ELSE "abandon")
          /\ UNCHANGED reply
    /\ UNCHANGED <<keep, late, taskVars, pending, mainVars>>

\* After the loop RunAndWait looks at the future once more.
FinalPoll(c) ==
    /\ pc[c] = "final"
    /\ IF ready[c]
       THEN Return(c, "result")
       ELSE pc' = [pc EXCEPT ![c] = "abandon"] /\ UNCHANGED reply
    /\ UNCHANGED <<keep, late, taskVars, pending, mainVars>>

\* Slip: a store in place of the compare-and-swap.
AbandonStores(c) == state' = [state EXCEPT ![c] = "abandoned"]

\* QueuedTask::Abandon: kQueued to kAbandoned, or nothing.
AbandonTask(c) == state' = [state EXCEPT ![c] = IF @ = "queued" THEN "abandoned" ELSE @]

Abandon(c) ==
    /\ \/ Goto(c, "abandon", "recheck")
       \/ Goto(c, "dropAbandon", "dropRecheck")
    /\ AbandonTask(c)
    /\ UNCHANGED <<reply, keep, late, body, ready, pending, mainVars>>

\* The last look at the future after the compare-and-swap.  A mutation whose
\* compare-and-swap succeeded throws without it.
Recheck(c) ==
    /\ pc[c] = "recheck"
    /\ Return(c, IF c \in Mutations /\ state[c] = "abandoned" THEN "notStarted"
                 ELSE IF ready[c] THEN "result"
                 ELSE IF state[c] = "abandoned" THEN "notStarted" ELSE "uncertain")
    /\ UNCHANGED <<keep, late, taskVars, pending, mainVars>>

\* The caller stopped waiting: the value if it is there, otherwise null.
DropRecheck(c) ==
    /\ pc[c] = "dropRecheck"
    /\ Return(c, IF ready[c] THEN "result" ELSE "dropped")
    /\ UNCHANGED <<keep, late, taskVars, pending, mainVars>>

RunAndWait(c) ==
    \/ NoTaskInterface(c) \/ EnterCleared(c) \/ Enter(c)
    \/ EnterMutation(c) \/ Enqueue(c) \/ EnqueueFails(c)
    \/ Poll(c) \/ FinalPoll(c) \/ Abandon(c) \/ Recheck(c) \/ DropRecheck(c)

-----------------------------------------------------------------------------
(* The main thread: one task at a time, in queue order.                    *)

\* Slip: the queue is pumped from within a task.
MainTakeNested ==
    /\ queue # <<>>
    /\ cur' = Append(cur, Head(queue))
    /\ queue' = Tail(queue)
    /\ mpc' = IF Head(queue) \in Reads THEN "sample" ELSE "claim"
    /\ UNCHANGED <<callerVars, late, taskVars, pending>>

MainTake ==
    /\ cur = <<>>
    /\ queue # <<>>
    /\ cur' = <<Head(queue)>>
    /\ queue' = Tail(queue)
    /\ mpc' = IF Head(queue) \in Reads THEN "sample" ELSE "claim"
    /\ UNCHANGED <<callerVars, late, taskVars, pending>>

\* QueuedTask::Run reads the clock before anything else.
MainSample ==
    /\ mpc = "sample"
    /\ mpc' = IF late[cur[1]] THEN "expire" ELSE "claim"
    /\ UNCHANGED <<callerVars, late, taskVars, pending, queue, cur>>

MainExpire ==
    /\ mpc = "expire"
    /\ AbandonTask(cur[1])
    /\ mpc' = "finally"
    /\ UNCHANGED <<callerVars, late, body, ready, pending, queue, cur>>

\* The compare-and-swap that starts the function, or finds it abandoned.
MainClaim ==
    /\ mpc = "claim"
    /\ IF state[cur[1]] = "queued"
       THEN /\ state' = [state EXCEPT ![cur[1]] = "running"]
            /\ body' = [body EXCEPT ![cur[1]] = "running"]
            /\ mpc' = "body"
       ELSE /\ mpc' = "finally"
            /\ UNCHANGED <<state, body>>
    /\ UNCHANGED <<callerVars, late, ready, pending, queue, cur>>

\* The function returns or throws; the mutation protocol stores kFinished.
MainBody ==
    /\ mpc = "body"
    /\ body' = [body EXCEPT ![cur[1]] = "done"]
    /\ state' = [state EXCEPT ![cur[1]] = IF cur[1] \in Mutations THEN "finished" ELSE @]
    /\ mpc' = "publish"
    /\ UNCHANGED <<callerVars, late, ready, pending, queue, cur>>

MainPublish ==
    /\ mpc = "publish"
    /\ ready' = [ready EXCEPT ![cur[1]] = TRUE]
    /\ mpc' = "finally"
    /\ UNCHANGED <<callerVars, late, state, body, pending, queue, cur>>

\* ~Finally: the count goes down however the task ended.
MainFinally ==
    /\ mpc = "finally"
    /\ pending' = IF cur[1] \in Reads THEN pending - 1 ELSE pending
    /\ cur' = <<>>
    /\ mpc' = "idle"
    /\ UNCHANGED <<callerVars, late, taskVars, queue>>

Main == \/ MainTake \/ MainSample \/ MainExpire \/ MainClaim
        \/ MainBody \/ MainPublish \/ MainFinally

-----------------------------------------------------------------------------
Next == \/ \E c \in Calls : Tick(c) \/ StopWaiting(c) \/ RunAndWait(c)
        \/ Main

Spec == Init /\ [][Next]_vars

\* Listener threads are scheduled and time passes.  Nothing is assumed of the
\* main thread: a game that hangs is the case the timeouts exist for.
FairSpec == Spec /\ \A c \in Calls : WF_vars(RunAndWait(c)) /\ WF_vars(Tick(c))

-----------------------------------------------------------------------------
PCs == {"idle", "enqueue", "poll", "final", "abandon", "recheck",
        "dropAbandon", "dropRecheck", "done"}

Replies == {"none", "result", "notStarted", "uncertain", "dropped", "refused"}

\* The shape of every variable.
TypeOK ==
    /\ pc \in [Calls -> PCs]
    /\ reply \in [Calls -> Replies]
    /\ keep \in [Calls -> BOOLEAN]
    /\ late \in [Calls -> BOOLEAN]
    /\ state \in [Calls -> {"queued", "running", "abandoned", "finished"}]
    /\ body \in [Calls -> {"none", "running", "done"}]
    /\ ready \in [Calls -> BOOLEAN]
    /\ pending \in Int
    /\ queue \in Seq(Calls)
    /\ cur \in {<<>>} \union {<<c>> : c \in Calls}
    /\ mpc \in {"idle", "sample", "expire", "claim", "body", "publish", "finally"}

\* Both protocols keep the promise of DeferredCall: answers are truthful and a
\* body never starts once its caller was answered.
Abstract == INSTANCE DeferredCall
ImplementsDeferredCall == Abstract!Spec

\* MainThread.h, PendingTasks: "tasks queued via RunAndWait but not yet
\* finished".  The counter is exactly the reads between Enter and ~Finally,
\* whichever way they ended, so it cannot drift or go negative.
InFlight == {c \in Reads : \/ pc[c] = "enqueue"
                           \/ \E i \in DOMAIN queue : queue[i] = c
                           \/ cur = <<c>>}
PendingExact == pending = Cardinality(InFlight)

\* Every call returns although the main thread may hang for ever, with the task
\* queued, half run or anywhere else: the listener thread is never lost.
CallerReturns == \A c \in Calls : (pc[c] # "idle") ~> (reply[c] # "none")
=============================================================================
