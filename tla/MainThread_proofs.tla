------------------------- MODULE MainThread_proofs --------------------------
(***************************************************************************)
(* Proofs about MainThread, for any finite set of calls.  The inductive    *)
(* invariant says which thread holds a task at each point: the caller      *)
(* alone before it is queued, the queue or the main thread until ~Finally, *)
(* and the word of the compare-and-swap in between.                        *)
(***************************************************************************)
EXTENDS MainThread, FiniteSetTheorems, TLAPS

Queued(c) == \E i \in DOMAIN queue : queue[i] = c
OnMain(c) == Queued(c) \/ cur = <<c>>

\* An answer ends the call.
Answered == \A c \in Calls : reply[c] = "none" <=> pc[c] # "done"

\* The compare-and-swap and the function agree.
StateTellsBody == \A c \in Calls :
    /\ state[c] \in {"queued", "abandoned"} <=> body[c] = "none"
    /\ ready[c] => body[c] = "done"

\* Before it is queued nobody but the caller can reach the task.
Unqueued == \A c \in Calls :
    pc[c] \in {"idle", "enqueue"} => ~OnMain(c) /\ state[c] = "queued"

\* A caller past its compare-and-swap, or gone, leaves no startable task.
Decided == \A c \in Calls :
    /\ pc[c] \in {"recheck", "dropRecheck"} => state[c] # "queued"
    /\ pc[c] = "done" /\ OnMain(c) => state[c] # "queued"

\* The main thread is in a task or idle, and what it has done of it.
MainPhase ==
    /\ mpc = "idle" <=> cur = <<>>
    /\ \A c \in Calls : cur = <<c>> =>
           /\ mpc = "body" => body[c] = "running"
           /\ mpc = "publish" => body[c] = "done"

IInv == TypeOK /\ Answered /\ StateTellsBody /\ Unqueued /\ Decided /\ MainPhase

\* A task is queued once: in the queue or in the main thread's hands.
OneCopy ==
    /\ \A i, j \in DOMAIN queue : queue[i] = queue[j] => i = j
    /\ \A c \in Calls : cur = <<c>> => ~Queued(c)

-----------------------------------------------------------------------------
(* Type correctness.                                                       *)

\* The globals and a call that has not begun have their shape.
LEMMA InitTypeOK == Init => TypeOK
  BY DEF Init, TypeOK, PCs, Replies

\* No step of a caller or of the main thread disturbs a shape.
LEMMA NextTypeOK == TypeOK /\ [Next]_vars => TypeOK'
<1> SUFFICES ASSUME TypeOK, [Next]_vars PROVE TypeOK'
  OBVIOUS
<1> USE DEF TypeOK, PCs, Replies, callerVars, taskVars, mainVars
<1>1. ASSUME NEW c \in Calls, Tick(c) PROVE TypeOK'
  BY <1>1 DEF Tick
<1>2. ASSUME NEW c \in Calls, StopWaiting(c) PROVE TypeOK'
  BY <1>2 DEF StopWaiting
<1>3. ASSUME NEW c \in Calls, RunAndWait(c) PROVE TypeOK'
  <2>1. CASE NoTaskInterface(c) BY <2>1 DEF NoTaskInterface, Return
  <2>2. CASE EnterCleared(c) BY <2>2 DEF EnterCleared, Return
  <2>3. CASE Enter(c) BY <2>3 DEF Enter, Goto
  <2>4. CASE EnterMutation(c) BY <2>4 DEF EnterMutation, Goto
  <2>5. CASE Enqueue(c) BY <2>5 DEF Enqueue, Goto
  <2>6. CASE EnqueueFails(c) BY <2>6 DEF EnqueueFails, Return
  <2>7. CASE Poll(c) BY <2>7 DEF Poll, Goto, Return
  <2>8. CASE FinalPoll(c) BY <2>8 DEF FinalPoll, Return
  <2>9. CASE Abandon(c) BY <2>9 DEF Abandon, Goto, AbandonTask
  <2>10. CASE Recheck(c) BY <2>10 DEF Recheck, Return
  <2>11. CASE DropRecheck(c) BY <2>11 DEF DropRecheck, Return
  <2> QED BY <1>3, <2>1, <2>2, <2>3, <2>4, <2>5, <2>6, <2>7, <2>8, <2>9, <2>10, <2>11
             DEF RunAndWait
<1>4. CASE Main
  <2>1. CASE MainTake BY <2>1 DEF MainTake
  <2>2. CASE MainSample BY <2>2 DEF MainSample
  <2>3. CASE MainExpire BY <2>3 DEF MainExpire, AbandonTask
  <2>4. CASE MainClaim BY <2>4 DEF MainClaim
  <2>5. CASE MainBody BY <2>5 DEF MainBody
  <2>6. CASE MainPublish BY <2>6 DEF MainPublish
  <2>7. CASE MainFinally BY <2>7 DEF MainFinally
  <2> QED BY <1>4, <2>1, <2>2, <2>3, <2>4, <2>5, <2>6, <2>7 DEF Main
<1>5. CASE UNCHANGED vars
  BY <1>5 DEF vars
<1> QED BY <1>1, <1>2, <1>3, <1>4, <1>5 DEF Next

\* Every variable keeps its shape, whatever the calls.
THEOREM TypeCorrect == Spec => []TypeOK
  BY InitTypeOK, NextTypeOK, PTL DEF Spec
-----------------------------------------------------------------------------
(* The inductive invariant.                                                *)

\* Before the first call nothing is queued and no thread holds a task.
LEMMA InitIInv == Init => IInv
  BY InitTypeOK DEF Init, IInv, Answered, StateTellsBody, Unqueued, Decided, MainPhase,
     OnMain, Queued

\* Every step of RunAndWait, Run and the task queue keeps who holds which task.
LEMMA NextIInv == IInv /\ [Next]_vars => IInv'
<1> SUFFICES ASSUME IInv, [Next]_vars
             PROVE  Answered' /\ StateTellsBody' /\ Unqueued' /\ Decided' /\ MainPhase'
  BY NextTypeOK DEF IInv
<1> USE DEF IInv, TypeOK, PCs, Replies, callerVars, taskVars, mainVars,
            Answered, StateTellsBody, Unqueued, Decided, MainPhase, OnMain, Queued
<1>0. TypeOK'
  BY NextTypeOK
<1>1. ASSUME NEW c \in Calls, Tick(c)
      PROVE  Answered' /\ StateTellsBody' /\ Unqueued' /\ Decided' /\ MainPhase'
  BY <1>1 DEF Tick
<1>2. ASSUME NEW c \in Calls, StopWaiting(c)
      PROVE  Answered' /\ StateTellsBody' /\ Unqueued' /\ Decided' /\ MainPhase'
  BY <1>2 DEF StopWaiting
<1>3. ASSUME NEW c \in Calls, RunAndWait(c)
      PROVE  Answered' /\ StateTellsBody' /\ Unqueued' /\ Decided' /\ MainPhase'
  <2>1. CASE NoTaskInterface(c) BY <2>1 DEF NoTaskInterface, Return
  <2>2. CASE EnterCleared(c) BY <2>2 DEF EnterCleared, Return
  <2>3. CASE Enter(c) BY <2>3 DEF Enter, Goto
  <2>4. CASE EnterMutation(c) BY <2>4 DEF EnterMutation, Goto
  <2>5. CASE Enqueue(c) BY <2>5 DEF Enqueue, Goto
  <2>6. CASE EnqueueFails(c) BY <2>6 DEF EnqueueFails, Return
  <2>7. CASE Poll(c) BY <2>7 DEF Poll, Goto, Return
  <2>8. CASE FinalPoll(c) BY <2>8 DEF FinalPoll, Return
  <2>9. CASE Abandon(c) BY <2>9 DEF Abandon, Goto, AbandonTask
  <2>10. CASE Recheck(c) BY <2>10 DEF Recheck, Return
  <2>11. CASE DropRecheck(c) BY <2>11 DEF DropRecheck, Return
  <2> QED BY <1>3, <2>1, <2>2, <2>3, <2>4, <2>5, <2>6, <2>7, <2>8, <2>9, <2>10, <2>11
             DEF RunAndWait
<1>4. CASE Main
  <2>1. CASE MainTake BY <2>1 DEF MainTake
  <2>2. CASE MainSample BY <2>2 DEF MainSample
  <2>3. CASE MainExpire BY <2>3 DEF MainExpire, AbandonTask
  <2>4. CASE MainClaim BY <2>4 DEF MainClaim
  <2>5. CASE MainBody BY <2>5 DEF MainBody
  <2>6. CASE MainPublish BY <2>6 DEF MainPublish
  <2>7. CASE MainFinally BY <2>7 DEF MainFinally
  <2> QED BY <1>4, <2>1, <2>2, <2>3, <2>4, <2>5, <2>6, <2>7 DEF Main
<1>5. CASE UNCHANGED vars
  BY <1>5 DEF vars
<1> QED BY <1>1, <1>2, <1>3, <1>4, <1>5 DEF Next

\* The inductive invariant holds of every behaviour of the two protocols.
LEMMA Invariant == Spec => []IInv
  BY InitIInv, NextIInv, PTL DEF Spec

(* The refinement.                                                         *)

\* Every step starts, ends or answers one call as DeferredCall allows, or is
\* none of its business.
LEMMA NextRefines == IInv /\ [Next]_vars => [Abstract!Next]_Abstract!vars
<1> SUFFICES ASSUME IInv, [Next]_vars PROVE [Abstract!Next]_Abstract!vars
  OBVIOUS
<1> USE DEF IInv, TypeOK, PCs, Replies, callerVars, taskVars, mainVars,
            Answered, StateTellsBody, Unqueued, Decided, MainPhase, OnMain, Queued
<1> USE DEF Abstract!vars
<1>1. ASSUME NEW c \in Calls, Tick(c) \/ StopWaiting(c)
      PROVE  UNCHANGED Abstract!vars
  BY <1>1 DEF Tick, StopWaiting
<1>2. ASSUME NEW c \in Calls, RunAndWait(c)
      PROVE  Abstract!Answer(c) \/ UNCHANGED Abstract!vars
  <2> USE DEF Abstract!Answer, Abstract!Truthful
  <2>1. CASE NoTaskInterface(c) BY <2>1 DEF NoTaskInterface, Return
  <2>2. CASE EnterCleared(c) BY <2>2 DEF EnterCleared, Return
  <2>3. CASE Enter(c) BY <2>3 DEF Enter, Goto
  <2>4. CASE EnterMutation(c) BY <2>4 DEF EnterMutation, Goto
  <2>5. CASE Enqueue(c) BY <2>5 DEF Enqueue, Goto
  <2>6. CASE EnqueueFails(c) BY <2>6 DEF EnqueueFails, Return
  <2>7. CASE Poll(c) BY <2>7 DEF Poll, Goto, Return
  <2>8. CASE FinalPoll(c) BY <2>8 DEF FinalPoll, Return
  <2>9. CASE Abandon(c) BY <2>9 DEF Abandon, Goto, AbandonTask
  <2>10. CASE Recheck(c) BY <2>10 DEF Recheck, Return
  <2>11. CASE DropRecheck(c) BY <2>11 DEF DropRecheck, Return
  <2> QED BY <1>2, <2>1, <2>2, <2>3, <2>4, <2>5, <2>6, <2>7, <2>8, <2>9, <2>10, <2>11
             DEF RunAndWait
<1>3. CASE MainClaim
  <2> PICK c \in Calls : cur = <<c>>
    BY <1>3 DEF MainClaim
  <2>1. CASE state[c] = "queued"
    BY <1>3, <2>1 DEF MainClaim, Abstract!Next, Abstract!Start
  <2>2. CASE state[c] # "queued"
    BY <1>3, <2>2 DEF MainClaim
  <2> QED BY <2>1, <2>2
<1>4. CASE MainBody
  <2> PICK c \in Calls : cur = <<c>>
    BY <1>4 DEF MainBody
  <2> QED BY <1>4 DEF MainBody, Abstract!Next, Abstract!Finish
<1>5. ASSUME MainTake \/ MainSample \/ MainExpire \/ MainPublish \/ MainFinally
      PROVE  UNCHANGED Abstract!vars
  BY <1>5 DEF MainTake, MainSample, MainExpire, MainPublish, MainFinally
<1>6. CASE UNCHANGED vars
  BY <1>6 DEF vars
<1> QED BY <1>1, <1>2, <1>3, <1>4, <1>5, <1>6 DEF Next, Main, Abstract!Next

\* Both protocols implement DeferredCall: answers are truthful, and a body
\* never starts once its caller has been answered.
THEOREM Refinement == Spec => ImplementsDeferredCall
<1>1. Init => Abstract!Init
  BY DEF Init, Abstract!Init
<1> QED BY <1>1, NextRefines, Invariant, PTL DEF Spec, ImplementsDeferredCall, Abstract!Spec

-----------------------------------------------------------------------------
(* The counter.                                                            *)

\* A task is handed from the caller to the queue to the main thread, never copied.
LEMMA NextOneCopy == IInv /\ OneCopy /\ [Next]_vars => OneCopy'
<1> SUFFICES ASSUME IInv, OneCopy, [Next]_vars PROVE OneCopy'
  OBVIOUS
<1> USE DEF IInv, TypeOK, callerVars, taskVars, mainVars, OneCopy, Queued
<1>1. ASSUME NEW c \in Calls, Enqueue(c) PROVE OneCopy'
  BY <1>1 DEF Enqueue, Goto, Unqueued, OnMain
<1>2. CASE MainTake
  <2>1. /\ queue' = Tail(queue)
        /\ cur' = <<queue[1]>>
        /\ DOMAIN queue' = 1..Len(queue)-1
        /\ \A i \in DOMAIN queue' : queue'[i] = queue[i+1] /\ i+1 \in DOMAIN queue
    BY <1>2 DEF MainTake
  <2>2. 1 \in DOMAIN queue
    BY <1>2 DEF MainTake
  <2>3. \A i \in DOMAIN queue' : i \in Nat /\ i + 1 # 1
    BY <2>1
  <2>4. ASSUME NEW i \in DOMAIN queue', NEW j \in DOMAIN queue', queue'[i] = queue'[j]
        PROVE  i = j
    <3>1. i + 1 = j + 1 BY <2>1, <2>4
    <3> QED BY <3>1, <2>3
  <2>5. ASSUME NEW c \in Calls, cur' = <<c>> PROVE ~(Queued(c)')
    BY <2>1, <2>2, <2>3, <2>5
  <2> QED BY <2>4, <2>5
<1>3. CASE MainFinally
  BY <1>3 DEF MainFinally
<1>4. CASE UNCHANGED <<queue, cur>>
  BY <1>4
<1> QED
  BY <1>1, <1>2, <1>3, <1>4
  DEF Next, vars, Main, RunAndWait, Tick, StopWaiting, NoTaskInterface, EnterCleared, Enter,
      EnterMutation, EnqueueFails, Poll, FinalPoll, Abandon, Recheck, DropRecheck,
      MainSample, MainExpire, MainClaim, MainBody, MainPublish

\* The helper facts about the set the counter counts.
LEMMA InFlightFinite == IsFiniteSet(InFlight)
  BY CallsAssumption, FS_Subset DEF InFlight

\* RunAndWait's increment keeps the count when it adds one task in flight.
LEMMA CountAdd ==
  ASSUME PendingExact, pending \in Int, NEW c \in Reads, c \notin InFlight,
         InFlight' = InFlight \union {c}, pending' = pending + 1
  PROVE  PendingExact'
  BY InFlightFinite, FS_AddElement DEF PendingExact

\* A decrement keeps the count when it takes one task in flight away.
LEMMA CountRemove ==
  ASSUME PendingExact, pending \in Int, NEW c \in Reads, c \in InFlight,
         InFlight' = InFlight \ {c}, pending' = pending - 1
  PROVE  PendingExact'
  BY InFlightFinite, FS_RemoveElement DEF PendingExact

\* Every step moves the counter exactly with the tasks it counts.
LEMMA NextPendingExact ==
  IInv /\ OneCopy /\ PendingExact /\ [Next]_vars => PendingExact'
<1> SUFFICES ASSUME IInv, OneCopy, PendingExact, [Next]_vars PROVE PendingExact'
  OBVIOUS
<1> USE DEF IInv, TypeOK, callerVars, taskVars, mainVars, Calls
<1>1. ASSUME NEW c \in Reads, Enter(c) PROVE PendingExact'
  <2>1. c \notin InFlight
    BY <1>1 DEF Enter, Goto, InFlight, Unqueued, OnMain, Queued
  <2>2. InFlight' = InFlight \union {c}
    BY <1>1 DEF Enter, Goto, InFlight, PCs
  <2> QED BY <1>1, <2>1, <2>2, CountAdd DEF Enter
<1>2. ASSUME NEW c \in Reads, EnqueueFails(c) PROVE PendingExact'
  <2>1. c \in InFlight
    BY <1>2 DEF EnqueueFails, InFlight
  <2>2. InFlight' = InFlight \ {c}
    BY <1>2 DEF EnqueueFails, Return, InFlight, PCs, Unqueued, OnMain, Queued
  <2> QED BY <1>2, <2>1, <2>2, CountRemove DEF EnqueueFails
<1>3. ASSUME NEW c \in Mutations, EnqueueFails(c) PROVE PendingExact'
  <2>1. c \notin Reads
    BY CallsAssumption
  <2>2. InFlight' = InFlight
    BY <1>3, <2>1 DEF EnqueueFails, Return, InFlight, PCs
  <2> QED BY <1>3, <2>1, <2>2 DEF EnqueueFails, PendingExact
<1>4. ASSUME NEW c \in Calls, Enqueue(c) PROVE PendingExact'
  <2>1. \A d \in Calls : (\E i \in DOMAIN queue' : queue'[i] = d)
                          <=> d = c \/ \E i \in DOMAIN queue : queue[i] = d
    <3>1. DOMAIN queue' = DOMAIN queue \union {Len(queue) + 1}
      BY <1>4 DEF Enqueue
    <3>2. queue'[Len(queue) + 1] = c /\ \A i \in DOMAIN queue : queue'[i] = queue[i]
      BY <1>4 DEF Enqueue
    <3> QED BY <3>1, <3>2
  <2>2. InFlight' = InFlight
    BY <1>4, <2>1 DEF Enqueue, Goto, InFlight, PCs
  <2> QED BY <1>4, <2>2 DEF Enqueue, PendingExact
<1>5. CASE MainTake
  <2>1. /\ cur = <<>> /\ cur' = <<queue[1]>> /\ pending' = pending /\ pc' = pc
        /\ queue' = Tail(queue)
        /\ DOMAIN queue = 1..Len(queue) /\ Len(queue) \in Nat \ {0}
    BY <1>5 DEF MainTake
  <2>2. \A d \in Calls : (\E i \in DOMAIN queue : queue[i] = d)
             <=> (\E i \in DOMAIN queue' : queue'[i] = d) \/ queue[1] = d
    <3>1. /\ DOMAIN queue' = 1..Len(queue)-1
          /\ \A i \in DOMAIN queue' : queue'[i] = queue[i+1]
      BY <2>1
    <3>2. \A i \in DOMAIN queue : i = 1 \/ (i - 1 \in DOMAIN queue' /\ (i - 1) + 1 = i)
      BY <2>1, <3>1
    <3>3. \A i \in DOMAIN queue' : i + 1 \in DOMAIN queue
      BY <2>1, <3>1
    <3>4. 1 \in DOMAIN queue
      BY <2>1
    <3> QED BY <3>1, <3>2, <3>3, <3>4
  <2>3. InFlight' = InFlight
    BY <2>1, <2>2 DEF InFlight
  <2> QED BY <2>1, <2>3 DEF PendingExact
<1>6. CASE MainFinally
  <2> PICK c \in Calls : cur = <<c>>
    BY <1>6 DEF MainFinally, MainPhase
  <2>1. CASE c \in Reads
    <3>1. c \in InFlight
      BY <2>1 DEF InFlight
    <3>2. InFlight' = InFlight \ {c}
      BY <1>6 DEF MainFinally, InFlight, OneCopy, Queued, Unqueued, OnMain
    <3> QED BY <1>6, <2>1, <3>1, <3>2, CountRemove DEF MainFinally
  <2>2. CASE c \notin Reads
    <3>1. InFlight' = InFlight
      BY <1>6, <2>2 DEF MainFinally, InFlight
    <3> QED BY <1>6, <2>2, <3>1 DEF MainFinally, PendingExact
  <2> QED BY <2>1, <2>2
<1>7. ASSUME UNCHANGED <<queue, cur, pending>>,
             \A c \in Reads : pc'[c] = "enqueue" <=> pc[c] = "enqueue"
      PROVE  PendingExact'
  <2>1. InFlight' = InFlight
    BY <1>7 DEF InFlight
  <2> QED BY <1>7, <2>1 DEF PendingExact
<1>8. ASSUME NEW c \in Calls,
             \/ NoTaskInterface(c) \/ EnterCleared(c) \/ EnterMutation(c) \/ Poll(c)
             \/ FinalPoll(c) \/ Abandon(c) \/ Recheck(c) \/ DropRecheck(c)
      PROVE  PendingExact'
  BY <1>7, <1>8, CallsAssumption
  DEF NoTaskInterface, EnterCleared, EnterMutation, Poll, FinalPoll, Abandon,
      Recheck, DropRecheck, Return, Goto
<1>9. ASSUME \/ \E c \in Calls : Tick(c) \/ StopWaiting(c)
             \/ MainSample \/ MainExpire \/ MainClaim \/ MainBody \/ MainPublish
             \/ UNCHANGED vars
      PROVE  PendingExact'
  BY <1>7, <1>9
  DEF Tick, StopWaiting, MainSample, MainExpire, MainClaim, MainBody, MainPublish, vars
<1>10. ASSUME NEW c \in Calls, RunAndWait(c) PROVE PendingExact'
  BY <1>1, <1>2, <1>3, <1>4, <1>8, <1>10 DEF RunAndWait, Enter
<1> QED BY <1>5, <1>6, <1>9, <1>10 DEF Next, Main

\* PendingTasks() is exact for any number of calls, failed, abandoned or run.
THEOREM CounterExact == Spec => []PendingExact
<1>1. Init => OneCopy /\ PendingExact
  <2>1. Init => InFlight = {}
    BY DEF Init, InFlight, Calls
  <2>2. Init => PendingExact
    BY <2>1, FS_EmptySet DEF Init, PendingExact
  <2>3. Init => OneCopy
    BY DEF Init, OneCopy, Queued
  <2> QED BY <2>2, <2>3
<1> QED BY <1>1, NextOneCopy, NextPendingExact, Invariant, PTL DEF Spec
=============================================================================
