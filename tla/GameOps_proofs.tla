--------------------------- MODULE GameOps_proofs ---------------------------
(***************************************************************************)
(* Proofs about GameOps, for any set of requests, either game and a player *)
(* who does as much as one likes.  The inductive invariant ties the slot   *)
(* to the two threads that race for a request: until its work is claimed   *)
(* the slot is reserved and only its listener may end it, afterwards only  *)
(* the main thread and the engine.                                         *)
(***************************************************************************)
EXTENDS GameOps, SequenceTheorems, TLAPS

In(q, r) == \E i \in DOMAIN q : q[i] = r

Once(q) == \A i, j \in DOMAIN q : q[i] = q[j] => i = j

\* The main thread is in r's task.
Running(r) == mpc # "idle" /\ Task = r

\* A task is queued once, by a listener that has submitted it.
QueueInv ==
    /\ Once(queue)
    /\ \A r \in Requests : In(queue, r) =>
           pc[r] \notin {"idle", "begin", "submit"} /\ reply[r] # "refused"

\* The phase of the work tells who decided about it, and what the caller may
\* have been told.
WorkInv == \A r \in Requests :
    /\ reply[r] = "none" <=> pc[r] # "done"
    /\ work[r] = "running" <=> Running(r)
    /\ work[r] = "finished" <=> ready[r]
    /\ work[r] = "cancelled" <=> pc[r] = "release" \/ reply[r] = "notStarted"
    /\ pc[r] \in {"idle", "begin", "submit"} \/ reply[r] = "refused" => work[r] = "pending"
    /\ reply[r] \in {"result", "uncertain"} => work[r] \in {"running", "finished"}
    /\ reply[r] = "result" => ready[r]

\* The latest operation is one that entered the slot; as long as nobody has
\* claimed or given up its work it is reserved.
SlotInv == \A r \in Requests : op.id = r =>
    /\ pc[r] \notin {"idle", "begin"}
    /\ pc[r] # "done" /\ work[r] \in {"pending", "cancelled"} => op.phase = "reserved"
    /\ op.active /\ op.phase # "reserved" => work[r] \in {"running", "finished"}
    /\ reply[r] = "refused" => ~op.active
    /\ reply[r] = "notStarted" => op.phase = "cancelled"
    /\ (ready[r] \/ (Running(r) /\ mpc = "set")) /\ op.active => result[r] = "accepted"

NoOperationInv == op.id = NoRequest => op = NoOperation

\* A request that has asked for the slot says what for.
KindInv == \A r \in Requests : pc[r] # "idle" => kind[r] \in {"save", "load", "advanceTime"}

\* The main thread is never in a task that is not there.
TaskInv == mpc # "idle" => queue # <<>>

TypeInv == TypeOK /\ KindInv /\ TaskInv

IInv == TypeInv /\ QueueInv /\ WorkInv /\ SlotInv /\ NoOperationInv

-----------------------------------------------------------------------------
(* The task queue, as a sequence without repetitions.                      *)

\* The head of a queue is in it.
LEMMA HeadIn ==
  ASSUME NEW q \in Seq(Requests), q # <<>>
  PROVE  Head(q) \in Requests /\ In(q, Head(q))
<1>1. 1 \in DOMAIN q /\ Head(q) = q[1]
  OBVIOUS
<1> QED BY <1>1 DEF In

\* Taking the head off leaves the others, once each.
LEMMA TailOnce ==
  ASSUME NEW q \in Seq(Requests), q # <<>>, Once(q)
  PROVE  Once(Tail(q)) /\ \A r \in Requests : In(Tail(q), r) <=> In(q, r) /\ r # Head(q)
<1>1. /\ DOMAIN q = 1..Len(q) /\ Len(q) \in Nat \ {0} /\ Head(q) = q[1]
      /\ DOMAIN Tail(q) = 1..Len(q)-1
      /\ \A i \in DOMAIN Tail(q) : Tail(q)[i] = q[i+1]
  OBVIOUS
<1>2. Once(Tail(q))
  <2> SUFFICES ASSUME NEW i \in DOMAIN Tail(q), NEW j \in DOMAIN Tail(q), Tail(q)[i] = Tail(q)[j]
               PROVE  i = j
    BY DEF Once
  <2>1. i \in Nat /\ j \in Nat /\ i+1 \in DOMAIN q /\ j+1 \in DOMAIN q /\ q[i+1] = q[j+1]
    BY <1>1
  <2>2. i+1 = j+1
    BY <2>1 DEF Once
  <2> QED BY <2>1, <2>2
<1>3. ASSUME NEW r \in Requests, In(Tail(q), r) PROVE In(q, r) /\ r # Head(q)
  <2>1. PICK i \in DOMAIN Tail(q) : Tail(q)[i] = r
    BY <1>3 DEF In
  <2>2. i \in Nat /\ i >= 1 /\ i+1 \in DOMAIN q /\ 1 \in DOMAIN q /\ q[i+1] = r
    BY <1>1, <2>1
  <2> QED BY <1>1, <2>2 DEF In, Once
<1>4. ASSUME NEW r \in Requests, In(q, r), r # Head(q) PROVE In(Tail(q), r)
  <2>1. PICK i \in DOMAIN q : q[i] = r
    BY <1>4 DEF In
  <2>2. i-1 \in DOMAIN Tail(q) /\ Tail(q)[i-1] = r
    BY <1>1, <1>4, <2>1
  <2> QED BY <2>2 DEF In
<1> QED BY <1>2, <1>3, <1>4

\* Queueing what is not queued keeps every task once, and the head.
LEMMA AppendOnce ==
  ASSUME NEW q \in Seq(Requests), NEW r \in Requests, Once(q), ~In(q, r)
  PROVE  /\ Once(Append(q, r))
         /\ \A t \in Requests : In(Append(q, r), t) <=> In(q, t) \/ t = r
         /\ q # <<>> => Head(Append(q, r)) = Head(q)
<1>1. /\ DOMAIN Append(q, r) = DOMAIN q \union {Len(q)+1}
      /\ Append(q, r)[Len(q)+1] = r
      /\ \A i \in DOMAIN q : Append(q, r)[i] = q[i]
  OBVIOUS
<1>2. q # <<>> => Head(Append(q, r)) = Head(q)
  OBVIOUS
<1> QED BY <1>1, <1>2 DEF Once, In

-----------------------------------------------------------------------------
(* The tracker's methods, as facts about the value of the slot.            *)

\* A new operation has the shape of one.
LEMMA BeginTypeOK ==
  ASSUME NEW o \in Operations, NEW r \in Requests, NEW k \in Kinds, NEW c \in Nat
  PROVE  TryBegin(o, r, k, c) \in Operations
  BY DEF TryBegin, Operations, ActivePhases

\* Every method that keeps or ends an operation gives the slot its shape.
LEMMA TrackerTypeOK ==
  ASSUME NEW o \in Operations, NEW r \in Requests
  PROVE  /\ MarkDispatching(o, r) \in Operations
         /\ MarkQueued(o, r) \in Operations
         /\ MarkDispatchFailed(o, r) \in Operations
         /\ MarkCancelled(o, r) \in Operations
         /\ MarkCompleted(o, r, TRUE) \in Operations
<1> USE DEF Operations, ActivePhases, TerminalPhases, Holds, End
<1>1. MarkDispatching(o, r) \in Operations
  BY DEF MarkDispatching, CanDispatch
<1>2. MarkQueued(o, r) \in Operations
  BY DEF MarkQueued
<1>3. MarkDispatchFailed(o, r) \in Operations
  BY DEF MarkDispatchFailed
<1>4. MarkCancelled(o, r) \in Operations
  BY DEF MarkCancelled
<1>5. MarkCompleted(o, r, TRUE) \in Operations
  BY DEF MarkCompleted, CanComplete
<1> QED BY <1>1, <1>2, <1>3, <1>4, <1>5

\* A notification, whatever it says, gives the slot its shape.
LEMMA ObserveTypeOK ==
  ASSUME NEW o \in Operations, NEW k, NEW n, NEW c, NEW t \in TerminalPhases
  PROVE  ObserveStarted(o, k, n, c) \in Operations /\ ObserveCompleted(o, k, n, t, c) \in Operations
<1> USE DEF Operations, ActivePhases, TerminalPhases, Concerns, End
<1>1. ObserveStarted(o, k, n, c) \in Operations
  BY DEF ObserveStarted
<1>2. ObserveCompleted(o, k, n, t, c) \in Operations
  BY DEF ObserveCompleted
<1> QED BY <1>1, <1>2

\* From o to p the operation stays, in phase t: it keeps the slot, or gives it up.
Moved(o, p, t) == p.id = o.id /\ p.phase = t /\ p.active /\ o.active
Ended(o, p, t) == p.id = o.id /\ p.phase = t /\ ~p.active /\ o.active

\* What a listener and the main thread do to the slot.
LEMMA TrackerEffect ==
  ASSUME NEW o \in Operations, NEW r \in Requests
  PROVE  /\ IF CanDispatch(o, r) THEN Moved(o, MarkDispatching(o, r), "dispatching")
            ELSE MarkDispatching(o, r) = o
         /\ IF Holds(o, r) /\ o.phase = "dispatching" THEN Moved(o, MarkQueued(o, r), "queued")
            ELSE MarkQueued(o, r) = o
         /\ IF Holds(o, r) THEN Ended(o, MarkDispatchFailed(o, r), "failed")
            ELSE MarkDispatchFailed(o, r) = o
         /\ IF Holds(o, r) /\ o.phase = "reserved" THEN Ended(o, MarkCancelled(o, r), "cancelled")
            ELSE MarkCancelled(o, r) = o
         /\ CanComplete(o, r) => Ended(o, MarkCompleted(o, r, TRUE), "succeeded")
<1> USE DEF Operations, Holds, End, Moved, Ended
<1>1. IF CanDispatch(o, r) THEN Moved(o, MarkDispatching(o, r), "dispatching")
      ELSE MarkDispatching(o, r) = o
  BY DEF MarkDispatching, CanDispatch
<1>2. IF Holds(o, r) /\ o.phase = "dispatching" THEN Moved(o, MarkQueued(o, r), "queued")
      ELSE MarkQueued(o, r) = o
  BY DEF MarkQueued
<1>3. IF Holds(o, r) THEN Ended(o, MarkDispatchFailed(o, r), "failed")
      ELSE MarkDispatchFailed(o, r) = o
  BY DEF MarkDispatchFailed
<1>4. IF Holds(o, r) /\ o.phase = "reserved" THEN Ended(o, MarkCancelled(o, r), "cancelled")
      ELSE MarkCancelled(o, r) = o
  BY DEF MarkCancelled
<1>5. CanComplete(o, r) => Ended(o, MarkCompleted(o, r, TRUE), "succeeded")
  BY DEF MarkCompleted, CanComplete
<1> HIDE DEF Holds, Moved, Ended
<1> QED BY <1>1, <1>2, <1>3, <1>4, <1>5

\* A notification concerns an operation that was dispatched, or nothing happens.
LEMMA ObserveEffect ==
  ASSUME NEW o \in Operations, NEW k, NEW n, NEW c, NEW t
  PROVE  /\ \/ ObserveStarted(o, k, n, c) = o
            \/ o.phase # "reserved" /\ Moved(o, ObserveStarted(o, k, n, c), "started")
         /\ \/ ObserveCompleted(o, k, n, t, c) = o
            \/ o.phase # "reserved" /\ Ended(o, ObserveCompleted(o, k, n, t, c), t)
<1> USE DEF Operations, Concerns, End, Moved, Ended
<1>1. \/ ObserveStarted(o, k, n, c) = o
      \/ o.phase # "reserved" /\ Moved(o, ObserveStarted(o, k, n, c), "started")
  BY DEF ObserveStarted
<1>2. \/ ObserveCompleted(o, k, n, t, c) = o
      \/ o.phase # "reserved" /\ Ended(o, ObserveCompleted(o, k, n, t, c), t)
  BY DEF ObserveCompleted
<1> HIDE DEF Moved, Ended
<1> QED BY <1>1, <1>2

\* The phase tells whether the slot is held, and by whom.
LEMMA PhaseTells ==
  ASSUME NEW o \in Operations
  PROVE  /\ o.active <=> o.phase \in ActivePhases
         /\ o.active => o.id \in Requests
  BY DEF Operations, ActivePhases, TerminalPhases

-----------------------------------------------------------------------------
(* Type correctness.                                                       *)

\* No request has asked for anything, and the engine has nothing to do.
LEMMA InitTypeInv == Init => TypeInv
<1>1. NoOperation \in Operations
  BY DEF NoOperation, Operations, TerminalPhases, Kinds
<1>2. Idle \in NativeRequests
  BY DEF Idle, NativeRequests, SaveNames
<1>3. ASSUME Init PROVE TypeOK
  <2>1. op \in Operations /\ native \in NativeRequests
    BY <1>1, <1>2, <1>3 DEF Init
  <2>2. player \in 0..MaxPlayer
    BY <1>3, BoundsAssumption DEF Init
  <2>3. game \in {"fallout4", "skyrimse"} /\ loading \in BOOLEAN /\ menu \in BOOLEAN
    BY <1>3 DEF Init
  <2>4. /\ pc \in [Requests -> {"idle", "begin", "submit", "wait", "cancel", "release", "done"}]
        /\ kind \in [Requests -> Kinds \union {"none"}]
        /\ cursor \in [Requests -> Nat]
    BY <1>3 DEF Init
  <2>5. /\ work \in [Requests -> {"pending", "running", "cancelled", "finished"}]
        /\ result \in [Requests -> {"none", "accepted", "completed", "rejected"}]
        /\ ready \in [Requests -> BOOLEAN]
        /\ reply \in [Requests -> {"none", "result", "notStarted", "uncertain", "refused"}]
    BY <1>3 DEF Init
  <2>6. queue \in Seq(Requests) /\ stuck \in SUBSET Requests
    BY <1>3 DEF Init
  <2> QED BY <1>3, <2>1, <2>2, <2>3, <2>4, <2>5, <2>6 DEF Init, TypeOK
<1> QED BY <1>3 DEF Init, TypeInv, KindInv, TaskInv

\* No step of a listener, the main thread, the engine or the player disturbs a shape.
LEMMA NextTypeInv == TypeInv /\ [Next]_vars => TypeInv'
<1> SUFFICES ASSUME TypeInv, [Next]_vars PROVE TypeInv'
  OBVIOUS
<1> USE DEF TypeInv, TypeOK, KindInv, TaskInv, listenerVars, workVars, mainVars, stateVars, nativeVars
<1>1. ASSUME NEW r \in Requests, DispatchTracked(r) PROVE TypeInv'
  <2>1. CASE ReadCursor(r)
    <3>1. PICK k \in Asks[r] : kind' = [kind EXCEPT ![r] = k]
      BY <2>1 DEF ReadCursor
    <3>2. k \in {"save", "load", "advanceTime"}
      BY AsksAssumption
    <3>3. k \in Kinds
      BY <3>2 DEF Kinds
    <3> QED BY <2>1, <3>1, <3>2, <3>3 DEF ReadCursor, Goto
  <2>2. CASE Begin(r)
    <3>1. kind[r] \in Kinds /\ cursor[r] \in Nat
      BY <2>2 DEF Begin, Kinds
    <3>2. op' \in Operations
      BY <2>2, <3>1, BeginTypeOK DEF Begin
    <3>3. /\ pc' \in [Requests -> {"idle", "begin", "submit", "wait", "cancel", "release", "done"}]
          /\ reply' \in [Requests -> {"none", "result", "notStarted", "uncertain", "refused"}]
          /\ \A q \in Requests : pc'[q] # "idle" => pc[q] # "idle"
      <4>1. CASE op.active BY <2>2, <4>1, ZenonT(60) DEF Begin, Return
      <4>2. CASE ~op.active BY <2>2, <4>2 DEF Begin, Return
      <4> QED BY <4>1, <4>2
    <3> QED BY <2>2, <3>2, <3>3 DEF Begin
  <2>3. CASE Submit(r) BY <2>3 DEF Submit, Goto
  <2>4. CASE SubmitFails(r) BY <2>4, TrackerTypeOK, ZenonT(60) DEF SubmitFails, Return
  <2>5. CASE Answer(r) BY <2>5 DEF Answer, Return
  <2>6. CASE Timeout(r) BY <2>6 DEF Timeout, Goto
  <2>7. CASE Cancel(r)
    <3>1. CASE work[r] = "pending" BY <2>7, <3>1, ZenonT(60) DEF Cancel
    <3>2. CASE work[r] # "pending" BY <2>7, <3>2, ZenonT(60) DEF Cancel, Return
    <3> QED BY <3>1, <3>2
  <2>8. CASE Release(r) BY <2>8, TrackerTypeOK, ZenonT(60) DEF Release, Return
  <2> QED BY <1>1, <2>1, <2>2, <2>3, <2>4, <2>5, <2>6, <2>7, <2>8 DEF DispatchTracked
<1>2. CASE Main
  <2>0. queue # <<>> => Task \in Requests /\ Tail(queue) \in Seq(Requests)
    BY DEF Task
  <2>1. CASE Claim
    <3>1. CASE work[Task] = "pending" BY <2>0, <2>1, <3>1, ZenonT(60) DEF Claim
    <3>2. CASE work[Task] # "pending" BY <2>0, <2>1, <3>2 DEF Claim
    <3> QED BY <3>1, <3>2
  <2>2. CASE MarkTask BY <2>0, <2>2, TrackerTypeOK, ZenonT(60) DEF MarkTask
  <2>3. CASE DispatchRefused BY <2>0, <2>3 DEF DispatchRefused
  <2>4. ASSUME NEW names \in SUBSET SaveNames, QueueNativeOperation(names) PROVE TypeInv'
    <3>1. native' \in NativeRequests
      BY <2>0, <2>4 DEF QueueNativeOperation, NativeRequests
    <3> QED BY <2>0, <2>4, <3>1 DEF QueueNativeOperation
  <2>5. CASE FalloutDispatchNative \/ SkyrimDispatchNative
    <3>1. Task \in Requests
      BY <2>0, <2>5 DEF FalloutDispatchNative, SkyrimDispatchNative, QueueNativeOperation
    <3>2. {Name[Task], NoName} \in SUBSET SaveNames /\ {Name[Task]} \in SUBSET SaveNames
      BY <3>1 DEF SaveNames
    <3> QED BY <2>4, <2>5, <3>2 DEF FalloutDispatchNative, SkyrimDispatchNative
  <2>6. CASE DispatchCalendar BY <2>0, <2>6 DEF DispatchCalendar
  <2>7. CASE Settle
    <3>1. CASE result[Task] = "accepted"
      BY <2>0, <2>7, <3>1, TrackerTypeOK, ZenonT(60) DEF Settle
    <3>2. CASE result[Task] = "completed" /\ CanComplete(op, Task)
      BY <2>0, <2>7, <3>2, TrackerTypeOK, ZenonT(60) DEF Settle
    <3>3. CASE result[Task] # "accepted" /\ ~(result[Task] = "completed" /\ CanComplete(op, Task))
      <4>1. /\ op' = MarkDispatchFailed(op, Task)
            /\ result' = [result EXCEPT ![Task] = "rejected"]
        BY <2>7, <3>3 DEF Settle
      <4> QED BY <2>0, <2>7, <4>1, TrackerTypeOK DEF Settle
    <3> QED BY <3>1, <3>2, <3>3
  <2>8. CASE SetValue BY <2>0, <2>8 DEF SetValue
  <2> QED BY <1>2, <2>1, <2>2, <2>3, <2>5, <2>6, <2>7, <2>8 DEF Main
<1>3. CASE Engine
  <2>1. CASE PreMessage
    <3>1. loading' \in BOOLEAN
      BY <2>1 DEF PreMessage
    <3>2. CASE native.kind = "load" BY <2>1, <3>1, <3>2 DEF PreMessage
    <3>3. CASE native.kind # "load" BY <2>1, <3>1, <3>3 DEF PreMessage
    <3> QED BY <3>2, <3>3
  <2>2. CASE SaveMessage BY <2>2 DEF SaveMessage
  <2>3. CASE MessageCursor BY <2>3 DEF MessageCursor
  <2>4. CASE PreObserve
    <3>1. op' \in Operations
      BY <2>4, ObserveTypeOK DEF PreObserve, TerminalPhases
    <3> QED BY <2>4, <3>1 DEF PreObserve
  <2>5. CASE PostMessage
    <3>1. loading' \in BOOLEAN
      BY <2>5 DEF PostMessage
    <3>2. CASE native.kind = "load" BY <2>5, <3>1, <3>2 DEF PostMessage
    <3>3. CASE native.kind # "load" BY <2>5, <3>1, <3>3 DEF PostMessage
    <3> QED BY <3>2, <3>3
  <2>6. CASE PostObserve
    <3>1. op' \in Operations
      BY <2>6, ObserveTypeOK DEF PostObserve, TerminalPhases
    <3>2. Idle \in NativeRequests
      BY DEF Idle, NativeRequests, SaveNames
    <3> QED BY <2>6, <3>1, <3>2 DEF PostObserve
  <2> QED BY <1>3, <2>1, <2>2, <2>3, <2>4, <2>5, <2>6 DEF Engine
<1>4. CASE Player
  <2>1. CASE UserRequest
    <3>1. native' \in NativeRequests
      BY <2>1 DEF UserRequest, NativeRequests, SaveNames
    <3>2. player' \in 0..MaxPlayer
      BY <2>1, BoundsAssumption DEF UserRequest
    <3> QED BY <2>1, <3>1, <3>2 DEF UserRequest
  <2>2. ASSUME NEW inProgress \in BOOLEAN, MenuSink(inProgress) PROVE TypeInv'
    <3>1. player' \in 0..MaxPlayer
      BY <2>2, BoundsAssumption DEF MenuSink
    <3> QED BY <2>2, <3>1 DEF MenuSink
  <2>3. CASE FalloutLoadingMenu \/ SkyrimLoadingMenu
    <3>1. (~menu) \in BOOLEAN
      BY Zenon
    <3>2. (loading \/ ~menu) \in BOOLEAN
      BY Zenon
    <3> QED BY <2>2, <2>3, <3>1, <3>2 DEF FalloutLoadingMenu, SkyrimLoadingMenu
  <2>4. ASSUME NEW inProgress \in BOOLEAN, NewGame(inProgress) PROVE TypeInv'
    <3>1. player' \in 0..MaxPlayer
      BY <2>4, BoundsAssumption DEF NewGame
    <3> QED BY <2>4, <3>1 DEF NewGame
  <2> QED BY <1>4, <2>1, <2>3, <2>4 DEF Player, FalloutNewGame, SkyrimNewGame
<1>5. CASE EngineDrops
  <2>1. Idle \in NativeRequests
    BY DEF Idle, NativeRequests, SaveNames
  <2> QED BY <1>5, <2>1 DEF EngineDrops
<1>6. CASE FalloutReset \/ SkyrimReset
  <2>1. NoOperation \in Operations
    BY DEF NoOperation, Operations, TerminalPhases, Kinds
  <2> QED BY <1>6, <2>1, ZenonT(60) DEF FalloutReset, SkyrimReset, Reset
<1>7. CASE UNCHANGED vars
  BY <1>7 DEF vars
<1> QED BY <1>1, <1>2, <1>3, <1>4, <1>5, <1>6, <1>7 DEF Next
-----------------------------------------------------------------------------
(* The inductive invariant.                                                *)

\* Listeners queue a task once and the main thread takes it off.
LEMMA NextQueueInv == IInv /\ [Next]_vars => QueueInv'
<1> SUFFICES ASSUME IInv, [Next]_vars PROVE QueueInv'
  OBVIOUS
<1> USE DEF IInv, TypeInv, TypeOK, QueueInv
<1>1. ASSUME NEW r \in Requests, DispatchTracked(r) PROVE QueueInv'
  <2>1. CASE ReadCursor(r) BY <2>1 DEF ReadCursor, Goto, mainVars
  <2>2. CASE Begin(r)
    <3>1. CASE op.active BY <2>2, <3>1 DEF Begin, Return, mainVars
    <3>2. CASE ~op.active BY <2>2, <3>2 DEF Begin, mainVars
    <3> QED BY <3>1, <3>2
  <2>3. CASE Submit(r)
    <3>1. ~In(queue, r) /\ reply[r] # "refused"
      BY <2>3 DEF Submit, Goto, WorkInv
    <3>2. queue' = Append(queue, r)
      BY <2>3 DEF Submit
    <3>3. Once(queue') /\ \A t \in Requests : In(queue', t) <=> In(queue, t) \/ t = r
      BY <3>1, <3>2, AppendOnce
    <3>4. pc' = [pc EXCEPT ![r] = "wait"] /\ reply' = reply
      BY <2>3 DEF Submit, Goto
    <3> QED BY <3>1, <3>3, <3>4
  <2>4. CASE SubmitFails(r) BY <2>4 DEF SubmitFails, Return, mainVars
  <2>5. CASE Answer(r) BY <2>5 DEF Answer, Return, mainVars
  <2>6. CASE Timeout(r) BY <2>6 DEF Timeout, Goto, mainVars
  <2>7. CASE Cancel(r)
    <3>1. CASE work[r] = "pending" BY <2>7, <3>1 DEF Cancel, mainVars
    <3>2. CASE work[r] # "pending" BY <2>7, <3>2 DEF Cancel, Return, mainVars
    <3> QED BY <3>1, <3>2
  <2>8. CASE Release(r) BY <2>8 DEF Release, Return, mainVars
  <2> QED BY <1>1, <2>1, <2>2, <2>3, <2>4, <2>5, <2>6, <2>7, <2>8 DEF DispatchTracked
<1>2. CASE Claim
  <2>1. CASE work[Task] = "pending" BY <1>2, <2>1 DEF Claim, listenerVars
  <2>2. CASE work[Task] # "pending"
    <3>1. queue # <<>> /\ queue' = Tail(queue) /\ UNCHANGED <<pc, reply>>
      BY <1>2, <2>2 DEF Claim, listenerVars
    <3> QED BY <3>1, TailOnce
  <2> QED BY <2>1, <2>2
<1>3. CASE SetValue
  BY <1>3, TailOnce DEF SetValue, listenerVars, TaskInv
<1>4. CASE UNCHANGED <<queue, pc, reply>>
  BY <1>4
<1> QED
  BY <1>1, <1>2, <1>3, <1>4
  DEF Next, vars, listenerVars, mainVars, Main, MarkTask, DispatchRefused,
      FalloutDispatchNative, SkyrimDispatchNative, QueueNativeOperation, DispatchCalendar,
      Settle, Engine, PreMessage, SaveMessage, MessageCursor, PreObserve, PostMessage,
      PostObserve, Player, UserRequest, FalloutLoadingMenu, SkyrimLoadingMenu, MenuSink,
      FalloutNewGame, SkyrimNewGame, NewGame, EngineDrops, FalloutReset, SkyrimReset, Reset

\* What the caller was told and what the phase of its work says keep agreeing.
LEMMA NextWorkInv == IInv /\ [Next]_vars => WorkInv'
<1> SUFFICES ASSUME IInv, [Next]_vars PROVE WorkInv'
  OBVIOUS
<1> USE DEF IInv, TypeInv, TypeOK, TaskInv, WorkInv, Running, Task, listenerVars, workVars, mainVars
<1>1. ASSUME NEW r \in Requests, DispatchTracked(r) PROVE WorkInv'
  <2>1. CASE ReadCursor(r) BY <2>1 DEF ReadCursor, Goto
  <2>2. CASE Begin(r)
    <3>1. CASE op.active BY <2>2, <3>1 DEF Begin, Return
    <3>2. CASE ~op.active BY <2>2, <3>2 DEF Begin
    <3> QED BY <3>1, <3>2
  <2>3. CASE Submit(r)
    <3>1. mpc # "idle" => Head(queue') = Head(queue)
      BY <2>3, AppendOnce DEF Submit
    <3> QED BY <2>3, <3>1 DEF Submit, Goto
  <2>4. CASE SubmitFails(r) BY <2>4 DEF SubmitFails, Return
  <2>5. CASE Answer(r) BY <2>5 DEF Answer, Return
  <2>6. CASE Timeout(r) BY <2>6 DEF Timeout, Goto
  <2>7. CASE Cancel(r)
    <3>1. CASE work[r] = "pending" BY <2>7, <3>1 DEF Cancel
    <3>2. CASE work[r] # "pending"
      <4>1. pc[r] = "cancel" /\ reply[r] = "none" /\ work[r] \in {"running", "finished"}
        BY <2>7, <3>2 DEF Cancel
      <4>2. /\ pc' = [pc EXCEPT ![r] = "done"] /\ reply' = [reply EXCEPT ![r] = "uncertain"]
            /\ UNCHANGED <<work, ready, queue, mpc>>
        BY <2>7, <3>2 DEF Cancel, Return
      <4> QED BY <4>1, <4>2
    <3> QED BY <3>1, <3>2
  <2>8. CASE Release(r) BY <2>8 DEF Release, Return
  <2> QED BY <1>1, <2>1, <2>2, <2>3, <2>4, <2>5, <2>6, <2>7, <2>8 DEF DispatchTracked
<1>2. CASE Claim
  <2>0. Head(queue) \in Requests /\ In(queue, Head(queue))
    BY <1>2, HeadIn DEF Claim
  <2>1. CASE work[Task] = "pending"
    <3>1. /\ work' = [work EXCEPT ![Head(queue)] = "running"]
          /\ mpc = "idle" /\ mpc' = "mark"
          /\ UNCHANGED <<queue, ready, pc, reply>>
      BY <1>2, <2>1 DEF Claim
    <3>2. pc[Head(queue)] \notin {"idle", "begin", "submit"} /\ reply[Head(queue)] # "refused"
      BY <2>0 DEF QueueInv
    <3> QED BY <2>0, <2>1, <3>1, <3>2
  <2>2. CASE work[Task] # "pending" BY <1>2, <2>2 DEF Claim
  <2> QED BY <2>1, <2>2
<1>3. CASE SetValue
  <2>0. Head(queue) \in Requests
    BY <1>3, HeadIn DEF SetValue
  <2> QED BY <1>3, <2>0 DEF SetValue
<1>4. ASSUME UNCHANGED <<pc, reply, work, ready, queue>>, mpc # "idle", mpc' # "idle"
      PROVE  WorkInv'
  BY <1>4
<1>5. CASE UNCHANGED <<pc, reply, work, ready, queue, mpc>>
  BY <1>5
<1> QED
  BY <1>1, <1>2, <1>3, <1>4, <1>5
  DEF Next, vars, Main, MarkTask, DispatchRefused, FalloutDispatchNative, SkyrimDispatchNative,
      QueueNativeOperation, DispatchCalendar, Settle, Engine, PreMessage, SaveMessage, MessageCursor, PreObserve, PostMessage,
      PostObserve, Player, UserRequest, FalloutLoadingMenu, SkyrimLoadingMenu, MenuSink,
      FalloutNewGame, SkyrimNewGame, NewGame, EngineDrops, FalloutReset, SkyrimReset, Reset

\* While the slot is free or held, it says what became of the work.
LEMMA NextSlotInv == IInv /\ [Next]_vars => SlotInv'
<1> SUFFICES ASSUME IInv, [Next]_vars PROVE SlotInv'
  OBVIOUS
<1>o. op \in Operations
  BY DEF IInv, TypeInv, TypeOK
<1>a. ASSUME NEW r \in Requests, op' = MarkDispatching(op, r)
      PROVE  IF CanDispatch(op, r) THEN Moved(op, op', "dispatching") ELSE op' = op
  BY <1>o, <1>a, TrackerEffect
<1>b. ASSUME NEW r \in Requests, op' = MarkQueued(op, r)
      PROVE  op' = op \/ (Moved(op, op', "queued") /\ Holds(op, r))
  BY <1>o, <1>b, TrackerEffect
<1>c. ASSUME NEW r \in Requests, op' = MarkDispatchFailed(op, r)
      PROVE  IF Holds(op, r) THEN Ended(op, op', "failed") ELSE op' = op
  BY <1>o, <1>c, TrackerEffect
<1>d. ASSUME NEW r \in Requests, op' = MarkCancelled(op, r)
      PROVE  IF Holds(op, r) /\ op.phase = "reserved" THEN Ended(op, op', "cancelled") ELSE op' = op
  BY <1>o, <1>d, TrackerEffect
<1>e. ASSUME NEW r \in Requests, op' = MarkCompleted(op, r, TRUE), CanComplete(op, r)
      PROVE  Ended(op, op', "succeeded")
  BY <1>o, <1>e, TrackerEffect
<1>f. ASSUME NEW k, NEW n, NEW c, op' = ObserveStarted(op, k, n, c)
      PROVE  op' = op \/ (op.phase # "reserved" /\ Moved(op, op', "started"))
  BY <1>o, <1>f, ObserveEffect
<1>g. ASSUME NEW k, NEW n, NEW c, NEW t, op' = ObserveCompleted(op, k, n, t, c)
      PROVE  op' = op \/ (op.phase # "reserved" /\ Ended(op, op', t))
  BY <1>o, <1>g, ObserveEffect
<1>0. op.phase = "reserved" => op.active
  BY <1>o, PhaseTells DEF ActivePhases
<1> USE DEF IInv, TypeInv, TypeOK, TaskInv, WorkInv, SlotInv, Running, Task,
            listenerVars, workVars, mainVars, nativeVars
<1>1. ASSUME NEW r \in Requests, DispatchTracked(r) PROVE SlotInv'
  <2>1. CASE ReadCursor(r) BY <2>1 DEF ReadCursor, Goto
  <2>2. CASE Begin(r)
    <3>1. CASE op.active BY <2>2, <3>1 DEF Begin, Return, TryBegin
    <3>2. CASE ~op.active
      <4>1. op'.id = r /\ op'.phase = "reserved"
        BY <2>2, <3>2 DEF Begin, TryBegin
      <4>2. /\ pc[r] = "begin" /\ reply[r] = "none" /\ work[r] = "pending"
            /\ ~ready[r] /\ ~Running(r)
        BY <2>2 DEF Begin
      <4>3. pc' = [pc EXCEPT ![r] = "submit"] /\ UNCHANGED <<reply, workVars, mainVars>>
        BY <2>2, <3>2 DEF Begin
      <4> QED BY <4>1, <4>2, <4>3
    <3> QED BY <3>1, <3>2
  <2>3. CASE Submit(r)
    <3>1. mpc # "idle" => Head(queue') = Head(queue)
      BY <2>3, AppendOnce DEF Submit
    <3> QED BY <2>3, <3>1 DEF Submit, Goto
  <2>4. CASE SubmitFails(r)
    <3>1. IF Holds(op, r) THEN Ended(op, op', "failed") ELSE op' = op
      BY <1>c, <2>4 DEF SubmitFails
    <3>2. pc[r] = "submit" /\ work[r] = "pending" /\ (op.id = r => Holds(op, r))
      BY <2>4, <1>0 DEF SubmitFails, Holds
    <3> QED BY <2>4, <3>1, <3>2 DEF SubmitFails, Return, Ended, Holds
  <2>5. CASE Answer(r) BY <2>5 DEF Answer, Return
  <2>6. CASE Timeout(r) BY <2>6 DEF Timeout, Goto
  <2>7. CASE Cancel(r)
    <3>1. CASE work[r] = "pending" BY <2>7, <3>1 DEF Cancel
    <3>2. CASE work[r] # "pending" BY <2>7, <3>2 DEF Cancel, Return
    <3> QED BY <3>1, <3>2
  <2>8. CASE Release(r)
    <3>1. pc[r] = "release" /\ work[r] = "cancelled" /\ (op.id = r => Holds(op, r))
      BY <2>8, <1>0 DEF Release, Holds
    <3>2. IF op.id = r THEN Ended(op, op', "cancelled") ELSE op' = op
      BY <2>8, <3>1, <1>d DEF Release, Holds
    <3> QED BY <2>8, <3>1, <3>2 DEF Release, Return, Ended
  <2> QED BY <1>1, <2>1, <2>2, <2>3, <2>4, <2>5, <2>6, <2>7, <2>8 DEF DispatchTracked
<1>2. CASE Claim
  <2>1. CASE work[Task] = "pending" BY <1>2, HeadIn, <2>1 DEF Claim
  <2>2. CASE work[Task] # "pending" BY <1>2, <2>2 DEF Claim
  <2> QED BY <2>1, <2>2
<1>3. ASSUME mpc # "idle" PROVE Task \in Requests /\ work[Task] = "running"
  BY <1>3, HeadIn
<1>4. CASE MarkTask
  <2>1. CASE CanDispatch(op, Task)
    <3>1. Moved(op, op', "dispatching") /\ op.id = Task
      BY <1>3, <1>4, <2>1, <1>a DEF MarkTask, CanDispatch, Holds
    <3> QED BY <1>3, <1>4, <2>1, <3>1 DEF MarkTask, Moved
  <2>2. CASE ~CanDispatch(op, Task)
    <3>1. op' = op
      BY <1>3, <1>4, <2>2, <1>a DEF MarkTask
    <3> QED BY <1>3, <1>4, <2>2, <3>1 DEF MarkTask
  <2> QED BY <2>1, <2>2
<1>5. CASE DispatchRefused \/ FalloutDispatchNative \/ SkyrimDispatchNative \/ DispatchCalendar
  BY <1>3, <1>5 DEF DispatchRefused, FalloutDispatchNative, SkyrimDispatchNative,
     QueueNativeOperation, DispatchCalendar
<1>6. CASE Settle
  <2>1. CASE result[Task] = "accepted"
    <3>1. op' = op \/ (Moved(op, op', "queued") /\ op.id = Task)
      BY <1>3, <1>6, <2>1, <1>b DEF Settle, Holds
    <3>2. mpc = "settle" /\ mpc' = "set" /\ UNCHANGED <<pc, reply, work, ready, queue, result>>
      BY <1>6, <2>1 DEF Settle
    <3> QED BY <1>3, <2>1, <3>1, <3>2 DEF Moved
  <2>2. CASE result[Task] = "completed" /\ CanComplete(op, Task)
    <3>1. Ended(op, op', "succeeded") /\ op.id = Task
      BY <1>3, <1>6, <2>2, <1>e, ZenonT(60) DEF Settle, CanComplete, Holds
    <3>2. mpc = "settle" /\ mpc' = "set" /\ UNCHANGED <<pc, reply, work, ready, queue, result>>
      BY <1>6, <2>2 DEF Settle
    <3> QED BY <1>3, <3>1, <3>2 DEF Ended
  <2>3. CASE result[Task] # "accepted" /\ ~(result[Task] = "completed" /\ CanComplete(op, Task))
    <3>1. /\ op' = MarkDispatchFailed(op, Task)
          /\ result' = [result EXCEPT ![Task] = "rejected"]
      BY <1>6, <2>3 DEF Settle
    <3>2. IF Holds(op, Task) THEN Ended(op, op', "failed") ELSE op' = op
      BY <1>3, <1>6, <3>1, <1>c DEF Settle
    <3> QED BY <1>3, <1>6, <3>1, <3>2 DEF Settle, Holds, Ended
  <2> QED BY <2>1, <2>2, <2>3
<1>7. CASE SetValue
  BY <1>3, <1>7 DEF SetValue
<1>8. CASE PreObserve
  <2>1. op' = op \/ (op.phase # "reserved" /\ Moved(op, op', "started"))
    BY <1>8, <1>f DEF PreObserve
  <2> QED BY <1>8, <2>1 DEF PreObserve, Moved
<1>9. CASE PostObserve
  <2>1. op' = op \/ (op.phase # "reserved" /\ \E t : Ended(op, op', t))
    BY <1>9, <1>g DEF PostObserve
  <2> QED BY <1>9, <2>1 DEF PostObserve, Ended
<1>10. CASE FalloutReset \/ SkyrimReset
  <2>1. op'.id = NoRequest
    BY <1>10 DEF FalloutReset, SkyrimReset, Reset, NoOperation
  <2> QED BY <2>1, TrackerAssumption
<1>11. CASE UNCHANGED <<op, pc, reply, work, result, ready, queue, mpc>>
  BY <1>11
<1> QED
  BY <1>1, <1>2, <1>4, <1>5, <1>6, <1>7, <1>8, <1>9, <1>10, <1>11
  DEF Next, vars, Main, Engine, PreMessage, SaveMessage, MessageCursor, PostMessage,
      Player, UserRequest, FalloutLoadingMenu, SkyrimLoadingMenu, MenuSink,
      FalloutNewGame, SkyrimNewGame, NewGame, EngineDrops

\* What any step does to the slot: another request enters it when it is free, or
\* the operation in it moves on or ends, or the lifecycle is reset.
LEMMA OpStep ==
  ASSUME IInv, [Next]_vars
  PROVE  \/ op' = op
         \/ op' = NoOperation
         \/ ~op.active /\ op'.id \in Requests /\ op'.id # op.id
         \/ op.phase = "reserved" /\ Moved(op, op', "dispatching")
         \/ op.phase = "dispatching" /\ Moved(op, op', "queued")
         \/ op.phase # "reserved" /\ Moved(op, op', "started")
         \/ \E t \in TerminalPhases : Ended(op, op', t)
<1> DEFINE Goal ==
         \/ op' = op
         \/ op' = NoOperation
         \/ ~op.active /\ op'.id \in Requests /\ op'.id # op.id
         \/ op.phase = "reserved" /\ Moved(op, op', "dispatching")
         \/ op.phase = "dispatching" /\ Moved(op, op', "queued")
         \/ op.phase # "reserved" /\ Moved(op, op', "started")
         \/ \E t \in TerminalPhases : Ended(op, op', t)
<1>0. op \in Operations /\ (mpc # "idle" => Task \in Requests)
  BY HeadIn DEF IInv, TypeInv, TypeOK, TaskInv, Task
<1>1. ASSUME NEW r \in Requests, Begin(r) PROVE Goal
  <2>1. pc[r] = "begin" /\ op' = TryBegin(op, r, kind[r], cursor[r])
    BY <1>1 DEF Begin
  <2>2. op.id # r
    BY <2>1 DEF IInv, SlotInv
  <2> QED BY <2>1, <2>2 DEF TryBegin
<1>2. ASSUME NEW r \in Requests, SubmitFails(r) PROVE Goal
  <2>1. op' = MarkDispatchFailed(op, r)
    BY <1>2 DEF SubmitFails
  <2> QED BY <1>0, <2>1, TrackerEffect DEF TerminalPhases
<1>3. ASSUME NEW r \in Requests, Release(r) PROVE Goal
  <2>1. op' = MarkCancelled(op, r)
    BY <1>3 DEF Release
  <2> QED BY <1>0, <2>1, TrackerEffect DEF TerminalPhases
<1>4. CASE MarkTask
  <2>1. Task \in Requests /\ op' = MarkDispatching(op, Task)
    BY <1>0, <1>4 DEF MarkTask
  <2> QED BY <1>0, <2>1, TrackerEffect DEF CanDispatch
<1>5. CASE Settle
  <2>1. /\ Task \in Requests
        /\ \/ op' = MarkQueued(op, Task)
           \/ CanComplete(op, Task) /\ op' = MarkCompleted(op, Task, TRUE)
           \/ op' = MarkDispatchFailed(op, Task)
    BY <1>0, <1>5 DEF Settle
  <2> QED BY <1>0, <2>1, TrackerEffect DEF TerminalPhases
<1>6. CASE PreObserve
  <2>1. op' = ObserveStarted(op, native.kind, native.name, ncursor)
    BY <1>6 DEF PreObserve
  <2> QED BY <1>0, <2>1, ObserveEffect
<1>7. CASE PostObserve
  <2>1. \E k, n, c : \E t \in TerminalPhases : op' = ObserveCompleted(op, k, n, t, c)
    BY <1>7 DEF PostObserve, TerminalPhases
  <2> QED BY <1>0, <2>1, ObserveEffect
<1>8. CASE FalloutReset \/ SkyrimReset
  BY <1>8 DEF FalloutReset, SkyrimReset, Reset
<1>9. CASE UNCHANGED op
  BY <1>9
<1> HIDE DEF Goal
<1>10. ASSUME NEW r \in Requests, DispatchTracked(r) PROVE Goal
  <2>1. Begin(r) \/ SubmitFails(r) \/ Release(r) \/ UNCHANGED op
    BY <1>10 DEF DispatchTracked, ReadCursor, Submit, Answer, Timeout, Cancel
  <2> QED BY <1>1, <1>2, <1>3, <1>9, <2>1 DEF Goal
<1>11. CASE Main
  BY <1>4, <1>5, <1>9, <1>11
  DEF Main, Claim, DispatchRefused, FalloutDispatchNative,
      SkyrimDispatchNative, QueueNativeOperation, DispatchCalendar, SetValue
<1>12. CASE Engine
  BY <1>6, <1>7, <1>9, <1>12
  DEF Engine, PreMessage, SaveMessage, MessageCursor, PostMessage
<1>13. CASE Player \/ EngineDrops \/ UNCHANGED vars
  BY <1>9, <1>13
  DEF vars, Player, UserRequest, FalloutLoadingMenu, SkyrimLoadingMenu, MenuSink,
      FalloutNewGame, SkyrimNewGame, NewGame, EngineDrops
<1> QED BY <1>8, <1>10, <1>11, <1>12, <1>13 DEF Next, Goal

\* Only the start of the plugin, and the Reset of its lifecycle, leave no operation.
LEMMA NextNoOperationInv == IInv /\ [Next]_vars => NoOperationInv'
<1> SUFFICES ASSUME IInv, [Next]_vars, op'.id = NoRequest PROVE op' = NoOperation
  BY DEF NoOperationInv
<1>1. op \in Operations
  BY DEF IInv, TypeInv, TypeOK
<1>2. CASE op' = op
  BY <1>2 DEF IInv, NoOperationInv
<1>3. CASE op' = NoOperation
  BY <1>3
<1>4. CASE op' # op /\ op' # NoOperation
  <2>1. op'.id \in Requests
    BY <1>1, <1>4, OpStep, PhaseTells DEF Moved, Ended
  <2> QED BY <2>1, TrackerAssumption
<1> QED BY <1>2, <1>3, <1>4

\* The inductive invariant holds of every behaviour of the game tool.
LEMMA Invariant == Spec => []IInv
<1>1. Init => IInv
  <2> SUFFICES ASSUME Init PROVE IInv
    OBVIOUS
  <2>1. QueueInv
    BY DEF Init, QueueInv, Once, In
  <2>2. WorkInv
    BY DEF Init, WorkInv, Running
  <2>3. SlotInv /\ NoOperationInv
    BY TrackerAssumption DEF Init, SlotInv, NoOperationInv, NoOperation
  <2> QED BY <2>1, <2>2, <2>3, InitTypeInv DEF IInv
<1>2. IInv /\ [Next]_vars => IInv'
  BY NextTypeInv, NextQueueInv, NextWorkInv, NextSlotInv, NextNoOperationInv DEF IInv
<1> QED BY <1>1, <1>2, PTL DEF Spec

-----------------------------------------------------------------------------
(* The theorems.                                                           *)

\* Every variable keeps its shape, whatever the requests and the player do.
THEOREM TypeCorrect == Spec => []TypeOK
<1>1. IInv => TypeOK
  BY DEF IInv, TypeInv
<1> QED BY <1>1, Invariant, PTL

\* A caller told refused, rejected or cancelled has left the slot free.
THEOREM SlotFreed == Spec => []NoLeakedSlot
<1>1. IInv => NoLeakedSlot
  <2> SUFFICES ASSUME IInv, NEW r \in Requests, op.active, op.id = r
               PROVE  /\ reply[r] \notin {"refused", "notStarted"}
                      /\ reply[r] = "result" => result[r] = "accepted"
    BY DEF NoLeakedSlot, Holds
  <2>1. op.phase # "cancelled"
    BY PhaseTells DEF IInv, TypeInv, TypeOK, ActivePhases
  <2> QED BY <2>1 DEF IInv, SlotInv, WorkInv
<1> QED BY <1>1, Invariant, PTL

\* A caller told "cancelled before execution" reads the same in the status ever after.
THEOREM StaysCancelled == Spec => []CancelledStaysCancelled
<1>1. IInv => CancelledStaysCancelled
  BY DEF IInv, SlotInv, CancelledStaysCancelled
<1> QED BY <1>1, Invariant, PTL

\* The status of an operation moves forward only, until another one replaces it.
THEOREM StatusForward == Spec => PhaseForward
<1>1. ASSUME IInv, [Next]_vars, op'.id = op.id, op' # op
      PROVE  PhaseRank(op'.phase) >= PhaseRank(op.phase) /\ op.active
  <2>1. op \in Operations
    BY <1>1 DEF IInv, TypeInv, TypeOK
  <2>2. op' # NoOperation
    <3>1. NoOperation.id = NoRequest
      BY DEF NoOperation
    <3> QED BY <1>1, <3>1 DEF IInv, NoOperationInv
  <2>3. CASE \E t \in TerminalPhases : Ended(op, op', t)
    BY <2>1, <2>3, PhaseTells DEF Ended, PhaseRank, ActivePhases, TerminalPhases
  <2>4. CASE \/ op.phase = "reserved" /\ Moved(op, op', "dispatching")
             \/ op.phase = "dispatching" /\ Moved(op, op', "queued")
             \/ op.phase # "reserved" /\ Moved(op, op', "started")
    BY <2>1, <2>4, PhaseTells DEF Moved, PhaseRank, ActivePhases
  <2> QED BY <1>1, <2>2, <2>3, <2>4, OpStep
<1> QED BY <1>1, Invariant, PTL DEF Spec, PhaseForward

-----------------------------------------------------------------------------
(* The refinement.                                                         *)

\* Every step starts, ends or answers one request as DeferredCall allows, or
\* is none of its business.
LEMMA NextRefines == IInv /\ [Next]_vars => [Abstract!Next]_Abstract!vars
<1> SUFFICES ASSUME IInv, [Next]_vars PROVE [Abstract!Next]_Abstract!vars
  OBVIOUS
<1> USE DEF IInv, TypeInv, TypeOK, TaskInv, WorkInv, Running, Task,
            listenerVars, workVars, mainVars, Abstract!vars
<1>1. ASSUME NEW r \in Requests, DispatchTracked(r)
      PROVE  Abstract!Answer(r) \/ UNCHANGED Abstract!vars
  <2> USE DEF Abstract!Answer, Abstract!Truthful
  <2>1. CASE ReadCursor(r) BY <2>1 DEF ReadCursor
  <2>2. CASE Begin(r)
    <3>1. CASE op.active BY <2>2, <3>1 DEF Begin, Return
    <3>2. CASE ~op.active BY <2>2, <3>2 DEF Begin
    <3> QED BY <3>1, <3>2
  <2>3. CASE Submit(r) BY <2>3 DEF Submit
  <2>4. CASE SubmitFails(r) BY <2>4 DEF SubmitFails, Return
  <2>5. CASE Answer(r) BY <2>5 DEF Answer, Return
  <2>6. CASE Timeout(r) BY <2>6 DEF Timeout
  <2>7. CASE Cancel(r)
    <3>1. CASE work[r] = "pending" BY <2>7, <3>1 DEF Cancel
    <3>2. CASE work[r] # "pending" BY <2>7, <3>2 DEF Cancel, Return
    <3> QED BY <3>1, <3>2
  <2>8. CASE Release(r) BY <2>8 DEF Release, Return
  <2> QED BY <1>1, <2>1, <2>2, <2>3, <2>4, <2>5, <2>6, <2>7, <2>8 DEF DispatchTracked
<1>2. CASE Claim
  <2>0. PICK t \in Requests : t = Task /\ In(queue, t)
    BY <1>2, HeadIn DEF Claim
  <2>1. CASE work[t] = "pending"
    <3>1. reply[t] = "none"
      BY <1>2, <2>0, <2>1 DEF QueueInv
    <3>2. work' = [work EXCEPT ![t] = "running"] /\ reply' = reply
      BY <1>2, <2>0, <2>1 DEF Claim
    <3>3. Abstract!Start(t)
      BY <2>1, <3>1, <3>2, ZenonT(60) DEF Abstract!Start
    <3> QED BY <3>3 DEF Abstract!Next
  <2>2. CASE work[t] # "pending"
    BY <1>2, <2>0, <2>2 DEF Claim
  <2> QED BY <2>1, <2>2
<1>3. CASE SetValue
  <2>1. PICK t \in Requests : t = Task /\ work[t] = "running"
    BY <1>3, HeadIn DEF SetValue
  <2>2. Abstract!Finish(t)
    BY <1>3, <2>1, ZenonT(60) DEF SetValue, Abstract!Finish
  <2> QED BY <2>2 DEF Abstract!Next
<1>4. CASE UNCHANGED <<work, reply>>
  BY <1>4
<1> QED
  BY <1>1, <1>2, <1>3, <1>4
  DEF Abstract!Next, Next, vars, Main, MarkTask, DispatchRefused,
      FalloutDispatchNative, SkyrimDispatchNative, QueueNativeOperation, DispatchCalendar,
      Settle, Engine, PreMessage, SaveMessage, MessageCursor, PreObserve, PostMessage,
      PostObserve, Player, UserRequest, FalloutLoadingMenu, SkyrimLoadingMenu, MenuSink,
      FalloutNewGame, SkyrimNewGame, NewGame, EngineDrops, FalloutReset, SkyrimReset, Reset

\* The operation protocol implements DeferredCall: "cancelled before execution"
\* is never said of a request the main thread dispatches, before or after.
THEOREM Refinement == Spec => ImplementsDeferredCall
<1>1. Init => Abstract!Init
  BY DEF Init, Abstract!Init
<1> QED BY <1>1, NextRefines, Invariant, PTL DEF Spec, ImplementsDeferredCall, Abstract!Spec
=============================================================================
