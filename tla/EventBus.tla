------------------------------ MODULE EventBus ------------------------------
(***************************************************************************)
(* The fan-out of notifications: publishers on any thread append to a ring *)
(* of recent events and to a delivery queue; one worker thread takes the   *)
(* queue in batches and calls the subscribers; REST clients poll the ring. *)
(*                                                                         *)
(* An event is its sequence number.  Publish, Subscribe, Since and HeadSeq *)
(* are one critical section of m_mutex each, hence one step; Unsubscribe   *)
(* and the worker's loop leave m_mutex half way and are several.           *)
(***************************************************************************)
EXTENDS Integers, Sequences, SequencesExt

CONSTANTS
    Subscribers,    \* the objects that subscribe, once each
    MaxRecent,      \* kMaxRecent, the ring's capacity
    MaxEvents       \* bound on the events published

ASSUME RingAssumption == MaxRecent \in Nat \ {0} /\ MaxEvents \in Nat

VARIABLES
    seq,        \* m_seq
    recent,     \* m_recent
    deliverQueue,
    subs,       \* m_subs, in the order they subscribed
    stop,       \* m_stop, set by the destructor
    wpc,        \* the worker: waiting, locking, delivering, calling, exited
    todo,       \* the calls left of the worker's batch: event and subscriber
    upc,        \* upc[s]: s is new, subscribed, erased from m_subs, or gone
    since,      \* since[s]: history, the head when s subscribed
    delivered,  \* delivered[s]: history, the events s was called with
    cursor,     \* the client's next ?since=
    got,        \* GET /api/events between Since and HeadSeq: the events read
    ppc,        \* that request: idle or head
    seen        \* history: the events the client was sent

publisherVars  == <<seq, recent, deliverQueue>>
subscriberVars == <<subs, upc, since>>
workerVars     == <<wpc, todo, delivered>>
pollerVars     == <<cursor, got, ppc, seen>>
vars == <<seq, recent, deliverQueue, subs, stop, wpc, todo, upc, since, delivered,
          cursor, got, ppc, seen>>

Init ==
    /\ seq = 0
    /\ recent = <<>>
    /\ deliverQueue = <<>>
    /\ subs = <<>>
    /\ stop = FALSE
    /\ wpc = "waiting"
    /\ todo = <<>>
    /\ upc = [s \in Subscribers |-> "new"]
    /\ since = [s \in Subscribers |-> 0]
    /\ delivered = [s \in Subscribers |-> <<>>]
    /\ cursor = 0
    /\ got = <<>>
    /\ ppc = "idle"
    /\ seen = <<>>

-----------------------------------------------------------------------------
(* The calls of other threads.  None is made on a bus under destruction.   *)

\* The newest n elements of a sequence.
Newest(s, n) == SubSeq(s, Len(s) - n + 1, Len(s))

\* Slip: the ring is never trimmed.
PublishUntrimmed ==
    /\ ~stop
    /\ seq < MaxEvents
    /\ seq' = seq + 1
    /\ recent' = Append(recent, seq + 1)
    /\ deliverQueue' = Append(deliverQueue, seq + 1)
    /\ UNCHANGED <<subscriberVars, stop, workerVars, pollerVars>>

Publish ==
    /\ ~stop
    /\ seq < MaxEvents
    /\ seq' = seq + 1
    /\ LET ring == Append(recent, seq + 1)
       IN  recent' = IF Len(ring) > MaxRecent THEN Newest(ring, MaxRecent) ELSE ring
    /\ deliverQueue' = Append(deliverQueue, seq + 1)
    /\ UNCHANGED <<subscriberVars, stop, workerVars, pollerVars>>

Subscribe(s) ==
    /\ ~stop
    /\ upc[s] = "new"
    /\ subs' = Append(subs, s)
    /\ upc' = [upc EXCEPT ![s] = "subscribed"]
    /\ since' = [since EXCEPT ![s] = seq]
    /\ UNCHANGED <<publisherVars, stop, workerVars, pollerVars>>

\* Unsubscribe, first block: erase the entry of that id, there is one, under m_mutex.
Erase(s) ==
    /\ ~stop
    /\ upc[s] = "subscribed"
    /\ \E i \in DOMAIN subs : subs[i] = s /\ subs' = RemoveAt(subs, i)
    /\ upc' = [upc EXCEPT ![s] = "erased"]
    /\ UNCHANGED <<publisherVars, since, stop, workerVars, pollerVars>>

\* The worker holds m_deliverMutex from Acquire to the end of its batch.
Delivering == wpc \in {"delivering", "calling"}

\* Unsubscribe, second block: take m_deliverMutex, let it go and return.
Barrier(s) ==
    /\ upc[s] = "erased"
    /\ ~Delivering
    /\ upc' = [upc EXCEPT ![s] = "gone"]
    /\ UNCHANGED <<publisherVars, subs, since, stop, workerVars, pollerVars>>

\* ~EventBus, up to the join.
Destroy ==
    /\ ~stop
    /\ ppc = "idle"
    /\ \A s \in Subscribers : upc[s] # "erased"
    /\ stop' = TRUE
    /\ UNCHANGED <<publisherVars, subscriberVars, workerVars, pollerVars>>

-----------------------------------------------------------------------------
(* The worker thread, DeliverLoop.                                         *)

\* Slip: the batch loop stops one event early.
CallsShort(batch, fns) ==
    [k \in 1..((Len(batch) - 1) * Len(fns)) |->
        [ev |-> batch[((k - 1) \div Len(fns)) + 1], sub |-> fns[((k - 1) % Len(fns)) + 1]]]

\* Every event of the batch to every subscriber, in the order of the two loops.
Calls(batch, fns) ==
    [k \in 1..(Len(batch) * Len(fns)) |->
        [ev |-> batch[((k - 1) \div Len(fns)) + 1], sub |-> fns[((k - 1) % Len(fns)) + 1]]]

\* Slip: the queue is copied, not swapped out.
TakeCopies ==
    /\ wpc = "waiting"
    /\ deliverQueue # <<>>
    /\ todo' = Calls(deliverQueue, subs)
    /\ wpc' = "locking"
    /\ UNCHANGED <<publisherVars, subscriberVars, stop, delivered, pollerVars>>

\* Swap the queue out and copy the callbacks, under m_mutex.
Take ==
    /\ wpc = "waiting"
    /\ deliverQueue # <<>>
    /\ todo' = Calls(deliverQueue, subs)
    /\ deliverQueue' = <<>>
    /\ wpc' = "locking"
    /\ UNCHANGED <<seq, recent, subscriberVars, stop, delivered, pollerVars>>

Exit ==
    /\ wpc = "waiting"
    /\ stop
    /\ deliverQueue = <<>>
    /\ wpc' = "exited"
    /\ UNCHANGED <<publisherVars, subscriberVars, stop, todo, delivered, pollerVars>>

\* Lock m_deliverMutex; Unsubscribe never keeps it across a step.
Acquire ==
    /\ wpc = "locking"
    /\ wpc' = "delivering"
    /\ UNCHANGED <<publisherVars, subscriberVars, stop, todo, delivered, pollerVars>>

CallSubscriber ==
    /\ wpc = "delivering"
    /\ todo # <<>>
    /\ LET c == Head(todo)
       IN  delivered' = [delivered EXCEPT ![c.sub] = Append(@, c.ev)]
    /\ wpc' = "calling"
    /\ UNCHANGED <<publisherVars, subscriberVars, stop, todo, pollerVars>>

CallReturns ==
    /\ wpc = "calling"
    /\ todo' = Tail(todo)
    /\ wpc' = "delivering"
    /\ UNCHANGED <<publisherVars, subscriberVars, stop, delivered, pollerVars>>

\* Slip: m_deliverMutex is kept until the queue is seen empty.
EndBatchWhenDrained ==
    /\ wpc = "delivering"
    /\ todo = <<>>
    /\ deliverQueue = <<>>
    /\ wpc' = "waiting"
    /\ UNCHANGED <<publisherVars, subscriberVars, stop, todo, delivered, pollerVars>>

EndBatch ==
    /\ wpc = "delivering"
    /\ todo = <<>>
    /\ wpc' = "waiting"
    /\ UNCHANGED <<publisherVars, subscriberVars, stop, todo, delivered, pollerVars>>

DeliverLoop == Take \/ Exit \/ Acquire \/ CallSubscriber \/ CallReturns \/ EndBatch

-----------------------------------------------------------------------------
(* A client that polls GET /api/events and passes the answered headSeq as  *)
(* its next since, as bridge/src/session.ts does while a scenario runs.    *)

\* The ring is in order of seq: what is above the cursor is its end.
PollSince ==
    /\ ~stop
    /\ ppc = "idle"
    /\ \E n \in 0..Len(recent) :
           /\ got' = Newest(recent, n)
           /\ \A i \in DOMAIN recent : recent[i] > cursor <=> i > Len(recent) - n
    /\ ppc' = "head"
    /\ UNCHANGED <<publisherVars, subscriberVars, stop, workerVars, cursor, seen>>

PollHead ==
    /\ ppc = "head"
    /\ cursor' = seq
    /\ seen' = seen \o got
    /\ got' = <<>>
    /\ ppc' = "idle"
    /\ UNCHANGED <<publisherVars, subscriberVars, stop, workerVars>>

-----------------------------------------------------------------------------
Next == \/ Publish
        \/ \E s \in Subscribers : Subscribe(s) \/ Erase(s) \/ Barrier(s)
        \/ Destroy
        \/ DeliverLoop
        \/ PollSince \/ PollHead

Spec == Init /\ [][Next]_vars

\* The worker is scheduled, subscribers return, and a thread that has begun
\* Unsubscribe is scheduled.  Nobody need publish, subscribe or poll.
FairSpec == /\ Spec
            /\ WF_vars(DeliverLoop)
            /\ \A s \in Subscribers : WF_vars(Barrier(s))

-----------------------------------------------------------------------------
Events == 1..MaxEvents

\* The shape of every variable.
TypeOK ==
    /\ seq \in 0..MaxEvents
    /\ recent \in Seq(Events) /\ Len(recent) <= MaxRecent
    /\ deliverQueue \in Seq(Events)
    /\ subs \in Seq(Subscribers)
    /\ stop \in BOOLEAN
    /\ wpc \in {"waiting", "locking", "delivering", "calling", "exited"}
    /\ todo \in Seq([ev : Events, sub : Subscribers])
    /\ upc \in [Subscribers -> {"new", "subscribed", "erased", "gone"}]
    /\ since \in [Subscribers -> 0..MaxEvents]
    /\ delivered \in [Subscribers -> Seq(Events)]
    /\ cursor \in 0..MaxEvents
    /\ got \in Seq(Events)
    /\ ppc \in {"idle", "head"}
    /\ seen \in Seq(Events)

Ascending(s) == \A i, j \in DOMAIN s : i < j => s[i] < s[j]

\* A subscriber is called once per event, in order and without a gap, starting
\* no later than the first event published after it subscribed; whatever is
\* published, subscribed or unsubscribed while a batch is being delivered.  And
\* a polling client is never sent an event twice or out of order.
ExactlyOnceInOrder ==
    /\ \A s \in Subscribers :
          LET d == delivered[s]
          IN  d # <<>> => /\ \A i \in DOMAIN d : d[i] = d[1] + i - 1
                          /\ d[1] <= since[s] + 1
    /\ Ascending(seen)

\* An event published to a subscriber reaches it, unless it unsubscribes first.
EventuallyDelivered == \A s \in Subscribers, e \in Events :
    (upc[s] = "subscribed" /\ since[s] < e /\ e <= seq)
        ~> (upc[s] # "subscribed" \/ \E i \in DOMAIN delivered[s] : delivered[s][i] = e)

\* Unsubscribe returns: the barrier on the batch in flight is no deadlock.
UnsubscribeReturns == \A s \in Subscribers : (upc[s] = "erased") ~> (upc[s] = "gone")

\* EventBus.h, Unsubscribe: "After this returns the callback is guaranteed not
\* to run again".
UnsubscribedNeverRuns == \A s \in Subscribers :
    upc[s] = "gone" => ~(wpc = "calling" /\ Head(todo).sub = s)

\* EventBus.h, Since: "Events with seq strictly greater than a_since (for
\* poll-style readers)": an event that is still in the ring is not behind the
\* client's cursor unless the client was sent it.
PollMissesNothing ==
    ppc = "idle" => \A i \in DOMAIN recent :
        recent[i] <= cursor => \E j \in DOMAIN seen : seen[j] = recent[i]
=============================================================================
