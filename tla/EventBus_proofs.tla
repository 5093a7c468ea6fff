--------------------------- MODULE EventBus_proofs ---------------------------
(***************************************************************************)
(* Proofs about EventBus, for any set of subscribers, any size of the ring *)
(* and any number of events.  The inductive invariant follows the events   *)
(* from Publish to the callbacks: the delivery queue holds those after the *)
(* last one the worker took, the calls left of the batch are, for each     *)
(* subscriber, those from the next one due to it up to that last one.      *)
(***************************************************************************)
EXTENDS EventBus, SeqLemmas, SequenceTheorems, TLAPS

\* The last event that left the delivery queue.
Taken == seq - Len(deliverQueue)

\* The calls of the batch that are still to be made.
Rest == IF wpc = "calling" THEN 2..Len(todo) ELSE 1..Len(todo)

Left(s, e) == \E k \in Rest : todo[k].sub = s /\ todo[k].ev = e

\* s has been called with everything before n, and is to be called with
\* everything from n on that was taken.
Due(s, n) ==
    /\ delivered[s] # <<>> => n = Last(delivered[s]) + 1
    /\ delivered[s] = <<>> => n <= since[s] + 1
    /\ n <= Taken + 1
    /\ \A e \in Events : Left(s, e) <=> n <= e /\ e <= Taken

\* The worker has calls to make only in a batch.
WorkerInv == /\ wpc \in {"waiting", "exited"} => todo = <<>>
             /\ wpc = "calling" => todo # <<>>

\* q holds the last of the events up to n, in order and without a gap.
EndsAt(q, n) == Len(q) <= n /\ \A i \in DOMAIN q : q[i] = n - Len(q) + i

QueueInv == EndsAt(deliverQueue, seq)

\* Who is subscribed has one entry.
EntriesInv ==
    /\ IsInjective(subs)
    /\ \A s \in Subscribers : (s \in Range(subs) <=> upc[s] = "subscribed") /\ since[s] <= seq

\* Who is new has no past.
NewInv == \A s \in Subscribers :
    upc[s] = "new" => delivered[s] = <<>> /\ \A e \in Events : ~Left(s, e)

SubsInv == EntriesInv /\ NewInv

\* The calls left are in the order of the events, for each subscriber.
OrderInv == \A i, j \in Rest : i < j /\ todo[i].sub = todo[j].sub => todo[i].ev < todo[j].ev

DueInv == \A s \in Subscribers :
    upc[s] = "subscribed" \/ (\E e \in Events : Left(s, e)) => \E n \in Nat \ {0} : Due(s, n)

DeliveredInv == \A s \in Subscribers :
    LET d == delivered[s]
    IN  d # <<>> => /\ \A i \in DOMAIN d : d[i] = d[1] + i - 1
                    /\ d[1] <= since[s] + 1

RingInv == EndsAt(recent, seq)

\* The client was sent nothing above its cursor, and reads only what is above.
PollInv ==
    /\ cursor <= seq
    /\ Ascending(seen) /\ Ascending(got)
    /\ \A i \in DOMAIN seen : seen[i] <= cursor
    /\ \A i \in DOMAIN got : cursor < got[i] /\ got[i] <= seq

TypeInv == TypeOK /\ WorkerInv

IInv == TypeInv /\ QueueInv /\ SubsInv /\ OrderInv /\ DueInv /\ DeliveredInv /\ RingInv /\ PollInv

-----------------------------------------------------------------------------
(* The sequences the bus is built from.                                    *)

\* Division by the number of subscribers stays within the batch.
LEMMA DivBound ==
  ASSUME NEW n \in Nat, NEW m \in Nat, NEW k \in 1..n * m
  PROVE  /\ (k - 1) \div m \in 0..n-1
         /\ (k - 1) % m \in 0..m-1
         /\ k - 1 = m * ((k - 1) \div m) + ((k - 1) % m)
<1> DEFINE q == (k - 1) \div m
           r == (k - 1) % m
<1>0. n * m \in Nat
  OBVIOUS
<1>1. m \in Nat \ {0} /\ k - 1 \in Nat /\ k - 1 < n * m
  BY <1>0
<1>2. q \in Nat /\ r \in 0..m-1 /\ k - 1 = m * q + r
  BY <1>1
<1> HIDE DEF q, r
<1>3. ASSUME q >= n PROVE FALSE
  <2>1. m * q >= m * n
    BY <1>1, <1>2, <1>3
  <2> QED BY <1>1, <1>2, <2>1
<1> QED BY <1>2, <1>3 DEF q, r

\* And every event and subscriber are met.
LEMMA DivUnique ==
  ASSUME NEW n \in Nat, NEW m \in Nat, NEW b \in 0..n-1, NEW c \in 0..m-1
  PROVE  /\ m * b + c + 1 \in 1..n * m
         /\ (m * b + c) \div m = b
         /\ (m * b + c) % m = c
<1>1. m \in Nat \ {0} /\ m * b \in Nat /\ n * m \in Nat
  OBVIOUS
<1>2. (m * b + c) \div m = b /\ (m * b + c) % m = c
  BY <1>1
<1>3. m * b + c < n * m
  <2>1. m * b <= m * (n - 1)
    OBVIOUS
  <2>2. m * (n - 1) = n * m - m
    OBVIOUS
  <2> QED BY <1>1, <2>1, <2>2
<1> QED BY <1>1, <1>2, <1>3

\* Of two calls of a subscriber the later is of the later event.
LEMMA DivOrder ==
  ASSUME NEW m \in Nat, NEW a \in Nat, NEW b \in Nat, NEW c \in Nat, m * a + c < m * b + c
  PROVE  a < b
<1>1. m * a \in Nat /\ m * b \in Nat
  OBVIOUS
<1>2. ASSUME b <= a PROVE FALSE
  <2>1. m * b <= m * a
    BY <1>2
  <2> QED BY <1>1, <2>1
<1> QED BY <1>2

\* An index of the two loops is an event of the batch and a subscriber.
LEMMA CallsIndex ==
  ASSUME NEW batch \in Seq(Events), NEW fns \in Seq(Subscribers),
         NEW k \in DOMAIN Calls(batch, fns)
  PROVE  \E b \in 0..Len(batch)-1, c \in 0..Len(fns)-1 :
            /\ k - 1 = Len(fns) * b + c
            /\ Calls(batch, fns)[k] = [ev |-> batch[b + 1], sub |-> fns[c + 1]]
<1>1. Len(batch) \in Nat /\ Len(fns) \in Nat /\ k \in 1..Len(batch) * Len(fns)
  BY DEF Calls
<1>2. Calls(batch, fns)[k] = [ev |-> batch[((k - 1) \div Len(fns)) + 1],
                              sub |-> fns[((k - 1) % Len(fns)) + 1]]
  BY <1>1 DEF Calls
<1> QED BY <1>1, <1>2, DivBound

\* An event of the batch and a subscriber have an index of their own.
LEMMA CallsCover ==
  ASSUME NEW batch \in Seq(Events), NEW fns \in Seq(Subscribers),
         NEW b \in 0..Len(batch)-1, NEW c \in 0..Len(fns)-1
  PROVE  \E k \in DOMAIN Calls(batch, fns) :
            Calls(batch, fns)[k] = [ev |-> batch[b + 1], sub |-> fns[c + 1]]
<1> DEFINE j == Len(fns) * b + c
<1>1. Len(batch) \in Nat /\ Len(fns) \in Nat
  OBVIOUS
<1>2. j + 1 \in 1..Len(batch) * Len(fns) /\ j \div Len(fns) = b /\ j % Len(fns) = c
  BY <1>1, DivUnique, SMTT(30)
<1>3. j \in Int
  BY <1>1
<1> HIDE DEF j
<1>4. (j + 1) - 1 = j
  BY <1>3
<1>5. j + 1 \in DOMAIN Calls(batch, fns)
  BY <1>2 DEF Calls
<1>6. Calls(batch, fns)[j + 1] = [ev |-> batch[b + 1], sub |-> fns[c + 1]]
  BY <1>2, <1>4 DEF Calls
<1> QED BY <1>5, <1>6

\* The calls of a batch are calls, and in the order of the events for each subscriber.
LEMMA CallsProperties ==
  ASSUME NEW batch \in Seq(Events), NEW fns \in Seq(Subscribers)
  PROVE  /\ Calls(batch, fns) \in Seq([ev : Events, sub : Subscribers])
         /\ IsInjective(fns) /\ Ascending(batch) =>
               \A i, j \in DOMAIN Calls(batch, fns) :
                   i < j /\ Calls(batch, fns)[i].sub = Calls(batch, fns)[j].sub
                       => Calls(batch, fns)[i].ev < Calls(batch, fns)[j].ev
<1> DEFINE calls == Calls(batch, fns)
<1>1. ASSUME NEW k \in DOMAIN calls PROVE calls[k] \in [ev : Events, sub : Subscribers]
  <2>1. PICK b \in 0..Len(batch)-1, c \in 0..Len(fns)-1 :
           calls[k] = [ev |-> batch[b + 1], sub |-> fns[c + 1]]
    BY <1>1, CallsIndex
  <2>2. b + 1 \in 1..Len(batch) /\ c + 1 \in 1..Len(fns)
    OBVIOUS
  <2> QED BY <2>1, <2>2
<1>2. Len(batch) * Len(fns) \in Nat /\ DOMAIN calls = 1..Len(batch) * Len(fns)
  BY DEF Calls
<1>3. calls = [k \in 1..Len(batch) * Len(fns) |-> calls[k]]
  BY DEF Calls
<1>4. calls \in Seq([ev : Events, sub : Subscribers])
  <2> HIDE DEF calls
  <2> QED BY <1>1, <1>2, <1>3, IsASeq
<1>5. ASSUME IsInjective(fns), Ascending(batch), NEW i \in DOMAIN calls, NEW j \in DOMAIN calls,
             i < j, calls[i].sub = calls[j].sub
      PROVE  calls[i].ev < calls[j].ev
  <2>0. i \in Int /\ j \in Int /\ Len(fns) \in Nat
    BY <1>2
  <2>1. PICK a \in 0..Len(batch)-1, c \in 0..Len(fns)-1 :
           i - 1 = Len(fns) * a + c /\ calls[i] = [ev |-> batch[a + 1], sub |-> fns[c + 1]]
    BY <1>5, CallsIndex
  <2>2. PICK b \in 0..Len(batch)-1, d \in 0..Len(fns)-1 :
           j - 1 = Len(fns) * b + d /\ calls[j] = [ev |-> batch[b + 1], sub |-> fns[d + 1]]
    BY <1>5, CallsIndex
  <2>3. c = d
    BY <1>5, <2>1, <2>2 DEF IsInjective
  <2>4. Len(fns) * a + c < Len(fns) * b + c
    BY <1>5, <2>0, <2>1, <2>2, <2>3
  <2>5. a < b
    BY <2>0, <2>4, DivOrder, SMTT(30)
  <2> QED BY <1>5, <2>1, <2>2, <2>5 DEF Ascending
<1> QED BY <1>4, <1>5

\* The newest elements of a sequence are its last.
LEMMA NewestProperties ==
  ASSUME NEW S, NEW q \in Seq(S), NEW n \in 0..Len(q)
  PROVE  /\ Newest(q, n) \in Seq(S)
         /\ Len(Newest(q, n)) = n
         /\ \A i \in 1..n : Newest(q, n)[i] = q[Len(q) - n + i]
<1>1. Len(q) \in Nat /\ \A i \in Len(q) - n + 1 .. Len(q) : q[i] \in S
  OBVIOUS
<1> QED BY <1>1, SubSeqProperties DEF Newest

\* What is appended in order of seq stays the last of the events.
LEMMA EndsAtAppend ==
  ASSUME NEW n \in Nat, NEW q \in Seq(Nat), EndsAt(q, n)
  PROVE  EndsAt(Append(q, n + 1), n + 1)
<1>1. /\ Len(Append(q, n + 1)) = Len(q) + 1
      /\ DOMAIN Append(q, n + 1) = 1..Len(q)+1
      /\ Append(q, n + 1)[Len(q)+1] = n + 1
      /\ \A i \in 1..Len(q) : Append(q, n + 1)[i] = q[i]
  OBVIOUS
<1>2. Len(q) \in Nat /\ DOMAIN q = 1..Len(q)
  OBVIOUS
<1> QED BY <1>1, <1>2 DEF EndsAt

\* The newest of the last events are the last, too.
LEMMA EndsAtNewest ==
  ASSUME NEW n \in Nat, NEW q \in Seq(Nat), EndsAt(q, n), NEW k \in 0..Len(q)
  PROVE  EndsAt(Newest(q, k), n)
<1> DEFINE r == Newest(q, k)
<1>1. Len(q) \in Nat /\ DOMAIN q = 1..Len(q)
  OBVIOUS
<1>2. r \in Seq(Nat) /\ Len(r) = k /\ \A i \in 1..k : r[i] = q[Len(q) - k + i]
  BY NewestProperties
<1> HIDE DEF r
<1>3. DOMAIN r = 1..k
  BY <1>2
<1>4. Len(r) <= n
  BY <1>1, <1>2 DEF EndsAt
<1>5. ASSUME NEW i \in DOMAIN r PROVE r[i] = n - Len(r) + i
  <2>1. Len(q) - k + i \in DOMAIN q /\ r[i] = q[Len(q) - k + i] /\ i \in Int /\ k \in Int
    BY <1>1, <1>2, <1>3, SMTT(30)
  <2>2. q[Len(q) - k + i] = n - Len(q) + (Len(q) - k + i)
    BY <2>1 DEF EndsAt
  <2>3. n - Len(q) + (Len(q) - k + i) = n - k + i
    BY <1>1, <2>1
  <2> QED BY <1>2, <2>1, <2>2, <2>3
<1> QED BY <1>4, <1>5 DEF EndsAt, r

\* The last events are in order.
LEMMA EndsAtAscending ==
  ASSUME NEW n \in Nat, NEW q \in Seq(Nat), EndsAt(q, n)
  PROVE  Ascending(q) /\ \A i \in DOMAIN q : n - Len(q) < q[i] /\ q[i] <= n
<1>1. Len(q) \in Nat /\ DOMAIN q = 1..Len(q)
  OBVIOUS
<1> QED BY <1>1 DEF EndsAt, Ascending

\* Two ascending sequences on both sides of c make one.
LEMMA ConcatAscending ==
  ASSUME NEW p \in Seq(Nat), NEW q \in Seq(Nat), NEW c \in Nat, NEW n \in Nat, c <= n,
         Ascending(p), \A i \in DOMAIN p : p[i] <= c,
         Ascending(q), \A i \in DOMAIN q : c < q[i] /\ q[i] <= n
  PROVE  Ascending(p \o q) /\ \A i \in DOMAIN (p \o q) : (p \o q)[i] <= n
<1> DEFINE r == p \o q
<1>1. /\ Len(p) \in Nat /\ DOMAIN p = 1..Len(p) /\ \A i \in DOMAIN p : p[i] \in Nat
      /\ Len(q) \in Nat /\ DOMAIN q = 1..Len(q) /\ \A i \in DOMAIN q : q[i] \in Nat
  OBVIOUS
<1>2. /\ DOMAIN r = 1..Len(p) + Len(q)
      /\ \A i \in DOMAIN r : r[i] = IF i <= Len(p) THEN p[i] ELSE q[i - Len(p)]
  <2>1. /\ r \in Seq(Nat) /\ Len(r) = Len(p) + Len(q)
        /\ \A i \in 1..Len(p) + Len(q) : r[i] = IF i <= Len(p) THEN p[i] ELSE q[i - Len(p)]
    BY ConcatProperties
  <2> HIDE DEF r
  <2> QED BY <2>1, SMTT(30)
<1> HIDE DEF r
<1>3. ASSUME NEW i \in DOMAIN r
      PROVE  \/ i \in DOMAIN p /\ r[i] = p[i]
             \/ i > Len(p) /\ i - Len(p) \in DOMAIN q /\ r[i] = q[i - Len(p)]
  BY <1>1, <1>2
<1>4. ASSUME NEW i \in DOMAIN r, NEW j \in DOMAIN r, i < j PROVE r[i] < r[j]
  <2>1. CASE i \in DOMAIN p /\ r[i] = p[i] /\ j \in DOMAIN p /\ r[j] = p[j]
    BY <1>4, <2>1 DEF Ascending
  <2>2. CASE /\ i \in DOMAIN p /\ r[i] = p[i]
             /\ j - Len(p) \in DOMAIN q /\ r[j] = q[j - Len(p)]
    BY <1>1, <2>2
  <2>3. CASE /\ i - Len(p) \in DOMAIN q /\ r[i] = q[i - Len(p)]
             /\ j - Len(p) \in DOMAIN q /\ r[j] = q[j - Len(p)]
    <3>1. i \in Int /\ j \in Int /\ i - Len(p) < j - Len(p)
      BY <1>1, <1>2, <1>4
    <3> QED BY <2>3, <3>1 DEF Ascending
  <2>4. ~(i > Len(p) /\ j \in DOMAIN p)
    BY <1>1, <1>2, <1>4
  <2> QED BY <1>3, <2>1, <2>2, <2>3, <2>4
<1>5. ASSUME NEW i \in DOMAIN r PROVE r[i] <= n
  <2>1. CASE i \in DOMAIN p /\ r[i] = p[i]
    BY <1>1, <2>1
  <2>2. CASE i - Len(p) \in DOMAIN q /\ r[i] = q[i - Len(p)]
    BY <2>2
  <2> QED BY <1>3, <2>1, <2>2
<1> QED BY <1>4, <1>5 DEF r, Ascending

-----------------------------------------------------------------------------
(* Type correctness.                                                       *)

\* Nothing is published, and the worker waits.
LEMMA InitTypeInv == Init => TypeInv
<1> SUFFICES ASSUME Init PROVE TypeOK /\ WorkerInv
  BY DEF TypeInv
<1>1. seq \in 0..MaxEvents /\ cursor \in 0..MaxEvents
  BY RingAssumption DEF Init
<1>2. since \in [Subscribers -> 0..MaxEvents] /\ delivered \in [Subscribers -> Seq(Events)]
  BY RingAssumption DEF Init
<1>3. /\ recent \in Seq(Events) /\ Len(recent) <= MaxRecent
      /\ deliverQueue \in Seq(Events) /\ got \in Seq(Events) /\ seen \in Seq(Events)
  BY RingAssumption DEF Init
<1>4. subs \in Seq(Subscribers) /\ todo \in Seq([ev : Events, sub : Subscribers])
  BY DEF Init
<1>5. upc \in [Subscribers -> {"new", "subscribed", "erased", "gone"}] /\ stop \in BOOLEAN
  BY DEF Init
<1> QED BY <1>1, <1>2, <1>3, <1>4, <1>5 DEF Init, TypeOK, WorkerInv

\* No step of a publisher, a subscriber, the worker or the client disturbs a shape.
LEMMA NextTypeInv == TypeInv /\ [Next]_vars => TypeInv'
<1> SUFFICES ASSUME TypeInv, [Next]_vars PROVE TypeInv'
  OBVIOUS
<1> USE RingAssumption
    DEF TypeInv, TypeOK, WorkerInv, publisherVars, subscriberVars, workerVars, pollerVars
<1>1. CASE Publish
  <2> DEFINE ring == Append(recent, seq + 1)
  <2>1. seq + 1 \in Events /\ ring \in Seq(Events) /\ Len(ring) = Len(recent) + 1
    BY <1>1 DEF Publish, Events
  <2>2. recent' \in Seq(Events) /\ Len(recent') <= MaxRecent
    <3>1. CASE Len(ring) > MaxRecent
      <4>1. MaxRecent \in 0..Len(ring) /\ recent' = Newest(ring, MaxRecent)
        BY <1>1, <2>1, <3>1 DEF Publish
      <4> HIDE DEF ring
      <4>2. Newest(ring, MaxRecent) \in Seq(Events) /\ Len(Newest(ring, MaxRecent)) = MaxRecent
        BY <2>1, <4>1, NewestProperties
      <4> QED BY <4>1, <4>2
    <3>2. CASE ~(Len(ring) > MaxRecent)
      BY <1>1, <2>1, <3>2 DEF Publish
    <3> QED BY <3>1, <3>2
  <2>3. seq' \in 0..MaxEvents /\ deliverQueue' \in Seq(Events)
    BY <1>1, <2>1 DEF Publish, Events
  <2>4. UNCHANGED <<subs, upc, since, stop, wpc, todo, delivered, cursor, got, ppc, seen>>
    BY <1>1 DEF Publish
  <2> QED BY <2>2, <2>3, <2>4
<1>2. ASSUME NEW s \in Subscribers, Subscribe(s) PROVE TypeInv'
  BY <1>2, SMTT(30) DEF Subscribe
<1>3. ASSUME NEW s \in Subscribers, Erase(s) PROVE TypeInv'
  <2>1. PICK i \in DOMAIN subs : subs' = RemoveAt(subs, i)
    BY <1>3 DEF Erase
  <2>2. subs' \in Seq(Subscribers)
    BY <2>1, RemoveElements
  <2> QED BY <1>3, <2>2 DEF Erase
<1>4. ASSUME NEW s \in Subscribers, Barrier(s) PROVE TypeInv'
  BY <1>4 DEF Barrier
<1>5. CASE Destroy BY <1>5 DEF Destroy
<1>6. CASE DeliverLoop
  <2>1. CASE Take
    <3>1. todo' \in Seq([ev : Events, sub : Subscribers])
      BY <2>1, CallsProperties DEF Take
    <3> QED BY <2>1, <3>1 DEF Take
  <2>2. CASE Exit BY <2>2 DEF Exit
  <2>3. CASE Acquire BY <2>3 DEF Acquire
  <2>4. CASE CallSubscriber
    <3> DEFINE c == Head(todo)
    <3>1. c \in [ev : Events, sub : Subscribers]
      <4>1. todo # <<>> /\ todo \in Seq([ev : Events, sub : Subscribers])
        BY <2>4 DEF CallSubscriber
      <4> QED BY <4>1, HeadTailProperties
    <3>2. delivered' \in [Subscribers -> Seq(Events)]
      BY <2>4, <3>1, SMTT(30) DEF CallSubscriber
    <3> QED BY <2>4, <3>2 DEF CallSubscriber
  <2>5. CASE CallReturns BY <2>5 DEF CallReturns
  <2>6. CASE EndBatch BY <2>6 DEF EndBatch
  <2> QED BY <1>6, <2>1, <2>2, <2>3, <2>4, <2>5, <2>6 DEF DeliverLoop
<1>7. CASE PollSince
  <2>1. PICK n \in 0..Len(recent) : got' = Newest(recent, n)
    BY <1>7 DEF PollSince
  <2>2. got' \in Seq(Events)
    BY <2>1, NewestProperties
  <2> QED BY <1>7, <2>2 DEF PollSince
<1>8. CASE PollHead BY <1>8 DEF PollHead
<1>9. CASE UNCHANGED vars BY <1>9 DEF vars
<1> QED BY <1>1, <1>2, <1>3, <1>4, <1>5, <1>6, <1>7, <1>8, <1>9 DEF Next

-----------------------------------------------------------------------------
(* The inductive invariant.                                                *)

\* An event is a sequence number.
LEMMA EventsNat == Events \subseteq Nat
BY RingAssumption DEF Events

\* The types as the proofs below need them.
LEMMA NatTypes ==
  TypeInv => /\ seq \in Nat /\ cursor \in Nat /\ \A s \in Subscribers : since[s] \in Nat
             /\ recent \in Seq(Nat) /\ deliverQueue \in Seq(Nat)
             /\ got \in Seq(Nat) /\ seen \in Seq(Nat)
             /\ \A s \in Subscribers : delivered[s] \in Seq(Nat)
<1>1. ASSUME NEW q \in Seq(Events) PROVE q \in Seq(Nat)
  <2>1. \A i \in 1..Len(q) : q[i] \in Nat
    <3>1. \A i \in 1..Len(q) : q[i] \in Events
      BY <1>1
    <3> QED BY <3>1, EventsNat
  <2>2. Len(q) \in Nat /\ q = [i \in 1..Len(q) |-> q[i]]
    OBVIOUS
  <2> QED BY <2>1, <2>2, IsASeq
<1>2. 0..MaxEvents \subseteq Nat
  OBVIOUS
<1> HIDE DEF Events
<1> QED BY <1>1, <1>2 DEF TypeInv, TypeOK

\* The ring moves with the publishers only.
LEMMA NextRingInv == TypeInv /\ RingInv /\ [Next]_vars => RingInv'
<1> SUFFICES ASSUME TypeInv, RingInv, [Next]_vars PROVE RingInv'
  OBVIOUS
<1>0. seq \in Nat /\ recent \in Seq(Nat) /\ EndsAt(recent, seq)
  BY NatTypes DEF RingInv
<1>1. CASE Publish
  <2> DEFINE ring == Append(recent, seq + 1)
  <2>1. EndsAt(ring, seq + 1) /\ ring \in Seq(Nat) /\ Len(ring) \in Nat
    BY <1>0, EndsAtAppend
  <2>2. /\ seq' = seq + 1
        /\ recent' = IF Len(ring) > MaxRecent THEN Newest(ring, MaxRecent) ELSE ring
    BY <1>1 DEF Publish
  <2> HIDE DEF ring
  <2>3. CASE Len(ring) > MaxRecent
    <3>1. MaxRecent \in 0..Len(ring) /\ seq + 1 \in Nat
      BY RingAssumption, <1>0, <2>1, <2>3
    <3>2. EndsAt(Newest(ring, MaxRecent), seq + 1)
      BY <2>1, <3>1, EndsAtNewest
    <3> QED BY <2>2, <2>3, <3>2 DEF RingInv
  <2>4. CASE ~(Len(ring) > MaxRecent)
    BY <2>1, <2>2, <2>4 DEF RingInv
  <2> QED BY <2>3, <2>4
<1>2. CASE UNCHANGED <<seq, recent>>
  BY <1>0, <1>2 DEF RingInv
<1> QED
  BY <1>1, <1>2
  DEF Next, vars, Subscribe, Erase, Barrier, Destroy, DeliverLoop, Take, Exit, Acquire,
      CallSubscriber, CallReturns, EndBatch, PollSince, PollHead, publisherVars

\* What the client is sent is above its cursor, and in order.
LEMMA NextPollInv == TypeInv /\ RingInv /\ PollInv /\ [Next]_vars => PollInv'
<1> SUFFICES ASSUME TypeInv, RingInv, PollInv, [Next]_vars PROVE PollInv'
  OBVIOUS
<1>0. /\ seq \in Nat /\ cursor \in Nat /\ recent \in Seq(Nat) /\ EndsAt(recent, seq)
      /\ got \in Seq(Nat) /\ seen \in Seq(Nat)
  BY NatTypes DEF RingInv
<1>1. CASE Publish
  <2>1. seq' = seq + 1 /\ UNCHANGED pollerVars
    BY <1>1 DEF Publish
  <2>2. \A i \in DOMAIN got : got[i] \in Nat
    BY <1>0
  <2> QED BY <1>0, <2>1, <2>2 DEF PollInv, pollerVars
<1>2. CASE PollSince
  <2>1. PICK n \in 0..Len(recent) :
           got' = Newest(recent, n) /\ \A i \in DOMAIN recent : recent[i] > cursor <=> i > Len(recent) - n
    BY <1>2 DEF PollSince
  <2>2. UNCHANGED <<seq, cursor, seen>>
    BY <1>2 DEF PollSince, publisherVars
  <2>3. EndsAt(got', seq) /\ got' \in Seq(Nat) /\ Len(got') = n
    BY <1>0, <2>1, EndsAtNewest, NewestProperties
  <2>4. Ascending(got') /\ \A i \in DOMAIN got' : got'[i] <= seq
    BY <1>0, <2>3, EndsAtAscending
  <2>5. ASSUME NEW i \in DOMAIN got' PROVE cursor < got'[i]
    <3>1. i \in 1..n /\ Len(recent) \in Nat /\ DOMAIN recent = 1..Len(recent)
      BY <1>0, <2>3
    <3>2. got'[i] = recent[Len(recent) - n + i]
      BY <1>0, <2>1, <3>1, NewestProperties
    <3>3. Len(recent) - n + i \in DOMAIN recent /\ Len(recent) - n + i > Len(recent) - n
      BY <3>1
    <3>4. recent[Len(recent) - n + i] > cursor /\ recent[Len(recent) - n + i] \in Nat
      BY <1>0, <2>1, <3>3
    <3> QED BY <1>0, <3>2, <3>4
  <2> QED BY <2>2, <2>4, <2>5 DEF PollInv
<1>3. CASE PollHead
  <2>1. seen' = seen \o got /\ cursor' = seq /\ got' = <<>> /\ seq' = seq
    BY <1>3 DEF PollHead, publisherVars
  <2>2. Ascending(seen \o got) /\ \A i \in DOMAIN (seen \o got) : (seen \o got)[i] <= seq
    BY <1>0, ConcatAscending DEF PollInv
  <2>3. DOMAIN got' = {}
    BY <2>1
  <2>4. Ascending(got') /\ \A i \in DOMAIN got' : cursor' < got'[i] /\ got'[i] <= seq'
    BY <2>3 DEF Ascending
  <2>5. cursor' <= seq' /\ Ascending(seen') /\ \A i \in DOMAIN seen' : seen'[i] <= cursor'
    BY <1>0, <2>1, <2>2
  <2> QED BY <2>4, <2>5 DEF PollInv
<1>4. CASE UNCHANGED <<seq, pollerVars>>
  BY <1>4 DEF PollInv, pollerVars
<1> QED
  BY <1>1, <1>2, <1>3, <1>4
  DEF Next, vars, Subscribe, Erase, Barrier, Destroy, DeliverLoop, Take, Exit, Acquire,
      CallSubscriber, CallReturns, EndBatch, publisherVars, pollerVars

\* The queue is filled in order of seq and taken whole.
LEMMA NextQueueInv == TypeInv /\ QueueInv /\ [Next]_vars => QueueInv'
<1> SUFFICES ASSUME TypeInv, QueueInv, [Next]_vars PROVE QueueInv'
  OBVIOUS
<1>0. seq \in Nat /\ deliverQueue \in Seq(Nat) /\ EndsAt(deliverQueue, seq)
  BY NatTypes DEF QueueInv
<1>1. CASE Publish
  <2>1. seq' = seq + 1 /\ deliverQueue' = Append(deliverQueue, seq + 1)
    BY <1>1 DEF Publish
  <2> QED BY <1>0, <2>1, EndsAtAppend DEF QueueInv
<1>2. CASE Take
  <2>1. seq' = seq /\ deliverQueue' = <<>>
    BY <1>2 DEF Take
  <2> QED BY <1>0, <2>1 DEF QueueInv, EndsAt
<1>3. CASE UNCHANGED <<seq, deliverQueue>>
  BY <1>0, <1>3 DEF QueueInv
<1> QED
  BY <1>1, <1>2, <1>3
  DEF Next, vars, Subscribe, Erase, Barrier, Destroy, DeliverLoop, Exit, Acquire,
      CallSubscriber, CallReturns, EndBatch, PollSince, PollHead, publisherVars

\* A batch holds a call for each subscriber of the queue's events, and no other.
LEMMA LeftTake ==
  ASSUME TypeInv, Take, NEW s \in Subscribers, NEW e \in Events
  PROVE  Left(s, e)' <=> s \in Range(subs) /\ e \in Range(deliverQueue)
<1> DEFINE calls == Calls(deliverQueue, subs)
<1>0. /\ deliverQueue \in Seq(Events) /\ subs \in Seq(Subscribers)
      /\ Len(deliverQueue) \in Nat /\ DOMAIN deliverQueue = 1..Len(deliverQueue)
      /\ Len(subs) \in Nat /\ DOMAIN subs = 1..Len(subs)
  BY DEF TypeInv, TypeOK
<1>1. calls \in Seq([ev : Events, sub : Subscribers])
  BY <1>0, CallsProperties
<1>2. todo' = calls /\ wpc' # "calling"
  BY DEF Take
<1> HIDE DEF calls
<1>3. Left(s, e)' <=> \E k \in DOMAIN calls : calls[k].sub = s /\ calls[k].ev = e
  BY <1>1, <1>2 DEF Left, Rest
<1>4. ASSUME NEW k \in DOMAIN calls, calls[k].sub = s, calls[k].ev = e
      PROVE  s \in Range(subs) /\ e \in Range(deliverQueue)
  <2>1. PICK b \in 0..Len(deliverQueue)-1, c \in 0..Len(subs)-1 :
           calls[k] = [ev |-> deliverQueue[b + 1], sub |-> subs[c + 1]]
    BY <1>0, <1>4, CallsIndex DEF calls
  <2>2. b + 1 \in DOMAIN deliverQueue /\ c + 1 \in DOMAIN subs
    BY <1>0
  <2> QED BY <1>4, <2>1, <2>2 DEF Range
<1>5. ASSUME s \in Range(subs), e \in Range(deliverQueue)
      PROVE  \E k \in DOMAIN calls : calls[k].sub = s /\ calls[k].ev = e
  <2>1. PICK b \in DOMAIN deliverQueue, c \in DOMAIN subs : deliverQueue[b] = e /\ subs[c] = s
    BY <1>5 DEF Range
  <2>2. b - 1 \in 0..Len(deliverQueue)-1 /\ c - 1 \in 0..Len(subs)-1
        /\ (b - 1) + 1 = b /\ (c - 1) + 1 = c
    BY <1>0
  <2>3. \E k \in DOMAIN calls : calls[k] = [ev |-> deliverQueue[b], sub |-> subs[c]]
    BY <1>0, <2>2, CallsCover DEF calls
  <2> QED BY <2>1, <2>3
<1> QED BY <1>3, <1>4, <1>5

\* A call takes the first event left for its subscriber, and only that.
LEMMA LeftCall ==
  ASSUME TypeInv, OrderInv, CallSubscriber
  PROVE  LET c == Head(todo)
         IN  /\ c \in [ev : Events, sub : Subscribers]
             /\ Left(c.sub, c.ev)
             /\ \A e \in Events : Left(c.sub, e) => c.ev <= e
             /\ \A s \in Subscribers, e \in Events :
                    Left(s, e)' <=> Left(s, e) /\ ~(s = c.sub /\ e = c.ev)
<1> DEFINE c == Head(todo)
<1>0. /\ todo \in Seq([ev : Events, sub : Subscribers]) /\ Len(todo) \in Nat \ {0}
      /\ c = todo[1] /\ c \in [ev : Events, sub : Subscribers]
  <2>1. todo \in Seq([ev : Events, sub : Subscribers]) /\ todo # <<>>
    BY DEF TypeInv, TypeOK, CallSubscriber
  <2>2. Len(todo) \in Nat \ {0} /\ c = todo[1]
    BY <2>1
  <2>3. \A k \in 1..Len(todo) : todo[k] \in [ev : Events, sub : Subscribers]
    BY <2>1, ElementOfSeq
  <2> HIDE DEF c
  <2> QED BY <2>1, <2>2, <2>3
<1>1. Rest = 1..Len(todo) /\ Rest' = 2..Len(todo) /\ todo' = todo
  BY DEF CallSubscriber, Rest
<1>2. \A k \in Rest : k = 1 \/ k \in Rest'
  BY <1>0, <1>1
<1>3. 1 \in Rest /\ 1 \notin Rest' /\ Rest' \subseteq Rest /\ \A k \in Rest' : 1 < k
  BY <1>0, <1>1
<1>4. \A k \in Rest : todo[k].ev \in Nat
  <2>1. \A k \in Rest : todo[k] \in [ev : Events, sub : Subscribers]
    BY <1>0, <1>1, ElementOfSeq
  <2> QED BY <2>1, EventsNat
<1> HIDE DEF c
<1>5. Left(c.sub, c.ev)
  BY <1>0, <1>3 DEF Left
<1>6. \A k \in Rest' : todo[k].sub = c.sub => c.ev < todo[k].ev
  BY <1>0, <1>3 DEF OrderInv
<1>7. ASSUME NEW e \in Events, Left(c.sub, e) PROVE c.ev <= e
  <2>1. PICK k \in Rest : todo[k].sub = c.sub /\ todo[k].ev = e
    BY <1>7 DEF Left
  <2>2. e \in Nat /\ c.ev \in Nat
    BY <1>0, <1>3, <1>4, EventsNat
  <2>3. CASE k = 1
    BY <1>0, <2>1, <2>2, <2>3
  <2>4. CASE k \in Rest'
    BY <1>6, <2>1, <2>2, <2>4
  <2> QED BY <1>2, <2>3, <2>4
<1>8. ASSUME NEW s \in Subscribers, NEW e \in Events
      PROVE  Left(s, e)' <=> Left(s, e) /\ ~(s = c.sub /\ e = c.ev)
  <2>0. Left(s, e)' <=> \E k \in Rest' : todo[k].sub = s /\ todo[k].ev = e
    BY <1>1 DEF Left
  <2>1. ASSUME NEW k \in Rest', todo[k].sub = s, todo[k].ev = e
        PROVE  Left(s, e) /\ ~(s = c.sub /\ e = c.ev)
    <3>1. k \in Rest /\ todo[k].ev \in Nat
      BY <1>3, <1>4
    <3> QED BY <1>6, <2>1, <3>1 DEF Left
  <2>2. ASSUME Left(s, e), ~(s = c.sub /\ e = c.ev)
        PROVE  \E k \in Rest' : todo[k].sub = s /\ todo[k].ev = e
    <3>1. PICK k \in Rest : todo[k].sub = s /\ todo[k].ev = e
      BY <2>2 DEF Left
    <3> QED BY <1>0, <1>2, <2>2, <3>1
  <2> QED BY <2>0, <2>1, <2>2
<1> QED BY <1>0, <1>5, <1>7, <1>8 DEF c

\* A call that returns leaves what was left.
LEMMA LeftReturns ==
  ASSUME TypeInv, CallReturns
  PROVE  /\ \A k \in Rest' : k + 1 \in Rest /\ todo'[k] = todo[k + 1]
         /\ \A k \in Rest : k - 1 \in Rest' /\ todo'[k - 1] = todo[k]
         /\ \A s, e : Left(s, e)' <=> Left(s, e)
<1>0. /\ todo \in Seq([ev : Events, sub : Subscribers]) /\ Len(todo) \in Nat \ {0}
      /\ todo' = Tail(todo)
  BY DEF TypeInv, TypeOK, WorkerInv, CallReturns
<1>1. /\ Tail(todo) \in Seq([ev : Events, sub : Subscribers])
      /\ Len(Tail(todo)) = Len(todo) - 1
      /\ \A i \in 1..Len(todo) - 1 : Tail(todo)[i] = todo[i + 1]
  BY <1>0
<1>2. Rest = 2..Len(todo) /\ Rest' = 1..Len(todo) - 1
  BY <1>0, <1>1 DEF CallReturns, Rest
<1>3. \A k \in Rest' : k + 1 \in Rest /\ todo'[k] = todo[k + 1]
  BY <1>0, <1>1, <1>2
<1>4. \A k \in Rest : k - 1 \in Rest' /\ todo'[k - 1] = todo[k]
  BY <1>0, <1>1, <1>2
<1> QED BY <1>3, <1>4 DEF Left

\* What is left to be called changes with a batch taken and a call made only;
\* and so does what each subscriber was called with.
LEMMA LeftSame ==
  ASSUME TypeInv, [Next]_vars, ~Take, ~CallSubscriber
  PROVE  /\ delivered' = delivered /\ Taken' = Taken
         /\ \A s, e : Left(s, e)' <=> Left(s, e)
<1>1. CASE CallReturns
  BY <1>1, LeftReturns DEF CallReturns, publisherVars, Taken
<1>2. CASE Publish
  <2>1. /\ seq' = seq + 1 /\ deliverQueue' = Append(deliverQueue, seq + 1)
        /\ UNCHANGED <<todo, wpc, delivered>>
    BY <1>2 DEF Publish, workerVars
  <2>2. seq \in Nat /\ deliverQueue \in Seq(Nat)
    BY NatTypes
  <2>3. Len(deliverQueue') = Len(deliverQueue) + 1 /\ Len(deliverQueue) \in Nat
    BY <2>1, <2>2
  <2>4. Taken' = Taken
    BY <2>1, <2>2, <2>3 DEF Taken
  <2> QED BY <2>1, <2>4 DEF Left, Rest
<1>3. CASE /\ UNCHANGED <<seq, deliverQueue, todo, delivered>>
           /\ wpc' = "calling" <=> wpc = "calling"
  BY <1>3 DEF Left, Rest, Taken
<1> QED
  BY <1>1, <1>2, <1>3
  DEF Next, vars, Subscribe, Erase, Barrier, Destroy, DeliverLoop, Exit, Acquire, EndBatch,
      PollSince, PollHead, publisherVars, workerVars

\* Entries come and go with Subscribe and Erase; a new subscriber has no past.
LEMMA NextSubsInv == TypeInv /\ SubsInv /\ OrderInv /\ [Next]_vars => SubsInv'
<1> SUFFICES ASSUME TypeInv, SubsInv, OrderInv, [Next]_vars PROVE SubsInv'
  OBVIOUS
<1>0. /\ subs \in Seq(Subscribers) /\ seq \in Nat /\ upc \in [Subscribers -> {"new", "subscribed", "erased", "gone"}]
      /\ since \in [Subscribers -> 0..MaxEvents]
  BY DEF TypeInv, TypeOK
<1> DEFINE OldNew == \A s \in Subscribers : upc'[s] = "new" => upc[s] = "new"
<1>1. EntriesInv' /\ OldNew
  <2>0. /\ IsInjective(subs)
        /\ \A s \in Subscribers : s \in Range(subs) <=> upc[s] = "subscribed"
        /\ \A s \in Subscribers : since[s] <= seq /\ since[s] \in Nat
    BY NatTypes DEF SubsInv, EntriesInv
  <2>1. ASSUME NEW t \in Subscribers, Subscribe(t) PROVE EntriesInv' /\ OldNew
    <3>1. t \notin Range(subs)
      BY <2>0, <2>1 DEF Subscribe
    <3>2. /\ subs' = Append(subs, t) /\ upc' = [upc EXCEPT ![t] = "subscribed"]
          /\ since' = [since EXCEPT ![t] = seq] /\ seq' = seq
      BY <2>1 DEF Subscribe, publisherVars
    <3>3. IsInjective(Append(subs, t)) /\ Range(Append(subs, t)) = Range(subs) \union {t}
      BY <1>0, <2>0, <3>1, AppendDistinct
    <3> QED BY <1>0, <2>0, <3>2, <3>3 DEF EntriesInv
  <2>2. ASSUME NEW t \in Subscribers, Erase(t) PROVE EntriesInv' /\ OldNew
    <3>1. PICK i \in DOMAIN subs : subs[i] = t /\ subs' = RemoveAt(subs, i)
      BY <2>2 DEF Erase
    <3>2. upc' = [upc EXCEPT ![t] = "erased"] /\ since' = since /\ seq' = seq
      BY <2>2 DEF Erase, publisherVars
    <3>3. /\ IsInjective(RemoveAt(subs, i))
          /\ Range(RemoveAt(subs, i)) = Range(subs) \ {subs[i]}
      BY <1>0, <2>0, RemoveDistinct
    <3> QED BY <1>0, <2>0, <3>1, <3>2, <3>3 DEF EntriesInv
  <2>3. ASSUME NEW t \in Subscribers, Barrier(t) PROVE EntriesInv' /\ OldNew
    <3>1. /\ subs' = subs /\ since' = since /\ seq' = seq
          /\ upc[t] = "erased" /\ upc' = [upc EXCEPT ![t] = "gone"]
      BY <2>3 DEF Barrier, publisherVars
    <3> QED BY <1>0, <2>0, <3>1 DEF EntriesInv
  <2>4. CASE Publish
    <3>1. seq' = seq + 1 /\ UNCHANGED subscriberVars
      BY <2>4 DEF Publish
    <3> QED BY <1>0, <2>0, <3>1 DEF EntriesInv, subscriberVars
  <2>5. CASE seq' = seq /\ UNCHANGED subscriberVars
    BY <2>0, <2>5 DEF EntriesInv, subscriberVars
  <2> QED
    BY <2>1, <2>2, <2>3, <2>4, <2>5
    DEF Next, vars, Destroy, DeliverLoop, Take, Exit, Acquire, CallSubscriber, CallReturns,
        EndBatch, PollSince, PollHead, publisherVars, subscriberVars
<1>2. ASSUME NEW s \in Subscribers, upc'[s] = "new"
      PROVE  delivered'[s] = <<>> /\ \A e \in Events : ~Left(s, e)'
  <2>1. delivered[s] = <<>> /\ (\A e \in Events : ~Left(s, e)) /\ s \notin Range(subs)
    BY <1>0, <1>1, <1>2 DEF SubsInv, EntriesInv, NewInv
  <2>2. CASE Take
    <3>1. delivered' = delivered
      BY <2>2 DEF Take
    <3> QED BY <2>1, <2>2, <3>1, LeftTake
  <2>3. CASE CallSubscriber
    <3> DEFINE c == Head(todo)
    <3>1. /\ c.sub \in Subscribers /\ c.ev \in Events /\ Left(c.sub, c.ev)
          /\ \A e \in Events : Left(s, e)' => Left(s, e)
      BY <2>3, LeftCall
    <3>2. delivered' = [delivered EXCEPT ![c.sub] = Append(@, c.ev)]
      BY <2>3 DEF CallSubscriber
    <3>3. delivered \in [Subscribers -> Seq(Events)]
      BY DEF TypeInv, TypeOK
    <3> HIDE DEF c
    <3>4. c.sub # s
      BY <2>1, <3>1
    <3> QED BY <2>1, <3>1, <3>2, <3>3, <3>4
  <2>4. CASE ~Take /\ ~CallSubscriber
    BY <2>1, <2>4, LeftSame
  <2> QED BY <2>2, <2>3, <2>4
<1> QED BY <1>1, <1>2 DEF SubsInv, NewInv

\* A batch is in order, and stays so to its end.
LEMMA NextOrderInv == TypeInv /\ QueueInv /\ SubsInv /\ OrderInv /\ [Next]_vars => OrderInv'
<1> SUFFICES ASSUME TypeInv, QueueInv, SubsInv, OrderInv, [Next]_vars PROVE OrderInv'
  OBVIOUS
<1>1. CASE Take
  <2> DEFINE calls == Calls(deliverQueue, subs)
  <2>1. todo' = calls /\ wpc' # "calling"
    BY <1>1 DEF Take
  <2>2. IsInjective(subs) /\ Ascending(deliverQueue)
    BY NatTypes, EndsAtAscending DEF QueueInv, SubsInv, EntriesInv
  <2>3. deliverQueue \in Seq(Events) /\ subs \in Seq(Subscribers)
    BY DEF TypeInv, TypeOK
  <2>4. /\ calls \in Seq([ev : Events, sub : Subscribers])
        /\ \A i, j \in DOMAIN calls :
               i < j /\ calls[i].sub = calls[j].sub => calls[i].ev < calls[j].ev
    BY <2>2, <2>3, CallsProperties
  <2> HIDE DEF calls
  <2>5. DOMAIN calls = 1..Len(calls)
    BY <2>4
  <2> QED BY <2>1, <2>4, <2>5 DEF OrderInv, Rest
<1>2. CASE CallSubscriber
  <2>1. todo' = todo /\ Rest = 1..Len(todo) /\ Rest' = 2..Len(todo)
    BY <1>2 DEF CallSubscriber, Rest
  <2>2. Rest' \subseteq Rest
    BY <2>1
  <2> QED BY <2>1, <2>2 DEF OrderInv
<1>3. CASE CallReturns
  <2>1. \A k \in Rest' : k + 1 \in Rest /\ todo'[k] = todo[k + 1] /\ k \in Int
    <3>1. Rest' \subseteq Int
      BY <1>3 DEF CallReturns, Rest
    <3> QED BY <1>3, <3>1, LeftReturns
  <2>2. \A i, j \in Rest' : i < j => i + 1 < j + 1
    BY <2>1
  <2> QED BY <2>1, <2>2 DEF OrderInv
<1>4. CASE todo' = todo /\ (wpc' = "calling" <=> wpc = "calling")
  BY <1>4 DEF OrderInv, Rest
<1> QED
  BY <1>1, <1>2, <1>3, <1>4
  DEF Next, vars, Publish, Subscribe, Erase, Barrier, Destroy, DeliverLoop, Exit, Acquire,
      EndBatch, PollSince, PollHead, workerVars

\* The first call left for a subscriber is the one due to it.
LEMMA CallIsDue ==
  ASSUME TypeInv, OrderInv, DueInv, CallSubscriber
  PROVE  Due(Head(todo).sub, Head(todo).ev)
<1> DEFINE c == Head(todo)
<1>1. /\ c.sub \in Subscribers /\ c.ev \in Events /\ Left(c.sub, c.ev)
      /\ \A e \in Events : Left(c.sub, e) => c.ev <= e
  BY LeftCall
<1> HIDE DEF c
<1>2. PICK n \in Nat \ {0} : Due(c.sub, n)
  BY <1>1 DEF DueInv
<1>3. /\ \A e \in Events : Left(c.sub, e) <=> n <= e /\ e <= Taken
      /\ Taken \in Int
  <2>1. Taken \in Int
    BY NatTypes DEF Taken
  <2> QED BY <1>2, <2>1 DEF Due
<1>4. c.ev \in Nat /\ n <= c.ev /\ c.ev <= Taken
  BY <1>1, <1>3, EventsNat
<1>5. n \in Events /\ n <= Taken
  BY <1>1, <1>3, <1>4, RingAssumption DEF Events
<1>6. n = c.ev
  BY <1>1, <1>3, <1>4, <1>5
<1> QED BY <1>2, <1>6 DEF c

\* What is due to a subscriber depends on nothing else.
LEMMA DueSame ==
  ASSUME NEW s \in Subscribers, NEW n \in Nat, Due(s, n), since'[s] = since[s],
         delivered'[s] = delivered[s], Taken' = Taken,
         \A e \in Events : Left(s, e)' <=> Left(s, e)
  PROVE  Due(s, n)'
BY DEF Due

\* What is due to a subscriber moves by one with each call, and in no other step.
LEMMA NextDueInv ==
  TypeInv /\ QueueInv /\ SubsInv /\ OrderInv /\ DueInv /\ [Next]_vars => DueInv'
<1> SUFFICES ASSUME TypeInv, QueueInv, SubsInv, OrderInv, DueInv, [Next]_vars,
                    NEW s \in Subscribers,
                    upc'[s] = "subscribed" \/ \E e \in Events : Left(s, e)'
             PROVE  \E n \in Nat \ {0} : Due(s, n)'
  BY DEF DueInv
<1>0. /\ upc \in [Subscribers -> {"new", "subscribed", "erased", "gone"}]
      /\ since \in [Subscribers -> 0..MaxEvents] /\ delivered \in [Subscribers -> Seq(Events)]
      /\ seq \in Nat /\ seq <= MaxEvents /\ since[s] \in Nat
      /\ deliverQueue \in Seq(Nat) /\ Len(deliverQueue) \in Nat /\ Len(deliverQueue) <= seq
      /\ Taken \in Nat /\ Taken <= seq
  <2>1. /\ seq \in Nat /\ seq <= MaxEvents /\ since[s] \in Nat
        /\ deliverQueue \in Seq(Nat) /\ Len(deliverQueue) <= seq
    BY NatTypes, RingAssumption DEF TypeInv, TypeOK, QueueInv, EndsAt
  <2>2. Len(deliverQueue) \in Nat
    BY <2>1
  <2>3. Taken \in Nat /\ Taken <= seq
    BY <2>1, <2>2 DEF Taken
  <2> QED BY <2>1, <2>2, <2>3 DEF TypeInv, TypeOK
<1>1. CASE Take
  <2>1. /\ upc' = upc /\ since' = since /\ delivered' = delivered /\ seq' = seq
        /\ deliverQueue' = <<>> /\ wpc = "waiting"
    BY <1>1 DEF Take, subscriberVars
  <2>2. Taken' = seq
    BY <1>0, <2>1 DEF Taken
  <2>3. todo = <<>>
    BY <2>1 DEF TypeInv, WorkerInv
  <2>4. \A e \in Events : ~Left(s, e)
    BY <2>1, <2>3 DEF Left, Rest
  <2>5. s \in Range(subs) /\ upc[s] = "subscribed"
    <3>1. upc[s] = "subscribed" \/ \E e \in Events : Left(s, e)'
      BY <2>1
    <3> QED BY <1>1, <3>1, LeftTake DEF SubsInv, EntriesInv
  <2>6. PICK n \in Nat \ {0} : Due(s, n)
    BY <2>5 DEF DueInv
  <2>7. n = Taken + 1
    <3>1. n <= Taken + 1 /\ \A e \in Events : ~(n <= e /\ e <= Taken)
      BY <2>4, <2>6 DEF Due
    <3>2. n <= Taken => n \in Events
      BY <1>0, RingAssumption DEF Events
    <3> QED BY <1>0, <3>1, <3>2
  <2>8. ASSUME NEW e \in Events PROVE Left(s, e)' <=> n <= e /\ e <= Taken'
    <3>1. Left(s, e)' <=> e \in Range(deliverQueue)
      BY <1>1, <2>5, LeftTake
    <3>2. \A i \in 1..Len(deliverQueue) : deliverQueue[i] = Taken + i
      BY <1>0 DEF QueueInv, EndsAt, Taken
    <3>3. e \in Nat /\ Taken + Len(deliverQueue) = seq
      BY <1>0, EventsNat DEF Taken
    <3>4. e \in Range(deliverQueue) => Taken < e /\ e <= seq
      <4>1. DOMAIN deliverQueue = 1..Len(deliverQueue)
        BY <1>0
      <4>2. \A i \in 1..Len(deliverQueue) : Taken < Taken + i /\ Taken + i <= seq
        BY <1>0, <3>3
      <4> QED BY <3>2, <4>1, <4>2 DEF Range
    <3>5. ASSUME Taken < e, e <= seq PROVE e \in Range(deliverQueue)
      <4>1. e - Taken \in 1..Len(deliverQueue) /\ Taken + (e - Taken) = e
        BY <1>0, <3>3, <3>5
      <4>2. DOMAIN deliverQueue = 1..Len(deliverQueue)
        BY <1>0
      <4> QED BY <3>2, <4>1, <4>2 DEF Range
    <3> QED BY <1>0, <2>2, <2>7, <3>1, <3>3, <3>4, <3>5
  <2>9. Due(s, n)'
    <3>1. /\ delivered[s] # <<>> => n = Last(delivered[s]) + 1
          /\ delivered[s] = <<>> => n <= since[s] + 1
      BY <2>6 DEF Due
    <3>2. n <= Taken' + 1
      BY <1>0, <2>2, <2>7
    <3> QED BY <2>1, <2>8, <3>1, <3>2 DEF Due
  <2> QED BY <2>9
<1>2. CASE CallSubscriber
  <2> DEFINE c == Head(todo)
  <2>1. /\ c.sub \in Subscribers /\ c.ev \in Events /\ Left(c.sub, c.ev)
        /\ \A t \in Subscribers, e \in Events :
               Left(t, e)' <=> Left(t, e) /\ ~(t = c.sub /\ e = c.ev)
        /\ Due(c.sub, c.ev)
    BY <1>2, LeftCall, CallIsDue
  <2>2. /\ upc' = upc /\ since' = since /\ seq' = seq /\ deliverQueue' = deliverQueue
        /\ delivered' = [delivered EXCEPT ![c.sub] = Append(@, c.ev)]
    BY <1>2 DEF CallSubscriber, subscriberVars, publisherVars
  <2>3. Taken' = Taken
    BY <2>2 DEF Taken
  <2> HIDE DEF c
  <2>4. CASE s = c.sub
    <3>0. PICK n \in Events : n = c.ev
      BY <2>1
    <3>1. n \in Nat \ {0} /\ n <= Taken
      <4>1. n <= Taken
        BY <2>1, <3>0 DEF Due
      <4> QED BY <4>1, RingAssumption DEF Events
    <3>2. delivered'[s] = Append(delivered[s], n)
      BY <1>0, <2>2, <2>4, <3>0
    <3>3. delivered'[s] # <<>> /\ Last(delivered'[s]) = n
      <4>1. delivered[s] \in Seq(Events)
        BY <1>0
      <4> QED BY <3>2, <4>1, LastAppend
    <3>4. ASSUME NEW e \in Events PROVE Left(s, e)' <=> n + 1 <= e /\ e <= Taken'
      <4>1. Left(s, e)' <=> n <= e /\ e <= Taken /\ e # n
        BY <2>1, <2>4, <3>0 DEF Due
      <4>2. e \in Nat
        BY EventsNat
      <4> QED BY <2>3, <3>1, <4>1, <4>2
    <3>5. n + 1 <= Taken' + 1
      BY <1>0, <2>3, <3>1
    <3>6. Due(s, n + 1)'
      BY <3>3, <3>4, <3>5 DEF Due
    <3> QED BY <3>1, <3>6
  <2>5. CASE s # c.sub
    <3>1. \A e \in Events : Left(s, e)' <=> Left(s, e)
      BY <2>1, <2>5
    <3>2. PICK n \in Nat \ {0} : Due(s, n)
      BY <2>2, <3>1 DEF DueInv
    <3>3. delivered'[s] = delivered[s] /\ since'[s] = since[s]
      BY <2>2, <2>5
    <3> QED BY <2>3, <3>1, <3>2, <3>3, DueSame
  <2> QED BY <2>4, <2>5
<1>3. CASE ~Take /\ ~CallSubscriber
  <2>1. /\ delivered' = delivered /\ Taken' = Taken
        /\ \A e \in Events : Left(s, e)' <=> Left(s, e)
    BY <1>3, LeftSame
  <2>2. CASE Subscribe(s)
    <3>1. delivered'[s] = <<>> /\ \A e \in Events : ~Left(s, e)'
      BY <2>1, <2>2 DEF Subscribe, SubsInv, NewInv
    <3>2. since'[s] = seq
      BY <1>0, <2>2 DEF Subscribe
    <3>3. PICK n \in Nat \ {0} : n = Taken + 1
      BY <1>0
    <3>4. \A e \in Events : ~(n <= e /\ e <= Taken)
      BY <1>0, <3>3, EventsNat
    <3>5. n <= since'[s] + 1 /\ n <= Taken' + 1
      BY <1>0, <2>1, <3>2, <3>3
    <3>6. \A e \in Events : Left(s, e)' <=> n <= e /\ e <= Taken'
      BY <2>1, <3>1, <3>4
    <3>7. Due(s, n)'
      BY <3>1, <3>5, <3>6 DEF Due
    <3> QED BY <3>7
  <2>3. CASE since'[s] = since[s] /\ (upc'[s] = "subscribed" => upc[s] = "subscribed")
    <3>1. PICK n \in Nat \ {0} : Due(s, n)
      BY <2>1, <2>3 DEF DueInv
    <3> QED BY <2>1, <2>3, <3>1, DueSame
  <2>4. ASSUME NEW t \in Subscribers, Subscribe(t), t # s
        PROVE  since'[s] = since[s] /\ upc'[s] = upc[s]
    BY <1>0, <2>4 DEF Subscribe
  <2>5. ASSUME NEW t \in Subscribers, Erase(t) \/ Barrier(t)
        PROVE  since' = since /\ (upc'[s] = "subscribed" => upc[s] = "subscribed")
    BY <1>0, <2>5 DEF Erase, Barrier
  <2> QED
    BY <1>3, <2>2, <2>3, <2>4, <2>5
    DEF Next, vars, Publish, Destroy, DeliverLoop, Exit, Acquire, CallReturns, EndBatch,
        PollSince, PollHead, subscriberVars
<1> QED BY <1>1, <1>2, <1>3

\* What a subscriber was called with grows at its end, by the event due.
LEMMA NextDeliveredInv ==
  TypeInv /\ SubsInv /\ OrderInv /\ DueInv /\ DeliveredInv /\ [Next]_vars => DeliveredInv'
<1> SUFFICES ASSUME TypeInv, SubsInv, OrderInv, DueInv, DeliveredInv, [Next]_vars,
                    NEW s \in Subscribers, delivered'[s] # <<>>
             PROVE  /\ \A i \in DOMAIN delivered'[s] : delivered'[s][i] = delivered'[s][1] + i - 1
                    /\ delivered'[s][1] <= since'[s] + 1
  BY DEF DeliveredInv
<1>0. /\ upc \in [Subscribers -> {"new", "subscribed", "erased", "gone"}]
      /\ since \in [Subscribers -> 0..MaxEvents] /\ delivered \in [Subscribers -> Seq(Events)]
      /\ since[s] \in Nat /\ delivered[s] \in Seq(Nat)
  BY NatTypes DEF TypeInv, TypeOK
<1>1. CASE CallSubscriber /\ s = Head(todo).sub
  <2> DEFINE n == Head(todo).ev
             d == delivered[s]
  <2>1. n \in Nat /\ Due(s, n)
    BY <1>1, LeftCall, CallIsDue, EventsNat
  <2>2. delivered'[s] = Append(d, n) /\ since' = since
    BY <1>0, <1>1 DEF CallSubscriber, subscriberVars
  <2>3. /\ d # <<>> => n = d[Len(d)] + 1
        /\ d = <<>> => n <= since[s] + 1
    BY <2>1 DEF Due, Last
  <2>4. d # <<>> => (\A i \in DOMAIN d : d[i] = d[1] + i - 1) /\ d[1] <= since[s] + 1
    BY DEF DeliveredInv
  <2>5. d \in Seq(Nat)
    BY <1>0
  <2> HIDE DEF n, d
  <2>6. /\ Len(d) \in Nat /\ DOMAIN d = 1..Len(d) /\ DOMAIN Append(d, n) = 1..Len(d)+1
        /\ Append(d, n)[Len(d)+1] = n /\ \A i \in 1..Len(d) : Append(d, n)[i] = d[i] /\ d[i] \in Nat
    BY <2>1, <2>5
  <2>7. CASE d = <<>>
    <3>1. Len(d) = 0
      BY <2>7
    <3>2. DOMAIN Append(d, n) = 1..1 /\ Append(d, n)[1] = n
      BY <2>6, <3>1
    <3> QED BY <2>1, <2>2, <2>3, <2>7, <3>2
  <2>8. CASE d # <<>>
    <3>1. Len(d) \in 1..Len(d) /\ 1 \in 1..Len(d)
      BY <2>5, <2>6, <2>8
    <3>2. n = d[1] + Len(d) /\ d[1] \in Nat
      BY <2>3, <2>4, <2>6, <2>8, <3>1
    <3>3. Append(d, n)[1] = d[1]
      BY <2>6, <3>1
    <3>4. ASSUME NEW i \in 1..Len(d)+1 PROVE Append(d, n)[i] = d[1] + i - 1
      <4>1. CASE i \in 1..Len(d)
        BY <2>4, <2>6, <2>8, <4>1
      <4>2. CASE i = Len(d) + 1
        BY <2>6, <3>2, <4>2
      <4> QED BY <2>6, <4>1, <4>2
    <3> QED BY <2>2, <2>4, <2>6, <2>8, <3>3, <3>4
  <2> QED BY <2>7, <2>8
<1>2. CASE delivered'[s] = delivered[s] /\ since'[s] = since[s]
  BY <1>2 DEF DeliveredInv
<1>3. CASE CallSubscriber /\ s # Head(todo).sub
  <2>1. delivered'[s] = delivered[s] /\ since' = since
    BY <1>0, <1>3 DEF CallSubscriber, subscriberVars
  <2> QED BY <1>2, <2>1
<1>4. CASE Take
  BY <1>2, <1>4 DEF Take, subscriberVars
<1>5. CASE ~Take /\ ~CallSubscriber
  <2>1. delivered' = delivered
    BY <1>5, LeftSame
  <2>2. ~Subscribe(s)
    BY <2>1 DEF Subscribe, SubsInv, NewInv
  <2>3. since'[s] = since[s]
    BY <1>0, <1>5, <2>2
    DEF Next, vars, Publish, Subscribe, Erase, Barrier, Destroy, DeliverLoop, Exit, Acquire,
        CallReturns, EndBatch, PollSince, PollHead, subscriberVars
  <2> QED BY <1>2, <2>1, <2>3
<1> QED BY <1>1, <1>3, <1>4, <1>5

\* Nothing has happened.
LEMMA InitIInv == Init => IInv
<1> SUFFICES ASSUME Init PROVE IInv
  OBVIOUS
<1>1. TypeInv
  BY InitTypeInv
<1>2. QueueInv /\ RingInv /\ PollInv
  BY DEF Init, QueueInv, RingInv, PollInv, EndsAt, Ascending
<1>3. Rest = {} /\ \A s, e : ~Left(s, e)
  <2>1. Rest = {}
    BY DEF Init, Rest
  <2> QED BY <2>1 DEF Left
<1>4. SubsInv
  BY <1>3 DEF Init, SubsInv, EntriesInv, NewInv, IsInjective, Range
<1>5. OrderInv
  BY <1>3 DEF OrderInv
<1>6. DueInv
  BY <1>3 DEF Init, DueInv
<1>7. DeliveredInv
  BY DEF Init, DeliveredInv
<1> QED BY <1>1, <1>2, <1>4, <1>5, <1>6, <1>7 DEF IInv

\* The invariant holds of every state the bus can be in.
LEMMA Invariant == Spec => []IInv
<1>1. IInv /\ [Next]_vars => IInv'
  BY NextTypeInv, NextQueueInv, NextSubsInv, NextOrderInv, NextDueInv, NextDeliveredInv,
     NextRingInv, NextPollInv
  DEF IInv
<1> QED BY InitIInv, <1>1, PTL DEF Spec

\* The variables keep their types, and the ring its capacity: Publish, Subscribe,
\* Unsubscribe, the worker and the polling client take no variable out of its shape.
THEOREM TypeCorrect == Spec => []TypeOK
<1>1. IInv => TypeOK
  BY DEF IInv, TypeInv
<1> QED BY Invariant, <1>1, PTL

\* Whatever is published, subscribed and unsubscribed while batches are being
\* delivered, the worker calls a subscriber once per event, in order and without
\* a gap, from the first event after it subscribed at the latest; and Since and
\* HeadSeq never send a polling client an event twice or out of order.
THEOREM ExactlyOnce == Spec => []ExactlyOnceInOrder
<1>1. IInv => ExactlyOnceInOrder
  BY DEF IInv, ExactlyOnceInOrder, DeliveredInv, PollInv
<1> QED BY Invariant, <1>1, PTL
=============================================================================
