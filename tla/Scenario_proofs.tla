--------------------------- MODULE Scenario_proofs ---------------------------
(***************************************************************************)
(* Proofs about the scenario tool: what the comparisons of its value       *)
(* predicates mean, for integers of every width and every float; and its   *)
(* service with its worker, for any runs of any plans.                     *)
(***************************************************************************)
EXTENDS ValuePredicate, SeqLemmas, TLAPS

-----------------------------------------------------------------------------
(* The value predicates.                                                   *)

\* The integer below a float and the test of its fraction order them truly.
LEMMA FloorTrue ==
    ASSUME NEW n \in Int, NEW h \in Int
    PROVE  CompareFloor(n, h) = Order(2 * n, h)
<1>1. /\ h \div 2 \in Int
      /\ h = 2 * (h \div 2) \/ h = 2 * (h \div 2) + 1
  OBVIOUS
<1>2. CASE n = h \div 2
  BY <1>1, <1>2 DEF CompareFloor, Order
<1>3. CASE n < h \div 2
  BY <1>1, <1>3 DEF CompareFloor, Order
<1>4. CASE n > h \div 2
  BY <1>1, <1>4 DEF CompareFloor, Order
<1> QED
  BY <1>1, <1>2, <1>3, <1>4

\* An integer against an integer of the other signedness: a cast that wraps is
\* never reached.
LEMMA SignedUnsignedTrue ==
    ASSUME NEW s \in Int, NEW u \in Nat
    PROVE  CompareSignedUnsigned(s, u) = Order(2 * s, 2 * u)
  BY DEF CompareSignedUnsigned, AsUnsigned, Order

\* An integer against a float: what is cut off before the floor is taken lies
\* outside of the integer's type.
LEMMA SignedDoubleTrue ==
    ASSUME NEW s \in -SignLimit..(SignLimit - 1), NEW h \in Int
    PROVE  CompareSignedDouble(s, h) = Order(2 * s, h)
  BY LimitAssumption, FloorTrue DEF CompareSignedDouble, Order

\* The same for the unsigned integers.
LEMMA UnsignedDoubleTrue ==
    ASSUME NEW u \in 0..(2 * SignLimit - 1), NEW h \in Int
    PROVE  CompareUnsignedDouble(u, h) = Order(2 * u, h)
  BY LimitAssumption, FloorTrue DEF CompareUnsignedDouble, Order

\* The order the other way round.
LEMMA ReverseOrder ==
    ASSUME NEW m \in Int, NEW n \in Int
    PROVE  Reversed(Order(m, n)) = Order(n, m)
  BY DEF Reversed, Order

\* What a number counts in halves.
LEMMA TwiceType ==
    ASSUME NEW a \in Signed \union Unsigned \union Float
    PROVE  Twice(a) \in Int
  BY LimitAssumption DEF Twice, Signed, Unsigned, Float

\* CompareNumbers orders two finite numbers as the numbers they are, whatever
\* types carry them (ValuePredicate.cpp: CompareNumbers).
THEOREM NumbersTrue ==
    ASSUME NEW a \in Signed \union Unsigned \union Float,
           NEW b \in Signed \union Unsigned \union Float
    PROVE  CompareNumbers(a, b) = Order(Twice(a), Twice(b))
<1>1. CASE a.kind = b.kind
  BY <1>1, LimitAssumption DEF CompareNumbers, Order, Twice, Signed, Unsigned, Float
<1>2. CASE a \in Signed /\ b \in Unsigned
  <2>1. CompareNumbers(a, b) = CompareSignedUnsigned(a.value, b.value)
    BY <1>2 DEF CompareNumbers, Signed, Unsigned
  <2>2. a.value \in Int /\ b.value \in Nat
    BY <1>2, LimitAssumption DEF Signed, Unsigned
  <2> QED
    BY <1>2, <2>1, <2>2, SignedUnsignedTrue DEF Twice, Signed, Unsigned
<1>3. CASE a \in Unsigned /\ b \in Signed
  <2>1. CompareNumbers(a, b) = Reversed(CompareSignedUnsigned(b.value, a.value))
    BY <1>3 DEF CompareNumbers, Signed, Unsigned
  <2>2. b.value \in Int /\ a.value \in Nat
    BY <1>3, LimitAssumption DEF Signed, Unsigned
  <2>3. CompareNumbers(a, b) = Reversed(Order(2 * b.value, 2 * a.value))
    BY <2>1, <2>2, SignedUnsignedTrue
  <2> QED
    BY <1>3, <2>2, <2>3, ReverseOrder DEF Twice, Signed, Unsigned
<1>4. CASE a \in Signed /\ b \in Float
  <2>1. CompareNumbers(a, b) = CompareSignedDouble(a.value, b.value)
    BY <1>4 DEF CompareNumbers, Signed, Float
  <2>2. a.value \in -SignLimit..(SignLimit - 1) /\ b.value \in Int
    BY <1>4 DEF Signed, Float
  <2> QED
    BY <1>4, <2>1, <2>2, SignedDoubleTrue DEF Twice, Signed, Float
<1>5. CASE a \in Float /\ b \in Signed
  <2>1. CompareNumbers(a, b) = Reversed(CompareSignedDouble(b.value, a.value))
    BY <1>5 DEF CompareNumbers, Signed, Float
  <2>2. b.value \in -SignLimit..(SignLimit - 1) /\ a.value \in Int
    BY <1>5 DEF Signed, Float
  <2>3. CompareNumbers(a, b) = Reversed(Order(2 * b.value, a.value))
    BY <2>1, <2>2, SignedDoubleTrue
  <2> QED
    BY <1>5, <2>2, <2>3, ReverseOrder, LimitAssumption DEF Twice, Signed, Float
<1>6. CASE a \in Unsigned /\ b \in Float
  <2>1. CompareNumbers(a, b) = CompareUnsignedDouble(a.value, b.value)
    BY <1>6 DEF CompareNumbers, Unsigned, Float
  <2>2. a.value \in 0..(2 * SignLimit - 1) /\ b.value \in Int
    BY <1>6 DEF Unsigned, Float
  <2> QED
    BY <1>6, <2>1, <2>2, UnsignedDoubleTrue DEF Twice, Unsigned, Float
<1>7. CASE a \in Float /\ b \in Unsigned
  <2>1. CompareNumbers(a, b) = Reversed(CompareUnsignedDouble(b.value, a.value))
    BY <1>7 DEF CompareNumbers, Unsigned, Float
  <2>2. b.value \in 0..(2 * SignLimit - 1) /\ a.value \in Int
    BY <1>7 DEF Unsigned, Float
  <2>3. CompareNumbers(a, b) = Reversed(Order(2 * b.value, a.value))
    BY <2>1, <2>2, UnsignedDoubleTrue
  <2> QED
    BY <1>7, <2>2, <2>3, ReverseOrder, LimitAssumption DEF Twice, Unsigned, Float
<1> QED
  BY <1>1, <1>2, <1>3, <1>4, <1>5, <1>6, <1>7 DEF Signed, Unsigned, Float

\* An order that is accepted is the one that the comparison means.
LEMMA AcceptsTrue ==
    ASSUME NEW comparison, NEW m \in Int, NEW n \in Int
    PROVE  Accepts(comparison, Order(m, n)) <=>
             \/ comparison \in {"ne", "lt", "le"} /\ m < n
             \/ comparison \in {"eq", "le", "ge"} /\ m = n
             \/ comparison \in {"ne", "gt", "ge"} /\ m > n
  BY DEF Accepts, Order

\* The numbers and the finite ones by their kinds.
LEMMA FiniteNumbers ==
    ASSUME NEW v \in Numbers \union Other
    PROVE  /\ Finite(v) <=> v \in Signed \union Unsigned \union Float
           /\ IsNumber(v) <=> v \in Numbers
           /\ IsNumber(v) /\ ~Finite(v) <=> v.kind = "notFinite"
           /\ v \notin {Missing, Unavailable, Refusal}
  BY DEF Finite, IsNumber, Numbers, Other, Signed, Unsigned, Float, NotFinite, Missing, Unavailable,
         Refusal

\* The predicates that parse.
Parsed == {p \in Predicates :
    /\ p.comparison = "exists" => p.expected.kind = "boolean"
    /\ p.comparison \in Orderings => IsNumber(p.expected)}

\* Compare answers "yes" exactly where the comparison means it.
LEMMA CompareTrue ==
    ASSUME NEW p \in Parsed, p.comparison # "exists", NEW v \in Actual
    PROVE  Compare(p, v) = "yes" <=> Means(p.comparison, v, p.expected)
<1> DEFINE e == p.expected
<1>1. /\ v \in Numbers \union Other /\ e \in Numbers \union Other
      /\ p.comparison \in Comparisons
      /\ p.comparison \in Orderings => IsNumber(e)
  BY ValueAssumption DEF Parsed, Predicates
<1>2. CASE Finite(v) /\ Finite(e)
  <2>1. CompareNumbers(v, e) = Order(Twice(v), Twice(e))
    BY <1>1, <1>2, FiniteNumbers, NumbersTrue
  <2>2. Twice(v) \in Int /\ Twice(e) \in Int
    BY <1>1, <1>2, FiniteNumbers, TwiceType
  <2>3. IsNumber(v) /\ IsNumber(e) /\ Order(Twice(v), Twice(e)) # "unordered"
    BY <1>2 DEF Finite, IsNumber, Order
  <2>4. Compare(p, v) = "yes" <=> Accepts(p.comparison, Order(Twice(v), Twice(e)))
    BY <2>1, <2>3 DEF Compare, SameComparableType
  <2> QED
    BY <1>2, <2>2, <2>3, <2>4, AcceptsTrue DEF Means
<1>3. CASE IsNumber(v) /\ IsNumber(e) /\ ~(Finite(v) /\ Finite(e))
  <2>1. CompareNumbers(v, e) = "unordered"
    BY <1>1, <1>3, FiniteNumbers DEF CompareNumbers
  <2> QED
    BY <1>3, <2>1 DEF Compare, SameComparableType, Means
<1>4. CASE ~(IsNumber(v) /\ IsNumber(e))
  <2>1. ~(Finite(v) /\ Finite(e))
    BY <1>4 DEF Finite, IsNumber
  <2>2. CASE v.kind # e.kind
    BY <1>4, <2>1, <2>2 DEF Compare, SameComparableType, Means
  <2>3. CASE v.kind = e.kind
    <3>1. ~IsNumber(v) /\ ~IsNumber(e) /\ SameComparableType(v, e)
      BY <1>4, <2>3 DEF IsNumber, SameComparableType
    <3> QED
      BY <1>1, <2>1, <2>3, <3>1 DEF Compare, Means, Orderings, Comparisons
  <2> QED
    BY <2>2, <2>3
<1> QED
  BY <1>2, <1>3, <1>4

\* One look at a value, or at a path without one, is satisfied exactly where the
\* comparison means it (ValuePredicate.cpp: ObserveValue).
LEMMA ObserveTrue ==
    ASSUME NEW p \in Parsed, NEW v \in Actual \union {Missing}
    PROVE  ObserveValue(p, v) = "yes" <=> Means(p.comparison, v, p.expected)
<1> DEFINE e == p.expected
<1>1. e \in Numbers \union Other /\ p.comparison \in Comparisons
  BY ValueAssumption DEF Parsed, Predicates
<1>2. v \notin {Unavailable, Refusal}
  BY ValueAssumption, FiniteNumbers DEF Missing, Unavailable, Refusal
<1>3. CASE p.comparison = "exists"
  BY <1>2, <1>3 DEF ObserveValue, Means
<1>4. CASE p.comparison # "exists" /\ (v = Missing \/ (v.kind = "null" /\ e.kind # "null"))
  <2>1. ~IsNumber(v) /\ ~Finite(v) /\ v.kind # e.kind
    BY <1>1, <1>4, FiniteNumbers DEF IsNumber, Finite, Missing, Numbers, Other, Signed, Unsigned,
       Float, NotFinite
  <2> QED
    BY <1>2, <1>4, <2>1 DEF ObserveValue, Means
<1>5. CASE p.comparison # "exists" /\ ~(v = Missing \/ (v.kind = "null" /\ e.kind # "null"))
  <2>1. v \in Actual
    BY <1>5
  <2>2. ObserveValue(p, v) = Compare(p, v)
    BY <1>2, <1>5 DEF ObserveValue
  <2> QED
    BY <1>5, <2>1, <2>2, CompareTrue
<1> QED
  BY <1>3, <1>4, <1>5

-----------------------------------------------------------------------------
IInv == TypeOK /\ ComparesTrue

\* The initial state.
LEMMA InitInv == Init => IInv
  BY DEF Init, IInv, TypeOK, ComparesTrue

\* A look keeps what the last one has told.
LEMMA StepInv == IInv /\ [Next]_vars => IInv'
<1> SUFFICES ASSUME IInv, [Next]_vars
             PROVE  IInv'
  OBVIOUS
<1> USE DEF IInv
<1>1. CASE ParseValuePredicate
  <2>1. TypeOK'
    BY <1>1 DEF ParseValuePredicate, TypeOK, Predicates
  <2>2. seen' = None
    BY <1>1 DEF ParseValuePredicate, TypeOK
  <2> QED
    BY <2>1, <2>2 DEF ComparesTrue
<1>2. CASE ExecutePredicate
  <2>1. PICK v \in Actual \union {Missing, Unavailable, Refusal} :
           /\ seen' = v
           /\ outcome' = "ok" <=> ObserveValue(predicate, v) = "yes"
           /\ outcome' \in {"ok", "failed", "none", "timedOut"}
           /\ pc' = IF outcome' = "none" THEN "look" ELSE "done"
    BY <1>2 DEF ExecutePredicate
  <2>2. predicate \in Parsed /\ UNCHANGED predicate
    BY <1>2 DEF ExecutePredicate, TypeOK, Parsed
  <2>3. TypeOK'
    BY <2>1, <2>2 DEF TypeOK, Parsed
  <2>4. ComparesTrue'
    BY <2>1, <2>2, ObserveTrue DEF ComparesTrue
  <2> QED
    BY <2>3, <2>4
<1>3. CASE UNCHANGED vars
  BY <1>3 DEF vars, TypeOK, ComparesTrue
<1> QED
  BY <1>1, <1>2, <1>3 DEF Next

\* In every behaviour a look is satisfied exactly by the values that its
\* comparison means (ScenarioTool.cpp: ExecutePredicate).
THEOREM LooksTrue == Spec => []ComparesTrue
<1>1. IInv => ComparesTrue
  BY DEF IInv
<1> QED
  BY <1>1, InitInv, StepInv, PTL DEF Spec

-----------------------------------------------------------------------------
(***************************************************************************)
(* The service and its worker, whatever the plans and whoever cancels. The *)
(* record of a run, its flag and its status are read and written by        *)
(* several threads, what a run holds by the worker alone: the invariant    *)
(* says who serves a run at each place of the worker, what the worker then *)
(* knows of the keys and of the camera, and that the numbers it looks for  *)
(* events from lie before every event that is still to be seen.            *)
(***************************************************************************)
CONSTANTS Runs, Cancellable, ShutsDown, Plan, HistoryLimit, MaxRing, MaxNoise

VARIABLES stopping, active, pending, runs, completed, phase, cancel, status, caller, canceller,
          shutter, run, at, rep, late, over, failed, stop, owns, acquired, uncertain, incomplete,
          action, cursor, ring, head, noise, operation, owed, cause, held, free, stuck, first

Runner == INSTANCE Scenario

\* The instance has operators of its own for what its modules define.
LEMMA SameOperators ==
  /\ \A q : Runner!Range(q) = Range(q) /\ Runner!Last(q) = Last(q)
  /\ \A q : Runner!IsInjective(q) <=> IsInjective(q)
<1>1. \A q : Runner!Range(q) = Range(q)
  BY DEF Runner!Range, Range
<1>2. \A q : Runner!Last(q) = Last(q)
  BY DEF Runner!Last, Last
<1>3. \A q : Runner!IsInjective(q) <=> IsInjective(q)
  BY DEF Runner!IsInjective, IsInjective
<1> QED BY <1>1, <1>2, <1>3

\* The greater of two numbers.
LEMMA MaxOfTwo ==
  ASSUME NEW m \in Int, NEW n \in Int
  PROVE  Runner!Max({m, n}) = IF m >= n THEN m ELSE n
<1> DEFINE k == IF m >= n THEN m ELSE n
<1>1. k \in {m, n} /\ \A y \in {m, n} : k >= y
  OBVIOUS
<1>2. \A x \in {m, n} : (\A y \in {m, n} : x >= y) => x = k
  BY <1>1
<1> HIDE DEF k
<1>3. (CHOOSE x \in {m, n} : \A y \in {m, n} : x >= y) = k
  BY <1>1, <1>2
<1> QED BY <1>3 DEF Runner!Max, k

-----------------------------------------------------------------------------
(* The inductive invariant.                                                *)

\* The worker and the service agree on which run it is: the active run waits to be
\* taken, or the worker has it until it is forgotten.
ServedOnceInv ==
    /\ IsInjective(completed) /\ active \notin Range(completed)
    /\ pc \in Runner!Resting => run = None /\ pending = active
    /\ pc = "callback" => pending = active /\ run # active
    /\ pc \in Runner!Mid \union {"begin", "forget"} => run = active /\ pending = None
    /\ pc \in {"forget", "callback"} => phase[run] = "done"
    /\ \A r \in Runs :
        /\ caller[r] \in {"idle", "refused"} => phase[r] = "pending" /\ r # active /\ r \notin Range(completed)
        /\ phase[r] = "running" <=> r = run /\ pc \in Runner!Mid
        /\ phase[r] = "done" /\ r = active => pc = "forget"

\* Whoever has cancelled a run has set its flag.
FlaggedInv == Runner!CancelTrue /\ \A r \in Runs : canceller[r] \in {"flagged", "told"} => cancel[r]

\* What a run holds it knows of, until its cleanup; what it then may still hold its
\* status tells.
HoldsInv ==
    /\ pc \in Runner!Mid \ {"commit"} /\ free = run => acquired \/ failed
    /\ pc = "commit" /\ free = run => failed \/ incomplete
    /\ pc \in Runner!Mid \ {"restore", "commit"} /\ run \in held => owns
    /\ pc \in {"restore", "commit"} /\ run \in held => run \in stuck
    /\ pc = "invoking" /\ Runner!Step = "press" => owns
    /\ \A r \in Runs : phase[r] = "pending" => r \notin held /\ free # r
    /\ Runner!LeavesClean

\* The ring's numbers run to the head, and the event of an act matches.
RingInv ==
    /\ \A i \in DOMAIN ring : ring[i].seq = head - Len(ring) + i
    /\ head > 0 => Len(ring) > 0
    /\ cause <= head /\ \A i \in DOMAIN ring : cause > 0 /\ ring[i].seq = cause => ring[i].matches

\* No number from which to look lies behind the event.
ReceiptInv ==
    /\ action # None => action.cursor <= head
    /\ pc \in {"invoking", "acted"} => action # None /\ action.operation = None
    /\ pc = "acted" /\ cause > 0 => cause > action.cursor
    /\ action # None /\ action.operation # None /\ cause > 0 => cause > action.cursor
    /\ Runner!Waiting /\ Runner!Step \in Runner!EventWaits => cursor <= head
    /\ Runner!WaitForMissesNothing

ScenarioInv == Runner!TypeOK /\ ServedOnceInv /\ FlaggedInv /\ HoldsInv /\ RingInv /\ ReceiptInv

-----------------------------------------------------------------------------
(* The actions by what they leave alone.                                   *)

Places == Runner!Resting \union {"begin"} \union Runner!Mid \union {"forget", "callback"}
Stops == {"none", "aborted", "cancelled", "timedOut"}

Calls(r) == Runner!Submit(r) \/ Runner!OnSubmitted(r) \/ Runner!Submitted(r) \/ Runner!Answer(r)
\/ Runner!Cancel(r) \/ Runner!Cancelled(r)
Shuts == Runner!Shutdown \/ Runner!ShutdownNotifies \/ Runner!ShutdownJoins

Looks ==
    \/ Runner!BeginWait \/ Runner!LookForEvent \/ Runner!AcceptModal \/ Runner!LookForValue
       \/ Runner!LookForState \/ Runner!LookForScene
    \/ Runner!Asserts \/ Runner!Pose \/ Runner!Falls \/ Runner!Sleeps \/ Runner!WakesAt \/ Runner!Wakes

Verdict == failed' \in BOOLEAN /\ (failed => failed') /\ stop' \in Stops

\* A step of the run under way.
RunsOn == pc \in Runner!Mid /\ pc' \in Runner!Mid /\ UNCHANGED <<Runner!serviceVars, Runner!recordVars,
Runner!threadVars, run, first>>

\* Who is notified stays where it is, or looks again.
SamePlace ==
    /\ pc' \in Places
    /\ pc = "blocked" => pc' \in Runner!Resting
    /\ pc = "asleep" => pc' \in {"asleep", "falling"}
    /\ pc \notin {"blocked", "asleep"} => pc' = pc

\* The cases of a step.
LEMMA NextCases ==
  ASSUME Runner!Next
  PROVE  /\ \/ \E r \in Runs : Calls(r)
            \/ Shuts \/ Looks \/ Runner!Look \/ Runner!Begin \/ Runner!NextStep \/ Runner!Dispatch
               \/ Runner!Acts \/ Runner!ActReturns \/ Runner!Returns
            \/ Runner!Summary \/ Runner!ReleaseInput \/ Runner!RestoreCamera \/ Runner!Commit
               \/ Runner!Forget \/ Runner!OnCompleted
            \/ Runner!RunDeadline \/ Runner!StepDeadline \/ Runner!Occurs \/ Runner!Others
         /\ noise' = noise \/ Runner!Others
BY DEF Runner!Next, Runner!Worker, Looks, Calls, Shuts

\* Nobody but the worker takes it anywhere, unless it waits to be notified.
LEMMA Notified ==
  ASSUME Runner!StepOK, Runner!NotifyWorker \/ UNCHANGED pc
  PROVE  SamePlace
<1>1. pc \in Places
  BY DEF Runner!StepOK, Places
<1> QED BY <1>1 DEF Runner!NotifyWorker, SamePlace, Places, Runner!Resting, Runner!Mid

\* A step that ends leads to the next, and a failure is remembered.
LEMMA Ended ==
  ASSUME Runner!StepOK, NEW result, Runner!EndStep(result)
  PROVE  pc' = "next" /\ Verdict /\ (result # "ok" => failed')
<1>1. pc' = "next" /\ failed' = (failed \/ result # "ok")
  BY DEF Runner!EndStep
<1>2. stop' \in Stops
  BY DEF Runner!EndStep, Runner!StepOK, Stops
<1>3. failed' \in BOOLEAN
  BY <1>1
<1> QED BY <1>1, <1>2, <1>3 DEF Verdict

\* A look that did not find ends the step or waits.
LEMMA NotYetEnded ==
  ASSUME Runner!StepOK, Runner!NotYet
  PROVE  pc' \in {"next", "falling"} /\ Verdict
<1>1. CASE \E result : Runner!EndStep(result)
  BY <1>1, Ended
<1>2. CASE pc' = "falling" /\ UNCHANGED <<failed, stop>>
  BY <1>2 DEF Verdict, Runner!StepOK, Stops
<1> QED BY <1>1, <1>2 DEF Runner!NotYet

\* What a step waits and looks for changes nothing but its own verdict.
LEMMA LookFrame ==
  ASSUME Runner!StepOK, Looks
  PROVE  /\ RunsOn /\ Verdict /\ UNCHANGED <<at, rep, late, over, Runner!ownVars, Runner!busVars,
            Runner!worldVars>>
         /\ pc \in {"step", "poll", "modal", "falling", "dozing", "asleep", "woken"}
         /\ pc' \in {"next", "poll", "modal", "falling", "dozing", "asleep", "woken", "release"}
         /\ action' \in {action, None}
         /\ Runner!Waiting' /\ ~Runner!Waiting => Runner!BeginWait \/ Runner!Step = "pose"
         /\ cursor' = cursor \/ Runner!BeginWait \/ Runner!LookForEvent
<1>0. UNCHANGED <<failed, stop>> => Verdict
  BY DEF Verdict, Runner!StepOK, Stops
<1>1. CASE Runner!BeginWait
  BY <1>0, <1>1 DEF Runner!BeginWait, RunsOn, Runner!Mid, Runner!stepVars, Runner!waitVars
<1>2. CASE Runner!LookForEvent
  <2>1. /\ pc = "poll" /\ action' \in {action, None}
        /\ UNCHANGED <<Runner!serviceVars, Runner!recordVars, Runner!threadVars, run, at, rep, late, over,
           Runner!ownVars, Runner!busVars,
                       Runner!worldVars, first>>
    BY <1>2 DEF Runner!LookForEvent
  <2>2. pc' \in {"next", "modal", "falling"} /\ Verdict
    <3>1. \/ \E result : Runner!EndStep(result)
          \/ pc' = "modal" /\ UNCHANGED <<failed, stop>>
          \/ Runner!NotYet
      BY <1>2 DEF Runner!LookForEvent
    <3> QED BY <1>0, <3>1, Ended, NotYetEnded
  <2> QED BY <1>2, <2>1, <2>2 DEF RunsOn, Runner!Mid, Runner!Waiting
<1>3. CASE Runner!AcceptModal
  <2>1. /\ pc = "modal" /\ action' \in {action, None} /\ cursor' = cursor
        /\ UNCHANGED <<Runner!serviceVars, Runner!recordVars, Runner!threadVars, run, at, rep, late, over,
           Runner!ownVars, Runner!busVars,
                       Runner!worldVars, first>>
    BY <1>3 DEF Runner!AcceptModal
  <2>2. (\E result : Runner!EndStep(result)) \/ Runner!NotYet
    BY <1>3 DEF Runner!AcceptModal
  <2>3. pc' \in {"next", "falling"} /\ Verdict
    BY <2>2, Ended, NotYetEnded
  <2> QED BY <2>1, <2>3 DEF RunsOn, Runner!Mid, Runner!Waiting
<1>4. CASE Runner!LookForValue
  <2>1. /\ pc = "poll" /\ UNCHANGED Runner!waitVars
        /\ UNCHANGED <<Runner!serviceVars, Runner!recordVars, Runner!threadVars, run, at, rep, late, over,
           Runner!ownVars, Runner!busVars,
                       Runner!worldVars, first>>
    BY <1>4 DEF Runner!LookForValue
  <2>2. (\E result : Runner!EndStep(result)) \/ Runner!NotYet
    BY <1>4 DEF Runner!LookForValue
  <2>3. pc' \in {"next", "falling"} /\ Verdict
    BY <2>2, Ended, NotYetEnded
  <2> QED BY <2>1, <2>3 DEF RunsOn, Runner!Mid, Runner!Waiting, Runner!waitVars
<1>5. CASE Runner!LookForState
  <2>1. /\ pc = "poll" /\ UNCHANGED Runner!waitVars
        /\ UNCHANGED <<Runner!serviceVars, Runner!recordVars, Runner!threadVars, run, at, rep, late, over,
           Runner!ownVars, Runner!busVars,
                       Runner!worldVars, first>>
    BY <1>5 DEF Runner!LookForState
  <2>2. (\E result : Runner!EndStep(result)) \/ Runner!NotYet
    BY <1>5 DEF Runner!LookForState
  <2>3. pc' \in {"next", "falling"} /\ Verdict
    BY <2>2, Ended, NotYetEnded
  <2> QED BY <2>1, <2>3 DEF RunsOn, Runner!Mid, Runner!Waiting, Runner!waitVars
<1>6. CASE Runner!LookForScene
  <2>1. /\ pc = "poll" /\ UNCHANGED Runner!waitVars
        /\ UNCHANGED <<Runner!serviceVars, Runner!recordVars, Runner!threadVars, run, at, rep, late, over,
           Runner!ownVars, Runner!busVars,
                       Runner!worldVars, first>>
        /\ (\E result : Runner!EndStep(result)) \/ (pc' = "falling" /\ UNCHANGED <<failed, stop>>)
    BY <1>6 DEF Runner!LookForScene
  <2>3. pc' \in {"next", "falling"} /\ Verdict
    BY <1>0, <2>1, Ended
  <2> QED BY <2>1, <2>3 DEF RunsOn, Runner!Mid, Runner!Waiting, Runner!waitVars
<1>7. CASE Runner!Asserts \/ Runner!Pose
  <2>1. /\ pc = "step" /\ UNCHANGED Runner!waitVars
        /\ UNCHANGED <<Runner!serviceVars, Runner!recordVars, Runner!threadVars, run, at, rep, late, over,
           Runner!ownVars, Runner!busVars,
                       Runner!worldVars, first>>
        /\ \/ \E result : Runner!EndStep(result)
           \/ pc' = "release" /\ failed' = TRUE /\ stop' = "aborted"
           \/ Runner!Step = "pose" /\ pc' = "falling" /\ UNCHANGED <<failed, stop>>
    BY <1>7 DEF Runner!Asserts, Runner!Pose
  <2>2. pc' = "release" /\ failed' = TRUE /\ stop' = "aborted" => Verdict
    BY DEF Verdict, Stops
  <2>3. /\ pc' \in {"next", "release"} \/ (Runner!Step = "pose" /\ pc' = "falling")
        /\ Verdict
    BY <1>0, <2>1, <2>2, Ended
  <2> QED BY <2>1, <2>3 DEF RunsOn, Runner!Mid, Runner!Waiting, Runner!waitVars
<1>8. CASE Runner!Falls \/ Runner!Sleeps \/ Runner!WakesAt
  <2>1. pc \in {"falling", "dozing", "asleep"} /\ pc' \in {"dozing", "asleep", "woken"}
    BY <1>8 DEF Runner!Falls, Runner!Sleeps, Runner!WakesAt
  <2> QED BY <1>0, <1>8, <2>1 DEF Runner!Falls, Runner!Sleeps, Runner!WakesAt, RunsOn, Runner!Mid,
             Runner!Waiting, Runner!stepVars, Runner!waitVars
<1>9. CASE Runner!Wakes
  <2>1. /\ pc = "woken" /\ UNCHANGED Runner!waitVars
        /\ UNCHANGED <<Runner!serviceVars, Runner!recordVars, Runner!threadVars, run, at, rep, late, over,
           Runner!ownVars, Runner!busVars,
                       Runner!worldVars, first>>
        /\ (\E result : Runner!EndStep(result)) \/ (pc' = "poll" /\ UNCHANGED <<failed, stop>>)
    BY <1>9 DEF Runner!Wakes
  <2>3. pc' \in {"next", "poll"} /\ Verdict
    BY <1>0, <2>1, Ended
  <2> QED BY <2>1, <2>3 DEF RunsOn, Runner!Mid, Runner!Waiting, Runner!waitVars
<1> QED BY <1>1, <1>2, <1>3, <1>4, <1>5, <1>6, <1>7, <1>8, <1>9 DEF Looks

\* The callers and the shutting thread touch the service's state, and may notify.
LEMMA CallFrame ==
  ASSUME Runner!StepOK, NEW r \in Runs, Calls(r)
  PROVE  /\ SamePlace /\ UNCHANGED <<stopping, completed, phase, status, shutter>>
         /\ UNCHANGED <<Runner!stepVars, Runner!ownVars, Runner!waitVars, Runner!busVars, Runner!worldVars>>
         /\ \E s \in {"refused", "accepted", "told", "waiting", "answered", caller[r]} :
              caller' = [caller EXCEPT ![r] = s] \/ caller' = caller
         /\ first' \in {first, [first EXCEPT ![r] = IF @ = None THEN "submitted" ELSE @]}
<1>1. CASE Runner!Submit(r)
  BY <1>1, Notified DEF Runner!Submit, Runner!recordVars, Runner!serviceVars
<1>2. CASE Runner!OnSubmitted(r) \/ Runner!Answer(r)
  BY <1>2, Notified DEF Runner!OnSubmitted, Runner!Answer, Runner!Says, Runner!recordVars, Runner!serviceVars
<1>3. CASE Runner!Submitted(r)
  BY <1>3, Notified DEF Runner!Submitted, Runner!recordVars, Runner!serviceVars
<1>4. CASE Runner!Cancel(r)
  BY <1>4, Notified DEF Runner!Cancel, Runner!recordVars, Runner!serviceVars
<1>5. CASE Runner!Cancelled(r)
  BY <1>5, Notified DEF Runner!Cancelled, Runner!recordVars, Runner!serviceVars
<1> QED BY <1>1, <1>2, <1>3, <1>4, <1>5 DEF Calls

\* So does the shutdown, which sets flags only.
LEMMA ShutFrame ==
  ASSUME Runner!StepOK, Shuts
  PROVE  /\ SamePlace /\ UNCHANGED <<active, pending, runs, completed, phase, status, caller, canceller>>
         /\ UNCHANGED <<Runner!stepVars, Runner!ownVars, Runner!waitVars, Runner!busVars, Runner!worldVars,
            first>>
<1>1. CASE Runner!Shutdown
  BY <1>1, Notified DEF Runner!Shutdown
<1>2. CASE Runner!ShutdownNotifies
  BY <1>2, Notified DEF Runner!ShutdownNotifies, Runner!recordVars, Runner!serviceVars
<1>3. CASE Runner!ShutdownJoins
  BY <1>3, Notified DEF Runner!ShutdownJoins, Runner!recordVars, Runner!serviceVars
<1> QED BY <1>1, <1>2, <1>3 DEF Shuts

\* The worker's other steps of a run under way.
LEMMA RunFrame ==
  ASSUME Runner!StepOK, Runner!NextStep \/ Runner!Dispatch \/ Runner!Acts \/ Runner!ActReturns
         \/ Runner!Returns \/ Runner!Summary \/ Runner!ReleaseInput \/ Runner!RestoreCamera
  PROVE  /\ RunsOn
         /\ at' = at \/ Runner!NextStep
<1>1. CASE Runner!NextStep
  BY <1>1 DEF Runner!NextStep, RunsOn, Runner!Mid
<1>2. CASE Runner!Dispatch \/ Runner!Acts \/ Runner!ActReturns \/ Runner!Returns
  BY <1>2 DEF Runner!Dispatch, Runner!Acts, Runner!ActReturns, Runner!Returns, Runner!EndStep, RunsOn,
     Runner!Mid, Runner!stepVars
<1>3. CASE Runner!Summary \/ Runner!ReleaseInput \/ Runner!RestoreCamera
  BY <1>3 DEF Runner!Summary, Runner!ReleaseInput, Runner!RestoreCamera, RunsOn, Runner!Mid, Runner!stepVars
<1> QED BY <1>1, <1>2, <1>3

-----------------------------------------------------------------------------
(* The types of what the worker keeps.                                     *)

\* The place, the run and the step it is at.
LEMMA PlaceTypes ==
  ASSUME Runner!ScenarioAssumption, Runner!ServiceOK, Runner!StepOK, Runner!Next
  PROVE  /\ pc' \in Places /\ run' \in Runs \union {None} /\ at' \in Nat
         /\ IF pc' \in Runner!Resting THEN at' = 0 ELSE run' \in Runs /\ at' \in 0..Len(Plan[run'].steps)
<1> DEFINE Place(p, r, i) == /\ p \in Places /\ r \in Runs \union {None} /\ i \in Nat
                             /\ IF p \in Runner!Resting THEN i = 0 ELSE r \in Runs
                                /\ i \in 0..Len(Plan[r].steps)
<1>0. /\ Place(pc, run, at)
      /\ \A p \in Runner!Mid : p \notin Runner!Resting /\ p \in Places
      /\ \A r \in Runs : Len(Plan[r].steps) \in Nat
  BY DEF Runner!StepOK, Places, Runner!Mid, Runner!Resting, Runner!ScenarioAssumption
<1>1. ASSUME SamePlace, UNCHANGED Runner!stepVars PROVE Place(pc', run', at')
  BY <1>0, <1>1 DEF SamePlace, Runner!stepVars, Runner!Resting, Places, Runner!Mid
<1>2. ASSUME RunsOn, at' = at PROVE Place(pc', run', at')
  BY <1>0, <1>2 DEF RunsOn
<1>3. CASE Runner!NextStep
  <2>1. RunsOn /\ run' = run /\ run \in Runs /\ at \in 0..Len(Plan[run].steps)
    BY <1>0, <1>3, RunFrame DEF RunsOn
  <2>2. at' = at \/ (at' = 1 /\ at > 0) \/ (at' = at + 1 /\ at # Len(Plan[run].steps))
    BY <1>3 DEF Runner!NextStep
  <2>3. at' \in 0..Len(Plan[run].steps)
    BY <1>0, <2>1, <2>2
  <2> QED BY <1>0, <2>1, <2>3 DEF RunsOn
<1>4. CASE Runner!Look
  <2>1. /\ pc = "look" /\ pc' = (IF pending # None THEN "begin" ELSE IF stopping THEN "exited" ELSE "blocked")
        /\ run' = (IF pending # None THEN pending ELSE run) /\ at' = at /\ pending \in Runs \union {None}
    BY <1>4 DEF Runner!Look, Runner!ServiceOK
  <2> QED BY <1>0, <2>1 DEF Places, Runner!Resting
<1>5. CASE Runner!Begin \/ Runner!Commit \/ Runner!Forget
  <2>1. run' = run /\ at' = at /\ pc \in {"begin", "commit", "forget"} /\ pc' \in {"next", "forget", "callback"}
    BY <1>5 DEF Runner!Begin, Runner!Commit, Runner!Forget, Runner!stepVars
  <2> QED BY <1>0, <2>1 DEF Places, Runner!Resting, Runner!Mid
<1>6. CASE Runner!OnCompleted
  BY <1>6 DEF Runner!OnCompleted, Places, Runner!Resting
<1>7. CASE Runner!RunDeadline \/ Runner!StepDeadline \/ Runner!Occurs \/ Runner!Others
  <2>1. pc' = pc /\ run' = run /\ at' = at
    BY <1>7 DEF Runner!RunDeadline, Runner!StepDeadline, Runner!Occurs, Runner!Others, Runner!stepVars
  <2> QED BY <1>0, <2>1
<1> QED BY <1>1, <1>2, <1>3, <1>4, <1>5, <1>6, <1>7, NextCases, CallFrame, ShutFrame, LookFrame, RunFrame

\* What it believes and has come to.
LEMMA StepTypes ==
  ASSUME Runner!ScenarioAssumption, Runner!ServiceOK, Runner!StepOK, Runner!WorldOK, Runner!Next
  PROVE  Runner!StepOK'
<1> DEFINE Flags == /\ late \in BOOLEAN /\ over \in BOOLEAN /\ failed \in BOOLEAN /\ owns \in BOOLEAN
                    /\ acquired \in BOOLEAN /\ uncertain \in BOOLEAN /\ incomplete \in BOOLEAN
                    /\ stop \in Stops /\ rep \in Nat /\ cursor \in Nat
<1> SUFFICES Flags'
  BY PlaceTypes DEF Runner!StepOK, Places, Stops
<1>0. Flags
  BY DEF Runner!StepOK, Stops
<1>1. ASSUME UNCHANGED <<Runner!stepVars, Runner!ownVars, cursor>> PROVE Flags'
  BY <1>0, <1>1 DEF Runner!stepVars, Runner!ownVars
<1>2. CASE Looks
  <2>1. Verdict /\ UNCHANGED <<rep, late, over, Runner!ownVars>>
    BY <1>2, LookFrame
  <2>2. cursor' \in Nat
    <3>1. CASE Runner!BeginWait
      BY <3>1 DEF Runner!BeginWait, Runner!StepOK, Runner!WorldOK, Runner!Receipts
    <3>2. CASE Runner!LookForEvent
      <4> DEFINE fresh == {e \in Range(ring) : e.seq > cursor}
      <4>0. (fresh = {} => cursor' = cursor) /\ (fresh # {} => cursor' = Last(ring).seq)
        BY <3>2, SameOperators DEF Runner!LookForEvent
      <4>1. cursor' = cursor \/ ((\E e \in Range(ring) : e.seq > cursor) /\ cursor' = Last(ring).seq)
        <5>1. CASE fresh = {}
          BY <4>0, <5>1
        <5>2. CASE fresh # {}
          <6>1. \E e \in Range(ring) : e.seq > cursor
            BY <5>2
          <6>2. cursor' = Last(ring).seq
            BY <4>0, <5>2
          <6> QED BY <6>1, <6>2
        <5> QED BY <5>1, <5>2
      <4>2. ASSUME NEW e \in Range(ring) PROVE Last(ring) \in Runner!Events
        <5>1. ring \in Seq(Runner!Events) /\ DOMAIN ring # {}
          BY <4>2 DEF Runner!WorldOK, Range
        <5>2. Len(ring) \in DOMAIN ring
          BY <5>1
        <5> QED BY <5>1, <5>2 DEF Last
      <4> QED BY <4>1, <4>2 DEF Runner!Events, Runner!StepOK
    <3> QED BY <1>2, <3>1, <3>2, LookFrame DEF Runner!StepOK
  <2> QED BY <1>0, <2>1, <2>2 DEF Runner!ownVars, Verdict
<1>3. CASE Runner!NextStep
  <2>1. /\ stop' \in {stop, Runner!StopReason} /\ rep' \in {rep, rep + 1} /\ over' = FALSE
        /\ UNCHANGED <<late, failed, Runner!ownVars, cursor>>
    BY <1>3 DEF Runner!NextStep
  <2>2. Runner!StopReason \in Stops
    BY DEF Runner!StopReason, Stops
  <2>3. rep' \in Nat /\ stop' \in Stops
    BY <1>0, <2>1, <2>2
  <2> QED BY <1>0, <2>1, <2>3 DEF Runner!ownVars
<1>4. CASE Runner!Dispatch
  <2>1. owns' \in BOOLEAN
    BY <1>4 DEF Runner!Dispatch, Runner!StepOK
  <2> QED BY <1>0, <1>4, <2>1 DEF Runner!Dispatch, Runner!stepVars
<1>5. CASE Runner!Acts
  BY <1>1, <1>5 DEF Runner!Acts, Runner!waitVars
<1>6. CASE Runner!ActReturns
  <2>1. Verdict /\ UNCHANGED <<rep, late, over, Runner!ownVars, cursor>>
    BY <1>6, Ended DEF Runner!ActReturns
  <2> QED BY <1>0, <2>1 DEF Runner!ownVars, Verdict
<1>7. CASE Runner!Returns
  <2>1. Verdict /\ UNCHANGED <<rep, late, over, owns, incomplete, cursor>>
    BY <1>7, Ended DEF Runner!Returns, Runner!waitVars
  <2>2. acquired' \in BOOLEAN /\ uncertain' \in BOOLEAN
    BY <1>7 DEF Runner!Returns, Runner!StepOK
  <2> QED BY <1>0, <2>1, <2>2 DEF Verdict
<1>8. CASE Runner!Summary
  <2>1. stop' \in {stop, Runner!StopReason} /\ UNCHANGED <<rep, late, over, failed, Runner!ownVars, cursor>>
    BY <1>8 DEF Runner!Summary, Runner!waitVars
  <2>2. Runner!StopReason \in Stops
    BY DEF Runner!StopReason, Stops
  <2> QED BY <1>0, <2>1, <2>2 DEF Runner!ownVars
<1>9. CASE Runner!ReleaseInput
  BY <1>1, <1>9 DEF Runner!ReleaseInput, Runner!waitVars
<1>10. CASE Runner!RestoreCamera
  <2>1. incomplete' \in BOOLEAN
    BY <1>10 DEF Runner!RestoreCamera, Runner!StepOK
  <2> QED BY <1>0, <1>10, <2>1 DEF Runner!RestoreCamera, Runner!stepVars, Runner!waitVars
<1>11. CASE Runner!Look \/ Runner!Begin \/ Runner!Commit \/ Runner!Forget
  <2>1. UNCHANGED <<rep, late, over, failed, stop, Runner!ownVars, Runner!waitVars>>
    BY <1>11 DEF Runner!Look, Runner!Begin, Runner!Commit, Runner!Forget, Runner!stepVars
  <2> QED BY <1>0, <2>1 DEF Runner!ownVars, Runner!waitVars
<1>12. CASE Runner!OnCompleted
  BY <1>12 DEF Runner!OnCompleted, Stops
<1>13. CASE Runner!RunDeadline \/ Runner!StepDeadline
  BY <1>0, <1>13 DEF Runner!RunDeadline, Runner!StepDeadline, Runner!ownVars, Runner!waitVars
<1>14. CASE Runner!Occurs \/ Runner!Others
  BY <1>1, <1>14 DEF Runner!Occurs, Runner!Others, Runner!waitVars
<1>15. CASE (\E r \in Runs : Calls(r)) \/ Shuts
  BY <1>1, <1>15, CallFrame, ShutFrame DEF Runner!waitVars
<1> QED BY <1>2, <1>3, <1>4, <1>5, <1>6, <1>7, <1>8, <1>9, <1>10, <1>11, <1>12, <1>13, <1>14, <1>15, NextCases

-----------------------------------------------------------------------------
(* The event bus.                                                          *)

\* An event is added, or the numbers begin anew; an act's is the one that is added.
LEMMA BusFrame ==
  ASSUME Runner!StepOK, Runner!Next
  PROVE  \/ UNCHANGED Runner!busVars /\ cause' \in {cause, 0}
         \/ \E m \in BOOLEAN : Runner!Publish(m) /\ (cause' = cause \/ (cause' = head + 1 /\ m))
         \/ Runner!OnCompleted
<1>1. CASE (\E r \in Runs : Calls(r)) \/ Shuts \/ Looks
  BY <1>1, CallFrame, ShutFrame, LookFrame DEF Runner!busVars, Runner!worldVars
<1>2. CASE Runner!Look \/ Runner!Forget \/ Runner!NextStep \/ Runner!Dispatch \/ Runner!ActReturns
           \/ Runner!Returns
  BY <1>2 DEF Runner!Look, Runner!Forget, Runner!NextStep, Runner!Dispatch, Runner!ActReturns,
     Runner!Returns, Runner!busVars, Runner!worldVars
<1>3. CASE Runner!Acts \/ Runner!Summary \/ Runner!ReleaseInput \/ Runner!RestoreCamera
           \/ Runner!RunDeadline \/ Runner!StepDeadline
  BY <1>3 DEF Runner!Acts, Runner!Summary, Runner!ReleaseInput, Runner!RestoreCamera, Runner!RunDeadline,
     Runner!StepDeadline, Runner!busVars, Runner!worldVars
<1>4. CASE Runner!Begin \/ Runner!Commit
  BY <1>4 DEF Runner!Begin, Runner!Commit, Runner!worldVars
<1>5. CASE Runner!Occurs \/ Runner!Others
  BY <1>5 DEF Runner!Occurs, Runner!Others
<1> QED BY <1>1, <1>2, <1>3, <1>4, <1>5, NextCases

\* The ring after an event: the numbers still run to the head.
LEMMA Published ==
  ASSUME Runner!ScenarioAssumption, Runner!WorldOK, RingInv, NEW m \in BOOLEAN, Runner!Publish(m)
  PROVE  /\ ring' \in Seq(Runner!Events) /\ head' = head + 1
         /\ Len(ring') <= MaxRing /\ Len(ring') > 0
         /\ \A i \in DOMAIN ring' : ring'[i].seq = head' - Len(ring') + i
         /\ \A i \in DOMAIN ring' : \/ \E j \in DOMAIN ring : ring'[i] = ring[j]
                                   \/ ring'[i] = [seq |-> head + 1, matches |-> m]
<1> DEFINE e == [seq |-> head + 1, matches |-> m]
           all == Append(ring, e)
<1>1. /\ ring \in Seq(Runner!Events) /\ head \in Nat /\ MaxRing \in Nat \ {0}
      /\ \A i \in DOMAIN ring : ring[i].seq = head - Len(ring) + i
  BY DEF Runner!WorldOK, RingInv, Runner!ScenarioAssumption
<1>2. e \in Runner!Events /\ e.seq = head + 1
  BY <1>1 DEF Runner!Events
<1>5. head' = head + 1 /\ ring' = SubSeq(all, Runner!Max({1, Len(all) - MaxRing + 1}), Len(all))
  BY DEF Runner!Publish
<1> HIDE DEF e
<1>3. /\ all \in Seq(Runner!Events) /\ Len(all) = Len(ring) + 1 /\ all[Len(ring) + 1] = e
      /\ \A i \in 1..Len(ring) : all[i] = ring[i]
  BY <1>1, <1>2, AppendProperties
<1>4. Len(ring) \in Nat /\ DOMAIN ring = 1..Len(ring)
  BY <1>1
<1> HIDE DEF all
<1>6. \E k \in 0..Len(ring) : Runner!Max({1, Len(all) - MaxRing + 1}) = k + 1 /\ Len(all) - k <= MaxRing
  <2>0. Len(all) - MaxRing + 1 \in Int /\ 1 \in Int
    BY <1>1, <1>3, <1>4
  <2>1. CASE 1 >= Len(all) - MaxRing + 1
    <3>1. Runner!Max({1, Len(all) - MaxRing + 1}) = 0 + 1
      BY <2>0, <2>1, MaxOfTwo
    <3> QED BY <1>1, <1>3, <1>4, <2>1, <3>1
  <2>2. CASE ~(1 >= Len(all) - MaxRing + 1)
    <3>1. Runner!Max({1, Len(all) - MaxRing + 1}) = (Len(all) - MaxRing) + 1
      BY <2>0, <2>2, MaxOfTwo
    <3>2. Len(all) - MaxRing \in 0..Len(ring) /\ Len(all) - (Len(all) - MaxRing) <= MaxRing
      BY <1>1, <1>3, <1>4, <2>2
    <3> QED BY <3>1, <3>2
  <2> QED BY <2>1, <2>2
<1>7. PICK k \in 0..Len(ring) : Runner!Max({1, Len(all) - MaxRing + 1}) = k + 1 /\ Len(all) - k <= MaxRing
  BY <1>6
<1>8. k \in 0..Len(all) /\ ring' \in Seq(Runner!Events) /\ IsRest(ring', all, k)
  <2>1. k \in 0..Len(all) /\ ring' = SubSeq(all, k + 1, Len(all))
    <3>1. k \in 0..Len(all)
      BY <1>3, <1>4
    <3>2. ring' = SubSeq(all, k + 1, Len(all))
      BY <1>5, <1>7
    <3> QED BY <3>1, <3>2
  <2> QED BY <1>3, <2>1, SuffixElements
<1>9. /\ Len(ring') = Len(ring) + 1 - k /\ Len(ring') <= MaxRing /\ Len(ring') > 0
      /\ DOMAIN ring' = 1..Len(ring')
  <2>1. Len(ring') = Len(all) - k /\ Len(all) - k <= MaxRing
    BY <1>7, <1>8 DEF IsRest
  <2>2. Len(all) = Len(ring) + 1 /\ DOMAIN ring' = 1..Len(ring')
    BY <1>3, <1>8
  <2> QED BY <1>4, <1>7, <2>1, <2>2
<1>10. ASSUME NEW i \in DOMAIN ring'
       PROVE  /\ ring'[i].seq = head' - Len(ring') + i
              /\ (\E j \in DOMAIN ring : ring'[i] = ring[j]) \/ ring'[i] = e
  <2>1. ring'[i] = all[i + k] /\ i + k \in 1..Len(ring) + 1 /\ i \in Int /\ k \in Int
    BY <1>3, <1>4, <1>7, <1>8, <1>9 DEF IsRest
  <2>5. /\ head \in Int /\ Len(ring) \in Int /\ i \in Int /\ k \in Int
        /\ head' = head + 1 /\ Len(ring') = Len(ring) + 1 - k
    <3>1. head \in Int /\ Len(ring) \in Int
      BY <1>1, <1>4
    <3> QED BY <1>5, <1>9, <2>1, <3>1
  <2>2. CASE i + k = Len(ring) + 1
    <3>1. ring'[i] = e
      BY <1>3, <2>1, <2>2
    <3>2. head' - Len(ring') + i = head + 1
      <4>2. i + k = Len(ring) + 1
        BY <2>2
      <4> QED BY <2>5, <4>2
    <3> QED BY <1>2, <3>1, <3>2
  <2>3. CASE i + k \in 1..Len(ring)
    <3>1. ring'[i] = ring[i + k] /\ ring[i + k].seq = head - Len(ring) + (i + k)
      BY <1>1, <1>3, <1>4, <2>1, <2>3
    <3>2. head' - Len(ring') + i = head - Len(ring) + (i + k)
      BY <2>5
    <3> QED BY <1>4, <2>3, <3>1, <3>2
  <2>4. i + k = Len(ring) + 1 \/ i + k \in 1..Len(ring)
    BY <1>4, <2>1
  <2> QED BY <2>2, <2>3, <2>4
<1> QED BY <1>5, <1>8, <1>9, <1>10 DEF e

\* Every step keeps the numbers, and the event of an act matches while it is kept.
LEMMA RingKept ==
  ASSUME Runner!ScenarioAssumption, Runner!StepOK, Runner!WorldOK, RingInv, Runner!Next
  PROVE  /\ RingInv' /\ ring' \in Seq(Runner!Events) /\ Len(ring') <= MaxRing /\ head' \in Nat /\ cause' \in Nat
<1>0. /\ ring \in Seq(Runner!Events) /\ Len(ring) <= MaxRing /\ head \in Nat /\ cause \in Nat
      /\ MaxRing \in Nat \ {0}
  BY DEF Runner!WorldOK, Runner!ScenarioAssumption
<1>1. CASE UNCHANGED Runner!busVars /\ cause' \in {cause, 0}
  BY <1>0, <1>1 DEF RingInv, Runner!busVars
<1>2. ASSUME NEW m \in BOOLEAN, Runner!Publish(m), cause' = cause \/ (cause' = head + 1 /\ m)
      PROVE  /\ RingInv' /\ ring' \in Seq(Runner!Events) /\ Len(ring') <= MaxRing /\ head' \in Nat
                /\ cause' \in Nat
  <2>1. /\ ring' \in Seq(Runner!Events) /\ head' = head + 1 /\ Len(ring') <= MaxRing /\ Len(ring') > 0
        /\ \A i \in DOMAIN ring' : ring'[i].seq = head' - Len(ring') + i
        /\ \A i \in DOMAIN ring' : \/ \E j \in DOMAIN ring : ring'[i] = ring[j]
                                  \/ ring'[i] = [seq |-> head + 1, matches |-> m]
    BY <1>2, Published
  <2>2. cause <= head /\ cause' <= head' /\ head' \in Nat /\ cause' \in Nat
    BY <1>0, <1>2, <2>1 DEF RingInv
  <2>3. ASSUME NEW i \in DOMAIN ring', cause' > 0, ring'[i].seq = cause' PROVE ring'[i].matches
    <3>1. CASE ring'[i] = [seq |-> head + 1, matches |-> m]
      <4>1. ring'[i].seq = head + 1 /\ ring'[i].matches = m
        BY <3>1
      <4>2. cause' # cause
        BY <1>0, <2>2, <2>3, <4>1
      <4> QED BY <1>2, <4>1, <4>2
    <3>2. ASSUME NEW j \in DOMAIN ring, ring'[i] = ring[j] PROVE ring'[i].matches
      <4>1. ring[j].seq = head - Len(ring) + j /\ j \in 1..Len(ring) /\ Len(ring) \in Nat
        BY <1>0 DEF RingInv
      <4>2. ring[j].seq <= head
        BY <1>0, <4>1
      <4>3. cause' = cause
        BY <1>0, <1>2, <2>3, <3>2, <4>2
      <4> QED BY <2>3, <3>2, <4>3 DEF RingInv
    <3> QED BY <2>1, <3>1, <3>2
  <2> QED BY <2>1, <2>2, <2>3 DEF RingInv
<1>3. CASE Runner!OnCompleted
  <2>1. ring' = <<>> /\ head' = 0 /\ cause' = 0
    BY <1>3 DEF Runner!OnCompleted
  <2> QED BY <1>0, <2>1 DEF RingInv
<1> QED BY <1>1, <1>2, <1>3, BusFrame

\* What is new has no number up to the head; a look without a gap has seen the
\* numbers after its cursor.
LEMMA SeenAll ==
  ASSUME Runner!StepOK, Runner!WorldOK, RingInv, cursor <= head, cause > cursor,
         NEW fresh, fresh = {e \in Range(ring) : e.seq > cursor},
         ~(fresh # {} /\ \A e \in fresh : e.seq > cursor + 1)
  PROVE  \E e \in fresh : e.matches
<1>0. /\ ring \in Seq(Runner!Events) /\ head \in Nat /\ cause \in Nat /\ cursor \in Nat /\ cause <= head
      /\ Len(ring) \in Nat /\ DOMAIN ring = 1..Len(ring)
      /\ \A i \in DOMAIN ring : ring[i].seq = head - Len(ring) + i /\ ring[i] \in Range(ring)
  BY DEF Runner!StepOK, Runner!WorldOK, RingInv, Range
<1>1. Len(ring) > 0
  BY <1>0 DEF RingInv
<1>2. ring[Len(ring)].seq = head /\ ring[Len(ring)] \in Range(ring)
  BY <1>0, <1>1
<1>3. head > cursor
  BY <1>0
<1>4. fresh # {}
  BY <1>2, <1>3
<1>5. PICK e \in fresh : ~(e.seq > cursor + 1)
  BY <1>4
<1>6. PICK i \in DOMAIN ring : e = ring[i]
  BY <1>5 DEF Range
<1>7. ring[i].seq > cursor /\ ~(ring[i].seq > cursor + 1)
  BY <1>5, <1>6
<1>8. head - Len(ring) + i = cursor + 1 /\ i \in 1..Len(ring)
  BY <1>0, <1>6, <1>7
<1> DEFINE j == cause - head + Len(ring)
<1>9. j \in 1..Len(ring) /\ head - Len(ring) + j = cause
  BY <1>0, <1>8
<1> HIDE DEF j
<1>10. ring[j].seq = cause /\ j \in DOMAIN ring /\ ring[j] \in Range(ring)
  BY <1>0, <1>9
<1>11. ring[j].matches /\ ring[j] \in fresh
  BY <1>0, <1>10 DEF RingInv
<1> QED BY <1>11

\* Where the numbers are looked at from.
LEMMA LookedAt ==
  ASSUME Runner!StepOK, Runner!WorldOK, RingInv, ReceiptInv, Runner!LookForEvent
  PROVE  cursor' <= head /\ cursor' \in Nat /\ (cause > cursor /\ pc' # "next" => cause > cursor')
<1> DEFINE fresh == {e \in Range(ring) : e.seq > cursor}
           gap == fresh # {} /\ \A e \in fresh : e.seq > cursor + 1
<1>0. /\ ring \in Seq(Runner!Events) /\ head \in Nat /\ cause \in Nat /\ cursor \in Nat
      /\ Len(ring) \in Nat /\ DOMAIN ring = 1..Len(ring)
      /\ \A i \in DOMAIN ring : ring[i].seq = head - Len(ring) + i
  BY DEF Runner!StepOK, Runner!WorldOK, RingInv
<1>1. cursor <= head
  BY DEF ReceiptInv, Runner!LookForEvent, Runner!Waiting
<1>2. (fresh = {} => cursor' = cursor) /\ (fresh # {} => cursor' = Last(ring).seq)
  BY SameOperators DEF Runner!LookForEvent
<1>3. gap \/ (\E e \in fresh : e.matches) => pc' = "next"
  BY SameOperators DEF Runner!LookForEvent, Runner!EndStep
<1>4. fresh # {} => cursor' = head
  <2> SUFFICES ASSUME fresh # {} PROVE cursor' = head
    OBVIOUS
  <2>1. DOMAIN ring # {}
    BY DEF Range
  <2>2. Len(ring) \in DOMAIN ring
    BY <1>0, <2>1
  <2>3. Last(ring).seq = head
    BY <1>0, <2>2 DEF Last
  <2> QED BY <1>2, <2>3
<1>5. cursor' <= head /\ cursor' \in Nat
  BY <1>0, <1>1, <1>2, <1>4
<1>6. ASSUME cause > cursor, pc' # "next" PROVE FALSE
  <2>1. ~gap /\ ~(\E e \in fresh : e.matches)
    BY <1>3, <1>6
  <2> HIDE DEF fresh
  <2>2. fresh = {e \in Range(ring) : e.seq > cursor}
    BY DEF fresh
  <2> QED BY <1>1, <1>6, <2>1, <2>2, SeenAll
<1> QED BY <1>5, <1>6

\* The numbers grow while a run lasts, and the event of an act is the newest when
\* it comes.
LEMMA HeadGrows ==
  ASSUME Runner!StepOK, Runner!WorldOK, Runner!Next
  PROVE  (head' >= head /\ (cause' = cause \/ cause' = 0 \/ cause' > head)) \/ Runner!OnCompleted
<1>0. head \in Nat /\ cause \in Nat
  BY DEF Runner!WorldOK
<1>1. CASE UNCHANGED Runner!busVars /\ cause' \in {cause, 0}
  BY <1>0, <1>1 DEF Runner!busVars
<1>2. CASE \E m \in BOOLEAN : Runner!Publish(m) /\ (cause' = cause \/ (cause' = head + 1 /\ m))
  BY <1>0, <1>2 DEF Runner!Publish
<1> QED BY <1>1, <1>2, BusFrame

\* From which numbers to look.
LEMMA ReceiptKept ==
  ASSUME Runner!ScenarioAssumption, Runner!ServiceOK, Runner!StepOK, Runner!WorldOK, RingInv, ReceiptInv,
         Runner!Next
  PROVE  ReceiptInv' /\ action' \in Runner!Receipts \union {None}
<1>0. /\ head \in Nat /\ cause \in Nat /\ cursor \in Nat
      /\ action \in Runner!Receipts \union {None}
      /\ action # None => action.cursor <= head /\ action.cursor \in Nat
         /\ action.operation \in Runs \union {None}
      /\ None \notin Runner!Receipts
  BY DEF Runner!StepOK, Runner!WorldOK, ReceiptInv, Runner!Receipts, Runner!ScenarioAssumption
<1>1. ASSUME action' \in {action, None}, cursor' = cursor, ~Runner!OnCompleted,
             pc' \in {"invoking", "acted"} => pc' = pc /\ action' = action,
             Runner!Waiting' => Runner!Waiting /\ Runner!Step' = Runner!Step
      PROVE  ReceiptInv' /\ action' \in Runner!Receipts \union {None}
  <2>1. head' >= head /\ (cause' = cause \/ cause' = 0 \/ cause' > head) /\ head' \in Nat /\ cause' \in Nat
    BY <1>1, HeadGrows, RingKept
  <2>2. action' # None => action' = action /\ action'.cursor <= head
    BY <1>0, <1>1
  <2>3. action' # None => action'.cursor <= head'
    BY <1>0, <2>1, <2>2
  <2>4. pc' \in {"invoking", "acted"} => action' # None /\ action'.operation = None
    BY <1>1 DEF ReceiptInv
  <2>5. pc' = "acted" /\ cause' > 0 => cause' > action'.cursor
    <3>1. CASE cause' > head
      BY <1>0, <1>1, <2>1, <2>4, <3>1
    <3>2. CASE cause' = cause \/ cause' = 0
      BY <1>0, <1>1, <3>2 DEF ReceiptInv
    <3> QED BY <2>1, <3>1, <3>2
  <2>6. action' # None /\ action'.operation # None /\ cause' > 0 => cause' > action'.cursor
    <3>1. CASE cause' > head
      BY <1>0, <2>1, <2>2, <3>1
    <3>2. CASE cause' = cause \/ cause' = 0
      BY <1>0, <2>2, <3>2 DEF ReceiptInv
    <3> QED BY <2>1, <3>1, <3>2
  <2>7. (Runner!Waiting /\ Runner!Step \in Runner!EventWaits => cursor <= head)'
    BY <1>0, <1>1, <2>1 DEF ReceiptInv
  <2>8. Runner!WaitForMissesNothing'
    <3> SUFFICES ASSUME (Runner!Waiting /\ Runner!Step \in Runner!EventWaits /\ cause > 0 /\ action # None
        /\ action.operation # None)'
                 PROVE  cause' > cursor'
      BY DEF Runner!WaitForMissesNothing
    <3>1. Runner!Waiting /\ Runner!Step \in Runner!EventWaits /\ cursor <= head /\ action' = action
      BY <1>1 DEF ReceiptInv
    <3>2. CASE cause' > head
      BY <1>0, <1>1, <2>1, <3>1, <3>2
    <3>3. CASE cause' = cause \/ cause' = 0
      BY <1>0, <1>1, <3>1, <3>3 DEF ReceiptInv, Runner!WaitForMissesNothing
    <3> QED BY <2>1, <3>2, <3>3
  <2> QED BY <1>0, <1>1, <2>3, <2>4, <2>5, <2>6, <2>7, <2>8 DEF ReceiptInv
<1>2. CASE (\E r \in Runs : Calls(r)) \/ Shuts
  <2>1. UNCHANGED <<Runner!stepVars, Runner!waitVars>> /\ SamePlace
    BY <1>2, CallFrame, ShutFrame
  <2>2. ~Runner!OnCompleted /\ (Runner!Waiting' => Runner!Waiting)
        /\ (pc' \in {"invoking", "acted"} => pc' = pc)
    BY <2>1 DEF Runner!OnCompleted, SamePlace, Runner!Waiting, Runner!Resting
  <2> QED BY <1>1, <2>1, <2>2 DEF Runner!stepVars, Runner!waitVars, Runner!Step
<1>3. CASE Looks
  <2>0. /\ action' \in {action, None} /\ pc' \notin {"invoking", "acted"} /\ ~Runner!OnCompleted
        /\ UNCHANGED <<run, at, Runner!busVars, Runner!worldVars>>
        /\ pc \notin {"invoking", "acted"}
    BY <1>3, LookFrame DEF RunsOn, Runner!OnCompleted, Runner!Mid
  <2>1. Runner!Step' = Runner!Step /\ head' = head /\ cause' = cause
    BY <2>0 DEF Runner!Step, Runner!busVars, Runner!worldVars
  <2>2. CASE Runner!BeginWait
    <3>1. /\ action' = action /\ pc' \notin {"invoking", "acted"}
          /\ cursor' = IF Runner!Step \notin Runner!EventWaits THEN cursor
                       ELSE IF action # None THEN action.cursor ELSE head
      BY <2>0, <2>2 DEF Runner!BeginWait
    <3>2. (Runner!Waiting /\ Runner!Step \in Runner!EventWaits => cursor <= head)'
      BY <1>0, <2>1, <3>1
    <3>3. Runner!WaitForMissesNothing'
      BY <1>0, <2>1, <3>1 DEF Runner!WaitForMissesNothing, ReceiptInv
    <3> QED BY <1>0, <2>1, <3>1, <3>2, <3>3 DEF ReceiptInv
  <2>3. CASE Runner!LookForEvent
    <3>1. cursor' <= head /\ (cause > cursor /\ pc' # "next" => cause > cursor')
      BY <2>3, LookedAt
    <3>2. Runner!Waiting /\ Runner!Step \in Runner!EventWaits
      BY <2>3 DEF Runner!LookForEvent, Runner!Waiting
    <3>3. Runner!WaitForMissesNothing'
      <4>1. Runner!Waiting' => pc' # "next"
        BY DEF Runner!Waiting
      <4> QED BY <1>0, <2>0, <2>1, <3>1, <3>2, <4>1 DEF Runner!WaitForMissesNothing, ReceiptInv
    <3> QED BY <1>0, <2>0, <2>1, <3>1, <3>3 DEF ReceiptInv
  <2>4. CASE cursor' = cursor /\ ~Runner!BeginWait
    <3>1. CASE Runner!Waiting' => Runner!Waiting
      BY <1>1, <2>0, <2>1, <2>4, <3>1
    <3>2. CASE Runner!Step = "pose"
      <4>1. Runner!Step' \notin Runner!EventWaits
        BY <2>1, <3>2 DEF Runner!EventWaits
      <4> QED BY <1>0, <2>0, <2>1, <4>1 DEF ReceiptInv, Runner!WaitForMissesNothing
    <3> QED BY <1>3, <2>4, <3>1, <3>2, LookFrame
  <2> QED BY <1>3, <2>2, <2>3, <2>4, LookFrame
<1>4. CASE Runner!Dispatch
  <2>1. /\ action' = [cursor |-> head, operation |-> None] /\ pc' = "invoking" /\ head' = head /\ cause' = cause
    BY <1>4 DEF Runner!Dispatch, Runner!busVars, Runner!worldVars
  <2>2. action' \in Runner!Receipts /\ action' # None /\ action'.cursor = head /\ action'.operation = None
    BY <1>0, <2>1 DEF Runner!Receipts
  <2> QED BY <1>0, <2>1, <2>2 DEF ReceiptInv, Runner!WaitForMissesNothing, Runner!Waiting
<1>5. CASE Runner!Acts
  <2>1. /\ action' = action /\ pc = "invoking" /\ pc' = "acted" /\ head' = head /\ cause' = 0
    BY <1>5 DEF Runner!Acts, Runner!busVars, Runner!waitVars
  <2> QED BY <1>0, <2>1 DEF ReceiptInv, Runner!WaitForMissesNothing, Runner!Waiting
<1>6. CASE Runner!ActReturns
  <2>1. PICK receipt \in 0..head + 1 :
          /\ cause = 0 \/ receipt < cause \/ receipt > head
          /\ action' = [cursor |-> IF receipt >= action.cursor /\ receipt <= head THEN receipt ELSE action.cursor,
                        operation |-> run]
    BY <1>6 DEF Runner!ActReturns
  <2>2. pc = "acted" /\ pc' = "next" /\ head' = head /\ cause' = cause /\ run \in Runs
    BY <1>6 DEF Runner!ActReturns, Runner!EndStep, Runner!busVars, Runner!worldVars, Runner!StepOK,
       Runner!Resting
  <2>3. action # None /\ action.cursor <= head /\ action.cursor \in Nat /\ (cause > 0 => cause > action.cursor)
    BY <1>0, <2>2 DEF ReceiptInv
  <2> DEFINE c == IF receipt >= action.cursor /\ receipt <= head THEN receipt ELSE action.cursor
  <2>4. c \in Nat /\ c <= head /\ (cause > 0 => cause > c)
    BY <1>0, <2>1, <2>3
  <2>5. action' = [cursor |-> c, operation |-> run]
    BY <2>1
  <2> HIDE DEF c
  <2>6. action' \in Runner!Receipts /\ action' # None /\ action'.cursor = c
    BY <1>0, <2>2, <2>4, <2>5 DEF Runner!Receipts
  <2> QED BY <1>0, <2>2, <2>4, <2>6 DEF ReceiptInv, Runner!WaitForMissesNothing, Runner!Waiting
<1>7. CASE Runner!NextStep \/ Runner!Returns \/ Runner!Summary \/ Runner!ReleaseInput
           \/ Runner!RestoreCamera \/ Runner!Commit \/ Runner!Begin \/ Runner!Forget \/ Runner!Look
  <2>1. /\ action' \in {action, None} /\ cursor' = cursor /\ ~Runner!OnCompleted
        /\ pc' \in {"next", "step", "summary", "release", "restore", "commit", "forget", "callback", "begin",
                   "exited", "blocked"}
    <3>1. CASE Runner!NextStep
      BY <3>1 DEF Runner!NextStep, Runner!OnCompleted
    <3>2. CASE Runner!Returns
      BY <3>2 DEF Runner!Returns, Runner!EndStep, Runner!OnCompleted, Runner!waitVars
    <3>3. CASE Runner!Summary \/ Runner!ReleaseInput \/ Runner!RestoreCamera
      BY <3>3 DEF Runner!Summary, Runner!ReleaseInput, Runner!RestoreCamera, Runner!OnCompleted, Runner!waitVars
    <3>4. CASE Runner!Commit \/ Runner!Begin \/ Runner!Forget \/ Runner!Look
      BY <3>4 DEF Runner!Commit, Runner!Begin, Runner!Forget, Runner!Look, Runner!OnCompleted, Runner!waitVars
    <3> QED BY <1>7, <3>1, <3>2, <3>3, <3>4
  <2>2. ~Runner!Waiting'
    BY <2>1 DEF Runner!Waiting
  <2> QED BY <1>1, <2>1, <2>2
<1>8. CASE Runner!RunDeadline \/ Runner!StepDeadline \/ Runner!Occurs \/ Runner!Others
  <2>1. UNCHANGED <<pc, run, at, Runner!waitVars>> /\ ~Runner!OnCompleted
    BY <1>8 DEF Runner!RunDeadline, Runner!StepDeadline, Runner!Occurs, Runner!Others, Runner!OnCompleted,
       Runner!stepVars
  <2> QED BY <1>1, <2>1 DEF Runner!waitVars, Runner!Step, Runner!Waiting
<1>9. CASE Runner!OnCompleted
  BY <1>0, <1>9 DEF Runner!OnCompleted, ReceiptInv, Runner!WaitForMissesNothing, Runner!Waiting
<1> QED BY <1>2, <1>3, <1>4, <1>5, <1>6, <1>7, <1>8, <1>9, NextCases

\* What the game and the history have.
LEMMA WorldTypes ==
  ASSUME Runner!ScenarioAssumption, Runner!ServiceOK, Runner!StepOK, Runner!WorldOK, RingInv, ReceiptInv,
         Runner!Next
  PROVE  Runner!WorldOK'
<1> DEFINE Rest == /\ noise \in Nat /\ owed \in BOOLEAN
                   /\ operation \in Runs \union {None} /\ free \in Runs \union {None}
                   /\ held \subseteq Runs /\ stuck \subseteq Runs
           Firsts == first \in [Runs -> {"submitted", "started", "finished", "completed", None}]
<1> SUFFICES Rest' /\ Firsts'
  BY RingKept, ReceiptKept DEF Runner!WorldOK, Runner!Receipts
<1>0. Rest /\ Firsts /\ (run = None \/ run \in Runs) /\ (pc \notin Runner!Resting => run \in Runs)
  BY DEF Runner!WorldOK, Runner!StepOK
<1>1. Rest'
  <2>0. noise' \in Nat
    <3>1. CASE Runner!Others
      BY <1>0, <3>1 DEF Runner!Others
    <3> QED BY <1>0, <3>1, NextCases
  <2>1. CASE UNCHANGED Runner!worldVars
    BY <1>0, <2>0, <2>1 DEF Runner!worldVars
  <2>2. CASE (\E r \in Runs : Calls(r)) \/ Shuts \/ Looks
    BY <2>1, <2>2, CallFrame, ShutFrame, LookFrame
  <2>3. CASE Runner!Look \/ Runner!Begin \/ Runner!NextStep \/ Runner!Dispatch \/ Runner!ActReturns
             \/ Runner!Summary \/ Runner!Commit \/ Runner!Forget
    BY <2>1, <2>3 DEF Runner!Look, Runner!Begin, Runner!NextStep, Runner!Dispatch, Runner!ActReturns,
       Runner!Summary, Runner!Commit, Runner!Forget
  <2>4. CASE Runner!Acts
    <3>1. run \in Runs
      BY <1>0, <2>4 DEF Runner!Acts, Runner!Resting
    <3> QED BY <1>0, <2>0, <2>4, <3>1 DEF Runner!Acts
  <2>5. CASE Runner!Returns
    <3>1. run \in Runs
      BY <1>0, <2>5 DEF Runner!Returns, Runner!Resting
    <3>2. held' \in {held, held \union {run}} /\ free' \in {free, run, None}
      BY <2>5 DEF Runner!Returns
    <3>3. UNCHANGED <<operation, owed, stuck>>
      BY <2>5 DEF Runner!Returns
    <3> QED BY <1>0, <2>0, <3>1, <3>2, <3>3
  <2>6. CASE Runner!ReleaseInput
    <3>1. run \in Runs
      BY <1>0, <2>6 DEF Runner!ReleaseInput, Runner!Resting
    <3> QED BY <1>0, <2>0, <2>6, <3>1 DEF Runner!ReleaseInput
  <2>7. CASE Runner!RestoreCamera
    BY <1>0, <2>0, <2>7 DEF Runner!RestoreCamera
  <2>8. CASE Runner!OnCompleted
    BY <1>0, <2>0, <2>8 DEF Runner!OnCompleted
  <2>9. CASE Runner!RunDeadline \/ Runner!StepDeadline
    BY <2>1, <2>9 DEF Runner!RunDeadline, Runner!StepDeadline
  <2>10. CASE Runner!Occurs \/ Runner!Others
    BY <1>0, <2>0, <2>10 DEF Runner!Occurs, Runner!Others
  <2> QED BY <2>2, <2>3, <2>4, <2>5, <2>6, <2>7, <2>8, <2>9, <2>10, NextCases
<1>2. Firsts'
  <2>1. ASSUME NEW r \in Runs, NEW what \in {"submitted", "started", "finished", "completed"}, Runner!Says(r,
               what)
        PROVE  Firsts'
    BY <1>0, <2>1 DEF Runner!Says
  <2>2. CASE \E r \in Runs : Calls(r)
    BY <1>0, <2>2, CallFrame
  <2>3. CASE Runner!Begin \/ Runner!Commit \/ Runner!OnCompleted
    BY <1>0, <2>1, <2>3 DEF Runner!Begin, Runner!Commit, Runner!OnCompleted, Runner!Resting
  <2>4. CASE Shuts \/ Looks \/ Runner!NextStep \/ Runner!Dispatch \/ Runner!Acts \/ Runner!ActReturns
             \/ Runner!Returns \/ Runner!Summary \/ Runner!ReleaseInput \/ Runner!RestoreCamera
    BY <1>0, <2>4, ShutFrame, LookFrame, RunFrame DEF RunsOn
  <2>5. CASE Runner!Look \/ Runner!Forget \/ Runner!RunDeadline \/ Runner!StepDeadline \/ Runner!Occurs
             \/ Runner!Others
    BY <1>0, <2>5 DEF Runner!Look, Runner!Forget, Runner!RunDeadline, Runner!StepDeadline, Runner!Occurs,
       Runner!Others
  <2> QED BY <2>2, <2>3, <2>4, <2>5, NextCases
<1> QED BY <1>1, <1>2

-----------------------------------------------------------------------------
(* The service's record of the runs.                                       *)

\* The step is the worker's own or one of time and the world.
LEMMA ServiceFrame ==
  ASSUME Runner!StepOK, Runner!Next
  PROVE  \/ \E r \in Runs : Calls(r)
         \/ Shuts \/ RunsOn \/ Runner!Look \/ Runner!Begin \/ Runner!Commit \/ Runner!Forget
            \/ Runner!OnCompleted
         \/ UNCHANGED <<Runner!serviceVars, Runner!recordVars, Runner!threadVars, pc, run, first>>
<1>1. CASE Runner!RunDeadline \/ Runner!StepDeadline \/ Runner!Occurs \/ Runner!Others
  BY <1>1 DEF Runner!RunDeadline, Runner!StepDeadline, Runner!Occurs, Runner!Others, Runner!stepVars
<1> QED BY <1>1, NextCases, LookFrame, RunFrame

\* The callers: a run is admitted where none is served.
LEMMA CallsServed ==
  ASSUME Runner!ScenarioAssumption, Runner!ServiceOK, Runner!StepOK, ServedOnceInv, NEW r \in Runs, Calls(r)
  PROVE  Runner!ServiceOK' /\ ServedOnceInv'
<1>0. /\ SamePlace /\ UNCHANGED <<stopping, completed, phase, status, shutter, run>>
      /\ None \notin Runs /\ run \in Runs \union {None}
      /\ pc \notin Runner!Resting => run \in Runs
  BY CallFrame DEF Runner!stepVars, Runner!ScenarioAssumption, Runner!StepOK
<1>1. /\ (pc' \in Runner!Resting <=> pc \in Runner!Resting) /\ (pc' \in Runner!Mid <=> pc \in Runner!Mid)
      /\ \A p \in {"begin", "forget", "callback"} : pc' = p <=> pc = p
  BY <1>0 DEF SamePlace, Runner!Resting, Runner!Mid, Places
<1>2. CASE Runner!Submit(r) /\ active = None /\ ~stopping
  <2>1. /\ caller[r] = "idle" /\ caller' = [caller EXCEPT ![r] = "accepted"]
        /\ active' = r /\ pending' = r /\ runs' = runs \union {r} /\ UNCHANGED <<cancel, canceller>>
    BY <1>2 DEF Runner!Submit, Runner!recordVars
  <2>2. phase[r] = "pending" /\ r \notin Range(completed)
    BY <2>1 DEF ServedOnceInv
  <2>3. pc \notin Runner!Mid \union {"begin", "forget"} /\ (pc = "callback" => run # r)
    BY <1>0, <1>2, <2>2 DEF ServedOnceInv, Runner!Mid, Runner!Resting
  <2>4. Runner!ServiceOK'
    BY <1>0, <1>2, <2>1, <2>2 DEF Runner!ServiceOK
  <2>5. ASSUME NEW s \in Runs
        PROVE  /\ caller'[s] \in {"idle", "refused"} => phase'[s] = "pending" /\ s # active'
                  /\ s \notin Range(completed')
               /\ phase'[s] = "running" <=> s = run' /\ pc' \in Runner!Mid
               /\ phase'[s] = "done" /\ s = active' => pc' = "forget"
    BY <1>0, <1>1, <2>1, <2>2, <2>3 DEF ServedOnceInv, Runner!ServiceOK
  <2> QED BY <1>0, <1>1, <2>1, <2>2, <2>3, <2>4, <2>5 DEF ServedOnceInv
<1>3. ASSUME UNCHANGED <<active, pending, runs>>,
             caller' \in [Runs -> {"idle", "refused", "accepted", "told", "waiting", "answered"}],
             cancel' \in [Runs -> BOOLEAN], canceller' \in [Runs -> {"idle", "done", "flagged", "told"}],
             \A s \in Runs : caller'[s] \in {"idle", "refused"} => caller[s] \in {"idle", "refused"}
      PROVE  Runner!ServiceOK' /\ ServedOnceInv'
  <2>1. Runner!ServiceOK'
    BY <1>0, <1>3 DEF Runner!ServiceOK
  <2>2. ServedOnceInv'
    BY <1>0, <1>1, <1>3 DEF ServedOnceInv
  <2> QED BY <2>1, <2>2
<1>4. CASE Runner!Submit(r) /\ (stopping \/ active # None)
  <2>1. /\ caller[r] = "idle" /\ caller' = [caller EXCEPT ![r] = "refused"]
        /\ UNCHANGED <<active, pending, runs, cancel, canceller>>
    BY <1>4 DEF Runner!Submit, Runner!recordVars
  <2> QED BY <1>3, <2>1 DEF Runner!ServiceOK
<1>5. CASE Runner!OnSubmitted(r) \/ Runner!Submitted(r) \/ Runner!Answer(r)
  <2>1. /\ UNCHANGED <<active, pending, runs, cancel, canceller>>
        /\ \E s \in {"told", "waiting", "answered"} : caller' = [caller EXCEPT ![r] = s]
    BY <1>5 DEF Runner!OnSubmitted, Runner!Submitted, Runner!Answer, Runner!recordVars, Runner!serviceVars
  <2> QED BY <1>3, <2>1 DEF Runner!ServiceOK
<1>6. CASE Runner!Cancel(r) \/ Runner!Cancelled(r)
  <2>1. /\ UNCHANGED <<active, pending, runs, caller>>
        /\ cancel' = cancel \/ cancel' = [cancel EXCEPT ![r] = TRUE]
        /\ \E s \in {"done", "flagged", "told"} : canceller' = [canceller EXCEPT ![r] = s]
    BY <1>6 DEF Runner!Cancel, Runner!Cancelled, Runner!recordVars, Runner!serviceVars
  <2> QED BY <1>3, <2>1 DEF Runner!ServiceOK
<1> QED BY <1>2, <1>4, <1>5, <1>6 DEF Calls

\* The shutdown serves no run itself.
LEMMA ShutsServed ==
  ASSUME Runner!ServiceOK, Runner!StepOK, ServedOnceInv, Shuts
  PROVE  Runner!ServiceOK' /\ ServedOnceInv'
<1>0. SamePlace /\ UNCHANGED <<active, pending, runs, completed, phase, status, caller, canceller, run>>
  BY ShutFrame DEF Runner!stepVars
<1>1. /\ (pc' \in Runner!Resting <=> pc \in Runner!Resting) /\ (pc' \in Runner!Mid <=> pc \in Runner!Mid)
      /\ \A p \in {"begin", "forget", "callback"} : pc' = p <=> pc = p
  BY <1>0 DEF SamePlace, Runner!Resting, Runner!Mid, Places
<1>2. /\ stopping' \in BOOLEAN /\ shutter' \in {"idle", "flagged", "joining", "joined"}
      /\ cancel' \in [Runs -> BOOLEAN]
  <2>1. CASE Runner!Shutdown
    BY <2>1 DEF Runner!Shutdown, Runner!ServiceOK
  <2>2. CASE Runner!ShutdownNotifies \/ Runner!ShutdownJoins
    BY <2>2 DEF Runner!ShutdownNotifies, Runner!ShutdownJoins, Runner!ServiceOK, Runner!serviceVars,
       Runner!recordVars
  <2> QED BY <2>1, <2>2 DEF Shuts
<1>3. Runner!ServiceOK'
  BY <1>0, <1>2 DEF Runner!ServiceOK
<1>4. ServedOnceInv'
  BY <1>0, <1>1 DEF ServedOnceInv
<1> QED BY <1>3, <1>4

\* The next run is admitted; of the completed the latest are kept, and the others
\* cannot be found any more.
LEMMA ForgetServed ==
  ASSUME Runner!ScenarioAssumption, Runner!ServiceOK, Runner!StepOK, ServedOnceInv, Runner!Forget
  PROVE  Runner!ServiceOK' /\ ServedOnceInv'
<1> DEFINE all == Append(completed, run)
           gone == Runner!Max({0, Len(all) - HistoryLimit})
<1>0. /\ pc = "forget" /\ pc' = "callback" /\ active = run /\ active' = None /\ pending = None /\ run \in Runs
      /\ completed \in Seq(Runs) /\ IsInjective(completed) /\ run \notin Range(completed)
      /\ runs = Range(completed) \union {run} /\ phase[run] = "done" /\ None \notin Runs /\ HistoryLimit \in Nat
      /\ UNCHANGED <<stopping, pending, Runner!recordVars, Runner!threadVars, run>>
  BY SameOperators DEF Runner!Forget, Runner!ServiceOK, Runner!StepOK, ServedOnceInv, Runner!Resting, Runner!Mid,
     Runner!ScenarioAssumption, Runner!stepVars
<1>1. completed' = SubSeq(all, gone + 1, Len(all)) /\ runs' = runs \ {all[i] : i \in 1..gone}
  BY DEF Runner!Forget
<1>2. /\ all \in Seq(Runs) /\ IsInjective(all) /\ Range(all) = Range(completed) \union {run}
      /\ Len(all) \in Nat /\ DOMAIN all = 1..Len(all)
  BY <1>0, AppendProperties, AppendDistinct
<1> HIDE DEF all
<1>3. gone \in 0..Len(all) /\ Len(all) - gone <= HistoryLimit
  <2>1. gone = IF 0 >= Len(all) - HistoryLimit THEN 0 ELSE Len(all) - HistoryLimit
    BY <1>0, <1>2, MaxOfTwo
  <2> QED BY <1>0, <1>2, <2>1
<1> HIDE DEF gone
<1>4. completed' \in Seq(Runs) /\ IsRest(completed', all, gone)
  BY <1>1, <1>2, <1>3, SuffixElements
<1>5. IsInjective(completed') /\ Range(completed') \subseteq Range(all)
  BY <1>2, <1>3, <1>4, RestDistinct
<1>6. Len(completed') = Len(all) - gone /\ \A i \in 1..Len(all) - gone : completed'[i] = all[i + gone]
  BY <1>4 DEF IsRest
<1>7. runs' = Range(completed')
  <2>1. ASSUME NEW x \in runs' PROVE x \in Range(completed')
    <3>1. x \in Range(all) /\ \A i \in 1..gone : x # all[i]
      BY <1>0, <1>1, <1>2, <2>1
    <3>2. PICK j \in 1..Len(all) : x = all[j]
      BY <1>2, <3>1 DEF Range
    <3>3. j \notin 1..gone
      BY <3>1, <3>2
    <3>4. j - gone \in 1..Len(all) - gone /\ (j - gone) + gone = j
      BY <1>2, <1>3, <3>3
    <3>5. completed'[j - gone] = x /\ j - gone \in DOMAIN completed'
      BY <1>4, <1>6, <3>2, <3>4
    <3> QED BY <3>5 DEF Range
  <2>2. ASSUME NEW x \in Range(completed') PROVE x \in runs'
    <3>1. PICK j \in DOMAIN completed' : x = completed'[j]
      BY DEF Range
    <3>2. j \in 1..Len(all) - gone
      BY <1>4, <1>6
    <3>3. x = all[j + gone] /\ j + gone \in DOMAIN all /\ \A i \in 1..gone : i \in DOMAIN all /\ i # j + gone
      BY <1>2, <1>3, <1>6, <3>1, <3>2
    <3>4. \A i \in 1..gone : x # all[i]
      BY <1>2, <3>3 DEF IsInjective
    <3>5. x \in runs
      BY <1>0, <1>2, <1>5
    <3> QED BY <1>1, <3>4, <3>5
  <2> QED BY <2>1, <2>2
<1>8. Runner!ServiceOK'
  <2>1. Len(completed') <= HistoryLimit
    BY <1>3, <1>6
  <2> QED BY <1>0, <1>4, <1>7, <2>1, SameOperators DEF Runner!ServiceOK, Runner!recordVars, Runner!threadVars
<1>9. ServedOnceInv'
  <2>1. Range(completed') \subseteq Range(completed) \union {run}
    BY <1>2, <1>5
  <2>2. ASSUME NEW s \in Runs
        PROVE  /\ caller'[s] \in {"idle", "refused"} => phase'[s] = "pending" /\ s # active'
                  /\ s \notin Range(completed')
               /\ phase'[s] = "running" <=> s = run' /\ pc' \in Runner!Mid
               /\ phase'[s] = "done" /\ s = active' => pc' = "forget"
    BY <1>0, <2>1 DEF ServedOnceInv, Runner!recordVars, Runner!threadVars, Runner!Mid
  <2>3. active' \notin Range(completed')
    <3>1. Range(completed) \subseteq Runs
      BY <1>0 DEF Range
    <3> QED BY <1>0, <2>1, <3>1
  <2> QED BY <1>0, <1>5, <2>2, <2>3 DEF ServedOnceInv, Runner!recordVars, Runner!Resting, Runner!Mid
<1> QED BY <1>8, <1>9

\* Every step keeps who serves which run.
LEMMA ServiceKept ==
  ASSUME Runner!ScenarioAssumption, Runner!ServiceOK, Runner!StepOK, ServedOnceInv, Runner!Next
  PROVE  Runner!ServiceOK' /\ ServedOnceInv'
<1>0. None \notin Runs /\ None \notin Runner!Statuses /\ run \in Runs \union {None}
      /\ (pc \notin Runner!Resting => run \in Runs)
  BY DEF Runner!ScenarioAssumption, Runner!StepOK
<1>1. CASE RunsOn
  <2>1. /\ pc \notin Runner!Resting \union {"begin", "forget", "callback"}
           /\ pc' \notin Runner!Resting \union {"begin", "forget", "callback"}
        /\ pc \in Runner!Mid /\ pc' \in Runner!Mid /\ UNCHANGED <<Runner!serviceVars, Runner!recordVars,
           Runner!threadVars, run>>
    BY <1>1 DEF RunsOn, Runner!Mid, Runner!Resting
  <2>2. Runner!ServiceOK'
    BY <2>1 DEF Runner!ServiceOK, Runner!serviceVars, Runner!recordVars, Runner!threadVars
  <2>3. ServedOnceInv'
    BY <2>1 DEF ServedOnceInv, Runner!serviceVars, Runner!recordVars, Runner!threadVars
  <2> QED BY <2>2, <2>3
<1>2. CASE UNCHANGED <<Runner!serviceVars, Runner!recordVars, Runner!threadVars, pc, run, first>>
  <2>1. Runner!ServiceOK'
    BY <1>2 DEF Runner!ServiceOK, Runner!serviceVars, Runner!recordVars, Runner!threadVars
  <2>2. ServedOnceInv'
    BY <1>2 DEF ServedOnceInv, Runner!serviceVars, Runner!recordVars, Runner!threadVars
  <2> QED BY <2>1, <2>2
<1>3. CASE Runner!Look
  <2>1. /\ pc = "look" /\ run = None /\ pending = active /\ pending' = None
        /\ pc' = (IF pending # None THEN "begin" ELSE IF stopping THEN "exited" ELSE "blocked")
        /\ run' = (IF pending # None THEN pending ELSE run)
        /\ UNCHANGED <<stopping, active, runs, completed, Runner!recordVars, Runner!threadVars>>
    BY <1>3 DEF Runner!Look, ServedOnceInv, Runner!Resting
  <2>2. Runner!ServiceOK'
    BY <2>1 DEF Runner!ServiceOK, Runner!recordVars, Runner!threadVars
  <2>3. ServedOnceInv'
    BY <1>0, <2>1 DEF ServedOnceInv, Runner!recordVars, Runner!threadVars, Runner!Resting, Runner!Mid
  <2> QED BY <2>2, <2>3
<1>4. CASE Runner!Begin
  <2>1. /\ pc = "begin" /\ pc' = "next" /\ run = active /\ pending = None /\ run \in Runs
        /\ phase' = [phase EXCEPT ![run] = "running"]
        /\ UNCHANGED <<Runner!serviceVars, cancel, status, Runner!threadVars, run>>
    BY <1>0, <1>4 DEF Runner!Begin, ServedOnceInv, Runner!stepVars, Runner!Resting
  <2>2. phase[run] # "done" /\ caller[run] \notin {"idle", "refused"}
    BY <2>1 DEF ServedOnceInv
  <2>3. Runner!ServiceOK'
    <3>1. \A s \in Runs : phase'[s] = "done" <=> status'[s] # None
      BY <2>1, <2>2 DEF Runner!ServiceOK
    <3> QED BY <2>1, <3>1 DEF Runner!ServiceOK, Runner!serviceVars, Runner!threadVars
  <2>4. ASSUME NEW s \in Runs
        PROVE  /\ caller'[s] \in {"idle", "refused"} => phase'[s] = "pending" /\ s # active'
                  /\ s \notin Range(completed')
               /\ phase'[s] = "running" <=> s = run' /\ pc' \in Runner!Mid
               /\ phase'[s] = "done" /\ s = active' => pc' = "forget"
    BY <2>1, <2>2 DEF ServedOnceInv, Runner!ServiceOK, Runner!serviceVars, Runner!threadVars, Runner!Mid
  <2>5. ServedOnceInv'
    BY <2>1, <2>4 DEF ServedOnceInv, Runner!serviceVars, Runner!Resting, Runner!Mid
  <2> QED BY <2>3, <2>5
<1>5. CASE Runner!Commit
  <2>1. /\ pc = "commit" /\ pc' = "forget" /\ run = active /\ pending = None /\ run \in Runs
        /\ phase' = [phase EXCEPT ![run] = "done"] /\ status' = [status EXCEPT ![run] = Runner!Committed]
        /\ UNCHANGED <<Runner!serviceVars, cancel, Runner!threadVars, run>>
    BY <1>0, <1>5 DEF Runner!Commit, ServedOnceInv, Runner!stepVars, Runner!Resting, Runner!Mid
  <2>2. Runner!Committed \in Runner!Statuses /\ Runner!Committed # None /\ pc \in Runner!Mid
    BY <1>0, <2>1 DEF Runner!Committed, Runner!Statuses, Runner!Mid
  <2>3. phase[run] = "running" /\ caller[run] \notin {"idle", "refused"}
    BY <2>1, <2>2 DEF ServedOnceInv
  <2>4. Runner!ServiceOK'
    <3>1. \A s \in Runs : phase'[s] = "done" <=> status'[s] # None
      BY <2>1, <2>2 DEF Runner!ServiceOK
    <3> QED BY <2>1, <2>2, <3>1 DEF Runner!ServiceOK, Runner!serviceVars, Runner!threadVars
  <2>5. ASSUME NEW s \in Runs
        PROVE  /\ caller'[s] \in {"idle", "refused"} => phase'[s] = "pending" /\ s # active'
                  /\ s \notin Range(completed')
               /\ phase'[s] = "running" <=> s = run' /\ pc' \in Runner!Mid
               /\ phase'[s] = "done" /\ s = active' => pc' = "forget"
    BY <2>1, <2>2, <2>3 DEF ServedOnceInv, Runner!ServiceOK, Runner!serviceVars, Runner!threadVars, Runner!Mid
  <2>6. phase'[run'] = "done"
    BY <2>1 DEF Runner!ServiceOK
  <2>7. ServedOnceInv'
    BY <2>1, <2>5, <2>6 DEF ServedOnceInv, Runner!serviceVars, Runner!Resting, Runner!Mid
  <2> QED BY <2>4, <2>7
<1>6. CASE Runner!OnCompleted
  <2>1. /\ pc = "callback" /\ pc' = "look" /\ run' = None /\ pending = active
        /\ UNCHANGED <<Runner!serviceVars, Runner!recordVars, Runner!threadVars>>
    BY <1>6 DEF Runner!OnCompleted, ServedOnceInv
  <2>2. Runner!ServiceOK'
    BY <2>1 DEF Runner!ServiceOK, Runner!serviceVars, Runner!recordVars, Runner!threadVars
  <2>3. ServedOnceInv'
    BY <1>0, <2>1 DEF ServedOnceInv, Runner!serviceVars, Runner!recordVars, Runner!threadVars,
       Runner!Resting, Runner!Mid
  <2> QED BY <2>2, <2>3
<1> QED BY <1>1, <1>2, <1>3, <1>4, <1>5, <1>6, CallsServed, ShutsServed, ForgetServed, ServiceFrame

-----------------------------------------------------------------------------
(* The properties.                                                         *)

\* A flag that is set stays, and the commit reads it.
LEMMA FlaggedKept ==
  ASSUME Runner!ScenarioAssumption, Runner!ServiceOK, Runner!StepOK, ServedOnceInv, FlaggedInv, Runner!Next
  PROVE  FlaggedInv'
<1>0. run \in Runs \union {None} /\ (pc \notin Runner!Resting => run \in Runs)
  BY DEF Runner!StepOK
<1> DEFINE Marks == {"flagged", "told"}
<1>1. ASSUME UNCHANGED <<phase, status>>,
             \A s \in Runs : canceller'[s] \in Marks =>
                \/ canceller[s] \in Marks /\ (cancel[s] => cancel'[s])
                \/ cancel'[s] /\ phase[s] # "done"
      PROVE  FlaggedInv'
  BY <1>1 DEF FlaggedInv, Runner!CancelTrue
<1>2. ASSUME NEW r \in Runs, Calls(r) PROVE FlaggedInv'
  <2>1. UNCHANGED <<phase, status>>
    BY <1>2, CallFrame
  <2>2. CASE Runner!Submit(r) \/ Runner!OnSubmitted(r) \/ Runner!Submitted(r) \/ Runner!Answer(r)
    <3>1. UNCHANGED <<cancel, canceller>>
      BY <2>2 DEF Runner!Submit, Runner!OnSubmitted, Runner!Submitted, Runner!Answer, Runner!recordVars
    <3> QED BY <1>1, <2>1, <3>1
  <2>3. CASE Runner!Cancel(r)
    <3>1. CASE phase[r] = "done"
      <4>1. canceller' = [canceller EXCEPT ![r] = "done"] /\ cancel' = cancel
        BY <2>3, <3>1 DEF Runner!Cancel
      <4>2. canceller'[r] = "done" /\ \A s \in Runs \ {r} : canceller'[s] = canceller[s]
        BY <4>1 DEF Runner!ServiceOK
      <4> QED BY <1>1, <2>1, <4>1, <4>2
    <3>2. CASE phase[r] # "done"
      <4>1. canceller' = [canceller EXCEPT ![r] = "flagged"] /\ cancel' = [cancel EXCEPT ![r] = TRUE]
        BY <2>3, <3>2 DEF Runner!Cancel
      <4>2. cancel'[r] /\ \A s \in Runs \ {r} : canceller'[s] = canceller[s] /\ cancel'[s] = cancel[s]
        BY <4>1 DEF Runner!ServiceOK
      <4> QED BY <1>1, <2>1, <3>2, <4>2
    <3> QED BY <3>1, <3>2
  <2>4. CASE Runner!Cancelled(r)
    <3>1. canceller[r] = "flagged" /\ canceller' = [canceller EXCEPT ![r] = "told"] /\ cancel' = cancel
      BY <2>4 DEF Runner!Cancelled, Runner!recordVars
    <3>2. \A s \in Runs \ {r} : canceller'[s] = canceller[s]
      BY <3>1 DEF Runner!ServiceOK
    <3> QED BY <1>1, <2>1, <3>1, <3>2
  <2> QED BY <1>2, <2>2, <2>3, <2>4 DEF Calls
<1>3. CASE Shuts
  <2>1. UNCHANGED <<phase, status, canceller>>
    BY <1>3, ShutFrame
  <2>2. \A s \in Runs : cancel[s] => cancel'[s]
    <3>1. CASE Runner!Shutdown
      BY <3>1 DEF Runner!Shutdown
    <3>2. CASE Runner!ShutdownNotifies \/ Runner!ShutdownJoins
      BY <3>2 DEF Runner!ShutdownNotifies, Runner!ShutdownJoins, Runner!recordVars
    <3> QED BY <1>3, <3>1, <3>2 DEF Shuts
  <2> QED BY <1>1, <2>1, <2>2
<1>4. CASE RunsOn \/ Runner!Look \/ Runner!Forget \/ Runner!OnCompleted \/ UNCHANGED <<Runner!serviceVars,
           Runner!recordVars, Runner!threadVars, pc, run, first>>
  <2>1. UNCHANGED <<Runner!recordVars, Runner!threadVars>>
    BY <1>4 DEF RunsOn, Runner!Look, Runner!Forget, Runner!OnCompleted
  <2> QED BY <1>1, <2>1 DEF Runner!recordVars, Runner!threadVars
<1>5. CASE Runner!Begin
  <2>1. /\ phase' = [phase EXCEPT ![run] = "running"] /\ UNCHANGED <<cancel, status, canceller>> /\ run \in Runs
    BY <1>0, <1>5 DEF Runner!Begin, Runner!threadVars, Runner!Resting
  <2>2. \A s \in Runs : phase'[s] = "done" => phase[s] = "done"
    BY <2>1 DEF Runner!ServiceOK
  <2> QED BY <2>1, <2>2 DEF FlaggedInv, Runner!CancelTrue
<1>6. CASE Runner!Commit
  <2>1. /\ phase' = [phase EXCEPT ![run] = "done"] /\ status' = [status EXCEPT ![run] = Runner!Committed]
        /\ UNCHANGED <<cancel, canceller>> /\ run \in Runs
    BY <1>0, <1>6 DEF Runner!Commit, Runner!threadVars, Runner!Resting
  <2>2. \A s \in Runs : s # run => phase'[s] = phase[s] /\ status'[s] = status[s]
    BY <2>1 DEF Runner!ServiceOK
  <2>3. cancel[run] => status'[run] = IF Plan[run].throws THEN "failed" ELSE "cancelled"
    BY <2>1 DEF Runner!ServiceOK, Runner!Committed
  <2> QED BY <2>1, <2>2, <2>3 DEF FlaggedInv, Runner!CancelTrue
<1> QED BY <1>2, <1>3, <1>4, <1>5, <1>6, ServiceFrame

\* What a run takes it knows of, what it leaves its status tells.
LEMMA HoldsKept ==
  ASSUME Runner!ScenarioAssumption, Runner!ServiceOK, Runner!StepOK, Runner!WorldOK, ServedOnceInv, HoldsInv,
         Runner!Next
  PROVE  HoldsInv'
<1>0. /\ run \in Runs \union {None} /\ (pc \notin Runner!Resting => run \in Runs) /\ None \notin Runs
      /\ pc \in Runner!Mid => pc \notin Runner!Resting /\ phase[run] = "running"
      /\ failed \in BOOLEAN /\ owns \in BOOLEAN /\ acquired \in BOOLEAN /\ incomplete \in BOOLEAN
  BY DEF Runner!StepOK, ServedOnceInv, Runner!ScenarioAssumption, Runner!Mid, Runner!Resting
\* The worker's place and what is held are as before, or the run has ended.
<1>1. ASSUME UNCHANGED <<phase, status, held, free, stuck, run, at, failed, owns, acquired, incomplete>>,
             pc' \in Runner!Mid \ {"restore", "commit", "invoking"} => pc \in Runner!Mid \ {"restore",
             "commit"},
             pc' \in {"restore", "commit", "invoking"} => pc' = pc
      PROVE  HoldsInv'
  BY <1>1 DEF HoldsInv, Runner!LeavesClean, Runner!Step
<1>2. CASE (\E r \in Runs : Calls(r)) \/ Shuts
  <2>1. SamePlace /\ UNCHANGED <<phase, status, Runner!stepVars, Runner!ownVars, Runner!worldVars>>
    BY <1>2, CallFrame, ShutFrame
  <2>2. /\ pc' \in Runner!Mid \ {"restore", "commit", "invoking"} => pc \in Runner!Mid \ {"restore", "commit"}
        /\ pc' \in {"restore", "commit", "invoking"} => pc' = pc
    BY <2>1 DEF SamePlace, Runner!Mid, Runner!Resting
  <2> QED BY <1>1, <2>1, <2>2 DEF Runner!stepVars, Runner!ownVars, Runner!worldVars
\* A step of the run that takes nothing and can only come to fail.
<1>3. ASSUME RunsOn, failed => failed', UNCHANGED <<at, owns, acquired, incomplete, held, free, stuck>>,
             pc \notin {"restore", "commit"}, pc' \notin {"restore", "commit", "invoking"}
      PROVE  HoldsInv'
  BY <1>3 DEF HoldsInv, Runner!LeavesClean, RunsOn, Runner!recordVars
<1>4. CASE Looks
  <2>1. /\ RunsOn /\ Verdict /\ UNCHANGED <<at, Runner!ownVars, Runner!worldVars>>
        /\ pc \notin {"restore", "commit"} /\ pc' \notin {"restore", "commit", "invoking"}
    BY <1>4, LookFrame
  <2> QED BY <1>3, <2>1 DEF Verdict, Runner!ownVars, Runner!worldVars
<1>5. CASE Runner!NextStep
  <2>1. /\ pc = "next" /\ pc' \in {"step", "summary"} /\ UNCHANGED <<failed, Runner!ownVars,
           Runner!worldVars, Runner!recordVars, run>>
    BY <1>5 DEF Runner!NextStep
  <2> QED BY <2>1 DEF HoldsInv, Runner!LeavesClean, Runner!ownVars, Runner!worldVars, Runner!recordVars,
             Runner!Mid
<1>6. CASE Runner!Dispatch
  <2>1. /\ pc = "step" /\ pc' = "invoking" /\ owns' = (owns \/ Runner!Step = "press")
        /\ UNCHANGED <<Runner!recordVars, Runner!stepVars, acquired, incomplete, Runner!worldVars>>
    BY <1>6 DEF Runner!Dispatch
  <2>2. Runner!Step' = Runner!Step
    BY <2>1 DEF Runner!Step, Runner!stepVars
  <2> QED BY <1>0, <2>1, <2>2 DEF HoldsInv, Runner!LeavesClean, Runner!stepVars, Runner!worldVars,
             Runner!recordVars, Runner!Mid
<1>7. CASE Runner!Acts
  <2>1. RunsOn /\ pc = "invoking" /\ pc' = "acted" /\ UNCHANGED <<Runner!stepVars, Runner!ownVars, held,
        free, stuck>>
    BY <1>7, RunFrame DEF Runner!Acts
  <2> QED BY <1>3, <2>1 DEF Runner!stepVars, Runner!ownVars
<1>8. CASE Runner!ActReturns
  <2>1. RunsOn /\ Verdict /\ pc = "acted" /\ pc' = "next" /\ UNCHANGED <<at, Runner!ownVars, Runner!worldVars>>
    BY <1>8, RunFrame, Ended DEF Runner!ActReturns
  <2> QED BY <1>3, <2>1 DEF Verdict, Runner!ownVars, Runner!worldVars
<1>9. CASE Runner!Returns
  <2>1. /\ RunsOn /\ Verdict /\ pc = "invoking" /\ pc' = "next" /\ UNCHANGED <<phase, status, run, owns, stuck>>
        /\ run \in Runs /\ phase[run] = "running"
    BY <1>0, <1>9, RunFrame, Ended DEF Runner!Returns, RunsOn, Runner!recordVars, Runner!Resting
  <2>2. held' = held \/ (Runner!Step = "press" /\ held' = held \union {run})
    BY <1>9 DEF Runner!Returns
  <2>3. free' = free \/ free' = None \/ free' = run
    BY <1>9 DEF Runner!Returns
  <2>4. \/ UNCHANGED <<free, acquired>>
        \/ acquired' /\ free' = run
        \/ free' = None
        \/ failed' /\ acquired' = acquired
    <3>1. \A result : result = "failed" /\ Runner!EndStep(result) => failed'
      BY DEF Runner!EndStep
    <3> QED BY <1>9, <3>1 DEF Runner!Returns
  <2>5. free' = run => acquired' \/ failed'
    BY <1>0, <2>1, <2>4 DEF HoldsInv, Verdict, Runner!Mid
  <2>6. run \in held' => owns'
    BY <2>1, <2>2 DEF HoldsInv, Runner!Mid
  <2>7. \A r \in Runs : r # run => (r \in held' <=> r \in held) /\ (free' = r => free = r)
    BY <1>0, <2>2, <2>3
  <2>8. \A r \in Runs : phase'[r] = "pending" => r \notin held' /\ free' # r
    BY <2>1, <2>7 DEF HoldsInv
  <2>9. Runner!LeavesClean'
    BY <2>1, <2>7 DEF HoldsInv, Runner!LeavesClean
  <2> QED BY <2>1, <2>5, <2>6, <2>8, <2>9 DEF HoldsInv
<1>10. CASE Runner!Summary
  <2>1. RunsOn /\ pc = "summary" /\ pc' = "release" /\ UNCHANGED <<at, failed, Runner!ownVars,
        Runner!worldVars>>
    BY <1>10, RunFrame DEF Runner!Summary
  <2> QED BY <1>3, <2>1 DEF Runner!ownVars, Runner!worldVars
<1>11. CASE Runner!ReleaseInput
  <2>1. /\ pc = "release" /\ pc' = "restore" /\ UNCHANGED <<Runner!recordVars, Runner!stepVars,
           Runner!ownVars, free>>
        /\ \/ held' = (IF owns THEN held \ {run} ELSE held) /\ UNCHANGED stuck
           \/ owns /\ stuck' = stuck \union {run} /\ UNCHANGED held
        /\ run \in Runs /\ phase[run] = "running"
    BY <1>0, <1>11 DEF Runner!ReleaseInput, Runner!Mid, Runner!Resting
  <2>2. run \in held' => run \in stuck'
    BY <2>1 DEF HoldsInv, Runner!Mid
  <2>3. held' \subseteq held /\ stuck \subseteq stuck' /\ \A r \in Runs : r # run /\ r \in held' => r \in held
    BY <2>1
  <2> QED BY <2>1, <2>2, <2>3 DEF HoldsInv, Runner!LeavesClean, Runner!recordVars, Runner!stepVars,
             Runner!ownVars, Runner!Mid
<1>12. CASE Runner!RestoreCamera
  <2>1. /\ pc = "restore" /\ pc' = "commit" /\ UNCHANGED <<Runner!recordVars, Runner!stepVars, owns,
           acquired, held, stuck>>
        /\ \/ ~acquired /\ UNCHANGED <<free, incomplete>>
           \/ free' = None
           \/ incomplete' = TRUE /\ UNCHANGED free
        /\ run \in Runs
    BY <1>0, <1>12 DEF Runner!RestoreCamera, Runner!Mid, Runner!Resting
  <2>2. free' = run => failed' \/ incomplete'
    BY <1>0, <2>1 DEF HoldsInv, Runner!stepVars, Runner!Mid
  <2>3. \A r \in Runs : free' = r => free = r
    BY <1>0, <2>1
  <2> QED BY <2>1, <2>2, <2>3 DEF HoldsInv, Runner!LeavesClean, Runner!recordVars, Runner!stepVars, Runner!Mid
<1>13. CASE Runner!Begin
  <2>1. /\ pc = "begin" /\ pc' = "next" /\ phase' = [phase EXCEPT ![run] = "running"] /\ run \in Runs
        /\ UNCHANGED <<status, Runner!stepVars, Runner!ownVars, Runner!worldVars>>
    BY <1>0, <1>13 DEF Runner!Begin, Runner!Resting
  <2>2. phase[run] = "pending"
    BY <2>1 DEF ServedOnceInv, Runner!ServiceOK, Runner!Mid
  <2>3. \A r \in Runs : r # run => phase'[r] = phase[r]
    BY <2>1 DEF Runner!ServiceOK
  <2>4. phase'[run] = "running"
    BY <2>1 DEF Runner!ServiceOK
  <2>5. run \notin held /\ free # run
    BY <2>1, <2>2 DEF HoldsInv
  <2> QED BY <2>1, <2>3, <2>4, <2>5 DEF HoldsInv, Runner!LeavesClean, Runner!stepVars, Runner!ownVars,
             Runner!worldVars, Runner!Mid
<1>14. CASE Runner!Commit
  <2>1. /\ pc = "commit" /\ pc' = "forget" /\ phase' = [phase EXCEPT ![run] = "done"] /\ run \in Runs
        /\ status' = [status EXCEPT ![run] = Runner!Committed]
        /\ UNCHANGED <<Runner!stepVars, Runner!ownVars, Runner!worldVars>>
    BY <1>0, <1>14 DEF Runner!Commit, Runner!Resting
  <2>2. /\ \A r \in Runs : r # run => phase'[r] = phase[r] /\ status'[r] = status[r]
        /\ phase'[run] = "done" /\ status'[run] = Runner!Committed
    BY <2>1 DEF Runner!ServiceOK
  <2>3. run \in held => run \in stuck
    BY <2>1 DEF HoldsInv
  <2>4. free = run => Runner!Committed # "completed"
    BY <2>1 DEF HoldsInv, Runner!Committed
  <2> QED BY <2>1, <2>2, <2>3, <2>4 DEF HoldsInv, Runner!LeavesClean, Runner!stepVars, Runner!ownVars,
             Runner!worldVars, Runner!Mid
<1>15. CASE Runner!Look \/ Runner!Forget
  <2>1. /\ pc' \in {"begin", "exited", "blocked", "callback"} /\ UNCHANGED <<phase, status, held, free, stuck>>
    BY <1>15 DEF Runner!Look, Runner!Forget, Runner!recordVars, Runner!worldVars
  <2> QED BY <2>1 DEF HoldsInv, Runner!LeavesClean, Runner!Mid
<1>16. CASE Runner!OnCompleted
  <2>1. pc' = "look" /\ UNCHANGED <<phase, status, held, free, stuck>>
    BY <1>16 DEF Runner!OnCompleted, Runner!recordVars
  <2> QED BY <2>1 DEF HoldsInv, Runner!LeavesClean, Runner!Mid
<1>17. CASE Runner!RunDeadline \/ Runner!StepDeadline \/ Runner!Occurs \/ Runner!Others
  <2>1. UNCHANGED <<phase, status, held, free, stuck, run, at, failed, owns, acquired, incomplete, pc>>
    BY <1>17 DEF Runner!RunDeadline, Runner!StepDeadline, Runner!Occurs, Runner!Others, Runner!recordVars,
       Runner!stepVars, Runner!ownVars, Runner!worldVars
  <2> QED BY <1>1, <2>1
<1> QED BY <1>2, <1>4, <1>5, <1>6, <1>7, <1>8, <1>9, <1>10, <1>11, <1>12, <1>13, <1>14, <1>15, <1>16, <1>17,
           NextCases

\* The initial state.
LEMMA ScenarioInit ==
  ASSUME Runner!ScenarioAssumption, Runner!Init
  PROVE  ScenarioInv
<1>0. /\ None \notin Runs /\ HistoryLimit \in Nat /\ MaxRing \in Nat \ {0} /\ run = None /\ pc = "look"
         /\ at = 0
      /\ completed = <<>> /\ ring = <<>> /\ active = None /\ pending = None /\ Range(completed) = {}
  BY DEF Runner!Init, Runner!ScenarioAssumption, Range
<1>a. completed \in Seq(Runs) /\ Len(completed) = 0 /\ ring \in Seq(Runner!Events) /\ Len(ring) = 0
  BY <1>0
<1>1. Runner!ServiceOK
  <2>1. runs = Range(completed) \union ({active} \ {None})
    BY <1>0 DEF Runner!Init
  <2>2. /\ phase \in [Runs -> {"pending", "running", "done"}] /\ cancel \in [Runs -> BOOLEAN]
        /\ status \in [Runs -> Runner!Statuses \union {None}] /\ \A r \in Runs : phase[r] # "done"
           /\ status[r] = None
        /\ caller \in [Runs -> {"idle", "refused", "accepted", "told", "waiting", "answered"}]
        /\ canceller \in [Runs -> {"idle", "done", "flagged", "told"}]
    BY DEF Runner!Init
  <2>3. stopping = FALSE /\ shutter = "idle"
    BY DEF Runner!Init
  <2>4. Len(completed) <= HistoryLimit
    BY <1>0, <1>a
  <2>5. stopping \in BOOLEAN /\ shutter \in {"idle", "flagged", "joining", "joined"}
    BY <2>3
  <2>6. active \in Runs \union {None} /\ pending \in {None, active}
    BY <1>0
  <2>7. \A r \in Runs : phase[r] = "done" <=> status[r] # None
    BY <2>2
  <2> QED BY <1>a, <2>1, <2>2, <2>4, <2>5, <2>6, <2>7, SameOperators DEF Runner!ServiceOK
<1>2. Runner!StepOK
  <2>1. /\ late = FALSE /\ over = FALSE /\ failed = FALSE /\ stop = "none" /\ owns = FALSE /\ acquired = FALSE
        /\ uncertain = FALSE /\ incomplete = FALSE /\ rep = 1 /\ cursor = 0
    BY DEF Runner!Init
  <2>2. {late, over, failed, owns, acquired, uncertain, incomplete} \subseteq BOOLEAN
    BY <2>1
  <2>3. {at, rep, cursor} \subseteq Nat /\ stop \in {"none", "aborted", "cancelled", "timedOut"}
    BY <1>0, <2>1
  <2>4. pc \in Runner!Resting /\ run \in Runs \union {None} /\ at = 0
    BY <1>0 DEF Runner!Resting
  <2> QED BY <2>2, <2>3, <2>4 DEF Runner!StepOK
<1>3. Runner!WorldOK
  <2>1. /\ action = None /\ head = 0 /\ noise = 0 /\ cause = 0 /\ owed = FALSE /\ operation = None
           /\ free = None
        /\ held = {} /\ stuck = {}
        /\ first \in [Runs -> {"submitted", "started", "finished", "completed", None}]
    BY DEF Runner!Init
  <2>2. {head, noise, cause} \subseteq Nat /\ owed \in BOOLEAN /\ held \subseteq Runs /\ stuck \subseteq Runs
    <3>1. {head, noise, cause} \subseteq Nat
      BY <2>1
    <3>2. owed \in BOOLEAN
      BY <2>1
    <3>3. held \subseteq Runs /\ stuck \subseteq Runs
      BY <2>1
    <3> QED BY <3>1, <3>2, <3>3
  <2>3. Len(ring) <= MaxRing
    BY <1>0, <1>a
  <2> QED BY <1>a, <2>1, <2>2, <2>3 DEF Runner!WorldOK
<1>4. ServedOnceInv
  BY <1>0 DEF Runner!Init, ServedOnceInv, Runner!Resting, Runner!Mid, IsInjective
<1>5. FlaggedInv
  BY DEF Runner!Init, FlaggedInv, Runner!CancelTrue
<1>6. HoldsInv
  BY <1>0 DEF Runner!Init, HoldsInv, Runner!LeavesClean, Runner!Mid
<1>7. RingInv
  BY <1>0 DEF Runner!Init, RingInv
<1>8. ReceiptInv
  BY <1>0 DEF Runner!Init, ReceiptInv, Runner!WaitForMissesNothing, Runner!Waiting
<1> QED BY <1>1, <1>2, <1>3, <1>4, <1>5, <1>6, <1>7, <1>8 DEF ScenarioInv, Runner!TypeOK

\* Every step keeps the invariant.
LEMMA ScenarioStep ==
  ASSUME Runner!ScenarioAssumption, ScenarioInv, [Runner!Next]_Runner!vars
  PROVE  ScenarioInv'
<1>0. Runner!ServiceOK /\ Runner!StepOK /\ Runner!WorldOK /\ ServedOnceInv /\ FlaggedInv /\ HoldsInv
      /\ RingInv /\ ReceiptInv
  BY DEF ScenarioInv, Runner!TypeOK
<1>1. CASE Runner!Next
  <2>1. Runner!ServiceOK' /\ ServedOnceInv'
    BY <1>0, <1>1, ServiceKept
  <2>2. Runner!StepOK' /\ Runner!WorldOK'
    BY <1>0, <1>1, StepTypes, WorldTypes
  <2>3. FlaggedInv' /\ HoldsInv'
    BY <1>0, <1>1, FlaggedKept, HoldsKept
  <2>4. RingInv' /\ ReceiptInv'
    BY <1>0, <1>1, RingKept, ReceiptKept
  <2> QED BY <2>1, <2>2, <2>3, <2>4 DEF ScenarioInv, Runner!TypeOK
<1>2. CASE UNCHANGED Runner!vars
  <2>1. /\ UNCHANGED <<stopping, active, pending, runs, completed, phase, cancel, status, caller, canceller,
           shutter>>
        /\ UNCHANGED <<pc, run, at, rep, late, over, failed, stop, owns, acquired, uncertain, incomplete>>
        /\ UNCHANGED <<action, cursor, ring, head, noise, operation, owed, cause, held, free, stuck, first>>
    BY <1>2 DEF Runner!vars, Runner!serviceVars, Runner!recordVars, Runner!threadVars, Runner!stepVars,
       Runner!ownVars, Runner!waitVars, Runner!busVars, Runner!worldVars
  <2>2. Runner!ServiceOK'
    BY <1>0, <2>1 DEF Runner!ServiceOK
  <2>3. Runner!StepOK'
    BY <1>0, <2>1 DEF Runner!StepOK
  <2>4. Runner!WorldOK'
    BY <1>0, <2>1 DEF Runner!WorldOK
  <2>5. ServedOnceInv'
    BY <1>0, <2>1 DEF ServedOnceInv
  <2>6. FlaggedInv'
    BY <1>0, <2>1 DEF FlaggedInv, Runner!CancelTrue
  <2>7. HoldsInv'
    BY <1>0, <2>1 DEF HoldsInv, Runner!LeavesClean, Runner!Step
  <2>8. RingInv'
    BY <1>0, <2>1 DEF RingInv
  <2>9. ReceiptInv'
    BY <1>0, <2>1 DEF ReceiptInv, Runner!WaitForMissesNothing, Runner!Waiting, Runner!Step
  <2> QED BY <2>2, <2>3, <2>4, <2>5, <2>6, <2>7, <2>8, <2>9 DEF ScenarioInv, Runner!TypeOK
<1> QED BY <1>1, <1>2

\* The inductive invariant, for any plans.
THEOREM ScenarioInvariant ==
  ASSUME Runner!ScenarioAssumption
  PROVE  Runner!Spec => []ScenarioInv
<1>1. Runner!Init => ScenarioInv
  BY ScenarioInit
<1>2. ScenarioInv /\ [Runner!Next]_Runner!vars => ScenarioInv'
  BY ScenarioStep
<1> QED BY <1>1, <1>2, PTL DEF Runner!Spec

\* Every reachable state of the service and of its worker is well typed: the runs that can be
\* found are the active one and the latest completed (ScenarioTool.cpp 1153-1167), and a run
\* has a status exactly when its phase says done (1093-1152).
THEOREM ScenarioTypeCorrect ==
  ASSUME Runner!ScenarioAssumption
  PROVE  Runner!Spec => []Runner!TypeOK
<1>1. ScenarioInv => Runner!TypeOK
  BY DEF ScenarioInv
<1> QED BY <1>1, ScenarioInvariant, PTL

\* A run of which Cancel has told that the cancellation is accepted is committed as cancelled,
\* though Cancel holds the record's mutex only while it sets the flag and the run may be past
\* its last step (ScenarioTool.cpp 951-977 and 1093-1115).  Only a finalizeResult that throws
\* turns it into a failure (1119-1131).
THEOREM CancelsTrue ==
  ASSUME Runner!ScenarioAssumption
  PROVE  Runner!Spec => []Runner!CancelTrue
<1>1. ScenarioInv => Runner!CancelTrue
  BY DEF ScenarioInv, FlaggedInv
<1> QED BY <1>1, ScenarioInvariant, PTL

\* A run that is done holds no key that it could release, and where its free camera is left on
\* it does not call itself completed, whatever calls timed out, failed or were cancelled on the
\* way (CleanupOwned, ScenarioTool.cpp 1179-1302).
THEOREM RunsLeaveClean ==
  ASSUME Runner!ScenarioAssumption
  PROVE  Runner!Spec => []Runner!LeavesClean
<1>1. ScenarioInv => Runner!LeavesClean
  BY DEF ScenarioInv, HoldsInv
<1> QED BY <1>1, ScenarioInvariant, PTL

\* The event of an act is still to be read by the waitFor after it, whenever it comes and
\* whatever number the tool's answer names, in a ring of any size: what was dropped of it shows
\* as a gap, which ends the step (ScenarioTool.cpp 1521-1563 and 2074-2170).
THEOREM WaitForSees ==
  ASSUME Runner!ScenarioAssumption
  PROVE  Runner!Spec => []Runner!WaitForMissesNothing
<1>1. ScenarioInv => Runner!WaitForMissesNothing
  BY DEF ScenarioInv, ReceiptInv
<1> QED BY <1>1, ScenarioInvariant, PTL
=============================================================================
