--------------------------- MODULE ValuePredicate ---------------------------
(***************************************************************************)
(* The value predicates of scenarios: one comparison of a JSON value that  *)
(* a read-only tool answers, looked at once by an assertion and again and  *)
(* again by a wait.  JSON numbers come as signed or unsigned integers or   *)
(* as floating-point numbers and are compared without being converted to   *)
(* one type.                                                               *)
(***************************************************************************)
EXTENDS Integers

CONSTANTS
    SignLimit,  \* 2^63
    Actual,     \* the values that tools answer
    Expected,   \* the values that predicates ask for
    None

VARIABLES
    predicate,  \* [comparison, expected, waiting], or None
    pc,         \* "parse", "look" or "done"
    seen,       \* what the last look saw, or None
    outcome     \* "none", "refused", "ok", "failed" or "timedOut"

vars == <<predicate, pc, seen, outcome>>

(* A float counts halves: what the comparisons tell apart is the integer   *)
(* below it and whether there is a fraction.                               *)
Signed == [kind : {"signed"}, value : -SignLimit..(SignLimit - 1)]
Unsigned == [kind : {"unsigned"}, value : 0..(2 * SignLimit - 1)]
Float == [kind : {"float"}, value : Int]
NotFinite == [kind : {"notFinite"}, value : {0}]
Other == [kind : {"null", "boolean", "string"}, value : {0, 1}]
Numbers == Signed \union Unsigned \union Float \union NotFinite

ASSUME LimitAssumption == SignLimit \in Nat \ {0}
ASSUME ValueAssumption == Actual \union Expected \subseteq Numbers \union Other

\* No value at the path; no answer for now, 503 or 504; and a refusal, a failure
\* in the answer's own words, or a receipt.
Missing == [kind |-> "missing", value |-> 0]
Unavailable == [kind |-> "unavailable", value |-> 0]
Refusal == [kind |-> "refusal", value |-> 0]

Comparisons == {"eq", "ne", "lt", "le", "gt", "ge", "exists"}
Orderings == {"lt", "le", "gt", "ge"}

Init ==
    /\ predicate = None /\ pc = "parse" /\ seen = None /\ outcome = "none"

-----------------------------------------------------------------------------
IsNumber(v) == v.kind \in {"signed", "unsigned", "float", "notFinite"}

SameComparableType(a, b) == (IsNumber(a) /\ IsNumber(b)) \/ a.kind = b.kind

\* "less", "equal", "greater" or "unordered".
Order(m, n) == IF m < n THEN "less" ELSE IF m > n THEN "greater" ELSE "equal"

Reversed(order) ==
    IF order = "less" THEN "greater" ELSE IF order = "greater" THEN "less" ELSE order

\* The cast to an unsigned type of the same width.
AsUnsigned(n) == IF n < 0 THEN n + 2 * SignLimit ELSE n

CompareSignedUnsigned(s, u) == IF s < 0 THEN "less" ELSE Order(AsUnsigned(s), u)

\* Slip: the fraction is cut off.
CompareFloorSlip(n, h) == Order(n, h \div 2)

\* A float, in halves, that lies above the integer by a fraction is greater.
CompareFloor(n, h) ==
    IF n = h \div 2 THEN (IF h = 2 * (h \div 2) THEN "equal" ELSE "less") ELSE Order(n, h \div 2)

CompareSignedDouble(s, h) ==
    IF h < -2 * SignLimit THEN "greater"
    ELSE IF h >= 2 * SignLimit THEN "less"
    ELSE CompareFloor(s, h)

CompareUnsignedDouble(u, h) ==
    IF h < 0 THEN "greater"
    ELSE IF h >= 4 * SignLimit THEN "less"
    ELSE CompareFloor(u, h)

\* By the type of the actual value, then by that of the expected one.
CompareNumbers(a, b) ==
    IF "notFinite" \in {a.kind, b.kind} THEN "unordered"
    ELSE IF a.kind = b.kind THEN Order(a.value, b.value)
    ELSE IF a.kind = "unsigned"
    THEN IF b.kind = "float" THEN CompareUnsignedDouble(a.value, b.value)
                             ELSE Reversed(CompareSignedUnsigned(b.value, a.value))
    ELSE IF a.kind = "float"
    THEN IF b.kind = "unsigned" THEN Reversed(CompareUnsignedDouble(b.value, a.value))
                                ELSE Reversed(CompareSignedDouble(b.value, a.value))
    ELSE IF b.kind = "unsigned" THEN CompareSignedUnsigned(a.value, b.value)
                                ELSE CompareSignedDouble(a.value, b.value)

Accepts(comparison, order) ==
    \/ order = "less" /\ comparison \in {"ne", "lt", "le"}
    \/ order = "equal" /\ comparison \in {"eq", "le", "ge"}
    \/ order = "greater" /\ comparison \in {"ne", "gt", "ge"}

\* "yes", "no" or "error".
Compare(p, v) ==
    LET Answer(yes) == IF yes THEN "yes" ELSE "no"
        order == CompareNumbers(v, p.expected)
    IN IF ~SameComparableType(v, p.expected) THEN "error"
       ELSE IF IsNumber(v)
       THEN IF order = "unordered" THEN "error" ELSE Answer(Accepts(p.comparison, order))
       ELSE IF p.comparison = "eq" THEN Answer(v = p.expected)
       ELSE IF p.comparison = "ne" THEN Answer(v # p.expected)
       ELSE "error"

\* What a look makes of an answer: a wait goes on where the value may still come.
ObserveValue(p, v) ==
    IF v = Unavailable THEN "no"
    ELSE IF v = Refusal THEN "error"
    ELSE IF p.comparison = "exists"
    THEN IF (v # Missing) <=> (p.expected.value = 1) THEN "yes" ELSE "no"
    ELSE IF v = Missing \/ (v.kind = "null" /\ p.expected.kind # "null") THEN "no"
    ELSE Compare(p, v)

-----------------------------------------------------------------------------
\* Whether something exists is asked with a boolean, an order with a number.
ParseValuePredicate ==
    /\ pc = "parse"
    /\ \E comparison \in Comparisons, expected \in Expected, waiting \in BOOLEAN :
        LET parses == /\ comparison = "exists" => expected.kind = "boolean"
                      /\ comparison \in Orderings => IsNumber(expected)
        IN /\ predicate' = [comparison |-> comparison, expected |-> expected, waiting |-> waiting]
           /\ pc' = IF parses THEN "look" ELSE "done"
           /\ outcome' = IF parses THEN "none" ELSE "refused"
    /\ UNCHANGED seen

\* One look; an assertion has but one, a wait ends with what will not change or
\* at a deadline.
ExecutePredicate ==
    /\ pc = "look"
    /\ \E v \in Actual \union {Missing, Unavailable, Refusal} :
        LET answer == ObserveValue(predicate, v)
        IN /\ seen' = v
           /\ \/ answer = "yes" /\ outcome' = "ok"
              \/ answer # "yes" /\ (~predicate.waiting \/ answer = "error") /\ outcome' = "failed"
              \/ answer = "no" /\ predicate.waiting /\ outcome' \in {"none", "timedOut"}
           /\ pc' = IF outcome' = "none" THEN "look" ELSE "done"
    /\ UNCHANGED predicate

Next == ParseValuePredicate \/ ExecutePredicate

Spec == Init /\ [][Next]_vars

-----------------------------------------------------------------------------
Predicates == [comparison : Comparisons, expected : Expected, waiting : BOOLEAN]

\* The shape of every variable; what is looked at with an order is a number.
TypeOK ==
    /\ predicate \in Predicates \union {None}
    /\ pc \in {"parse", "look", "done"}
    /\ seen \in Actual \union {Missing, Unavailable, Refusal, None}
    /\ outcome \in {"none", "refused", "ok", "failed", "timedOut"}
    /\ pc = "parse" => seen = None /\ outcome = "none"
    /\ pc = "look" =>
        /\ predicate \in Predicates /\ outcome = "none"
        /\ predicate.comparison = "exists" => predicate.expected.kind = "boolean"
        /\ predicate.comparison \in Orderings => IsNumber(predicate.expected)

\* What a comparison means: the order of the numbers themselves, by twice their
\* value, whatever types carry them.
Twice(v) == IF v.kind = "float" THEN v.value ELSE 2 * v.value

Finite(v) == v.kind \in {"signed", "unsigned", "float"}

Means(comparison, v, e) ==
    \/ comparison = "exists" /\ ((v # Missing) <=> (e.value = 1))
    \/ /\ Finite(v) /\ Finite(e)
       /\ \/ comparison \in {"ne", "lt", "le"} /\ Twice(v) < Twice(e)
          \/ comparison \in {"eq", "le", "ge"} /\ Twice(v) = Twice(e)
          \/ comparison \in {"ne", "gt", "ge"} /\ Twice(v) > Twice(e)
    \/ comparison = "eq" /\ ~IsNumber(v) /\ v = e
    \/ comparison = "ne" /\ ~IsNumber(v) /\ v.kind = e.kind /\ v # e

\* A look is satisfied exactly by a value that the comparison means, at every
\* boundary between the integer types and with every fraction.
ComparesTrue ==
    seen # None /\ seen \notin {Unavailable, Refusal}
        => (outcome = "ok" <=> Means(predicate.comparison, seen, predicate.expected))
=============================================================================
