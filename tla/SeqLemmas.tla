------------------------------ MODULE SeqLemmas ------------------------------
(***************************************************************************)
(* Facts about sequences and sets that the proofs about several components *)
(* need: what is appended to, taken out of and made of a queue, a list of  *)
(* subscribers or a list of steps.                                         *)
(***************************************************************************)
EXTENDS Integers, SequencesExt, SequenceTheorems, FiniteSetTheorems, TLAPS

\* What was appended is the last.
LEMMA LastAppend ==
  ASSUME NEW S, NEW q \in Seq(S), NEW x \in S
  PROVE  Append(q, x) # <<>> /\ Last(Append(q, x)) = x
<1>1. /\ Append(q, x) \in Seq(S) /\ Len(Append(q, x)) = Len(q) + 1
      /\ Append(q, x)[Len(q) + 1] = x
  BY AppendProperties
<1>2. Append(q, x) # <<>>
  <2>1. Len(q) + 1 # 0
    OBVIOUS
  <2>2. Len(<<>>) = 0
    OBVIOUS
  <2> QED BY <1>1, <2>1, <2>2
<1> QED BY <1>1, <1>2 DEF Last

\* Entering what was not there keeps one entry each.
LEMMA AppendDistinct ==
  ASSUME NEW S, NEW q \in Seq(S), NEW x \in S
  PROVE  /\ Range(Append(q, x)) = Range(q) \union {x}
         /\ IsInjective(q) /\ x \notin Range(q) => IsInjective(Append(q, x))
<1>1. /\ DOMAIN Append(q, x) = DOMAIN q \union {Len(q)+1}
      /\ Append(q, x)[Len(q)+1] = x
      /\ \A i \in DOMAIN q : Append(q, x)[i] = q[i]
  OBVIOUS
<1>2. Range(Append(q, x)) = Range(q) \union {x}
  BY <1>1 DEF Range
<1>3. ASSUME IsInjective(q), x \notin Range(q) PROVE IsInjective(Append(q, x))
  BY <1>1, <1>3 DEF IsInjective, Range
<1> QED BY <1>2, <1>3

\* What is behind the element that is taken out moves up.
LEMMA RemoveElements ==
  ASSUME NEW S, NEW q \in Seq(S), NEW i \in DOMAIN q
  PROVE  /\ RemoveAt(q, i) \in Seq(S)
         /\ Len(RemoveAt(q, i)) = Len(q) - 1
         /\ \A j \in 1..Len(q)-1 : RemoveAt(q, i)[j] = IF j < i THEN q[j] ELSE q[j+1]
<1> DEFINE a == SubSeq(q, 1, i-1)
           b == SubSeq(q, i+1, Len(q))
           r == a \o b
<1>1. i \in 1..Len(q) /\ Len(q) \in Nat /\ DOMAIN q = 1..Len(q)
  OBVIOUS
<1>2. a \in Seq(S) /\ Len(a) = i-1 /\ \A j \in 1..i-1 : a[j] = q[j]
  <2>1. \A j \in 1..i-1 : q[j] \in S
    BY <1>1
  <2> QED BY <1>1, <2>1, SubSeqProperties
<1>3. b \in Seq(S) /\ Len(b) = Len(q)-i /\ \A j \in 1..Len(q)-i : b[j] = q[i+j]
  <2>1. \A j \in i+1..Len(q) : q[j] \in S
    BY <1>1
  <2> QED BY <1>1, <2>1, SubSeqProperties
<1> HIDE DEF a, b
<1>4. r \in Seq(S) /\ Len(r) = Len(q)-1
  <2>1. r \in Seq(S) /\ Len(r) = Len(a) + Len(b)
    BY <1>2, <1>3, ConcatProperties
  <2> QED BY <1>1, <1>2, <1>3, <2>1
<1>5. \A j \in 1..Len(q)-1 : r[j] = IF j < i THEN q[j] ELSE q[j+1]
  <2> TAKE j \in 1..Len(q)-1
  <2>0. j \in 1..Len(a) + Len(b) /\ i \in Int /\ Len(q) \in Int
    BY <1>1, <1>2, <1>3
  <2>1. r[j] = IF j <= Len(a) THEN a[j] ELSE b[j - Len(a)]
    BY <1>2, <1>3, <2>0, ConcatProperties
  <2>2. CASE j < i
    BY <1>2, <2>0, <2>1, <2>2
  <2>3. CASE ~(j < i)
    <3>1. r[j] = b[j - (i - 1)]
      BY <1>2, <2>0, <2>1, <2>3
    <3>2. j - (i - 1) \in 1..Len(q)-i /\ i + (j - (i - 1)) = j + 1
      BY <1>1, <2>0, <2>3
    <3> QED BY <1>3, <2>3, <3>1, <3>2
  <2> QED BY <2>2, <2>3
<1>6. r = RemoveAt(q, i)
  BY DEF RemoveAt, a, b
<1> QED BY <1>4, <1>5, <1>6

\* Erasing an entry takes that element out, and nothing else.
LEMMA RemoveDistinct ==
  ASSUME NEW S, NEW q \in Seq(S), NEW i \in DOMAIN q, IsInjective(q)
  PROVE  IsInjective(RemoveAt(q, i)) /\ Range(RemoveAt(q, i)) = Range(q) \ {q[i]}
<1> DEFINE r == RemoveAt(q, i)
<1>1. i \in 1..Len(q) /\ Len(q) \in Nat /\ DOMAIN q = 1..Len(q)
  OBVIOUS
<1>4. r \in Seq(S) /\ Len(r) = Len(q)-1
  BY RemoveElements
<1>5. \A j \in 1..Len(q)-1 : r[j] = IF j < i THEN q[j] ELSE q[j+1]
  BY RemoveElements
<1> HIDE DEF r
<1>7. DOMAIN r = 1..Len(q)-1
  BY <1>4
<1>8. IsInjective(r)
  <2> SUFFICES ASSUME NEW j \in DOMAIN r, NEW k \in DOMAIN r, r[j] = r[k] PROVE j = k
    BY DEF IsInjective
  <2> DEFINE f(n) == IF n < i THEN n ELSE n + 1
  <2>1. f(j) \in DOMAIN q /\ f(k) \in DOMAIN q /\ q[f(j)] = q[f(k)]
    BY <1>1, <1>5, <1>7
  <2>2. f(j) = f(k)
    BY <2>1 DEF IsInjective
  <2> QED BY <1>1, <1>7, <2>2
<1>9. ASSUME NEW y \in Range(r) PROVE y \in Range(q) /\ y # q[i]
  <2>1. PICK j \in DOMAIN r : r[j] = y
    BY DEF Range
  <2> DEFINE k == IF j < i THEN j ELSE j + 1
  <2>2. k \in DOMAIN q /\ k # i /\ q[k] = y
    BY <1>1, <1>5, <1>7, <2>1
  <2> QED BY <1>1, <2>2 DEF Range, IsInjective
<1>10. ASSUME NEW y \in Range(q), y # q[i] PROVE y \in Range(r)
  <2>1. PICK k \in DOMAIN q : q[k] = y /\ k # i
    BY <1>10 DEF Range
  <2> DEFINE j == IF k < i THEN k ELSE k - 1
  <2>2. j \in DOMAIN r /\ r[j] = y
    BY <1>1, <1>5, <1>7, <2>1
  <2> QED BY <2>2 DEF Range
<1> QED BY <1>8, <1>9, <1>10 DEF r

\* The first element leaves.
LEMMA TailDistinct ==
  ASSUME NEW S, NEW q \in Seq(S), q # <<>>
  PROVE  /\ Tail(q) \in Seq(S) /\ Head(q) \in Range(q)
         /\ Range(Tail(q)) \subseteq Range(q)
         /\ IsInjective(q) => IsInjective(Tail(q)) /\ Range(Tail(q)) = Range(q) \ {Head(q)}
<1> DEFINE t == Tail(q)
<1>1. /\ Len(q) \in Nat \ {0} /\ DOMAIN q = 1..Len(q) /\ Head(q) = q[1]
      /\ t \in Seq(S) /\ DOMAIN t = 1..Len(q)-1
      /\ \A i \in 1..Len(q)-1 : t[i] = q[i+1]
  <2>1. Len(q) \in Nat \ {0} /\ DOMAIN q = 1..Len(q) /\ Head(q) = q[1]
    OBVIOUS
  <2>2. t \in Seq(S) /\ Len(t) = Len(q)-1 /\ \A i \in 1..Len(q)-1 : t[i] = q[i+1]
    BY HeadTailProperties
  <2> HIDE DEF t
  <2>3. DOMAIN t = 1..Len(q)-1
    BY <2>2
  <2> QED BY <2>1, <2>2, <2>3
<1> HIDE DEF t
<1>2. \A i \in DOMAIN t : i + 1 \in DOMAIN q /\ i + 1 # 1 /\ t[i] = q[i+1]
  BY <1>1
<1>3. \A i \in DOMAIN q : i = 1 \/ (i - 1 \in DOMAIN t /\ t[i-1] = q[i])
  BY <1>1
<1>4. 1 \in DOMAIN q
  BY <1>1
<1>5. Range(t) \subseteq Range(q)
  BY <1>2 DEF Range
<1>6. ASSUME IsInjective(q) PROVE IsInjective(t) /\ Range(t) = Range(q) \ {q[1]}
  <2>1. IsInjective(t)
    <3> SUFFICES ASSUME NEW i \in DOMAIN t, NEW j \in DOMAIN t, t[i] = t[j] PROVE i = j
      BY DEF IsInjective
    <3>1. i + 1 = j + 1
      BY <1>2, <1>6 DEF IsInjective
    <3> QED BY <1>1, <3>1
  <2>2. Range(t) = Range(q) \ {q[1]}
    BY <1>2, <1>3, <1>4, <1>6 DEF Range, IsInjective
  <2> QED BY <2>1, <2>2
<1> QED BY <1>1, <1>4, <1>5, <1>6 DEF t, Range

\* What two sequences hold together.
LEMMA ConcatElements ==
  ASSUME NEW S, NEW p \in Seq(S), NEW q \in Seq(S)
  PROVE  p \o q \in Seq(S) /\ Range(p \o q) \subseteq Range(p) \union Range(q)
<1> DEFINE r == p \o q
<1>1. /\ r \in Seq(S) /\ Len(r) = Len(p) + Len(q)
      /\ \A i \in 1..Len(p) + Len(q) : r[i] = IF i <= Len(p) THEN p[i] ELSE q[i - Len(p)]
  BY ConcatProperties
<1> HIDE DEF r
<1>2. /\ Len(p) \in Nat /\ DOMAIN p = 1..Len(p) /\ Len(q) \in Nat /\ DOMAIN q = 1..Len(q)
      /\ DOMAIN r = 1..Len(p) + Len(q)
  BY <1>1
<1>3. \A i \in DOMAIN r : (i \in DOMAIN p /\ r[i] = p[i])
                         \/ (i - Len(p) \in DOMAIN q /\ r[i] = q[i - Len(p)])
  BY <1>1, <1>2
<1>4. Range(r) \subseteq Range(p) \union Range(q)
  BY <1>3 DEF Range
<1> QED BY <1>1, <1>4 DEF r

\* A sequence over a set is one over a larger set.
LEMMA SeqMonotone ==
  ASSUME NEW S, NEW T, S \subseteq T, NEW q \in Seq(S)
  PROVE  q \in Seq(T)
<1>1. Len(q) \in Nat /\ q = [i \in 1..Len(q) |-> q[i]] /\ \A i \in 1..Len(q) : q[i] \in T
  BY ElementOfSeq
<1> QED BY <1>1, IsASeq

\* A sequence made of a set holds the elements of the set.
LEMMA SetToSeqElements ==
  ASSUME NEW S, IsFiniteSet(S)
  PROVE  SetToSeq(S) \in Seq(S) /\ IsInjective(SetToSeq(S)) /\ Range(SetToSeq(S)) \subseteq S
<1>1. Cardinality(S) \in Nat /\ ExistsBijection(1..Cardinality(S), S)
  BY FS_CardinalityType
<1>2. \E f \in [1..Cardinality(S) -> S] : IsInjective(f)
  BY <1>1 DEF ExistsBijection, Bijection, Injection
<1>3. SetToSeq(S) \in [1..Cardinality(S) -> S] /\ IsInjective(SetToSeq(S))
  BY <1>2 DEF SetToSeq
<1>4. SetToSeq(S) \in Seq(S)
  BY <1>1, <1>3
<1> QED BY <1>3, <1>4 DEF Range

\* The sequence is what follows the first k elements of the other.
IsRest(t, q, k) == Len(t) = Len(q) - k /\ \A i \in 1..Len(q) - k : t[i] = q[i + k]

\* What is left once the first elements are dropped.
LEMMA SuffixElements ==
  ASSUME NEW S, NEW q \in Seq(S), NEW k \in 0..Len(q)
  PROVE  SubSeq(q, k + 1, Len(q)) \in Seq(S) /\ IsRest(SubSeq(q, k + 1, Len(q)), q, k)
<1> DEFINE u == SubSeq(q, k + 1, Len(q))
<1>1. Len(q) \in Nat /\ DOMAIN q = 1..Len(q) /\ k \in Int /\ 0 <= k /\ k <= Len(q)
  OBVIOUS
<1>2. k + 1 \in Int /\ Len(q) \in Int /\ \A i \in k + 1..Len(q) : q[i] \in S
  BY <1>1
<1>3. /\ u \in Seq(S) /\ Len(u) = (IF k + 1 <= Len(q) THEN Len(q) - (k + 1) + 1 ELSE 0)
      /\ \A i \in 1..Len(q) - (k + 1) + 1 : u[i] = q[(k + 1) + i - 1]
  BY <1>2, SubSeqProperties
<1> HIDE DEF u
<1>4. Len(u) = Len(q) - k
  <2>1. CASE k + 1 <= Len(q)
    BY <1>1, <1>3, <2>1
  <2>2. CASE k = Len(q)
    <3>1. Len(q) - k = 0 /\ ~(k + 1 <= Len(q))
      BY <1>1, <2>2
    <3> QED BY <1>3, <3>1
  <2>3. k + 1 <= Len(q) \/ k = Len(q)
    <3>1. \A n \in Int, j \in Int : j <= n => j + 1 <= n \/ j = n
      OBVIOUS
    <3>2. Len(q) \in Int /\ k \in Int /\ k <= Len(q)
      BY <1>1
    <3> QED BY <3>1, <3>2, Zenon
  <2> QED BY <2>1, <2>2, <2>3
<1>5. \A i \in 1..Len(q) - k : u[i] = q[i + k]
  <2> TAKE i \in 1..Len(q) - k
  <2>1. (k + 1) + i - 1 = i + k /\ i \in 1..Len(q) - (k + 1) + 1
    BY <1>1
  <2> QED BY <1>3, <2>1
<1> QED BY <1>3, <1>4, <1>5 DEF u, IsRest

\* No element is in the rest twice if none is in the sequence twice.
LEMMA RestDistinct ==
  ASSUME NEW S, NEW q \in Seq(S), NEW t \in Seq(S), NEW k \in 0..Len(q), IsRest(t, q, k), IsInjective(q)
  PROVE  IsInjective(t) /\ Range(t) \subseteq Range(q)
<1>1. /\ Len(t) = Len(q) - k /\ \A i \in 1..Len(q) - k : t[i] = q[i + k]
      /\ Len(q) \in Nat /\ DOMAIN q = 1..Len(q) /\ DOMAIN t = 1..Len(t)
  BY DEF IsRest
<1>2. \A i \in DOMAIN t : i + k \in DOMAIN q /\ t[i] = q[i + k] /\ i \in Int
  <2> TAKE i \in DOMAIN t
  <2>1. i \in 1..Len(q) - k
    BY <1>1
  <2>2. i + k \in 1..Len(q) /\ i \in Int
    BY <1>1, <2>1
  <2> QED BY <1>1, <2>1, <2>2
<1>3. IsInjective(t)
  <2> SUFFICES ASSUME NEW i \in DOMAIN t, NEW j \in DOMAIN t, t[i] = t[j] PROVE i = j
    BY DEF IsInjective
  <2>1. i + k = j + k
    BY <1>2 DEF IsInjective
  <2> QED BY <1>2, <2>1
<1>4. Range(t) \subseteq Range(q)
  BY <1>2 DEF Range
<1> QED BY <1>3, <1>4
=============================================================================
