---------------------------- MODULE NaturalLemmas ----------------------------
(***************************************************************************)
(* Facts about natural numbers and finite sets that the proofs about the   *)
(* engine and about the tree rest on.  A set of numbers has a least one:   *)
(* where a fact about lists needs induction, the least counterexample      *)
(* takes its place.                                                        *)
(***************************************************************************)
EXTENDS Integers, Sequences, FiniteSetTheorems, TLAPS

\* The least-number principle.
LEMMA LeastNumber ==
  ASSUME NEW T \in SUBSET Nat, T # {}
  PROVE  \E x \in T : \A y \in T : x <= y
<1>1. PICK x \in T : \A y \in T : <<y, x>> \notin OpToRel(<, Nat)
  BY NatLessThanWellFounded, WFMin
<1>2. \A y \in T : ~ (y < x)
  BY <1>1 DEF OpToRel
<1> QED BY <1>2

\* Induction over a set instead of a predicate: what is in S at 0, and stays in S from one number
\* to the next, is in S up to n.
LEMMA UpTo ==
  ASSUME NEW n \in Nat, NEW S, 0 \in S, \A k \in 0 .. (n - 1) : k \in S => k + 1 \in S
  PROVE  \A k \in 0 .. n : k \in S
<1> DEFINE T == {k \in 0 .. n : k \notin S}
<1> SUFFICES ASSUME T # {} PROVE FALSE
  OBVIOUS
<1>1. PICK k \in T : \A y \in T : k <= y
  <2>1. T \in SUBSET Nat
    OBVIOUS
  <2> HIDE DEF T
  <2> QED BY <2>1, LeastNumber
<1>2. k # 0 /\ k - 1 \in 0 .. (n - 1) /\ k - 1 \in 0 .. n /\ ~ (k <= k - 1)
  BY <1>1
<1>3. k - 1 \in S
  BY <1>1, <1>2
<1>4. (k - 1) + 1 \in S
  BY <1>2, <1>3
<1> QED BY <1>1, <1>2, <1>4

\* A bounded set of numbers has a greatest one.
LEMMA GreatestNumber ==
  ASSUME NEW T \in SUBSET Nat, T # {}, NEW b \in Nat, \A y \in T : y <= b
  PROVE  \E x \in T : \A y \in T : y <= x
<1> DEFINE D == {d \in Nat : \E y \in T : d = b - y}
<1>0. \A y \in T : y \in Nat /\ b - y \in Nat /\ b - y \in D
  OBVIOUS
<1>1. D \in SUBSET Nat /\ D # {}
  BY <1>0
<1>2. PICK d \in D : \A e \in D : d <= e
  <2> HIDE DEF D
  <2> QED BY <1>1, LeastNumber
<1>3. PICK x \in T : d = b - x
  OBVIOUS
<1>4. ASSUME NEW y \in T PROVE y <= x
  <2>1. d <= b - y
    BY <1>0, <1>2
  <2> QED BY <1>0, <1>3, <2>1
<1> QED BY <1>4

\* The numbers of a list are bounded.
LEMMA ListBounded ==
  ASSUME NEW vals \in Seq(Nat)
  PROVE  \E b \in Nat : \A i \in DOMAIN vals : vals[i] <= b
<1> DEFINE n == Len(vals)
           S == {k \in 0 .. n : \E b \in Nat : \A i \in 1 .. k : vals[i] <= b}
<1>0. n \in Nat /\ DOMAIN vals = 1 .. n
  OBVIOUS
<1>1. 0 \in S
  BY <1>0
<1>2. ASSUME NEW k \in 0 .. (n - 1), k \in S PROVE k + 1 \in S
  <2>1. PICK b \in Nat : \A i \in 1 .. k : vals[i] <= b
    BY <1>2
  <2>2. vals[k + 1] \in Nat /\ k + 1 \in 0 .. n
    BY <1>0
  <2> DEFINE c == IF vals[k + 1] <= b THEN b ELSE vals[k + 1]
  <2>3. c \in Nat /\ \A i \in 1 .. (k + 1) : vals[i] <= c
    <3>1. \A i \in 1 .. (k + 1) : i \in 1 .. k \/ i = k + 1
      OBVIOUS
    <3>2. \A i \in 1 .. k : vals[i] \in Nat
      BY <1>0
    <3> QED BY <2>1, <2>2, <3>1, <3>2
  <2> QED BY <2>2, <2>3
<1>3. \A k \in 0 .. n : k \in S
  <2> HIDE DEF S, n
  <2> QED BY <1>0, <1>1, <1>2, UpTo
<1>4. PICK b \in Nat : \A i \in 1 .. n : vals[i] <= b
  <2>1. n \in S
    <3> HIDE DEF S, n
    <3> QED BY <1>0, <1>3
  <2> QED BY <2>1
<1> QED BY <1>0, <1>4

\* A smaller condition counts no more of a list.
LEMMA CountMonotone ==
  ASSUME NEW n \in Nat, NEW A \in SUBSET (1 .. n), NEW B \in SUBSET A
  PROVE  /\ Cardinality(A) \in Nat /\ Cardinality(B) \in Nat /\ Cardinality(B) <= Cardinality(A)
         /\ Cardinality(A) <= n /\ (A = 1 .. n => Cardinality(A) = n)
<1>1. IsFiniteSet(1 .. n) /\ Cardinality(1 .. n) = n
  BY FS_Interval
<1>2. IsFiniteSet(A) /\ Cardinality(A) <= n
  BY <1>1, FS_Subset
<1>3. IsFiniteSet(B) /\ Cardinality(B) <= Cardinality(A)
  BY <1>2, FS_Subset
<1> QED BY <1>1, <1>2, <1>3, FS_CardinalityType

=============================================================================
