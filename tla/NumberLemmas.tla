------------------------------ MODULE NumberLemmas ------------------------------
(***************************************************************************)
(* Extremal elements of sets of natural numbers, on which the proofs of    *)
(* the other modules rest.  None of it is about the program.               *)
(***************************************************************************)
EXTENDS Integers, FiniteSets, FiniteSetTheorems, WellFoundedInduction, TLAPS

\* A nonempty set of natural numbers has a least element.
LEMMA LeastNat ==
    ASSUME NEW T \in SUBSET Nat, T # {}
    PROVE  \E x \in T : \A y \in T : x <= y
<1> DEFINE R == {ss \in Nat \X Nat : ss[1] < ss[2]}
<1>1. IsWellFoundedOn(R, Nat)
  BY NatLessThanWellFounded DEF OpToRel
<1>2. \A x, y \in Nat : y < x => <<y, x>> \in R
  OBVIOUS
<1> HIDE DEF R
<1>3. PICK x \in T : \A y \in T : <<y, x>> \notin R
  BY <1>1, WFMin
<1>4. ASSUME NEW y \in T PROVE x <= y
  <2>1. x \in Nat /\ y \in Nat
    OBVIOUS
  <2>2. ~(y < x)
    BY <1>2, <1>3, <2>1
  <2> QED
    BY <2>1, <2>2
<1> QED
  BY <1>4

\* A nonempty bounded set of natural numbers has a greatest element.
LEMMA GreatestNat ==
    ASSUME NEW P \in SUBSET Nat, P # {}, NEW n \in Nat, \A i \in P : i <= n
    PROVE  \E x \in P : \A y \in P : y <= x
<1> DEFINE T == {j \in Nat : \E i \in P : j = n - i}
<1>1. \A i \in P : n - i \in T
  OBVIOUS
<1>2. PICK x \in T : \A y \in T : x <= y
  BY <1>1, LeastNat
<1>3. PICK i \in P : x = n - i
  OBVIOUS
<1>4. \A k \in P : k <= i
  BY <1>1, <1>2, <1>3
<1> QED
  BY <1>4

\* A nonempty finite set of natural numbers has a greatest element: a smallest
\* nonempty subset without one would have no element to remove.
LEMMA GreatestOfFinite ==
    ASSUME NEW S \in SUBSET Nat, S # {}, IsFiniteSet(S)
    PROVE  \E x \in S : \A y \in S : y <= x
<1> DEFINE HasGreatest(T) == \E x \in T : \A y \in T : y <= x
           Bad == {T \in SUBSET S : T # {} /\ ~HasGreatest(T)}
<1> SUFFICES ASSUME Bad # {} PROVE FALSE
  BY DEF Bad
<1>1. IsWellFoundedOn(StrictSubsetOrdering(S), SUBSET S)
  BY FS_StrictSubsetOrderingWellFounded, FS_FiniteSubsetsOfFinite
<1>2. PICK T \in Bad : \A U \in Bad : <<U, T>> \notin StrictSubsetOrdering(S)
  <2>1. Bad \subseteq SUBSET S
    OBVIOUS
  <2> HIDE DEF Bad
  <2> QED
    BY <1>1, <2>1, WFMin
<1>3. PICK x \in T : TRUE
  OBVIOUS
<1>4. T \ {x} \notin Bad
  BY <1>2, <1>3 DEF StrictSubsetOrdering
<1>5. T \subseteq Nat /\ ~HasGreatest(T)
  OBVIOUS
<1>6. CASE T \ {x} = {}
  BY <1>3, <1>5, <1>6
<1>7. CASE HasGreatest(T \ {x})
  <2>1. PICK y \in T \ {x} : \A z \in T \ {x} : z <= y
    BY <1>7
  <2>2. CASE x <= y
    BY <1>5, <2>1, <2>2
  <2>3. CASE ~(x <= y)
    <3>1. \A z \in T : z <= x
      BY <1>3, <1>5, <2>1, <2>3
    <3> QED
      BY <1>3, <1>5, <3>1
  <2> QED
    BY <2>2, <2>3
<1> QED
  BY <1>4, <1>6, <1>7
===============================================================================
