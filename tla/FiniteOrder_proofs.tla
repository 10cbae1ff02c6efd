------------------------- MODULE FiniteOrder_proofs -------------------------
(***************************************************************************)
(* Facts about finite sets that the proofs of several components use: a    *)
(* maximal element, the largest and the smallest number, induction on the  *)
(* natural numbers for a set, and sets of numbers without gaps.  They      *)
(* follow from the well-foundedness of the strict subset order on finite   *)
(* sets.                                                                   *)
(***************************************************************************)
EXTENDS Integers, FiniteSetsExt, FiniteSetTheorems, TLAPS

\* A finite set has a maximal element in every strict order: the argument that
\* locks taken in sorted order leave somebody unblocked (_lock_chain).
LEMMA FiniteMaximal ==
    ASSUME NEW S, IsFiniteSet(S), S # {}, NEW R,
           \A x \in S : <<x, x>> \notin R,
           \A x, y, z \in S : <<x, y>> \in R /\ <<y, z>> \in R => <<x, z>> \in R
    PROVE  \E x \in S : \A y \in S : <<x, y>> \notin R
<1> DEFINE Above(x) == {y \in S : <<x, y>> \in R}
           T == {Above(x) : x \in S}
<1>1. T \subseteq FiniteSubsetsOf(S) /\ T # {}
  <2>1. FiniteSubsetsOf(S) = SUBSET S
    BY FS_FiniteSubsetsOfFinite
  <2>2. \A x \in S : Above(x) \in SUBSET S
    OBVIOUS
  <2>3. T \subseteq SUBSET S
    BY <2>2
  <2>4. T # {}
    <3>1. PICK x \in S : TRUE
      OBVIOUS
    <3>2. Above(x) \in T
      OBVIOUS
    <3>3. QED
      BY <3>2
  <2>5. QED
    BY <2>1, <2>3, <2>4
<1>2. IsWellFoundedOn(StrictSubsetOrdering(S), FiniteSubsetsOf(S))
  BY FS_StrictSubsetOrderingWellFounded
<1>3. PICK A \in T : \A B \in T : <<B, A>> \notin StrictSubsetOrdering(S)
  <2> HIDE DEF T
  <2>1. QED
    BY <1>1, <1>2, WFMin
<1>4. PICK x \in S : A = Above(x)
  OBVIOUS
<1>5. ASSUME NEW y \in S, <<x, y>> \in R PROVE FALSE
  <2>1. Above(y) \subseteq Above(x) /\ y \in Above(x) /\ y \notin Above(y)
    BY <1>5
  <2>2. Above(y) \in T /\ Above(y) \in SUBSET S /\ Above(x) \in SUBSET S
    OBVIOUS
  <2>3. <<Above(y), Above(x)>> \in StrictSubsetOrdering(S)
    BY <2>1, <2>2 DEF StrictSubsetOrdering
  <2>4. QED
    BY <1>3, <1>4, <2>2, <2>3
<1>6. QED
  BY <1>5

\* A finite set of numbers has a largest one (max(seq) of a table), which Max
\* returns.
LEMMA MaxFacts ==
    ASSUME NEW S \in SUBSET Int, IsFiniteSet(S), S # {}
    PROVE  Max(S) \in S /\ \A y \in S : y <= Max(S)
<1> DEFINE R == {p \in S \X S : p[1] < p[2]}
<1>1. /\ \A x \in S : <<x, x>> \notin R
      /\ \A x, y, z \in S : <<x, y>> \in R /\ <<y, z>> \in R => <<x, z>> \in R
  OBVIOUS
<1>2. \E x \in S : \A y \in S : <<x, y>> \notin R
  <2> HIDE DEF R
  <2>1. QED
    BY <1>1, FiniteMaximal
<1>3. \E x \in S : \A y \in S : x >= y
  <2>1. PICK x \in S : \A y \in S : <<x, y>> \notin R
    BY <1>2
  <2>2. \A y \in S : ~(x < y)
    BY <2>1
  <2>3. QED
    BY <2>2
<1>4. QED
  BY <1>3 DEF Max

\* ... and a smallest one, which Min returns.
LEMMA MinFacts ==
    ASSUME NEW S \in SUBSET Int, IsFiniteSet(S), S # {}
    PROVE  Min(S) \in S /\ \A y \in S : Min(S) <= y
<1> DEFINE R == {p \in S \X S : p[1] > p[2]}
<1>1. /\ \A x \in S : <<x, x>> \notin R
      /\ \A x, y, z \in S : <<x, y>> \in R /\ <<y, z>> \in R => <<x, z>> \in R
  OBVIOUS
<1>2. \E x \in S : \A y \in S : <<x, y>> \notin R
  <2> HIDE DEF R
  <2>1. QED
    BY <1>1, FiniteMaximal
<1>3. \E x \in S : \A y \in S : x <= y
  <2>1. PICK x \in S : \A y \in S : <<x, y>> \notin R
    BY <1>2
  <2>2. \A y \in S : ~(x > y)
    BY <2>1
  <2>3. QED
    BY <2>2
<1>4. QED
  BY <1>3 DEF Min

\* The smaller of two numbers (limit = min(aged_max, pulled)).
LEMMA MinOfTwo ==
    ASSUME NEW m \in Int, NEW n \in Int
    PROVE  /\ Min({m, n}) \in {m, n} /\ Min({m, n}) <= m /\ Min({m, n}) <= n
<1>1. \E x \in {m, n} : \A y \in {m, n} : x <= y
  OBVIOUS
<1>2. QED
  BY <1>1 DEF Min

\* Induction: a set that holds 0 and with each number the next holds them all.
LEMMA SetInduction ==
    ASSUME NEW S, 0 \in S, \A n \in Nat : n \in S => n + 1 \in S
    PROVE  Nat \subseteq S
<1>1. SUFFICES ASSUME NEW n \in Nat, n \notin S PROVE FALSE
  OBVIOUS
<1> DEFINE Out == {i \in 0..n : i \notin S}
<1>2. Out \in SUBSET Int /\ IsFiniteSet(Out) /\ Out # {}
  <2>1. IsFiniteSet(0..n)
    BY FS_Interval
  <2>2. QED
    BY <1>1, <2>1, FS_Subset
<1>3. Min(Out) \in Out /\ \A y \in Out : Min(Out) <= y
  <2> HIDE DEF Out
  <2>1. QED
    BY <1>2, MinFacts
<1>4. Min(Out) # 0 /\ Min(Out) - 1 \in 0..n /\ Min(Out) - 1 \notin Out
  BY <1>3
<1>5. QED
  BY <1>3, <1>4

\* Seqs that each follow n or another one are an interval that starts after n:
\* the smallest has no predecessor, and a gap would have a smallest seq above it
\* (verify_batch, AccWalker).
LEMMA Gapless ==
    ASSUME NEW S \in SUBSET Int, IsFiniteSet(S), NEW n \in Nat,
           \A s \in S : s = n + 1 \/ s - 1 \in S
    PROVE  \A s \in S : s > n /\ n + 1..s \subseteq S
<1>0. /\ S \in SUBSET Int /\ IsFiniteSet(S)
      /\ \A s \in S : s = n + 1 \/ s - 1 \in S
  OBVIOUS
<1>1. ASSUME NEW s \in S PROVE s > n
  <2>1. Min(S) \in S /\ \A y \in S : Min(S) <= y
    BY <1>0, <1>1, MinFacts
  <2>2. Min(S) \in Int /\ (Min(S) = n + 1 \/ Min(S) - 1 \in S)
    BY <1>0, <2>1
  <2>3. Min(S) - 1 \in S => Min(S) <= Min(S) - 1
    BY <2>1
  <2>4. Min(S) = n + 1
    BY <2>2, <2>3
  <2>5. s \in Int /\ Min(S) <= s
    BY <1>0, <2>1
  <2>6. QED
    BY <2>4, <2>5
<1>2. ASSUME NEW s \in S, NEW x \in n + 1..s, x \notin S PROVE FALSE
  <2> DEFINE Up == {y \in S : y > x}
  <2>1. Up \in SUBSET Int /\ IsFiniteSet(Up) /\ Up # {}
    <3>1. Up \in SUBSET S
      OBVIOUS
    <3>2. IsFiniteSet(Up)
      BY <1>0, <3>1, FS_Subset
    <3>3. s \in Up
      BY <1>0, <1>2
    <3>4. QED
      BY <1>0, <3>1, <3>2, <3>3
  <2>2. Min(Up) \in Up /\ \A y \in Up : Min(Up) <= y
    <3> HIDE DEF Up
    <3>1. QED
      BY <2>1, MinFacts
  <2>3. Min(Up) - 1 \in S /\ Min(Up) - 1 > x
    <3>1. Min(Up) \in S /\ Min(Up) > x /\ Min(Up) \in Int
      BY <2>1, <2>2
    <3>2. Min(Up) = n + 1 \/ Min(Up) - 1 \in S
      BY <1>0, <3>1
    <3>3. x \in Int /\ x >= n + 1
      OBVIOUS
    <3>4. Min(Up) - 1 \in S
      BY <3>1, <3>2, <3>3
    <3>5. Min(Up) - 1 # x
      BY <1>2, <3>4
    <3> HIDE DEF Up
    <3>6. QED
      BY <3>1, <3>3, <3>4, <3>5
  <2>4. Min(Up) - 1 \in Up /\ Min(Up) \in Int
    BY <2>1, <2>2, <2>3
  <2>5. Min(Up) <= Min(Up) - 1
    BY <2>2, <2>4
  <2>6. QED
    BY <2>4, <2>5
<1>3. QED
  BY <1>1, <1>2
=============================================================================
