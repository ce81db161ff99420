------------------------------- MODULE FiniteData -------------------------------
(***************************************************************************)
(* Lemmas about finite data that the proofs about several modules need:    *)
(* the latest of finitely many things, induction over the natural numbers, *)
(* counting, orders, and sums.                                             *)
(*                                                                         *)
(* The library's theorems about induction and about folds take operators   *)
(* as parameters, which the provers cannot instantiate.  Here a set of     *)
(* numbers stands for what is proved of them, and a function for what is   *)
(* summed up.                                                              *)
(***************************************************************************)
EXTENDS Ordering, Functions, FiniteSetTheorems, SequenceTheorems, TLAPS

\* A nonempty finite set of things that happened at some time has a latest one: it is what
\* ORDER BY ... DESC LIMIT 1 and max() choose.
LEMMA LatestExists ==
  ASSUME NEW S, NEW time, IsFiniteSet(S), S # {}, \A x \in S : time[x] \in Int
  PROVE  \E x \in S : \A y \in S : time[y] <= time[x]
<1> DEFINE HasLatest(T) == \E x \in T : \A y \in T : time[y] <= time[x]
           Without == {T \in FiniteSubsetsOf(S) : T # {} /\ ~HasLatest(T)}
<1>1. SUFFICES ASSUME Without # {} PROVE FALSE
  <2>1. S \in FiniteSubsetsOf(S)
    BY DEF FiniteSubsetsOf
  <2> QED
    BY <2>1
<1>2. PICK T \in Without : \A U \in Without : <<U, T>> \notin StrictSubsetOrdering(S)
  <2>1. Without \subseteq FiniteSubsetsOf(S)
    OBVIOUS
  <2> HIDE DEF Without
  <2> QED
    BY <1>1, <2>1, WFMin, FS_StrictSubsetOrderingWellFounded
<1>3. PICK x \in T : TRUE
  OBVIOUS
<1>4. T \ {x} \in FiniteSubsetsOf(S) /\ T \subseteq S
  BY FS_RemoveElement DEF FiniteSubsetsOf
<1>5. <<T \ {x}, T>> \in StrictSubsetOrdering(S)
  BY <1>3, <1>4 DEF StrictSubsetOrdering, FiniteSubsetsOf
<1>6. T \ {x} = {} \/ HasLatest(T \ {x})
  BY <1>2, <1>4, <1>5
<1>7. HasLatest(T)
  BY <1>3, <1>4, <1>6
<1> QED
  BY <1>2, <1>7

\* Induction over the natural numbers.
LEMMA EveryNumber ==
  ASSUME NEW S, 0 \in S, \A n \in Nat : n \in S => n + 1 \in S
  PROVE  \A n \in Nat : n \in S
<1> SUFFICES ASSUME NEW x \in Nat, x \notin S PROVE FALSE
  OBVIOUS
<1> DEFINE missing == (0..x) \ S
           downward == [i \in missing |-> -i]
<1>1. IsFiniteSet(missing) /\ missing # {}
  <2>1. IsFiniteSet(0..x)
    BY FS_Interval
  <2>2. missing \in SUBSET (0..x) /\ x \in missing
    OBVIOUS
  <2> HIDE DEF missing
  <2> QED
    BY <2>1, <2>2, FS_Subset
<1>2. \A i \in missing : downward[i] = -i /\ downward[i] \in Int
  OBVIOUS
<1> HIDE DEF downward
<1>3. PICK least \in missing : \A i \in missing : downward[i] <= downward[least]
  <2> HIDE DEF missing
  <2> QED
    BY <1>1, <1>2, LatestExists
<1>4. \A i \in missing : least <= i
  BY <1>2, <1>3
<1>5. least \in Nat /\ least # 0 /\ least <= x
  BY <1>3
<1>6. least - 1 \in Nat /\ least - 1 \notin missing /\ least - 1 <= x
  BY <1>4, <1>5
<1>7. least - 1 \in S
  BY <1>6
<1>8. (least - 1) + 1 = least
  BY <1>5
<1>9. least \in S
  BY <1>6, <1>7, <1>8
<1> QED
  BY <1>3, <1>9

\* A nonempty finite set of things that happened at some time has an earliest one.
LEMMA EarliestExists ==
  ASSUME NEW S, NEW time, IsFiniteSet(S), S # {}, \A x \in S : time[x] \in Int
  PROVE  \E x \in S : \A y \in S : time[x] <= time[y]
<1> DEFINE back == [x \in S |-> -time[x]]
<1>1. \A x \in S : back[x] = -time[x] /\ back[x] \in Int
  OBVIOUS
<1> HIDE DEF back
<1>2. PICK x \in S : \A y \in S : back[y] <= back[x]
  BY <1>1, LatestExists
<1> QED
  BY <1>1, <1>2

-------------------------------------------------------------------------------
(***************************************************************************)
(* Counting.                                                               *)
(***************************************************************************)
\* Two sets are of one size if f takes one onto the other without meeting a member twice.
LEMMA SameSize ==
  ASSUME NEW S, NEW T, NEW f, IsFiniteSet(S),
         \A x \in S : f[x] \in T,
         \A x, y \in S : f[x] = f[y] => x = y,
         \A z \in T : \E x \in S : f[x] = z
  PROVE  IsFiniteSet(T) /\ Cardinality(T) = Cardinality(S)
<1> DEFINE g == [x \in S |-> f[x]]
<1>1. g \in Bijection(S, T)
  BY DEF Bijection, Injection, Surjection, IsInjective
<1> QED
  BY <1>1, FS_Bijection DEF ExistsBijection

\* A part is smaller than the whole.
LEMMA PartIsSmaller ==
  ASSUME NEW S, IsFiniteSet(S), NEW T, T \subseteq S
  PROVE  /\ IsFiniteSet(T)
         /\ Cardinality(T) \in Nat /\ Cardinality(S) \in Nat
         /\ Cardinality(T) <= Cardinality(S)
         /\ T # S => Cardinality(T) < Cardinality(S)
<1>1. T \in SUBSET S
  OBVIOUS
<1>2. IsFiniteSet(T) /\ Cardinality(T) <= Cardinality(S) /\ (Cardinality(S) = Cardinality(T) => S = T)
  BY <1>1, FS_Subset
<1>3. Cardinality(T) \in Nat /\ Cardinality(S) \in Nat
  BY <1>2, FS_CardinalityType
<1> QED
  BY <1>2, <1>3

\* Two parts without a common member make up the whole.
LEMMA PartsAddUp ==
  ASSUME NEW S, IsFiniteSet(S), NEW T, T \subseteq S
  PROVE  Cardinality(S) = Cardinality(T) + Cardinality(S \ T)
<1>1. /\ S \cap T = T
      /\ Cardinality(S \ T) = Cardinality(S) - Cardinality(S \cap T)
  BY FS_Difference
<1>2. Cardinality(T) \in Nat /\ Cardinality(S) \in Nat
  BY PartIsSmaller
<1>3. Cardinality(S \ T) = Cardinality(S) - Cardinality(T)
  BY <1>1
<1> QED
  BY <1>2, <1>3

-------------------------------------------------------------------------------
(***************************************************************************)
(* Orders.  What is through x is not above it.                             *)
(***************************************************************************)
Through(S, x) == {y \in S : y <= x}

\* Members of a set have different places in it.
LEMMA PlacesDiffer ==
  ASSUME NEW S \in SUBSET Int, IsFiniteSet(S)
  PROVE  /\ Cardinality(S) \in Nat
         /\ \A x \in S : Cardinality(Through(S, x)) \in 1..Cardinality(S)
         /\ \A x, y \in S : x < y => Cardinality(Through(S, x)) < Cardinality(Through(S, y))
<1>1. \A x \in S : /\ Through(S, x) \subseteq S /\ x \in Through(S, x)
                   /\ IsFiniteSet(Through(S, x))
                   /\ Cardinality(Through(S, x)) <= Cardinality(S)
                   /\ Cardinality(Through(S, x)) \in Nat /\ Cardinality(S) \in Nat
  <2> SUFFICES ASSUME NEW x \in S
               PROVE  /\ Through(S, x) \subseteq S /\ x \in Through(S, x)
                      /\ IsFiniteSet(Through(S, x))
                      /\ Cardinality(Through(S, x)) <= Cardinality(S)
                      /\ Cardinality(Through(S, x)) \in Nat /\ Cardinality(S) \in Nat
    OBVIOUS
  <2>1. Through(S, x) \subseteq S /\ x \in Through(S, x)
    BY DEF Through
  <2> QED
    BY <2>1, PartIsSmaller
<1>2. ASSUME NEW x \in S PROVE Cardinality(Through(S, x)) # 0
  BY <1>1, FS_EmptySet
<1>3. ASSUME NEW x \in S, NEW y \in S, x < y
      PROVE  Cardinality(Through(S, x)) < Cardinality(Through(S, y))
  <2>1. Through(S, x) \subseteq Through(S, y) /\ y \in Through(S, y) /\ y \notin Through(S, x)
    <3>1. x \in Int /\ y \in Int /\ \A z \in S : z \in Int
      OBVIOUS
    <3>2. (\A z \in S : z <= x => z <= y) /\ y <= y /\ ~(y <= x)
      BY <1>3, <3>1
    <3>3. \A z \in Through(S, x) : z \in Through(S, y)
      BY <3>2 DEF Through
    <3>4. y \in Through(S, y) /\ y \notin Through(S, x)
      BY <3>2 DEF Through
    <3> QED
      BY <3>3, <3>4
  <2>2. Through(S, x) # Through(S, y)
    BY <2>1
  <2> QED
    BY <1>1, <2>1, <2>2, PartIsSmaller
<1>4. Cardinality(S) \in Nat
  BY FS_CardinalityType
<1> QED
  BY <1>1, <1>2, <1>3, <1>4

\* InOrder has at k the member at whose place k is, and each member at its place.
LEMMA InOrderPlaces ==
  ASSUME NEW S \in SUBSET Int, IsFiniteSet(S)
  PROVE  /\ InOrder(S) \in [1..Cardinality(S) -> S]
         /\ \A k \in 1..Cardinality(S) : Cardinality(Through(S, InOrder(S)[k])) = k
         /\ \A x \in S : InOrder(S)[Cardinality(Through(S, x))] = x
<1> DEFINE place == [x \in S |-> Cardinality(Through(S, x))]
           n == Cardinality(S)
<1>1. n \in Nat /\ IsFiniteSet(1..n) /\ Cardinality(1..n) = n
  BY FS_CardinalityType, FS_Interval
<1>2. \A x \in S : place[x] = Cardinality(Through(S, x)) /\ place[x] \in 1..n
  BY PlacesDiffer
<1>3. \A x, y \in S : place[x] = place[y] => x = y
  <2> SUFFICES ASSUME NEW x \in S, NEW y \in S, place[x] = place[y], x # y PROVE FALSE
    OBVIOUS
  <2>1. place[x] < place[y] \/ place[y] < place[x]
    <3>1. x < y \/ y < x
      OBVIOUS
    <3> QED
      BY <1>2, <3>1, PlacesDiffer
  <2> QED
    BY <1>2, <2>1
<1>4. place \in Injection(S, 1..n)
  BY <1>2, <1>3 DEF Injection, IsInjective
<1> HIDE DEF place
<1>5. place \in Surjection(S, 1..n)
  <2> HIDE DEF n
  <2>1. Cardinality(S) = Cardinality(1..n)
    BY <1>1 DEF n
  <2> QED
    BY <1>1, <1>4, <2>1, FS_Injection
<1>6. \A k \in 1..n : \E x \in S : place[x] = k
  BY <1>5 DEF Surjection
<1>7. \A k \in 1..n : InOrder(S)[k] = CHOOSE x \in S : Cardinality(Through(S, x)) = k
  BY DEF InOrder, Through
<1>8. \A k \in 1..n : InOrder(S)[k] \in S /\ Cardinality(Through(S, InOrder(S)[k])) = k
  BY <1>2, <1>6, <1>7
<1>9. InOrder(S) \in [1..n -> S]
  <2>1. InOrder(S) = [k \in 1..n |-> InOrder(S)[k]]
    BY DEF InOrder
  <2> QED
    BY <1>8, <2>1
<1>10. ASSUME NEW x \in S PROVE InOrder(S)[place[x]] = x
  <2>1. InOrder(S)[place[x]] \in S /\ place[InOrder(S)[place[x]]] = place[x]
    BY <1>2, <1>8
  <2> QED
    BY <1>3, <2>1
<1> QED
  BY <1>2, <1>8, <1>9, <1>10

\* InOrder lists a set of numbers once.
LEMMA InOrderLists ==
  ASSUME NEW S \in SUBSET Nat, IsFiniteSet(S)
  PROVE  /\ InOrder(S) \in Seq(Nat)
         /\ Range(InOrder(S)) = S
         /\ \A i, j \in DOMAIN InOrder(S) : InOrder(S)[i] = InOrder(S)[j] => i = j
<1> DEFINE q == InOrder(S)
           n == Cardinality(S)
<1>1. S \in SUBSET Int
  OBVIOUS
<1>2. /\ q \in [1..n -> S]
      /\ \A k \in 1..n : Cardinality(Through(S, q[k])) = k
      /\ \A x \in S : q[Cardinality(Through(S, x))] = x
  BY <1>1, InOrderPlaces
<1>3. n \in Nat /\ \A x \in S : Cardinality(Through(S, x)) \in 1..n
  BY <1>1, PlacesDiffer
<1> HIDE DEF q, n
<1>4. q \in [1..n -> Nat] /\ DOMAIN q = 1..n
  BY <1>2
<1>5. q \in Seq(Nat)
  BY <1>3, <1>4
<1>6. Range(q) = S
  BY <1>2, <1>3, <1>4 DEF Range
<1>7. \A i, j \in DOMAIN q : q[i] = q[j] => i = j
  BY <1>2, <1>4
<1> QED
  BY <1>5, <1>6, <1>7 DEF q

Under(s, x) == {i \in DOMAIN s : s[i] < x}
NotAbove(s, x) == {i \in DOMAIN s : s[i] <= x}

LEMMA UnderAndNotAbove ==
  ASSUME NEW s \in Seq(Int), NEW x \in Int
  PROVE  /\ IsFiniteSet(DOMAIN s) /\ Cardinality(DOMAIN s) = Len(s) /\ Len(s) \in Nat
         /\ Under(s, x) \subseteq NotAbove(s, x) /\ NotAbove(s, x) \subseteq DOMAIN s
         /\ IsFiniteSet(Under(s, x)) /\ IsFiniteSet(NotAbove(s, x))
         /\ Cardinality(Under(s, x)) \in Nat /\ Cardinality(NotAbove(s, x)) \in Nat
         /\ Cardinality(Under(s, x)) <= Cardinality(NotAbove(s, x))
<1>1. DOMAIN s = 1..Len(s) /\ Len(s) \in Nat
  OBVIOUS
<1>2. IsFiniteSet(DOMAIN s) /\ Cardinality(DOMAIN s) = Len(s)
  BY <1>1, FS_Interval
<1>3. \A i \in DOMAIN s : s[i] \in Int
  OBVIOUS
<1>4. Under(s, x) \subseteq NotAbove(s, x) /\ NotAbove(s, x) \subseteq DOMAIN s
  BY <1>3 DEF Under, NotAbove
<1>5. IsFiniteSet(NotAbove(s, x))
  BY <1>2, <1>4, PartIsSmaller
<1>6. /\ IsFiniteSet(Under(s, x))
      /\ Cardinality(Under(s, x)) \in Nat /\ Cardinality(NotAbove(s, x)) \in Nat
      /\ Cardinality(Under(s, x)) <= Cardinality(NotAbove(s, x))
  BY <1>4, <1>5, PartIsSmaller
<1> QED
  BY <1>1, <1>2, <1>4, <1>5, <1>6

\* What is not above x is under all that is above x.
LEMMA UnderGrows ==
  ASSUME NEW s \in Seq(Int), NEW x \in Int, NEW y \in Int, x < y
  PROVE  Cardinality(NotAbove(s, x)) <= Cardinality(Under(s, y))
<1>1. \A i \in DOMAIN s : s[i] \in Int
  OBVIOUS
<1>2. NotAbove(s, x) \subseteq Under(s, y)
  BY <1>1 DEF NotAbove, Under
<1> QED
  BY <1>2, UnderAndNotAbove, PartIsSmaller

\* A sequence has a value for every place: the least that reaches it.
LEMMA PlaceIsTaken ==
  ASSUME NEW s \in Seq(Int), NEW k \in 1..Len(s)
  PROVE  \E v \in {s[i] : i \in DOMAIN s} :
           Cardinality(Under(s, v)) < k /\ Cardinality(NotAbove(s, v)) >= k
<1> DEFINE time == [i \in DOMAIN s |-> s[i]]
           reach == {i \in DOMAIN s : Cardinality(NotAbove(s, s[i])) >= k}
<1>1. \A i \in DOMAIN s : time[i] = s[i] /\ time[i] \in Int
  OBVIOUS
<1>2. /\ IsFiniteSet(DOMAIN s) /\ Cardinality(DOMAIN s) = Len(s) /\ Len(s) \in Nat
      /\ \A x \in Int : /\ IsFiniteSet(Under(s, x))
                        /\ Cardinality(Under(s, x)) \in Nat /\ Cardinality(NotAbove(s, x)) \in Nat
  <2>1. 0 \in Int
    OBVIOUS
  <2> QED
    BY <2>1, UnderAndNotAbove
<1>3. k \in Nat /\ k >= 1 /\ k <= Len(s) /\ DOMAIN s # {}
  <2>1. k \in 1..Len(s) /\ Len(s) \in Nat /\ DOMAIN s = 1..Len(s)
    OBVIOUS
  <2> QED
    BY <2>1
<1> HIDE DEF time
<1>4. PICK top \in DOMAIN s : \A i \in DOMAIN s : time[i] <= time[top]
  BY <1>1, <1>2, <1>3, LatestExists
<1>5. top \in reach
  <2>1. NotAbove(s, s[top]) = DOMAIN s
    BY <1>1, <1>4 DEF NotAbove
  <2> QED
    BY <1>2, <1>3, <2>1
<1>6. IsFiniteSet(reach) /\ reach \subseteq DOMAIN s
  <2>1. reach \subseteq DOMAIN s
    OBVIOUS
  <2> HIDE DEF reach
  <2> QED
    BY <1>2, <2>1, PartIsSmaller
<1>7. PICK m \in reach : \A i \in reach : time[m] <= time[i]
  <2>1. \A i \in reach : time[i] \in Int
    BY <1>1
  <2> HIDE DEF reach
  <2> QED
    BY <1>5, <1>6, <2>1, EarliestExists
<1>8. m \in DOMAIN s /\ s[m] \in Int /\ Cardinality(NotAbove(s, s[m])) >= k
  BY <1>7
<1>9. Cardinality(Under(s, s[m])) < k
  <2>1. CASE Under(s, s[m]) = {}
    <3>1. Cardinality(Under(s, s[m])) = 0
      BY <2>1, FS_EmptySet
    <3> QED
      BY <1>3, <3>1
  <2>2. CASE Under(s, s[m]) # {}
    <3>1. \A i \in Under(s, s[m]) : time[i] \in Int
      BY <1>1 DEF Under
    <3>2. PICK p \in Under(s, s[m]) : \A i \in Under(s, s[m]) : time[i] <= time[p]
      BY <1>2, <1>8, <2>2, <3>1, LatestExists
    <3>3. p \in DOMAIN s /\ s[p] \in Int /\ s[p] < s[m]
      BY <1>1, <3>2 DEF Under
    <3>4. Under(s, s[m]) \subseteq NotAbove(s, s[p])
      BY <1>1, <3>2 DEF Under, NotAbove
    <3>5. Cardinality(Under(s, s[m])) <= Cardinality(NotAbove(s, s[p]))
      BY <3>3, <3>4, UnderAndNotAbove, PartIsSmaller
    <3>6. p \notin reach
      BY <1>1, <1>7, <1>8, <3>3
    <3>7. ~(Cardinality(NotAbove(s, s[p])) >= k)
      BY <3>3, <3>6
    <3>8. Cardinality(NotAbove(s, s[p])) \in Nat /\ Cardinality(Under(s, s[m])) \in Nat
      BY <1>2, <1>8, <3>3
    <3> QED
      BY <1>3, <3>5, <3>7, <3>8
  <2> QED
    BY <2>1, <2>2
<1> QED
  BY <1>8, <1>9

\* Sorted has at k a value that is at most x exactly if k values are, and at least x exactly
\* if fewer than k are less.
LEMMA SortedPlaces ==
  ASSUME NEW s \in Seq(Int), NEW k \in 1..Len(s)
  PROVE  /\ Sorted(s)[k] \in {s[i] : i \in DOMAIN s} /\ Sorted(s)[k] \in Int
         /\ \A x \in Int : Sorted(s)[k] <= x <=> Cardinality(NotAbove(s, x)) >= k
         /\ \A x \in Int : x <= Sorted(s)[k] <=> Cardinality(Under(s, x)) < k
<1> DEFINE v == Sorted(s)[k]
<1>1. v = CHOOSE w \in {s[i] : i \in DOMAIN s} :
            Cardinality(Under(s, w)) < k /\ Cardinality(NotAbove(s, w)) >= k
  BY DEF Sorted, Under, NotAbove
<1>2. /\ v \in {s[i] : i \in DOMAIN s}
      /\ Cardinality(Under(s, v)) < k /\ Cardinality(NotAbove(s, v)) >= k
  <2> HIDE DEF v
  <2> QED
    BY <1>1, PlaceIsTaken
<1>3. v \in Int
  BY <1>2
<1>0. k \in Int
  OBVIOUS
<1> HIDE DEF v
<1>4. ASSUME NEW x \in Int
      PROVE  /\ v <= x <=> Cardinality(NotAbove(s, x)) >= k
             /\ x <= v <=> Cardinality(Under(s, x)) < k
  <2>1. /\ Cardinality(NotAbove(s, x)) \in Nat /\ Cardinality(Under(s, x)) \in Nat
        /\ Cardinality(NotAbove(s, v)) \in Nat /\ Cardinality(Under(s, v)) \in Nat
        /\ Cardinality(Under(s, x)) <= Cardinality(NotAbove(s, x))
    BY <1>3, UnderAndNotAbove
  <2>2. CASE v < x
    <3>1. Cardinality(NotAbove(s, v)) <= Cardinality(Under(s, x))
      BY <1>3, <2>2, UnderGrows
    <3> QED
      BY <1>0, <1>2, <1>3, <2>1, <2>2, <3>1
  <2>3. CASE v = x
    BY <1>2, <1>3, <2>3
  <2>4. CASE x < v
    <3>1. Cardinality(NotAbove(s, x)) <= Cardinality(Under(s, v))
      BY <1>3, <2>4, UnderGrows
    <3> QED
      BY <1>0, <1>2, <1>3, <2>1, <2>4, <3>1
  <2> QED
    BY <1>3, <2>2, <2>3, <2>4
<1> QED
  BY <1>2, <1>3, <1>4 DEF v

-------------------------------------------------------------------------------
(***************************************************************************)
(* Sums.  IsSum says of a function of the subsets of D what the definition *)
(* of SumFunction says of the one it chooses.                              *)
(***************************************************************************)
IsSum(sum, f, D) ==
  sum = [s \in SUBSET D |->
    IF s = {} THEN 0
    ELSE LET x == CHOOSE x \in s : TRUE IN f[x] + sum[s \ {x}]]

\* The sum of a function on a finite set.
Total(f, S) == SumFunction([x \in S |-> f[x]])

LEMMA SumExists ==
  ASSUME NEW f, NEW D, IsFiniteSet(D)
  PROVE  \E sum : IsSum(sum, f, D)
<1> DEFINE upTo(n) == {s \in SUBSET D : Cardinality(s) <= n}
           first(s) == CHOOSE x \in s : TRUE
           from(sum, s) == IF s = {} THEN 0 ELSE f[first(s)] + sum[s \ {first(s)}]
           Defined == {n \in Nat : \E sum : sum = [s \in upTo(n) |-> from(sum, s)]}
<1>1. \A s \in SUBSET D : IsFiniteSet(s) /\ Cardinality(s) \in Nat
  BY FS_Subset, FS_CardinalityType
<1>2. \A s \in SUBSET D : s # {} => Cardinality(s \ {first(s)}) = Cardinality(s) - 1
  BY <1>1, FS_RemoveElement
<1>3. 0 \in Defined
  <2> DEFINE sum == [s \in upTo(0) |-> 0]
  <2>1. \A s \in upTo(0) : s = {}
    BY <1>1, FS_EmptySet
  <2>2. \A s \in upTo(0) : from(sum, s) = 0
    BY <2>1
  <2> HIDE DEF upTo
  <2>3. sum = [s \in upTo(0) |-> from(sum, s)]
    <3> HIDE DEF from
    <3> QED
      BY <2>2
  <2> HIDE DEF sum, from
  <2> QED
    BY <2>3
<1>4. ASSUME NEW n \in Nat, n \in Defined PROVE n + 1 \in Defined
  <2>1. PICK sum : sum = [s \in upTo(n) |-> from(sum, s)]
    BY <1>4
  <2> DEFINE more == [s \in upTo(n + 1) |-> from(sum, s)]
  <2>2. \A s \in upTo(n) : s \in upTo(n + 1) /\ sum[s] = from(sum, s)
    <3>1. \A s \in upTo(n) : s \in upTo(n + 1)
      BY <1>1
    <3> HIDE DEF upTo, from
    <3> QED
      BY <2>1, <3>1
  <2>3. \A s \in upTo(n) : more[s] = sum[s]
    <3> HIDE DEF upTo, from
    <3> QED
      BY <2>2
  <2>4. \A s \in upTo(n + 1) : s # {} => s \ {first(s)} \in upTo(n)
    BY <1>1, <1>2
  <2>5. \A s \in upTo(n + 1) : from(sum, s) = from(more, s)
    <3> HIDE DEF upTo, first, more
    <3> QED
      BY <2>3, <2>4
  <2>6. more = [s \in upTo(n + 1) |-> from(more, s)]
    <3> HIDE DEF upTo, from
    <3> QED
      BY <2>5
  <2> HIDE DEF more, from, upTo
  <2> QED
    BY <2>6
<1>5. Cardinality(D) \in Nat
  BY FS_CardinalityType
<1>6. Cardinality(D) \in Defined
  <2> HIDE DEF Defined
  <2> QED
    BY <1>3, <1>4, <1>5, EveryNumber
<1>7. upTo(Cardinality(D)) = SUBSET D
  BY PartIsSmaller
<1>8. PICK sum : sum = [s \in SUBSET D |-> from(sum, s)]
  <2> HIDE DEF upTo, from
  <2> QED
    BY <1>6, <1>7
<1>9. IsSum(sum, f, D)
  BY <1>8 DEF IsSum
<1> QED
  BY <1>9

\* Any member of the set may be the one that is added last.
LEMMA SumSteps ==
  ASSUME NEW f, NEW D, IsFiniteSet(D), \A x \in D : f[x] \in Int, NEW sum, IsSum(sum, f, D)
  PROVE  \A s \in SUBSET D :
           /\ sum[s] \in Int
           /\ s = {} => sum[s] = 0
           /\ \A x \in s : sum[s] = f[x] + sum[s \ {x}]
<1> DEFINE Steps(s) == sum[s] \in Int /\ \A x \in s : sum[s] = f[x] + sum[s \ {x}]
           first(s) == CHOOSE x \in s : TRUE
           Right == {n \in Nat : \A s \in SUBSET D : Cardinality(s) <= n => Steps(s)}
<1>1. \A s \in SUBSET D : IsFiniteSet(s) /\ Cardinality(s) \in Nat
  BY FS_Subset, FS_CardinalityType
<1>2. \A s \in SUBSET D : \A x \in s : Cardinality(s \ {x}) = Cardinality(s) - 1
  BY <1>1, FS_RemoveElement
<1>3. \A s \in SUBSET D : sum[s] = IF s = {} THEN 0 ELSE f[first(s)] + sum[s \ {first(s)}]
  BY DEF IsSum
<1>4. \A s \in SUBSET D : s # {} => first(s) \in s
  OBVIOUS
<1> HIDE DEF first
<1>5. 0 \in Right
  <2>1. \A s \in SUBSET D : Cardinality(s) <= 0 => s = {}
    BY <1>1, FS_EmptySet
  <2>2. Steps({})
    BY <1>3
  <2> HIDE DEF Steps
  <2> QED
    BY <2>1, <2>2
<1>6. ASSUME NEW n \in Nat, n \in Right PROVE n + 1 \in Right
  <2> SUFFICES ASSUME NEW s \in SUBSET D, Cardinality(s) = n + 1 PROVE Steps(s)
    BY <1>1, <1>6
  <2>1. s # {} /\ first(s) \in s /\ first(s) \in D
    <3>1. IsFiniteSet(s) /\ Cardinality(s) # 0
      BY <1>1
    <3>2. s # {}
      BY <3>1, FS_EmptySet
    <3> QED
      BY <1>4, <3>2
  <2>2. \A x \in s : Cardinality(s \ {x}) <= n /\ s \ {x} \in SUBSET D
    BY <1>2
  <2>3. \A x \in s : Steps(s \ {x})
    BY <1>6, <2>2
  <2>4. sum[s] = f[first(s)] + sum[s \ {first(s)}]
    BY <1>3, <2>1
  <2>5. \A x \in s : f[x] \in Int /\ sum[s \ {x}] \in Int
    BY <2>3
  <2>6. sum[s] \in Int
    BY <2>1, <2>4, <2>5
  <2>7. ASSUME NEW x \in s, x # first(s) PROVE sum[s] = f[x] + sum[s \ {x}]
    <3> DEFINE rest == (s \ {x}) \ {first(s)}
    <3>1. /\ rest = (s \ {first(s)}) \ {x}
          /\ first(s) \in s \ {x} /\ x \in s \ {first(s)}
      BY <2>1, <2>7
    <3> HIDE DEF rest
    <3>2. sum[s \ {x}] = f[first(s)] + sum[rest]
      BY <2>3, <3>1 DEF rest
    <3>3. sum[s \ {first(s)}] = f[x] + sum[rest]
      BY <2>1, <2>3, <3>1
    <3>4. Steps(rest)
      <4>1. rest \in SUBSET D /\ rest \subseteq s \ {x}
        BY DEF rest
      <4>2. IsFiniteSet(s \ {x})
        BY <1>1
      <4>3. Cardinality(rest) <= Cardinality(s \ {x})
        BY <4>1, <4>2, PartIsSmaller
      <4>4. Cardinality(rest) \in Nat /\ Cardinality(s \ {x}) \in Nat
        BY <1>1, <4>1
      <4> QED
        BY <1>6, <2>2, <4>1, <4>3, <4>4
    <3> QED
      BY <2>1, <2>4, <2>5, <3>2, <3>3, <3>4
  <2> QED
    BY <2>4, <2>6, <2>7
<1>7. \A s \in SUBSET D : Cardinality(s) \in Right
  <2> HIDE DEF Right
  <2> QED
    BY <1>1, <1>5, <1>6, EveryNumber
<1> QED
  BY <1>1, <1>3, <1>7

\* A sum depends on what is summed up only.
LEMMA SumsAgree ==
  ASSUME NEW f, NEW g, NEW D, NEW E, IsFiniteSet(D), E \subseteq D,
         \A x \in D : f[x] \in Int, \A x \in E : g[x] = f[x],
         NEW sum, IsSum(sum, f, D), NEW other, IsSum(other, g, E)
  PROVE  other[E] = sum[E]
<1> DEFINE Same == {n \in Nat : \A s \in SUBSET E : Cardinality(s) = n => other[s] = sum[s]}
<1>1. IsFiniteSet(E) /\ \A x \in E : g[x] \in Int
  BY FS_Subset
<1>2. \A s \in SUBSET E : IsFiniteSet(s) /\ Cardinality(s) \in Nat
  BY <1>1, FS_Subset, FS_CardinalityType
<1>3. \A s \in SUBSET D :
        (s = {} => sum[s] = 0) /\ \A x \in s : sum[s] = f[x] + sum[s \ {x}]
  BY SumSteps
<1>4. \A s \in SUBSET E :
        (s = {} => other[s] = 0) /\ \A x \in s : other[s] = g[x] + other[s \ {x}]
  BY <1>1, SumSteps
<1>5. 0 \in Same
  <2>1. \A s \in SUBSET E : Cardinality(s) = 0 => s = {}
    BY <1>2, FS_EmptySet
  <2>2. \A s \in SUBSET E : s = {} => other[s] = sum[s]
    BY <1>3, <1>4
  <2> QED
    BY <2>1, <2>2
<1>6. ASSUME NEW n \in Nat, n \in Same PROVE n + 1 \in Same
  <2> SUFFICES ASSUME NEW s \in SUBSET E, Cardinality(s) = n + 1 PROVE other[s] = sum[s]
    OBVIOUS
  <2>1. IsFiniteSet(s) /\ Cardinality(s) # 0
    BY <1>2
  <2>2. s # {}
    BY <2>1, FS_EmptySet
  <2>3. PICK x \in s : TRUE
    BY <2>2
  <2>4. Cardinality(s \ {x}) = n /\ s \ {x} \in SUBSET E
    <3>1. Cardinality(s \ {x}) = Cardinality(s) - 1
      BY <2>1, FS_RemoveElement
    <3> QED
      BY <3>1
  <2>5. other[s \ {x}] = sum[s \ {x}]
    BY <1>6, <2>4
  <2>6. s \in SUBSET D /\ x \in E
    BY <2>3
  <2>7. sum[s] = f[x] + sum[s \ {x}]
    BY <1>3, <2>6
  <2>8. other[s] = g[x] + other[s \ {x}]
    BY <1>4
  <2> QED
    BY <2>5, <2>6, <2>7, <2>8
<1>7. Cardinality(E) \in Nat /\ E \in SUBSET E
  BY <1>2
<1>8. Cardinality(E) \in Same
  <2> HIDE DEF Same
  <2> QED
    BY <1>5, <1>6, <1>7, EveryNumber
<1> QED
  BY <1>7, <1>8

LEMMA TotalIsSum ==
  ASSUME NEW f, NEW S, IsFiniteSet(S)
  PROVE  \E sum : IsSum(sum, [x \in S |-> f[x]], S) /\ Total(f, S) = sum[S]
<1> DEFINE g == [x \in S |-> f[x]]
           sum == CHOOSE sum : IsSum(sum, g, S)
<1>1. DOMAIN g = S
  OBVIOUS
<1> HIDE DEF g
<1>2. IsSum(sum, g, S)
  BY SumExists
<1>3. SumFunction(g) = sum[S]
  BY <1>1 DEF SumFunction, SumFunctionOnSet, FoldFunctionOnSet, MapThenFoldSet, IsSum
<1> QED
  BY <1>2, <1>3 DEF g, Total

\* The sum over a set is that of the set without a member, and the member's part.
LEMMA TotalSteps ==
  ASSUME NEW f, NEW S, IsFiniteSet(S), \A x \in S : f[x] \in Int
  PROVE  /\ Total(f, S) \in Int
         /\ S = {} => Total(f, S) = 0
         /\ \A x \in S : Total(f, S) = f[x] + Total(f, S \ {x})
<1> DEFINE g == [x \in S |-> f[x]]
<1>1. \A x \in S : g[x] = f[x] /\ g[x] \in Int
  OBVIOUS
<1>2. PICK sum : IsSum(sum, g, S) /\ Total(f, S) = sum[S]
  BY TotalIsSum
<1> HIDE DEF g
<1>3. /\ sum[S] \in Int
      /\ S = {} => sum[S] = 0
      /\ \A x \in S : sum[S] = g[x] + sum[S \ {x}]
  BY <1>1, <1>2, SumSteps
<1>4. ASSUME NEW x \in S PROVE sum[S \ {x}] = Total(f, S \ {x})
  <2> DEFINE E == S \ {x}
             h == [y \in E |-> f[y]]
  <2>1. E \subseteq S /\ \A y \in E : h[y] = g[y]
    BY <1>1
  <2>2. IsFiniteSet(E)
    BY FS_RemoveElement
  <2>3. PICK other : IsSum(other, h, E) /\ Total(f, E) = other[E]
    <3> HIDE DEF E
    <3> QED
      BY <2>2, TotalIsSum
  <2> HIDE DEF E, h
  <2>4. other[E] = sum[E]
    BY <1>1, <1>2, <2>1, <2>3, SumsAgree
  <2> QED
    BY <2>3, <2>4 DEF E
<1> QED
  BY <1>1, <1>2, <1>3, <1>4

\* What is nowhere less is not less altogether.
LEMMA TotalIsMonotone ==
  ASSUME NEW f, NEW g, NEW S, IsFiniteSet(S),
         \A x \in S : f[x] \in Int /\ g[x] \in Int /\ f[x] <= g[x]
  PROVE  Total(f, S) <= Total(g, S)
<1> DEFINE Right == {n \in Nat : \A s \in SUBSET S : Cardinality(s) = n => Total(f, s) <= Total(g, s)}
<1>1. \A s \in SUBSET S : IsFiniteSet(s) /\ Cardinality(s) \in Nat
  BY FS_Subset, FS_CardinalityType
<1>2. ASSUME NEW s \in SUBSET S
      PROVE  /\ Total(f, s) \in Int /\ Total(g, s) \in Int
             /\ s = {} => Total(f, s) = 0 /\ Total(g, s) = 0
             /\ \A x \in s : /\ Total(f, s) = f[x] + Total(f, s \ {x})
                             /\ Total(g, s) = g[x] + Total(g, s \ {x})
  <2>1. IsFiniteSet(s) /\ \A x \in s : f[x] \in Int /\ g[x] \in Int
    BY <1>1
  <2> QED
    BY <2>1, TotalSteps
<1>3. 0 \in Right
  <2> SUFFICES ASSUME NEW s \in SUBSET S, Cardinality(s) = 0 PROVE Total(f, s) <= Total(g, s)
    OBVIOUS
  <2>1. s = {}
    BY <1>1, FS_EmptySet
  <2> QED
    BY <1>2, <2>1
<1>4. ASSUME NEW n \in Nat, n \in Right PROVE n + 1 \in Right
  <2> SUFFICES ASSUME NEW s \in SUBSET S, Cardinality(s) = n + 1 PROVE Total(f, s) <= Total(g, s)
    OBVIOUS
  <2>1. IsFiniteSet(s) /\ Cardinality(s) # 0
    BY <1>1
  <2>2. s # {}
    BY <2>1, FS_EmptySet
  <2>3. PICK x \in s : TRUE
    BY <2>2
  <2>4. Cardinality(s \ {x}) = Cardinality(s) - 1
    BY <2>1, FS_RemoveElement
  <2>5. Cardinality(s \ {x}) = n /\ s \ {x} \in SUBSET S
    BY <2>4
  <2>6. Total(f, s \ {x}) <= Total(g, s \ {x})
    BY <1>4, <2>5
  <2>7. /\ Total(f, s \ {x}) \in Int /\ Total(g, s \ {x}) \in Int
        /\ f[x] \in Int /\ g[x] \in Int /\ f[x] <= g[x]
    BY <1>2, <2>5
  <2>8. Total(f, s) = f[x] + Total(f, s \ {x}) /\ Total(g, s) = g[x] + Total(g, s \ {x})
    BY <1>2
  <2> QED
    BY <2>6, <2>7, <2>8
<1>5. Cardinality(S) \in Nat /\ S \in SUBSET S
  BY <1>1
<1>6. Cardinality(S) \in Right
  <2> HIDE DEF Right
  <2> QED
    BY <1>3, <1>4, <1>5, EveryNumber
<1> QED
  BY <1>5, <1>6

\* What is nowhere more and somewhere less is less altogether.
LEMMA TotalIsLess ==
  ASSUME NEW f, NEW g, NEW S, IsFiniteSet(S),
         \A x \in S : f[x] \in Int /\ g[x] \in Int /\ f[x] <= g[x],
         NEW z \in S, f[z] < g[z]
  PROVE  Total(f, S) < Total(g, S)
<1> DEFINE rest == S \ {z}
<1>1. IsFiniteSet(rest) /\ \A x \in rest : f[x] \in Int /\ g[x] \in Int /\ f[x] <= g[x]
  BY FS_RemoveElement
<1> HIDE DEF rest
<1>2. Total(f, rest) <= Total(g, rest) /\ Total(f, rest) \in Int /\ Total(g, rest) \in Int
  BY <1>1, TotalIsMonotone, TotalSteps
<1>3. Total(f, S) = f[z] + Total(f, rest) /\ Total(g, S) = g[z] + Total(g, rest)
  <2>1. /\ \A x \in S : Total(f, S) = f[x] + Total(f, S \ {x})
        /\ \A x \in S : Total(g, S) = g[x] + Total(g, S \ {x})
    BY TotalSteps
  <2> QED
    BY <2>1 DEF rest
<1>4. f[z] \in Int /\ g[z] \in Int
  OBVIOUS
<1> QED
  BY <1>2, <1>3, <1>4

\* Nothing adds up to nothing.
LEMMA TotalOfNone ==
  ASSUME NEW f, NEW S, IsFiniteSet(S), \A x \in S : f[x] = 0
  PROVE  Total(f, S) = 0
<1> DEFINE Right == {n \in Nat : \A s \in SUBSET S : Cardinality(s) = n => Total(f, s) = 0}
<1>1. \A s \in SUBSET S : IsFiniteSet(s) /\ Cardinality(s) \in Nat
  BY FS_Subset, FS_CardinalityType
<1>2. ASSUME NEW s \in SUBSET S
      PROVE  /\ s = {} => Total(f, s) = 0
             /\ \A x \in s : Total(f, s) = f[x] + Total(f, s \ {x})
  <2>1. IsFiniteSet(s) /\ \A x \in s : f[x] \in Int
    BY <1>1
  <2> QED
    BY <2>1, TotalSteps
<1>3. 0 \in Right
  <2> SUFFICES ASSUME NEW s \in SUBSET S, Cardinality(s) = 0 PROVE Total(f, s) = 0
    OBVIOUS
  <2>1. s = {}
    BY <1>1, FS_EmptySet
  <2> QED
    BY <1>2, <2>1
<1>4. ASSUME NEW n \in Nat, n \in Right PROVE n + 1 \in Right
  <2> SUFFICES ASSUME NEW s \in SUBSET S, Cardinality(s) = n + 1 PROVE Total(f, s) = 0
    OBVIOUS
  <2>1. IsFiniteSet(s) /\ Cardinality(s) # 0
    BY <1>1
  <2>2. s # {}
    BY <2>1, FS_EmptySet
  <2>3. PICK x \in s : TRUE
    BY <2>2
  <2>4. Cardinality(s \ {x}) = Cardinality(s) - 1
    BY <2>1, FS_RemoveElement
  <2>5. Cardinality(s \ {x}) = n /\ s \ {x} \in SUBSET S
    BY <2>4
  <2>6. Total(f, s \ {x}) = 0
    BY <1>4, <2>5
  <2>7. Total(f, s) = f[x] + Total(f, s \ {x}) /\ f[x] = 0
    BY <1>2
  <2> QED
    BY <2>6, <2>7
<1>5. Cardinality(S) \in Nat /\ S \in SUBSET S
  BY <1>1
<1>6. Cardinality(S) \in Right
  <2> HIDE DEF Right
  <2> QED
    BY <1>3, <1>4, <1>5, EveryNumber
<1> QED
  BY <1>5, <1>6

\* Two parts of a sum without negative parts are no more than the sum.
LEMMA TotalOfTwo ==
  ASSUME NEW f, NEW S, IsFiniteSet(S), \A x \in S : f[x] \in Nat,
         NEW x \in S, NEW y \in S, x # y
  PROVE  Total(f, S) >= f[x] + f[y]
<1> DEFINE rest == S \ {x}
           none == [z \in S |-> 0]
           last == rest \ {y}
<1>1. IsFiniteSet(rest) /\ IsFiniteSet(last) /\ y \in rest /\ last \subseteq S
  BY FS_RemoveElement
<1>2. \A z \in S : f[z] \in Int
  OBVIOUS
<1>3. Total(f, S) = f[x] + Total(f, rest)
  BY <1>2, TotalSteps
<1>4. Total(f, rest) = f[y] + Total(f, last)
  <2> HIDE DEF last
  <2>1. \A z \in rest : f[z] \in Int
    OBVIOUS
  <2> HIDE DEF rest
  <2> QED
    BY <1>1, <2>1, TotalSteps DEF last
<1>5. \A z \in last : none[z] = 0 /\ none[z] \in Int /\ f[z] \in Int /\ none[z] <= f[z]
  BY <1>1
<1>6. Total(none, last) = 0 /\ Total(none, last) <= Total(f, last) /\ Total(f, last) \in Int
  <2> HIDE DEF none, last
  <2>1. Total(none, last) = 0
    BY <1>1, <1>5, TotalOfNone
  <2>2. Total(none, last) <= Total(f, last)
    BY <1>1, <1>5, TotalIsMonotone
  <2> QED
    BY <1>1, <1>5, <2>1, <2>2, TotalSteps
<1> HIDE DEF rest, none, last
<1>7. f[x] \in Nat /\ f[y] \in Nat
  OBVIOUS
<1> QED
  BY <1>3, <1>4, <1>6, <1>7

Sorting(I, h, b) == {i \in I : h[i] = b}

\* Things that are sorted into classes are counted once, class by class.
LEMMA TotalOfCounts ==
  ASSUME NEW I, NEW B, NEW h, IsFiniteSet(I), IsFiniteSet(B), \A i \in I : h[i] \in B
  PROVE  Total([b \in B |-> Cardinality(Sorting(I, h, b))], B) = Cardinality(I)
<1> DEFINE count == [b \in B |-> Cardinality(Sorting(I, h, b))]
           within(s) == {i \in I : h[i] \in s}
           Right == {n \in Nat : \A s \in SUBSET B :
                       Cardinality(s) = n => Total(count, s) = Cardinality(within(s))}
<1>1. \A s \in SUBSET B : IsFiniteSet(s) /\ Cardinality(s) \in Nat
  BY FS_Subset, FS_CardinalityType
<1>2. \A s : IsFiniteSet(within(s)) /\ Cardinality(within(s)) \in Nat
  BY PartIsSmaller
<1>3. \A b \in B : count[b] = Cardinality(Sorting(I, h, b)) /\ count[b] \in Int
  <2> SUFFICES ASSUME NEW b \in B PROVE Cardinality(Sorting(I, h, b)) \in Int
    OBVIOUS
  <2>1. Sorting(I, h, b) \subseteq I
    BY DEF Sorting
  <2> QED
    BY <2>1, PartIsSmaller
<1> HIDE DEF count
<1>4. ASSUME NEW s \in SUBSET B
      PROVE  /\ s = {} => Total(count, s) = 0
             /\ \A b \in s : Total(count, s) = count[b] + Total(count, s \ {b})
  <2>1. IsFiniteSet(s) /\ \A b \in s : count[b] \in Int
    BY <1>1, <1>3
  <2> QED
    BY <2>1, TotalSteps
<1>5. 0 \in Right
  <2> SUFFICES ASSUME NEW s \in SUBSET B, Cardinality(s) = 0
               PROVE  Total(count, s) = Cardinality(within(s))
    OBVIOUS
  <2>1. s = {}
    BY <1>1, FS_EmptySet
  <2>2. within(s) = {}
    BY <2>1
  <2>3. Cardinality(within(s)) = 0
    BY <2>2, FS_EmptySet
  <2> QED
    BY <1>4, <2>1, <2>3
<1>6. ASSUME NEW n \in Nat, n \in Right PROVE n + 1 \in Right
  <2> SUFFICES ASSUME NEW s \in SUBSET B, Cardinality(s) = n + 1
               PROVE  Total(count, s) = Cardinality(within(s))
    OBVIOUS
  <2>1. IsFiniteSet(s) /\ Cardinality(s) # 0
    BY <1>1
  <2>2. s # {}
    BY <2>1, FS_EmptySet
  <2>3. PICK b \in s : TRUE
    BY <2>2
  <2>4. Cardinality(s \ {b}) = Cardinality(s) - 1
    BY <2>1, FS_RemoveElement
  <2>5. Cardinality(s \ {b}) = n /\ s \ {b} \in SUBSET B
    BY <2>4
  <2>6. Total(count, s \ {b}) = Cardinality(within(s \ {b}))
    BY <1>6, <2>5
  <2>7. /\ Sorting(I, h, b) \subseteq within(s)
        /\ within(s) \ Sorting(I, h, b) = within(s \ {b})
    BY <2>3 DEF Sorting
  <2>8. Cardinality(within(s)) = Cardinality(Sorting(I, h, b)) + Cardinality(within(s \ {b}))
    <3> HIDE DEF within
    <3>1. Cardinality(within(s)) = Cardinality(Sorting(I, h, b))
                                     + Cardinality(within(s) \ Sorting(I, h, b))
      BY <1>2, <2>7, PartsAddUp
    <3> QED
      BY <2>7, <3>1
  <2>9. Total(count, s) = count[b] + Total(count, s \ {b})
    BY <1>4
  <2>10. count[b] = Cardinality(Sorting(I, h, b))
    BY <1>3
  <2> HIDE DEF within
  <2> QED
    BY <2>6, <2>8, <2>9, <2>10
<1>7. Cardinality(B) \in Nat /\ B \in SUBSET B
  BY <1>1
<1>8. Cardinality(B) \in Right
  <2> HIDE DEF Right
  <2> QED
    BY <1>5, <1>6, <1>7, EveryNumber
<1>9. within(B) = I
  OBVIOUS
<1>10. Total(count, B) = Cardinality(within(B))
  BY <1>7, <1>8
<1> QED
  BY <1>9, <1>10 DEF count
===============================================================================
