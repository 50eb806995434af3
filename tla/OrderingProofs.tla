--------------------------- MODULE OrderingProofs ---------------------------
(***************************************************************************)
(* A sorted list holds each row at its rank, for every finite set and      *)
(* every order of it.                                                      *)
(***************************************************************************)
EXTENDS Ordering, FiniteSetTheorems, TLAPS

(* Order, a set of pairs, puts any two rows of S one before the other.     *)
Orders(S, order) ==
  /\ \A x \in S : <<x, x>> \notin order
  /\ \A x, y \in S : x # y => <<x, y>> \in order \/ <<y, x>> \in order
  /\ \A x, y, z \in S : <<x, y>> \in order /\ <<y, z>> \in order => <<x, z>> \in order

(* The place of a row among them. *)
Before(S, order, x) == {y \in S : <<y, x>> \in order}
Rank(S, order, x) == 1 + Cardinality(Before(S, order, x))

LEMMA OneMore ==
  ASSUME NEW T, IsFiniteSet(T), NEW x, x \notin T
  PROVE  Cardinality(T \cup {x}) = 1 + Cardinality(T)
  <1>1. Cardinality(T \cup {x}) = Cardinality(T) + 1
      BY FS_AddElement
  <1> QED
      BY <1>1, FS_CardinalityType

(* A rank is a place in the list, and tells the rows apart. *)
LEMMA RanksAreDistinct ==
  ASSUME NEW S, IsFiniteSet(S), NEW order, Orders(S, order)
  PROVE  /\ Cardinality(S) \in Nat
         /\ \A x \in S : Rank(S, order, x) \in 1..Cardinality(S)
         /\ \A x, y \in S : <<x, y>> \in order => Rank(S, order, x) < Rank(S, order, y)
  <1>1. Cardinality(S) \in Nat
      BY FS_CardinalityType
  <1>2. ASSUME NEW x \in S
        PROVE  /\ IsFiniteSet(Before(S, order, x)) /\ x \notin Before(S, order, x)
               /\ Cardinality(Before(S, order, x)) \in Nat
    <2>1. Before(S, order, x) \in SUBSET S /\ x \notin Before(S, order, x)
        BY DEF Before, Orders
    <2> QED
        BY <2>1, FS_Subset, FS_CardinalityType
  <1>3. ASSUME NEW x \in S, NEW T \in SUBSET S, Before(S, order, x) \cup {x} \subseteq T
        PROVE  Rank(S, order, x) <= Cardinality(T)
    <2> DEFINE before == Before(S, order, x)
    <2>0. IsFiniteSet(before) /\ x \notin before /\ Cardinality(before) \in Nat
        BY <1>2
    <2> HIDE DEF before
    <2>1. Cardinality(before \cup {x}) = 1 + Cardinality(before)
        BY <2>0, OneMore
    <2> USE DEF before
    <2>2. IsFiniteSet(T)
        BY FS_Subset
    <2> QED
        BY <1>3, <2>1, <2>2, FS_Subset DEF Rank
  <1>4. ASSUME NEW x \in S
        PROVE  Rank(S, order, x) \in 1..Cardinality(S)
    <2>1. Before(S, order, x) \cup {x} \subseteq S
        BY DEF Before
    <2>2. Rank(S, order, x) <= Cardinality(S)
        BY <1>3, <2>1
    <2> QED
        BY <1>1, <1>2, <2>2 DEF Rank
  <1>5. ASSUME NEW x \in S, NEW y \in S, <<x, y>> \in order
        PROVE  Rank(S, order, x) < Rank(S, order, y)
    <2>1. Before(S, order, y) \in SUBSET S /\ Before(S, order, x) \cup {x} \subseteq Before(S, order, y)
        BY <1>5 DEF Before, Orders
    <2>2. Rank(S, order, x) <= Cardinality(Before(S, order, y))
        BY <1>3, <2>1
    <2> QED
        BY <1>2, <2>2 DEF Rank
  <1> QED
      BY <1>1, <1>4, <1>5

(* There is a sorted list, and it holds every row at its rank. *)
LEMMA SortedByRank ==
  ASSUME NEW S, IsFiniteSet(S), NEW order, Orders(S, order)
  PROVE  /\ Sorted(S, order) \in [1..Cardinality(S) -> S]
         /\ \A i \in 1..Cardinality(S) : Rank(S, order, Sorted(S, order)[i]) = i
         /\ \A x \in S : Sorted(S, order)[Rank(S, order, x)] = x
  <1> DEFINE n == Cardinality(S)
             place == [x \in S |-> Rank(S, order, x)]
             InRank(list) == \A i, j \in 1..n : i < j => <<list[i], list[j]>> \in order
  <1>1. n \in Nat /\ place \in [S -> 1..n]
      BY RanksAreDistinct
  <1>2. \A x, y \in S : place[x] = place[y] => x = y
    <2> SUFFICES ASSUME NEW x \in S, NEW y \in S, x # y
                 PROVE  place[x] # place[y]
        OBVIOUS
    <2>1. <<x, y>> \in order \/ <<y, x>> \in order
        BY DEF Orders
    <2> QED
        BY <1>1, <2>1, RanksAreDistinct
  <1>3. IsFiniteSet(1..n) /\ Cardinality(1..n) = n
      BY <1>1, FS_Interval
  <1>4. place \in Surjection(S, 1..n)
    <2>1. place \in Injection(S, 1..n)
        BY <1>1, <1>2 DEF Injection, IsInjective
    <2> QED
        BY <1>3, <2>1, FS_Injection
  <1>5. PICK list \in [1..n -> S] : \A i \in 1..n : place[list[i]] = i
    <2>1. \A i \in 1..n : \E x \in S : place[x] = i
        BY <1>4 DEF Surjection
    <2> DEFINE row == [i \in 1..n |-> CHOOSE x \in S : place[x] = i]
    <2>2. row \in [1..n -> S] /\ \A i \in 1..n : place[row[i]] = i
        BY <2>1
    <2> QED
        BY <2>2
  <1>6. InRank(list)
    <2> SUFFICES ASSUME NEW i \in 1..n, NEW j \in 1..n, i < j, <<list[i], list[j]>> \notin order
                 PROVE  FALSE
        OBVIOUS
    <2> HIDE DEF n, place
    <2>1. i # j /\ place[list[i]] = i /\ place[list[j]] = j /\ list[i] \in S /\ list[j] \in S
        BY <1>1, <1>5
    <2>2. <<list[j], list[i]>> \in order
        BY <2>1 DEF Orders
    <2>3. place[list[j]] < place[list[i]]
        BY <2>1, <2>2, RanksAreDistinct DEF place
    <2> QED
        BY <1>1, <2>1, <2>3
  <1>7. Sorted(S, order) \in [1..n -> S] /\ InRank(Sorted(S, order))
      BY <1>5, <1>6 DEF Sorted
  <1> DEFINE s == Sorted(S, order)
  <1>8. s \in [1..n -> S] /\ InRank(s)
      BY <1>7
  <1> HIDE DEF s
  <1>9. \A i, j \in 1..n : s[i] = s[j] => i = j
    <2> SUFFICES ASSUME NEW i \in 1..n, NEW j \in 1..n, i < j
                 PROVE  s[i] # s[j]
        BY <1>1
    <2>1. <<s[i], s[j]>> \in order
        BY <1>8
    <2> QED
        BY <1>8, <2>1 DEF Orders
  <1>10. \A x \in S : \E i \in 1..n : s[i] = x
    <2>1. s \in Injection(1..n, S)
        BY <1>8, <1>9 DEF Injection, IsInjective
    <2>2. s \in Surjection(1..n, S)
        BY <1>3, <2>1, FS_Injection
    <2> QED
        BY <2>2 DEF Surjection
  <1>11. ASSUME NEW i \in 1..n
         PROVE  Rank(S, order, s[i]) = i
    <2> DEFINE first == [j \in 1..(i - 1) |-> s[j]]
               above == Before(S, order, s[i])
    <2>1. \A j \in 1..(i - 1) : j \in 1..n /\ j < i
        BY <1>1
    <2>2. first \in [1..(i - 1) -> above]
        BY <1>8, <2>1 DEF Before
    <2>3. \A j, k \in 1..(i - 1) : first[j] = first[k] => j = k
        BY <1>9, <2>1
    <2>4. \A y \in above : \E j \in 1..(i - 1) : first[j] = y
      <3> SUFFICES ASSUME NEW y \in S, <<y, s[i]>> \in order
                   PROVE  \E j \in 1..(i - 1) : first[j] = y
          BY DEF Before
      <3>1. PICK j \in 1..n : s[j] = y
          BY <1>10
      <3>2. ~(i < j) /\ j # i
          BY <1>8, <3>1 DEF Orders
      <3>3. j \in 1..(i - 1)
          BY <1>1, <3>2
      <3> QED
          BY <3>1, <3>3
    <2>5. first \in Bijection(1..(i - 1), above)
        BY <2>2, <2>3, <2>4 DEF Bijection, Injection, IsInjective, Surjection
    <2>6. IsFiniteSet(1..(i - 1)) /\ Cardinality(1..(i - 1)) = i - 1
      <3>1. i - 1 \in Int /\ i - 1 >= 0
          BY <1>1
      <3>2. 1 \in Int /\ IsFiniteSet(1..(i - 1))
            /\ Cardinality(1..(i - 1)) = IF 1 > i - 1 THEN 0 ELSE (i - 1) - 1 + 1
          BY <3>1, FS_Interval
      <3> QED
          BY <3>1, <3>2
    <2>7. Cardinality(above) = i - 1
        BY <2>5, <2>6, FS_Bijection DEF ExistsBijection
    <2> QED
        BY <1>1, <2>7 DEF Rank
  <1>12. \A x \in S : s[Rank(S, order, x)] = x
      BY <1>10, <1>11
  <1>13. /\ s \in [1..n -> S]
         /\ \A i \in 1..n : Rank(S, order, s[i]) = i
         /\ \A x \in S : s[Rank(S, order, x)] = x
      BY <1>8, <1>11, <1>12
  <1> USE DEF s
  <1> QED
      BY <1>13
=============================================================================
