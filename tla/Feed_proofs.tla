----------------------------- MODULE Feed_proofs -----------------------------
(***************************************************************************)
(* Proofs about Feed, for every page size, number of links and number of   *)
(* requests under way: the list shows each link once and newest first, and *)
(* nothing between the newest and the oldest link shown is left out.       *)
(***************************************************************************)
EXTENDS Feed, FiniteSetTheorems, SequenceTheorems, TLAPS

(* Sorting and filtering *)

\* Of two positions one is ahead of the other, and what is ahead of it, too.
IsOrder(I, ahead) ==
    /\ ahead \in [I -> SUBSET I]
    /\ \A i \in I : i \notin ahead[i]
    /\ \A i, j \in I : i # j => i \in ahead[j] \/ j \in ahead[i]
    /\ \A i, j \in I : i \in ahead[j] => ahead[i] \subseteq ahead[j]

\* The position that comes k-th.
At(I, ahead) ==
    [k \in 1 .. Cardinality(I) |-> CHOOSE i \in I : Cardinality(ahead[i]) = k - 1]

(* The positions in the order of those ahead of them: each has its place,  *)
(* because the number of positions ahead of it is its own.                 *)
LEMMA Places ==
    ASSUME NEW I, IsFiniteSet(I), NEW ahead, IsOrder(I, ahead)
    PROVE  /\ At(I, ahead) \in [1 .. Cardinality(I) -> I]
           /\ \A i \in I : \E k \in 1 .. Cardinality(I) : At(I, ahead)[k] = i
           /\ \A k, l \in 1 .. Cardinality(I) : k < l => At(I, ahead)[k] \in ahead[At(I, ahead)[l]]
<1> DEFINE n == Cardinality(I)
           p == [k \in 1 .. n |-> CHOOSE i \in I : Cardinality(ahead[i]) = k - 1]
           rank == [i \in I |-> Cardinality(ahead[i]) + 1]
<1> USE DEF IsOrder
<1>1. n \in Nat
  BY FS_CardinalityType
<1>2. \A i \in I : /\ IsFiniteSet(ahead[i]) /\ Cardinality(ahead[i]) \in Nat
                   /\ Cardinality(ahead[i]) < n
  <2> TAKE i \in I
  <2>1. ahead[i] \subseteq I /\ ahead[i] # I
    OBVIOUS
  <2>2. IsFiniteSet(ahead[i]) /\ Cardinality(ahead[i]) =< n
        /\ (Cardinality(ahead[i]) = n => ahead[i] = I)
    BY <2>1, FS_Subset
  <2>3. Cardinality(ahead[i]) \in Nat
    BY <2>2, FS_CardinalityType
  <2> QED
    BY <1>1, <2>1, <2>2, <2>3
<1>3. ASSUME NEW i \in I, NEW j \in I, i \in ahead[j]
      PROVE  Cardinality(ahead[i]) < Cardinality(ahead[j])
  <2>1. ahead[i] \subseteq ahead[j] /\ ahead[i] # ahead[j]
    BY <1>3
  <2>2. Cardinality(ahead[i]) =< Cardinality(ahead[j])
        /\ (Cardinality(ahead[i]) = Cardinality(ahead[j]) => ahead[i] = ahead[j])
    BY <1>2, <2>1, FS_Subset
  <2> QED
    BY <1>2, <2>1, <2>2
<1>4. rank \in [I -> 1 .. n]
  BY <1>1, <1>2
<1>5. \A i, j \in I : rank[i] = rank[j] => i = j
  BY <1>2, <1>3
<1>6. rank \in Injection(I, 1 .. n)
  BY <1>4, <1>5 DEF Injection, IsInjective
<1>7. rank \in Surjection(I, 1 .. n)
  <2> DEFINE T == 1 .. n
  <2>1. IsFiniteSet(T) /\ Cardinality(T) = Cardinality(I)
    BY <1>1, FS_Interval
  <2>2. rank \in Injection(I, T)
    BY <1>6
  <2> HIDE DEF rank, T
  <2>3. rank \in Surjection(I, T)
    BY <2>1, <2>2, FS_Injection
  <2> QED
    BY <2>3 DEF T
<1>8. \A k \in 1 .. n : p[k] \in I /\ Cardinality(ahead[p[k]]) = k - 1
  <2> TAKE k \in 1 .. n
  <2>1. PICK i \in I : rank[i] = k
    BY <1>7 DEF Surjection
  <2>2. Cardinality(ahead[i]) = k - 1
    BY <1>2, <2>1
  <2> QED
    BY <2>2
<1>9. ASSUME NEW i \in I PROVE \E k \in 1 .. n : p[k] = i
  <2>1. rank[i] \in 1 .. n
    BY <1>4
  <2>2. p[rank[i]] \in I /\ Cardinality(ahead[p[rank[i]]]) = Cardinality(ahead[i])
    BY <1>2, <1>8, <2>1
  <2>3. rank[p[rank[i]]] = rank[i]
    BY <2>2
  <2> HIDE DEF p, rank
  <2> QED
    BY <1>5, <2>1, <2>2, <2>3
<1>10. ASSUME NEW k \in 1 .. n, NEW l \in 1 .. n, k < l PROVE p[k] \in ahead[p[l]]
  <2>1. /\ p[k] \in I /\ p[l] \in I
        /\ Cardinality(ahead[p[k]]) = k - 1 /\ Cardinality(ahead[p[l]]) = l - 1
    BY <1>8
  <2> HIDE DEF p, n
  <2>2. p[k] # p[l]
    BY <1>10, <2>1
  <2>3. p[l] \notin ahead[p[k]]
    BY <1>3, <1>10, <2>1
  <2> QED
    BY <2>1, <2>2, <2>3
<1>11. p \in [1 .. n -> I]
  BY <1>8
<1> QED
  BY <1>9, <1>10, <1>11 DEF At

\* No number twice.
Distinct(list) == \A i, j \in DOMAIN list : list[i] = list[j] => i = j

\* r has the elements of list at the positions I, each after those ahead.
Follows(r, list, I, ahead) ==
    /\ ToSet(r) = {list[i] : i \in I}
    /\ \A k, l \in DOMAIN r : k < l =>
          \E i, j \in I : i \in ahead[j] /\ r[k] = list[i] /\ r[l] = list[j]

LEMMA OrderedList ==
    ASSUME NEW S, NEW list \in Seq(S), NEW I \in SUBSET DOMAIN list, NEW ahead, IsOrder(I, ahead)
    PROVE  /\ Ordered(list, ahead) \in Seq(S)
           /\ Follows(Ordered(list, ahead), list, I, ahead)
<1> DEFINE n == Cardinality(I)
           p == At(I, ahead)
<1>1. IsFiniteSet(I) /\ n \in Nat
  <2>1. IsFiniteSet(1 .. Len(list))
    BY FS_Interval
  <2>2. DOMAIN list = 1 .. Len(list)
    OBVIOUS
  <2>3. IsFiniteSet(I)
    BY <2>1, <2>2, FS_Subset
  <2> QED
    BY <2>3, FS_CardinalityType
<1>2. /\ p \in [1 .. n -> I]
      /\ \A i \in I : \E k \in 1 .. n : p[k] = i
      /\ \A k, l \in 1 .. n : k < l => p[k] \in ahead[p[l]]
  BY <1>1, Places
<1>3. DOMAIN ahead = I
  BY DEF IsOrder
<1>4. Ordered(list, ahead) = [k \in 1 .. n |-> list[p[k]]]
  BY <1>3 DEF Ordered, At
<1> HIDE DEF p, n
<1>5. \A k \in 1 .. n : list[p[k]] \in S
  BY <1>2
<1>6. Ordered(list, ahead) \in Seq(S)
  BY <1>1, <1>4, <1>5, IsASeq
<1>7. DOMAIN Ordered(list, ahead) = 1 .. n /\ \A k \in 1 .. n : Ordered(list, ahead)[k] = list[p[k]]
  BY <1>4
<1>8. ToSet(Ordered(list, ahead)) = {list[i] : i \in I}
  BY <1>2, <1>7 DEF ToSet
<1>9. ASSUME NEW k \in DOMAIN Ordered(list, ahead), NEW l \in DOMAIN Ordered(list, ahead), k < l
      PROVE  \E i, j \in I : /\ i \in ahead[j]
                             /\ Ordered(list, ahead)[k] = list[i]
                             /\ Ordered(list, ahead)[l] = list[j]
  <2>1. k \in 1 .. n /\ l \in 1 .. n
    BY <1>7
  <2>2. p[k] \in I /\ p[l] \in I /\ p[k] \in ahead[p[l]]
    BY <1>2, <1>9, <2>1
  <2> QED
    BY <1>7, <2>1, <2>2
<1> QED
  BY <1>6, <1>8, <1>9 DEF Follows

\* What the list is after sort: the same numbers, newest first.
Falls(list) == \A i, j \in DOMAIN list : i < j => list[i] > list[j]

LEMMA SortedList ==
    ASSUME NEW S \in SUBSET Int, NEW list \in Seq(S), Distinct(list)
    PROVE  /\ Sorted(list) \in Seq(S)
           /\ ToSet(Sorted(list)) = ToSet(list)
           /\ Falls(Sorted(list))
<1> DEFINE I == DOMAIN list
           ahead == [i \in I |->
                        {j \in I : \/ byNewest(list[j], list[i])
                                   \/ list[j] = list[i] /\ j < i}]
<1>1. I \subseteq Nat /\ \A i \in I : list[i] \in Int
  <2>1. list \in Seq(Int)
    BY SeqMonotonic
  <2> QED
    BY <2>1
<1>2. ahead \in [I -> SUBSET I]
  OBVIOUS
<1>3. \A i, j \in I : i \in ahead[j] <=> list[i] > list[j]
  <2> TAKE i \in I, j \in I
  <2>1. i \in ahead[j] <=> byNewest(list[i], list[j]) \/ (list[i] = list[j] /\ i < j)
    OBVIOUS
  <2>2. ~(list[i] = list[j] /\ i < j)
    BY <1>1 DEF Distinct
  <2> QED
    BY <2>1, <2>2 DEF byNewest
<1>4. Sorted(list) = Ordered(list, ahead)
  BY DEF Sorted
<1> HIDE DEF ahead, I
<1>5. ASSUME NEW i \in I, NEW j \in I, i # j PROVE i \in ahead[j] \/ j \in ahead[i]
  <2>1. list[i] # list[j]
    BY <1>5 DEF Distinct, I
  <2> QED
    BY <1>1, <1>3, <2>1
<1>6. ASSUME NEW i \in I, NEW j \in I, i \in ahead[j] PROVE ahead[i] \subseteq ahead[j]
  <2> SUFFICES ASSUME NEW h \in ahead[i] PROVE h \in ahead[j]
    OBVIOUS
  <2>1. h \in I
    BY <1>2
  <2> QED
    BY <1>1, <1>3, <1>6, <2>1
<1>9. IsOrder(I, ahead)
  BY <1>1, <1>2, <1>3, <1>5, <1>6 DEF IsOrder
<1>7. I \in SUBSET DOMAIN list
  BY DEF I
<1>8. Sorted(list) \in Seq(S) /\ Follows(Sorted(list), list, I, ahead)
  BY <1>4, <1>7, <1>9, OrderedList
<1> QED
  <2>1. ToSet(list) = {list[i] : i \in I}
    BY DEF ToSet, I
  <2> QED
    BY <1>3, <1>8, <2>1 DEF Falls, Follows

LEMMA WithoutList ==
    ASSUME NEW S, NEW list \in Seq(S), Distinct(list), NEW shown
    PROVE  /\ Without(list, shown) \in Seq(S)
           /\ ToSet(Without(list, shown)) = ToSet(list) \ shown
           /\ Distinct(Without(list, shown))
<1> DEFINE I == {i \in DOMAIN list : list[i] \notin shown}
           ahead == [i \in I |-> {j \in I : j < i}]
           w == Without(list, shown)
<1>1. I \in SUBSET DOMAIN list /\ I \subseteq Nat
  OBVIOUS
<1>2. w = Ordered(list, ahead)
  BY DEF Without
<1>3. {list[i] : i \in I} = ToSet(list) \ shown
  BY DEF ToSet
<1> HIDE DEF I, w
<1>4. /\ ahead \in [I -> SUBSET I]
      /\ \A i, j \in I : i \in ahead[j] <=> i < j
  OBVIOUS
<1> HIDE DEF ahead
<1>5. IsOrder(I, ahead)
  BY <1>1, <1>4 DEF IsOrder
<1>6. w \in Seq(S) /\ Follows(w, list, I, ahead)
  BY <1>1, <1>2, <1>5, OrderedList
<1>7. ASSUME NEW k \in DOMAIN w, NEW l \in DOMAIN w, k < l PROVE w[k] # w[l]
  BY <1>1, <1>4, <1>6, <1>7 DEF Distinct, Follows
<1>8. DOMAIN w \subseteq Nat
  BY <1>6
<1>9. Distinct(w)
  BY <1>7, <1>8 DEF Distinct
<1> QED
  BY <1>3, <1>6, <1>9 DEF w, Follows
-----------------------------------------------------------------------------
(* Lists *)

LEMMA OfIntegers ==
    ASSUME NEW a \in Int, NEW b \in Int, NEW list \in Seq(a .. b)
    PROVE  list \in Seq(Int)
<1>1. a .. b \subseteq Int
  OBVIOUS
<1> QED
  BY <1>1, SeqMonotonic

LEMMA FallsIsDistinct ==
    ASSUME NEW list \in Seq(Int), Falls(list)
    PROVE  Distinct(list)
BY DEF Falls, Distinct

\* The first of a list that falls is the newest, the last the oldest.
LEMMA Ends ==
    ASSUME NEW list \in Seq(Int), list # <<>>, Falls(list)
    PROVE  /\ Head(list) \in ToSet(list) /\ Last(list) \in ToSet(list)
           /\ \A n \in ToSet(list) : Last(list) =< n /\ n =< Head(list)
<1>1. Len(list) \in Nat \ {0} /\ DOMAIN list = 1 .. Len(list) /\ \A i \in 1 .. Len(list) : list[i] \in Int
  OBVIOUS
<1>2. Head(list) = list[1] /\ Last(list) = list[Len(list)]
  BY DEF Last
<1>3. ASSUME NEW n \in ToSet(list) PROVE Last(list) =< n /\ n =< Head(list)
  <2>1. PICK i \in 1 .. Len(list) : n = list[i]
    BY <1>1 DEF ToSet
  <2> DEFINE first == list[1]
             last == list[Len(list)]
  <2>2. n \in Int /\ first \in Int /\ last \in Int
    BY <1>1, <2>1
  <2>3. i = 1 \/ first > n
    BY <1>1, <2>1 DEF Falls
  <2>4. i = Len(list) \/ (i < Len(list) /\ Len(list) \in DOMAIN list)
    <3>1. Len(list) \in DOMAIN list
      BY <1>1
    <3>2. i \in Int /\ Len(list) \in Int /\ i =< Len(list)
      BY <2>1, <1>1
    <3> QED
      BY <3>1, <3>2
  <2>5. i = Len(list) \/ n > last
    BY <1>1, <2>1, <2>4 DEF Falls
  <2>6. Head(list) = first /\ Last(list) = last
    BY <1>2
  <2>7. (i = 1 => n = first) /\ (i = Len(list) => n = last)
    BY <2>1
  <2> HIDE DEF first, last
  <2> QED
    BY <2>2, <2>3, <2>5, <2>6, <2>7
<1>4. Head(list) \in ToSet(list) /\ Last(list) \in ToSet(list)
  <2>1. 1 \in DOMAIN list /\ Len(list) \in DOMAIN list
    BY <1>1
  <2> QED
    BY <1>2, <2>1 DEF ToSet
<1> QED
  BY <1>3, <1>4

LEMMA Joined ==
    ASSUME NEW S, NEW s \in Seq(S), NEW t \in Seq(S)
    PROVE  /\ s \o t \in Seq(S)
           /\ ToSet(s \o t) = ToSet(s) \cup ToSet(t)
           /\ Distinct(s) /\ Distinct(t) /\ ToSet(s) \cap ToSet(t) = {} => Distinct(s \o t)
<1> DEFINE r == s \o t
<1>1. /\ r \in Seq(S) /\ Len(r) = Len(s) + Len(t)
      /\ \A i \in 1 .. Len(s) + Len(t) : r[i] = IF i <= Len(s) THEN s[i] ELSE t[i - Len(s)]
  BY ConcatProperties
<1>2. /\ Len(s) \in Nat /\ DOMAIN s = 1 .. Len(s)
      /\ Len(t) \in Nat /\ DOMAIN t = 1 .. Len(t)
  OBVIOUS
<1> HIDE DEF r
<1>3. DOMAIN r = 1 .. Len(s) + Len(t)
  BY <1>1
<1>4. ASSUME NEW i \in DOMAIN r
      PROVE  \/ i \in DOMAIN s /\ r[i] = s[i]
             \/ i - Len(s) \in DOMAIN t /\ r[i] = t[i - Len(s)] /\ ~(i =< Len(s))
  BY <1>1, <1>2, <1>3
<1>5. ASSUME NEW i \in DOMAIN s PROVE i \in DOMAIN r /\ r[i] = s[i]
  BY <1>1, <1>2, <1>3
<1>6. ASSUME NEW i \in DOMAIN t PROVE Len(s) + i \in DOMAIN r /\ r[Len(s) + i] = t[i]
  BY <1>1, <1>2, <1>3
<1>7. ToSet(r) = ToSet(s) \cup ToSet(t)
  BY <1>4, <1>5, <1>6 DEF ToSet
<1>8. ASSUME Distinct(s), Distinct(t), ToSet(s) \cap ToSet(t) = {} PROVE Distinct(r)
  <2> SUFFICES ASSUME NEW i \in DOMAIN r, NEW j \in DOMAIN r, r[i] = r[j] PROVE i = j
    BY DEF Distinct
  <2>2. \/ i \in DOMAIN s /\ j \in DOMAIN s /\ s[i] = s[j]
        \/ i - Len(s) \in DOMAIN t /\ j - Len(s) \in DOMAIN t /\ t[i - Len(s)] = t[j - Len(s)]
    BY <1>4, <1>8 DEF ToSet
  <2> QED
    BY <1>2, <1>3, <1>8, <2>2 DEF Distinct
<1> QED
  BY <1>1, <1>7, <1>8 DEF r

\* Two lists that share no link, sorted together.
LEMMA Merged ==
    ASSUME NEW S \in SUBSET Int, NEW s \in Seq(S), NEW t \in Seq(S),
           Distinct(s), Distinct(t), ToSet(s) \cap ToSet(t) = {}
    PROVE  /\ Sorted(s \o t) \in Seq(S)
           /\ ToSet(Sorted(s \o t)) = ToSet(s) \cup ToSet(t)
           /\ Falls(Sorted(s \o t))
<1> DEFINE r == s \o t
<1>1. r \in Seq(S) /\ ToSet(r) = ToSet(s) \cup ToSet(t) /\ Distinct(r)
  BY Joined
<1> HIDE DEF r
<1>2. /\ Sorted(r) \in Seq(S) /\ Falls(Sorted(r))
      /\ ToSet(Sorted(r)) = ToSet(r)
  BY <1>1, SortedList
<1> QED
  BY <1>1, <1>2 DEF r

LEMMA One ==
    ASSUME NEW S, NEW n \in S
    PROVE  <<n>> \in Seq(S) /\ ToSet(<<n>>) = {n} /\ Distinct(<<n>>)
<1>1. <<n>> \in Seq(S) /\ DOMAIN <<n>> = {1} /\ <<n>>[1] = n
  OBVIOUS
<1> QED
  BY <1>1 DEF ToSet, Distinct

\* A newer link in front.
LEMMA InFront ==
    ASSUME NEW S \in SUBSET Int, NEW s \in Seq(S), NEW n \in S, Falls(s),
           s = <<>> \/ n > Head(s)
    PROVE  /\ <<n>> \o s \in Seq(S)
           /\ ToSet(<<n>> \o s) = {n} \cup ToSet(s)
           /\ Falls(<<n>> \o s)
<1> DEFINE r == <<n>> \o s
<1>1. <<n>> \in Seq(S) /\ Len(<<n>>) = 1 /\ <<n>>[1] = n /\ ToSet(<<n>>) = {n}
  BY One
<1>2. r \in Seq(S) /\ ToSet(r) = {n} \cup ToSet(s)
  <2> DEFINE f == <<n>>
  <2>1. f \in Seq(S) /\ ToSet(f) = {n}
    BY <1>1
  <2> HIDE DEF f
  <2>2. f \o s \in Seq(S) /\ ToSet(f \o s) = ToSet(f) \cup ToSet(s)
    BY <2>1, Joined
  <2> QED
    BY <2>1, <2>2 DEF f
<1>3. /\ Len(r) = 1 + Len(s)
      /\ \A i \in 1 .. 1 + Len(s) : r[i] = IF i <= 1 THEN n ELSE s[i - 1]
  BY <1>1, ConcatProperties
<1>4. s \in Seq(Int) /\ n \in Int
  BY SeqMonotonic
<1>5. Len(s) \in Nat /\ DOMAIN s = 1 .. Len(s) /\ \A i \in 1 .. Len(s) : s[i] \in Int
  BY <1>4
<1> HIDE DEF r
<1>6. ASSUME NEW i \in DOMAIN s PROVE n > s[i]
  <2>1. s # <<>> /\ s[i] \in ToSet(s)
    BY DEF ToSet
  <2>2. s[i] =< Head(s) /\ Head(s) \in Int
    BY <1>4, <1>5, <2>1, Ends DEF ToSet
  <2> QED
    BY <1>4, <1>5, <2>1, <2>2
<1>7. DOMAIN r = 1 .. 1 + Len(s)
  BY <1>2, <1>3
<1>8. Falls(r)
  <2> SUFFICES ASSUME NEW i \in DOMAIN r, NEW j \in DOMAIN r, i < j PROVE r[i] > r[j]
    BY DEF Falls
  <2>1. j - 1 \in DOMAIN s /\ r[j] = s[j - 1]
    BY <1>3, <1>5, <1>7
  <2>2. i = 1 \/ (i - 1 \in DOMAIN s /\ r[i] = s[i - 1])
    BY <1>3, <1>5, <1>7
  <2>3. i = 1 => r[i] = n
    BY <1>3, <1>5
  <2> QED
    BY <1>5, <1>6, <1>7, <2>1, <2>2, <2>3 DEF Falls
<1> QED
  BY <1>2, <1>8 DEF r
-----------------------------------------------------------------------------
(* Pages *)

LEMMA Smaller == \A a, b \in Int : Min({a, b}) = IF a =< b THEN a ELSE b
<1> TAKE a \in Int, b \in Int
<1> DEFINE least == IF a =< b THEN a ELSE b
<1>1. least \in {a, b} /\ \A y \in {a, b} : least =< y
  OBVIOUS
<1>2. \A x \in {a, b} : (\A y \in {a, b} : x =< y) => x = least
  OBVIOUS
<1> QED
  BY <1>1, <1>2 DEF Min

\* A page is the links right below before, or the newest; without a further
\* page it reaches down to #0.
LEMMA PageIs ==
    ASSUME NEW before \in Num \cup {None}, NEW last \in Num
    PROVE  LET below == IF before =< 0 THEN last + 1 ELSE before
               page == handleList(before, last)
           IN  \E k \in 1 .. below :
                  /\ page.links = [i \in 1 .. k |-> below - i]
                  /\ page.hasMore \in BOOLEAN
                  /\ ~page.hasMore => k = below
<1> DEFINE below == IF before =< 0 THEN last + 1 ELSE before
           rows == ListDesc(before, PageSize + 1, last)
           page == handleList(before, last)
           size == Min({PageSize + 1, below})
<1>1. below \in Nat \ {0} /\ PageSize \in Nat \ {0}
  BY FeedAssumption DEF Num, None
<1>2. size = IF PageSize + 1 =< below THEN PageSize + 1 ELSE below
  BY <1>1, Smaller
<1>3. rows = [i \in 1 .. size |-> below - i]
  BY DEF ListDesc
<1>4. page = [links |-> IF Len(rows) > PageSize THEN SubSeq(rows, 1, PageSize) ELSE rows,
              hasMore |-> Len(rows) > PageSize]
  BY DEF handleList
<1> HIDE DEF below, rows, page, size
<1>5. rows \in Seq(Int) /\ Len(rows) = size /\ size \in Nat \ {0}
  BY <1>1, <1>2, <1>3
<1>6. CASE PageSize + 1 =< below
  <2>1. SubSeq(rows, 1, PageSize) = [i \in 1 .. PageSize |-> below - i]
    BY <1>1, <1>2, <1>3, <1>5, <1>6
  <2>4. Len(rows) > PageSize
    BY <1>1, <1>2, <1>5, <1>6
  <2>2. page.hasMore = TRUE /\ page.links = [i \in 1 .. PageSize |-> below - i]
    BY <1>4, <2>1, <2>4
  <2>3. PageSize \in 1 .. below
    BY <1>1, <1>6
  <2> QED
    BY <2>2, <2>3 DEF below, page
<1>7. CASE ~(PageSize + 1 =< below)
  <2>1. page.hasMore = FALSE /\ page.links = [i \in 1 .. below |-> below - i]
    <3>1. ~(Len(rows) > PageSize) /\ size = below
      BY <1>1, <1>2, <1>5, <1>7
    <3>2. (Len(rows) > PageSize) = FALSE
      BY <3>1
    <3>3. page = [links |-> rows, hasMore |-> FALSE]
      BY <1>4, <3>2, Zenon
    <3> QED
      BY <1>3, <3>1, <3>3
  <2>2. below \in 1 .. below
    BY <1>1
  <2> QED
    BY <2>1, <2>2 DEF below, page
<1> QED
  BY <1>6, <1>7

\* Such a page falls and has no gap.
LEMMA Run ==
    ASSUME NEW below \in Int, NEW k \in 1 .. below
    PROVE  LET run == [i \in 1 .. k |-> below - i]
           IN  /\ run \in Seq(0 .. below - 1) /\ run # <<>>
               /\ Falls(run)
               /\ ToSet(run) = (below - k) .. (below - 1)
<1> DEFINE run == [i \in 1 .. k |-> below - i]
<1>1. k \in Nat \ {0} /\ \A i \in 1 .. k : below - i \in 0 .. below - 1
  OBVIOUS
<1>2. run \in Seq(0 .. below - 1) /\ run # <<>>
  BY <1>1
<1>3. DOMAIN run = 1 .. k /\ \A i \in 1 .. k : run[i] = below - i
  OBVIOUS
<1> HIDE DEF run
<1>4. Falls(run)
  BY <1>1, <1>3 DEF Falls
<1>5. ASSUME NEW n \in (below - k) .. (below - 1) PROVE \E i \in DOMAIN run : run[i] = n
  <2>1. below - n \in 1 .. k /\ below - (below - n) = n
    BY <1>1
  <2>2. below - n \in DOMAIN run /\ run[below - n] = n
    BY <1>3, <2>1
  <2> QED
    BY <2>2
<1>6. ASSUME NEW i \in DOMAIN run PROVE run[i] \in (below - k) .. (below - 1)
  BY <1>1, <1>3
<1>7. ToSet(run) = (below - k) .. (below - 1)
  BY <1>5, <1>6 DEF ToSet
<1> QED
  BY <1>2, <1>4, <1>7 DEF run
-----------------------------------------------------------------------------
(* The requests under way *)

\* No answer is from the future, and older links are asked for below one.
GoodCalls(cs, top) ==
    /\ cs \in Seq(Call)
    /\ \A i \in DOMAIN cs :
          /\ cs[i].seen =< top
          /\ cs[i].kind = "older" => cs[i].n \in 0 .. top
          /\ cs[i].kind \in {"link", "post"} => cs[i].n \in Num

LEMMA RemoveAtProperties ==
    ASSUME NEW S, NEW s \in Seq(S), NEW i \in DOMAIN s
    PROVE  /\ RemoveAt(s, i) \in Seq(S)
           /\ Len(RemoveAt(s, i)) = Len(s) - 1
           /\ \A j \in DOMAIN RemoveAt(s, i) : \E k \in DOMAIN s : RemoveAt(s, i)[j] = s[k]
<1> DEFINE before == SubSeq(s, 1, i - 1)
           after == SubSeq(s, i + 1, Len(s))
<1>1. Len(s) \in Nat /\ DOMAIN s = 1 .. Len(s) /\ i \in 1 .. Len(s)
  OBVIOUS
<1>2. /\ before \in Seq(S) /\ Len(before) = i - 1
      /\ \A j \in 1 .. i - 1 : before[j] = s[j]
  BY <1>1
<1>3. /\ after \in Seq(S) /\ Len(after) = Len(s) - i
      /\ \A j \in 1 .. Len(s) - i : after[j] = s[i + j]
  BY <1>1
<1>4. RemoveAt(s, i) = before \o after
  BY DEF RemoveAt
<1> HIDE DEF before, after
<1>5. /\ before \o after \in Seq(S) /\ Len(before \o after) = Len(s) - 1
      /\ ToSet(before \o after) = ToSet(before) \cup ToSet(after)
  <2>1. Len(before \o after) = Len(before) + Len(after)
    BY <1>2, <1>3, ConcatProperties
  <2> QED
    BY <1>1, <1>2, <1>3, <2>1, Joined
<1>6. ToSet(before) \subseteq ToSet(s)
  BY <1>1, <1>2 DEF ToSet
<1>7. ASSUME NEW j \in DOMAIN after PROVE \E k \in DOMAIN s : after[j] = s[k]
  <2>1. j \in 1 .. Len(s) - i /\ i + j \in DOMAIN s
    BY <1>1, <1>3
  <2> QED
    BY <1>3, <2>1
<1>8. ToSet(after) \subseteq ToSet(s)
  BY <1>7 DEF ToSet
<1> QED
  BY <1>4, <1>5, <1>6, <1>8 DEF ToSet

LEMMA RemoveKeeps ==
    ASSUME NEW cs, NEW top, GoodCalls(cs, top), NEW i \in DOMAIN cs
    PROVE  GoodCalls(RemoveAt(cs, i), top) /\ Len(RemoveAt(cs, i)) = Len(cs) - 1
<1>1. /\ RemoveAt(cs, i) \in Seq(Call)
      /\ Len(RemoveAt(cs, i)) = Len(cs) - 1
      /\ \A j \in DOMAIN RemoveAt(cs, i) : \E k \in DOMAIN cs : RemoveAt(cs, i)[j] = cs[k]
  BY RemoveAtProperties DEF GoodCalls
<1> QED
  BY <1>1 DEF GoodCalls

LEMMA AppendKeeps ==
    ASSUME NEW cs, NEW top, GoodCalls(cs, top), NEW c \in Call, c.seen =< top,
           c.kind = "older" => c.n \in 0 .. top,
           c.kind \in {"link", "post"} => c.n \in Num
    PROVE  GoodCalls(Append(cs, c), top) /\ Len(Append(cs, c)) = Len(cs) + 1
<1>1. /\ Append(cs, c) \in Seq(Call)
      /\ Len(Append(cs, c)) = Len(cs) + 1
      /\ \A j \in 1 .. Len(cs) : Append(cs, c)[j] = cs[j]
      /\ Append(cs, c)[Len(cs) + 1] = c
  BY AppendProperties DEF GoodCalls
<1>2. Len(cs) \in Nat /\ DOMAIN cs = 1 .. Len(cs)
  BY DEF GoodCalls
<1>3. \A j \in DOMAIN Append(cs, c) : j \in DOMAIN cs \/ j = Len(cs) + 1
  BY <1>1, <1>2
<1> QED
  BY <1>1, <1>2, <1>3 DEF GoodCalls

\* Nothing changes for requests when links are stored.
LEMMA LaterKeeps ==
    ASSUME NEW cs, NEW top \in Int, NEW later \in Int, GoodCalls(cs, top), top =< later
    PROVE  GoodCalls(cs, later)
<1>1. \A i \in DOMAIN cs : cs[i] \in Call
  BY DEF GoodCalls
<1>2. \A i \in DOMAIN cs : cs[i].seen \in Int
  BY <1>1 DEF Call, Num, None
<1> QED
  BY <1>2 DEF GoodCalls
-----------------------------------------------------------------------------
(* The list and the steps that change it *)

ListInv ==
    /\ NewestFirst
    /\ NothingSkipped
    /\ ButtonStays
    /\ base # None => links # <<>>

FeedInv == TypeOK /\ ListInv /\ GoodCalls(calls, newest)

LEMMA ListFrame ==
    ASSUME ListInv, UNCHANGED <<links, hasMore, base, strayed>>
    PROVE  ListInv'
BY DEF ListInv, NewestFirst, NothingSkipped, ButtonStays

\* The list as it is, and the end of a list that reaches #0.
LEMMA ListTypes ==
    ASSUME TypeOK, NewestFirst
    PROVE  /\ newest \in Nat /\ 0 .. newest \subseteq Num /\ 0 .. newest \in SUBSET Int
           /\ links \in Seq(0 .. newest) /\ Falls(links) /\ Distinct(links)
           /\ ToSet(links) \subseteq 0 .. newest
           /\ links # <<>> => /\ Last(links) \in ToSet(links)
                              /\ \A n \in ToSet(links) : Last(links) =< n /\ n =< Head(links)
<1>1. /\ newest \in Nat /\ 0 .. newest \subseteq Num /\ 0 .. newest \in SUBSET Int
      /\ links \in Seq(0 .. newest)
  BY FeedAssumption DEF TypeOK, Num
<1>2. links \in Seq(Int) /\ Falls(links)
  BY <1>1, SeqMonotonic DEF NewestFirst, Falls
<1>3. ToSet(links) \subseteq 0 .. newest
  BY <1>1 DEF ToSet
<1> QED
  BY <1>1, <1>2, <1>3, Ends, FallsIsDistinct

LEMMA EndsAtZero ==
    ASSUME NEW top \in Nat, NEW list \in Seq(0 .. top), Falls(list), 0 \in ToSet(list)
    PROVE  Last(list) = 0
<1>1. list \in Seq(Int) /\ list # <<>> /\ ToSet(list) \subseteq 0 .. top
  BY SeqMonotonic DEF ToSet
<1>2. Last(list) \in ToSet(list) /\ Last(list) =< 0
  BY <1>1, Ends
<1> QED
  BY <1>1, <1>2

LEMMA UpsertList ==
    ASSUME TypeOK, NewestFirst, NEW n \in 0 .. newest, upsert(n)
    PROVE  /\ links' \in Seq(0 .. newest)
           /\ Falls(links')
           /\ ToSet(links') = ToSet(links) \cup {n}
<1> DEFINE S == 0 .. newest
<1>1. S \in SUBSET Int /\ links \in Seq(S) /\ Falls(links) /\ Distinct(links)
  BY ListTypes
<1>2. links' = IF n \in ToSet(links) THEN links
               ELSE IF links = <<>> \/ n > Head(links) THEN <<n>> \o links
               ELSE Sorted(Append(links, n))
  BY DEF upsert
<1> HIDE DEF S
<1>3. n \in S
  BY DEF S
<1>4. CASE n \in ToSet(links)
  BY <1>1, <1>2, <1>4 DEF S
<1>5. CASE n \notin ToSet(links) /\ (links = <<>> \/ n > Head(links))
  <2>1. links' = <<n>> \o links
    BY <1>2, <1>5
  <2>2. <<n>> \o links \in Seq(S) /\ Falls(<<n>> \o links)
        /\ ToSet(<<n>> \o links) = {n} \cup ToSet(links)
    BY <1>1, <1>3, <1>5, InFront
  <2> QED
    BY <2>1, <2>2 DEF S
<1>6. CASE n \notin ToSet(links) /\ ~(links = <<>> \/ n > Head(links))
  <2> DEFINE one == <<n>>
  <2>1. links' = Sorted(links \o one)
    BY <1>1, <1>2, <1>3, <1>6, AppendIsConcat
  <2>2. one \in Seq(S) /\ ToSet(one) = {n} /\ Distinct(one)
    BY <1>3, One
  <2> HIDE DEF one
  <2>3. ToSet(links) \cap ToSet(one) = {}
    BY <1>6, <2>2
  <2>4. /\ Sorted(links \o one) \in Seq(S)
        /\ ToSet(Sorted(links \o one)) = ToSet(links) \cup ToSet(one)
        /\ Falls(Sorted(links \o one))
    BY <1>1, <2>2, <2>3, Merged
  <2> QED
    BY <2>1, <2>2, <2>4 DEF S
<1> QED
  BY <1>4, <1>5, <1>6

\* A link that comes alone and leaves no gap.
LEMMA UpsertStep ==
    ASSUME TypeOK, ListInv, NEW n \in 0 .. newest, upsert(n), UNCHANGED <<hasMore, base>>
    PROVE  ListInv'
<1>1. /\ links' \in Seq(0 .. newest) /\ Falls(links')
      /\ ToSet(links') = ToSet(links) \cup {n}
  BY UpsertList DEF ListInv
<1>2. /\ newest \in Nat /\ ToSet(links) \subseteq 0 .. newest
      /\ links # <<>> => /\ Last(links) \in ToSet(links)
                         /\ \A m \in ToSet(links) : Last(links) =< m
  BY ListTypes DEF ListInv
<1>3. links' # <<>>
  BY <1>1 DEF ToSet
<1>4. Last(links') \in ToSet(links')
  <2>1. links' \in Seq(Int)
    BY <1>1, <1>2, OfIntegers
  <2> QED
    BY <1>1, <1>3, <2>1, Ends
<1>5. strayed' = (strayed \/ LeavesGap(n))
  BY DEF upsert
<1>6. ASSUME base # None, ~strayed'
      PROVE  Last(links') .. base \subseteq ToSet(links')
  <2>1. ~strayed /\ ~LeavesGap(n) /\ links # <<>>
    BY <1>5, <1>6 DEF ListInv
  <2>2. Last(links) .. base \subseteq ToSet(links) /\ ~(n < Last(links) - 1)
    BY <1>6, <2>1 DEF ListInv, NothingSkipped, LeavesGap
  <2> SUFFICES ASSUME NEW m \in Last(links') .. base PROVE m \in ToSet(links')
    OBVIOUS
  <2>3. base \in Int /\ m \in Int /\ Last(links) \in Int /\ Last(links') =< m /\ m =< base
    <3>1. Last(links) \in Int /\ Last(links') \in Int
      BY <1>1, <1>2, <1>4, <2>1
    <3> QED
      BY <3>1 DEF TypeOK, Num, None
  <2>4. CASE m >= Last(links)
    BY <1>1, <2>2, <2>3, <2>4
  <2>5. CASE m < Last(links)
    <3>1. Last(links') = n
      BY <1>1, <1>2, <1>4, <2>1, <2>3, <2>5
    <3> QED
      BY <1>1, <2>2, <2>3, <2>5, <3>1
  <2> QED
    BY <2>3, <2>4, <2>5
<1>7. ASSUME base # None, ~strayed', ~hasMore
      PROVE  Last(links') = 0
  <2>1. Last(links) = 0 /\ links # <<>>
    BY <1>5, <1>7 DEF ListInv, ButtonStays
  <2>2. 0 \in ToSet(links')
    BY <1>1, <1>2, <2>1
  <2> QED
    BY <1>1, <1>2, <2>2, EndsAtZero
<1> QED
  BY <1>1, <1>3, <1>6, <1>7 DEF ListInv, NewestFirst, Falls, NothingSkipped, ButtonStays

\* What a request is about.
LEMMA CallTypes ==
    ASSUME TypeOK, GoodCalls(calls, newest), NEW i \in DOMAIN calls
    PROVE  /\ newest \in Nat /\ 0 .. newest \subseteq Num
           /\ calls[i].seen \in Num \cup {None} /\ calls[i].n \in Num \cup {None}
           /\ calls[i].seen # None => calls[i].seen \in 0 .. newest
           /\ calls[i].kind = "older" => calls[i].n \in 0 .. newest
           /\ calls[i].kind \in {"link", "post"} => calls[i].n \in Num
<1>1. newest \in Nat /\ 0 .. newest \subseteq Num
  BY FeedAssumption DEF TypeOK, Num
<1>2. calls[i] \in Call
  BY DEF GoodCalls
<1>3. calls[i].seen \in Num \cup {None} /\ calls[i].n \in Num \cup {None}
  BY <1>2 DEF Call
<1> QED
  BY <1>1, <1>3 DEF GoodCalls, Num, None

\* The first page takes the place of the list.
LEMMA LoadedStep ==
    ASSUME TypeOK, ListInv, GoodCalls(calls, newest), NEW i \in DOMAIN calls, Loaded(i)
    PROVE  links' \in Seq(0 .. newest) /\ hasMore' \in BOOLEAN /\ ListInv'
<1> DEFINE last == calls[i].seen
<1>1. last \in 0 .. newest /\ last \in Num /\ newest \in Nat
  BY CallTypes DEF Loaded
<1>2. /\ links' = handleList(None, last).links /\ hasMore' = handleList(None, last).hasMore
      /\ base' = last
  BY DEF Loaded
<1> HIDE DEF last
<1>3. PICK k \in 1 .. last + 1 :
         /\ handleList(None, last).links = [j \in 1 .. k |-> (last + 1) - j]
         /\ handleList(None, last).hasMore \in BOOLEAN
         /\ ~handleList(None, last).hasMore => k = last + 1
  <2>1. None \in Num \cup {None} /\ None =< 0
    BY DEF None
  <2> QED
    BY <1>1, <2>1, PageIs
<1>4. /\ links' \in Seq(0 .. last) /\ links' # <<>> /\ Falls(links')
      /\ ToSet(links') = (last + 1 - k) .. last
  <2> DEFINE run == [j \in 1 .. k |-> (last + 1) - j]
  <2>1. last + 1 \in Int /\ (last + 1) - 1 = last /\ (last + 1) - k = last + 1 - k
    BY <1>1
  <2>2. /\ run \in Seq(0 .. (last + 1) - 1) /\ run # <<>> /\ Falls(run)
        /\ ToSet(run) = ((last + 1) - k) .. ((last + 1) - 1)
    BY <2>1, Run
  <2>3. links' = run
    BY <1>2, <1>3
  <2> HIDE DEF run
  <2> QED
    BY <2>1, <2>2, <2>3
<1>5. links' \in Seq(0 .. newest)
  BY <1>1, <1>4, SeqMonotonic
<1>6. Last(links') \in ToSet(links') /\ Last(links') .. last \subseteq ToSet(links')
  <2>1. links' \in Seq(Int)
    BY <1>1, <1>5, OfIntegers
  <2>2. Last(links') \in ToSet(links')
    BY <1>4, <2>1, Ends
  <2> QED
    BY <1>1, <1>4, <2>2
<1>7. ~hasMore' => Last(links') = 0
  <2> SUFFICES ASSUME ~hasMore' PROVE Last(links') = 0
    OBVIOUS
  <2>1. 0 \in ToSet(links')
    BY <1>1, <1>2, <1>3, <1>4
  <2> QED
    BY <1>1, <1>5, <1>4, <2>1, EndsAtZero
<1> QED
  BY <1>2, <1>3, <1>4, <1>5, <1>6, <1>7
  DEF ListInv, NewestFirst, Falls, NothingSkipped, ButtonStays

\* The older page joins the list.
LEMMA OlderStep ==
    ASSUME TypeOK, ListInv, GoodCalls(calls, newest), NEW i \in DOMAIN calls, LoadedOlder(i)
    PROVE  links' \in Seq(0 .. newest) /\ hasMore' \in BOOLEAN /\ ListInv'
<1> DEFINE S == 0 .. newest
           n == calls[i].n
           last == calls[i].seen
           page == handleList(n, last)
           more == Without(page.links, ToSet(links))
           below == IF n =< 0 THEN last + 1 ELSE n
<1>1. n \in 0 .. newest /\ n \in Num /\ last \in 0 .. newest /\ last \in Num /\ newest \in Nat
  BY CallTypes DEF LoadedOlder
<1>2. /\ links' = Sorted(links \o more) /\ hasMore' = page.hasMore
      /\ strayed' = (strayed \/ (links # <<>> /\ n < Last(links)))
      /\ base' = base
  BY DEF LoadedOlder
<1>3. /\ S \in SUBSET Int /\ links \in Seq(S) /\ Distinct(links) /\ ToSet(links) \subseteq S
      /\ links # <<>> => /\ Last(links) \in ToSet(links)
                         /\ \A m \in ToSet(links) : Last(links) =< m
  BY ListTypes DEF ListInv
<1> HIDE DEF n, last
<1>4. PICK k \in 1 .. below :
         /\ page.links = [j \in 1 .. k |-> below - j]
         /\ page.hasMore \in BOOLEAN
         /\ ~page.hasMore => k = below
  BY <1>1, PageIs
<1>5. below \in Nat /\ below - 1 \in 0 .. newest
  BY <1>1
<1> HIDE DEF page, below, S, more
<1>6. /\ page.links \in Seq(S) /\ Distinct(page.links)
      /\ ToSet(page.links) = (below - k) .. (below - 1)
  <2> DEFINE run == [j \in 1 .. k |-> below - j]
  <2>1. /\ run \in Seq(0 .. below - 1) /\ Falls(run)
        /\ ToSet(run) = (below - k) .. (below - 1)
    BY <1>5, Run
  <2> HIDE DEF run
  <2>2. Distinct(run)
    BY <1>5, <2>1, OfIntegers, FallsIsDistinct
  <2>3. 0 .. below - 1 \subseteq S
    BY <1>1, <1>5 DEF S
  <2>4. run \in Seq(S)
    BY <2>1, <2>3, SeqMonotonic
  <2> QED
    BY <1>4, <2>1, <2>2, <2>4 DEF run
<1>7. more \in Seq(S) /\ Distinct(more) /\ ToSet(more) = ToSet(page.links) \ ToSet(links)
  BY <1>6, WithoutList DEF more
<1>8. /\ links' \in Seq(S) /\ Falls(links')
      /\ ToSet(links') = ToSet(links) \cup ToSet(page.links)
  <2>1. ToSet(links) \cap ToSet(more) = {}
    BY <1>7
  <2>2. /\ Sorted(links \o more) \in Seq(S) /\ Falls(Sorted(links \o more))
        /\ ToSet(Sorted(links \o more)) = ToSet(links) \cup ToSet(more)
    BY <1>3, <1>7, <2>1, Merged
  <2> QED
    BY <1>2, <1>7, <2>2
<1>9. base # None => links # <<>>
  BY DEF ListInv
<1>10. base # None => links' # <<>>
  BY <1>3, <1>8, <1>9 DEF ToSet
<1>11. links' # <<>> => Last(links') \in ToSet(links')
  <2>1. links' \in Seq(Int)
    BY <1>1, <1>8, OfIntegers DEF S
  <2> QED
    BY <1>8, <2>1, Ends
<1>12. ASSUME base # None, ~strayed' PROVE Last(links) =< n /\ ~strayed /\ Last(links) \in S
  <2>1. ~strayed /\ ~(n < Last(links)) /\ Last(links) \in S
    BY <1>2, <1>3, <1>9, <1>12
  <2> QED
    BY <1>1, <2>1 DEF S
<1>13. ASSUME base # None, ~strayed' PROVE Last(links') .. base \subseteq ToSet(links')
  <2> SUFFICES ASSUME NEW m \in Last(links') .. base PROVE m \in ToSet(links')
    OBVIOUS
  <2>1. /\ Last(links') \in ToSet(links') /\ Last(links') \in S
        /\ Last(links) .. base \subseteq ToSet(links)
    BY <1>8, <1>10, <1>11, <1>12, <1>13, <1>3, <1>6 DEF ListInv, NothingSkipped, ToSet
  <2>2. /\ base \in Int /\ m \in Int /\ Last(links) \in Int /\ Last(links') \in Int
        /\ Last(links') =< m /\ m =< base
    <3>1. Last(links) \in Int /\ Last(links') \in Int
      BY <1>3, <1>12, <1>13, <2>1
    <3>2. base \in Int
      BY DEF TypeOK, Num, None
    <3> QED
      BY <3>1, <3>2
  <2>3. CASE m >= Last(links)
    BY <1>8, <2>1, <2>2, <2>3
  <2>4. CASE m < Last(links)
    <3>1. Last(links') \notin ToSet(links)
      <4>1. \A h \in ToSet(links) : Last(links) =< h
        BY <1>3, <1>9, <1>13
      <4> QED
        BY <2>2, <2>4, <4>1
    <3>2. Last(links') \in (below - k) .. (below - 1)
      BY <1>6, <1>8, <2>1, <3>1
    <3>3. n > 0 /\ below = n
      <4>1. Last(links) > 0
        BY <1>1, <2>1, <2>2, <2>4 DEF S
      <4> QED
        BY <1>1, <1>12, <1>13, <2>2, <4>1 DEF below
    <3>4. m \in (below - k) .. (below - 1)
      BY <1>1, <1>5, <1>12, <1>13, <2>2, <2>4, <3>2, <3>3
    <3> QED
      BY <1>6, <1>8, <3>4
  <2> QED
    BY <2>2, <2>3, <2>4
<1>14. ASSUME base # None, ~strayed', ~hasMore' PROVE Last(links') = 0
  <2>1. 0 \in ToSet(links')
    <3>1. CASE n = 0
      <4>1. Last(links) = 0
        BY <1>1, <1>12, <1>14, <3>1 DEF S
      <4> QED
        BY <1>3, <1>8, <1>9, <1>14, <4>1
    <3>2. CASE n # 0
      <4>1. k = below /\ below > 0
        BY <1>1, <1>2, <1>4, <1>14, <3>2 DEF below
      <4>2. 0 \in (below - k) .. (below - 1)
        BY <1>5, <4>1
      <4> QED
        BY <1>6, <1>8, <4>2
    <3> QED
      BY <3>1, <3>2
  <2> QED
    BY <1>1, <1>8, <2>1, EndsAtZero DEF S
<1>15. hasMore' \in BOOLEAN /\ links' \in Seq(0 .. newest)
  BY <1>2, <1>4, <1>8 DEF S
<1> QED
  BY <1>2, <1>8, <1>10, <1>13, <1>14, <1>15
  DEF ListInv, NewestFirst, Falls, NothingSkipped, ButtonStays

(* The effect asks for at most one link more.                              *)
LEMMA EffectStep ==
    ASSUME TypeOK, NEW others, GoodCalls(others, newest), Effect(others)
    PROVE  GoodCalls(calls', newest) /\ Len(calls') =< Len(others) + 1
<1> DEFINE call == NewCall("link", highlight)
<1>1. calls' = others \/ (calls' = Append(others, call) /\ highlight # None)
  BY DEF Effect
<1>2. Len(others) \in Nat
  BY DEF GoodCalls
<1>3. ASSUME highlight # None
      PROVE  call \in Call /\ call.seen =< newest /\ call.kind = "link" /\ call.n \in Num
  BY <1>3, FeedAssumption DEF NewCall, Call, TypeOK, Num, None
<1> HIDE DEF call
<1>4. ASSUME highlight # None
      PROVE  /\ GoodCalls(Append(others, call), newest)
             /\ Len(Append(others, call)) = Len(others) + 1
  <2>1. call.kind # "older"
    BY <1>3, <1>4
  <2> QED
    BY <1>3, <1>4, <2>1, AppendKeeps
<1>5. CASE calls' = others
  BY <1>2, <1>5
<1>6. CASE calls' = Append(others, call) /\ highlight # None
  <2>1. Len(Append(others, call)) =< Len(others) + 1
    BY <1>2, <1>4, <1>6
  <2> QED
    BY <1>4, <1>6, <2>1
<1> QED
  BY <1>1, <1>5, <1>6

\* A request that is answered or fails makes room for that.
LEMMA EffectAfter ==
    ASSUME TypeOK, GoodCalls(calls, newest), NEW i \in DOMAIN calls, Effect(RemoveAt(calls, i))
    PROVE  GoodCalls(calls', newest) /\ Len(calls') =< MaxCalls
<1> DEFINE others == RemoveAt(calls, i)
<1>1. GoodCalls(others, newest) /\ Len(others) = Len(calls) - 1
  BY RemoveKeeps
<1> HIDE DEF others
<1>2. GoodCalls(calls', newest) /\ Len(calls') =< Len(others) + 1
  BY <1>1, EffectStep DEF others
<1>3. Len(calls) \in Nat /\ Len(calls') \in Nat /\ Len(calls) =< MaxCalls /\ MaxCalls \in Nat
  BY <1>2, FeedAssumption DEF TypeOK, GoodCalls
<1> QED
  BY <1>1, <1>2, <1>3
-----------------------------------------------------------------------------
(* The inductive invariant *)

LEMMA FeedInit == Init => FeedInv
<1> SUFFICES ASSUME Init PROVE FeedInv
  OBVIOUS
<1> USE DEF Init
<1>1. newest \in Nat /\ 0 .. newest \subseteq Num /\ settled \subseteq 0 .. newest
  BY FeedAssumption DEF Num, None
<1>2. NewCall("first", None) \in Call /\ NewCall("first", None).seen = None
      /\ NewCall("first", None).kind = "first"
  BY DEF NewCall, Call
<1>3. GoodCalls(calls, newest) /\ Len(calls) = 1
  <2> DEFINE call == NewCall("first", None)
  <2>1. calls = <<call>> /\ call \in Call /\ call.seen =< newest /\ call.kind = "first"
    BY <1>1, <1>2 DEF None
  <2> HIDE DEF call
  <2>2. calls \in Seq(Call) /\ DOMAIN calls = {1} /\ calls[1] = call /\ Len(calls) = 1
    BY <2>1
  <2> QED
    BY <2>1, <2>2 DEF GoodCalls
<1>4. TypeOK
  <2>1. Len(calls) =< MaxCalls
    BY <1>3, FeedAssumption
  <2>2. links \in Seq(0 .. newest) /\ calls \in Seq(Call)
    BY <1>3, EmptySeq DEF GoodCalls
  <2>3. newest \in Num /\ highlight \in Num \cup {None} /\ base \in Num \cup {None}
    OBVIOUS
  <2>4. hasMore \in BOOLEAN /\ loading \in BOOLEAN /\ strayed \in BOOLEAN
    OBVIOUS
  <2> QED
    BY <1>1, <2>1, <2>2, <2>3, <2>4 DEF TypeOK
<1>5. ListInv
  BY DEF ListInv, NewestFirst, NothingSkipped, ButtonStays
<1> QED
  BY <1>3, <1>4, <1>5 DEF FeedInv

\* A step of the page after which the requests are good, the list is typed and
\* the store is as it was.
LEMMA PageTypes ==
    ASSUME TypeOK, UNCHANGED <<newest, highlight>>,
           settled' \subseteq 0 .. newest, links' \in Seq(0 .. newest),
           hasMore' \in BOOLEAN, loading' \in BOOLEAN, strayed' \in BOOLEAN,
           base' \in Num \cup {None},
           GoodCalls(calls', newest), Len(calls') =< MaxCalls
    PROVE  TypeOK' /\ GoodCalls(calls, newest)'
BY DEF TypeOK, GoodCalls

LEMMA FeedNext == FeedInv /\ [Next]_vars => FeedInv'
<1> SUFFICES ASSUME FeedInv, [Next]_vars PROVE FeedInv'
  OBVIOUS
<1> USE DEF FeedInv
<1>0. /\ newest \in Nat /\ newest \in Num /\ settled \subseteq 0 .. newest
      /\ links \in Seq(0 .. newest) /\ hasMore \in BOOLEAN /\ loading \in BOOLEAN
      /\ strayed \in BOOLEAN /\ base \in Num \cup {None} /\ Len(calls) =< MaxCalls
      /\ Len(calls) \in Nat /\ MaxCalls \in Nat
      /\ NewestFirst
  BY FeedAssumption DEF TypeOK, Num, ListInv
<1>1. ASSUME NEW i \in DOMAIN calls, Answer(i) PROVE FeedInv'
  <2>1. calls[i] \in Call
    BY DEF GoodCalls
  <2>2. [calls[i] EXCEPT !.seen = newest] \in Call
    BY <1>0, <2>1 DEF Call
  <2>3. calls' \in Seq(Call) /\ Len(calls') = Len(calls)
    BY <1>1, <2>2 DEF Answer, GoodCalls
  <2>4. ASSUME NEW j \in DOMAIN calls'
        PROVE  /\ j \in DOMAIN calls
               /\ calls'[j].kind = calls[j].kind /\ calls'[j].n = calls[j].n
               /\ calls'[j].seen = calls[j].seen \/ calls'[j].seen = newest
    <3>1. j \in DOMAIN calls
      BY <1>1 DEF Answer
    <3>2. calls'[j] = calls[j] \/ calls'[j] = [calls[j] EXCEPT !.seen = newest]
      BY <1>1, <3>1 DEF Answer
    <3>3. calls[j] \in Call
      BY <3>1 DEF GoodCalls
    <3> QED
      BY <3>1, <3>2, <3>3 DEF Call
  <2>5. GoodCalls(calls', newest)
    BY <1>0, <2>3, <2>4 DEF GoodCalls
  <2>6. TypeOK' /\ GoodCalls(calls, newest)'
    BY <1>0, <1>1, <2>3, <2>5, PageTypes DEF Answer, storeVars
  <2> QED
    BY <1>1, <2>6, ListFrame DEF Answer
<1>2. ASSUME NEW i \in DOMAIN calls, Loaded(i) PROVE FeedInv'
  <2>1. GoodCalls(calls', newest) /\ Len(calls') =< MaxCalls
    BY <1>2, EffectAfter DEF Loaded
  <2>2. links' \in Seq(0 .. newest) /\ hasMore' \in BOOLEAN /\ ListInv'
    BY <1>2, LoadedStep
  <2>3. base' \in Num \cup {None}
    BY <1>2, CallTypes DEF Loaded
  <2>4. TypeOK' /\ GoodCalls(calls, newest)'
    BY <1>0, <1>2, <2>1, <2>2, <2>3, PageTypes DEF Loaded, storeVars
  <2> QED
    BY <2>2, <2>4
<1>3. ASSUME NEW i \in DOMAIN calls, LoadedOlder(i) PROVE FeedInv'
  <2>1. GoodCalls(calls', newest) /\ Len(calls') =< MaxCalls
    BY <1>3, EffectAfter DEF LoadedOlder
  <2>2. links' \in Seq(0 .. newest) /\ hasMore' \in BOOLEAN /\ ListInv'
    BY <1>3, OlderStep
  <2>3. strayed' \in BOOLEAN /\ loading' \in BOOLEAN /\ base' = base
        /\ UNCHANGED <<newest, settled, highlight>>
    BY <1>3 DEF LoadedOlder, storeVars
  <2>4. TypeOK' /\ GoodCalls(calls, newest)'
    BY <1>0, <2>1, <2>2, <2>3, PageTypes
  <2> QED
    BY <2>2, <2>4
<1>4. ASSUME NEW i \in DOMAIN calls, LoadFails(i) PROVE FeedInv'
  <2>1. GoodCalls(calls', newest) /\ Len(calls') =< MaxCalls
    BY <1>4, EffectAfter DEF LoadFails
  <2>2. TypeOK' /\ GoodCalls(calls, newest)'
    BY <1>0, <1>4, <2>1, PageTypes DEF LoadFails, storeVars
  <2> QED
    BY <1>4, <2>2, ListFrame DEF LoadFails
<1>5. ASSUME NEW i \in DOMAIN calls, GotLink(i) PROVE FeedInv'
  <2>1. GoodCalls(calls', newest) /\ Len(calls') =< MaxCalls
    BY <1>5, EffectAfter DEF GotLink
  <2>2. UNCHANGED <<newest, settled, highlight, hasMore, loading, base>>
    BY <1>5 DEF GotLink, storeVars
  <2>3. CASE calls[i].n =< calls[i].seen
    <3>1. calls[i].n \in 0 .. newest
      <4>1. calls[i].seen \in 0 .. newest /\ calls[i].n \in Num
        BY <1>5, CallTypes DEF GotLink
      <4> QED
        BY <1>0, <2>3, <4>1 DEF Num
    <3>2. upsert(calls[i].n)
      BY <1>5, <2>3 DEF GotLink
    <3>3. links' \in Seq(0 .. newest)
      BY <1>0, <3>1, <3>2, UpsertList
    <3>4. ListInv'
      BY <2>2, <3>1, <3>2, UpsertStep
    <3>5. strayed' \in BOOLEAN
      BY <3>2 DEF upsert
    <3>6. TypeOK' /\ GoodCalls(calls, newest)'
      BY <1>0, <2>1, <2>2, <3>3, <3>5, PageTypes
    <3> QED
      BY <3>4, <3>6
  <2>4. CASE ~(calls[i].n =< calls[i].seen)
    <3>1. UNCHANGED <<links, strayed>>
      BY <1>5, <2>4 DEF GotLink
    <3>2. TypeOK' /\ GoodCalls(calls, newest)'
      BY <1>0, <2>1, <2>2, <3>1, PageTypes
    <3> QED
      BY <2>2, <3>1, <3>2, ListFrame
  <2> QED
    BY <2>3, <2>4
<1>6. ASSUME NEW i \in DOMAIN calls, LinkFails(i) PROVE FeedInv'
  <2>1. GoodCalls(calls', newest) /\ Len(calls') = Len(calls) - 1
    BY <1>6, RemoveKeeps DEF LinkFails
  <2>2. Len(calls') =< MaxCalls
    BY <1>0, <2>1
  <2>3. TypeOK' /\ GoodCalls(calls, newest)'
    BY <1>0, <1>6, <2>1, <2>2, PageTypes DEF LinkFails, storeVars
  <2> QED
    BY <1>6, <2>3, ListFrame DEF LinkFails
<1>7. CASE LoadOlder
  <2> DEFINE call == NewCall("older", Last(links))
  <2>1. Last(links) \in 0 .. newest /\ 0 .. newest \subseteq Num
    BY <1>0, <1>7, ListTypes DEF LoadOlder
  <2>2. call \in Call /\ call.seen =< newest /\ call.kind = "older" /\ call.n \in 0 .. newest
    BY <1>0, <2>1 DEF NewCall, Call, None
  <2> HIDE DEF call
  <2>3. GoodCalls(Append(calls, call), newest) /\ Len(Append(calls, call)) = Len(calls) + 1
    <3>1. call.kind \notin {"link", "post"}
      BY <2>2
    <3> QED
      BY <2>2, <3>1, AppendKeeps
  <2>4. calls' = Append(calls, call) /\ Len(calls) < MaxCalls
    BY <1>7 DEF LoadOlder, call
  <2>5. GoodCalls(calls', newest) /\ Len(calls') =< MaxCalls
    BY <1>0, <2>3, <2>4
  <2>6. TypeOK' /\ GoodCalls(calls, newest)'
    BY <1>0, <1>7, <2>5, PageTypes DEF LoadOlder, storeVars
  <2> QED
    BY <1>7, <2>6, ListFrame DEF LoadOlder
<1>8. CASE OtherSubmits \/ Submit
  <2>1. /\ newest' = newest + 1 /\ newest < MaxLinks
        /\ UNCHANGED <<settled, links, hasMore, loading, highlight, base, strayed>>
    BY <1>8 DEF OtherSubmits, Submit, Store
  <2>2. newest' \in Num /\ newest =< newest' /\ 0 .. newest \subseteq 0 .. newest'
    BY <1>0, <2>1, FeedAssumption DEF Num
  <2>3. GoodCalls(calls, newest')
    BY <1>0, <2>1, <2>2, LaterKeeps
  <2>4. GoodCalls(calls', newest') /\ Len(calls') =< MaxCalls
    <3>1. CASE OtherSubmits
      BY <1>0, <2>3, <3>1 DEF OtherSubmits
    <3>2. CASE Submit
      <4> DEFINE call == NewCall("post", newest')
      <4>1. call \in Call /\ call.seen =< newest' /\ call.kind = "post" /\ call.n \in Num
        BY <1>0, <2>1, <2>2 DEF NewCall, Call, None
      <4> HIDE DEF call
      <4>2. call.kind # "older"
        BY <4>1
      <4>3. GoodCalls(Append(calls, call), newest') /\ Len(Append(calls, call)) = Len(calls) + 1
        BY <2>3, <4>1, <4>2, AppendKeeps
      <4>4. calls' = Append(calls, call) /\ Len(calls) < MaxCalls
        BY <3>2 DEF Submit, call
      <4> QED
        BY <1>0, <4>3, <4>4
    <3> QED
      BY <1>8, <3>1, <3>2
  <2>5. links \in Seq(0 .. newest') /\ settled \subseteq 0 .. newest'
    BY <1>0, <2>2, SeqMonotonic
  <2>6. TypeOK'
    BY <2>1, <2>2, <2>4, <2>5 DEF TypeOK, GoodCalls
  <2> QED
    BY <2>1, <2>4, <2>6, ListFrame
<1>9. CASE OnReconnect
  <2> DEFINE call == NewCall("first", None)
  <2>1. call \in Call /\ call.seen =< newest /\ call.kind = "first"
    BY <1>0 DEF NewCall, Call, None
  <2> HIDE DEF call
  <2>2. call.kind \notin {"older", "link", "post"}
    BY <2>1
  <2>3. GoodCalls(Append(calls, call), newest) /\ Len(Append(calls, call)) = Len(calls) + 1
    BY <2>1, <2>2, AppendKeeps
  <2>4. calls' = Append(calls, call) /\ Len(calls) < MaxCalls
    BY <1>9 DEF OnReconnect, call
  <2>5. GoodCalls(calls', newest) /\ Len(calls') =< MaxCalls
    BY <1>0, <2>3, <2>4
  <2>6. TypeOK' /\ GoodCalls(calls, newest)'
    BY <1>0, <1>9, <2>5, PageTypes DEF OnReconnect, storeVars
  <2> QED
    BY <1>9, <2>6, ListFrame DEF OnReconnect
<1>10. ASSUME NEW n \in Num, OnLink(n) PROVE FeedInv'
  <2>1. /\ n \in 0 .. newest /\ upsert(n) /\ settled' = settled \cup {n}
        /\ UNCHANGED <<newest, hasMore, loading, highlight, base>>
    BY <1>10 DEF OnLink, Settle
  <2>2. /\ links' \in Seq(0 .. newest) /\ ToSet(links') = ToSet(links) \cup {n}
    BY <1>0, <2>1, UpsertList
  <2>3. calls' = calls    \* the list has only grown, so the effect has no reason to run
    <3>1. Shown(links) => Shown(links')
      BY <2>2 DEF Shown
    <3> QED
      BY <1>10, <2>1, <3>1 DEF OnLink, Effect, Shown
  <2>4. ListInv'
    BY <2>1, UpsertStep
  <2>5. strayed' \in BOOLEAN
    BY <2>1 DEF upsert
  <2>6. TypeOK' /\ GoodCalls(calls, newest)'
    BY <1>0, <2>1, <2>2, <2>3, <2>5, PageTypes
  <2> QED
    BY <2>4, <2>6
<1>11. ASSUME NEW n \in Num, Unheard(n) PROVE FeedInv'
  <2>1. TypeOK' /\ GoodCalls(calls, newest)'
    BY <1>0, <1>11, PageTypes DEF Unheard, Settle
  <2> QED
    BY <1>11, <2>1, ListFrame DEF Unheard
<1>12. CASE UNCHANGED vars
  <2>1. TypeOK' /\ GoodCalls(calls, newest)'
    BY <1>0, <1>12, PageTypes DEF vars, storeVars
  <2> QED
    BY <1>12, <2>1, ListFrame DEF vars
<1> QED
  BY <1>1, <1>2, <1>3, <1>4, <1>5, <1>6, <1>7, <1>8, <1>9, <1>10, <1>11, <1>12 DEF Next

LEMMA FeedInvariant == Spec => []FeedInv
BY FeedInit, FeedNext, PTL DEF Spec

(* Every variable of Feed keeps its type; among it that the page never has *)
(* more requests under way than it may, though the effect asks on its own. *)
THEOREM FeedTypeCorrect == Spec => []TypeOK
<1>1. FeedInv => TypeOK
  BY DEF FeedInv
<1> QED
  BY <1>1, FeedInvariant, PTL

(* The list shows each link once and newest first (byNewest, the filter of *)
(* loadOlder), for pages of any size and answers in any order.             *)
THEOREM ListIsNewestFirst == Spec => []NewestFirst
<1>1. FeedInv => NewestFirst
  BY DEF FeedInv, ListInv
<1> QED
  BY <1>1, FeedInvariant, PTL

(* A list that did not stray skips nothing from the newest link of its     *)
(* first page down to the oldest one shown (handleList, loadOlder).        *)
THEOREM ListSkipsNothing == Spec => []NothingSkipped
<1>1. FeedInv => NothingSkipped
  BY DEF FeedInv, ListInv
<1> QED
  BY <1>1, FeedInvariant, PTL

(* While older links are missing the button for them stays (the extra row  *)
(* of handleList).                                                         *)
THEOREM ButtonStaysOn == Spec => []ButtonStays
<1>1. FeedInv => ButtonStays
  BY DEF FeedInv, ListInv
<1> QED
  BY <1>1, FeedInvariant, PTL
=============================================================================
