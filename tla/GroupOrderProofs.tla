-------------------------- MODULE GroupOrderProofs --------------------------
(***************************************************************************)
(* Arrangements of categories: an index for every category and a category  *)
(* at every index, whatever gaps and ties the orders have; and what adding *)
(* and deleting one leaves as it was.                                      *)
(***************************************************************************)
EXTENDS GroupOrder, FiniteSetTheorems, SequenceTheorems, TLAPS

\* Some categories and their orders, as LocalStore holds them.
LEMMA OrderFinite ==
    ASSUME NEW o, IsOrder(o)
    PROVE  /\ IsFiniteSet(DOMAIN o) /\ Count(o) \in Nat
           /\ \A c : IsFiniteSet(Before(o, c)) /\ IndexOf(o, c) \in 0..Count(o)
<1>1. IsFiniteSet(DOMAIN o)
  BY CategoryAssumption, FS_Subset DEF IsOrder
<1>2. Count(o) \in Nat
  BY <1>1, FS_CardinalityType DEF Count
<1>3. ASSUME NEW c PROVE IsFiniteSet(Before(o, c)) /\ IndexOf(o, c) \in 0..Count(o)
  <2>1. Before(o, c) \in SUBSET DOMAIN o
    BY DEF Before
  <2>2. IsFiniteSet(Before(o, c)) /\ Cardinality(Before(o, c)) <= Cardinality(DOMAIN o)
    BY <1>1, <2>1, FS_Subset
  <2>3. Cardinality(Before(o, c)) \in Nat
    BY <2>2, FS_CardinalityType
  <2> QED
    BY <1>2, <2>2, <2>3 DEF IndexOf, Count
<1> QED
  BY <1>1, <1>2, <1>3

\* categorySort is a strict total order.
LEMMA PrecedesIsOrder ==
    ASSUME NEW o, IsOrder(o), NEW b \in DOMAIN o, NEW c \in DOMAIN o, NEW d \in DOMAIN o
    PROVE  /\ ~Precedes(o, b, b)
           /\ b # c => Precedes(o, b, c) \/ Precedes(o, c, b)
           /\ Precedes(o, b, c) => ~Precedes(o, c, b)
           /\ Precedes(o, b, c) /\ Precedes(o, c, d) => Precedes(o, b, d)
<1>1. {b, c, d} \subseteq Nat /\ {o[b], o[c], o[d]} \subseteq Nat
  BY CategoryAssumption DEF IsOrder
<1> QED
  BY <1>1 DEF Precedes

\* What is sorted first has the smaller index.
LEMMA IndexMonotone ==
    ASSUME NEW o, IsOrder(o), NEW b \in DOMAIN o, NEW c \in DOMAIN o
    PROVE  Precedes(o, b, c) <=> IndexOf(o, b) < IndexOf(o, c)
<1>1. ASSUME NEW x \in DOMAIN o, NEW y \in DOMAIN o, Precedes(o, x, y)
      PROVE  IndexOf(o, x) < IndexOf(o, y)
  <2>1. Before(o, x) \in SUBSET Before(o, y)
    BY <1>1, PrecedesIsOrder DEF Before
  <2>2. x \in Before(o, y) /\ x \notin Before(o, x)
    BY <1>1, PrecedesIsOrder DEF Before
  <2>3. IsFiniteSet(Before(o, y)) /\ IndexOf(o, x) \in Nat /\ IndexOf(o, y) \in Nat
    BY OrderFinite
  <2> QED
    BY <2>1, <2>2, <2>3, FS_Subset DEF IndexOf
<1>2. IndexOf(o, b) \in Nat /\ IndexOf(o, c) \in Nat
  BY OrderFinite
<1> QED
  BY <1>1, <1>2, PrecedesIsOrder

\* An index is below the number of categories.
LEMMA IndexBelowCount ==
    ASSUME NEW o, IsOrder(o), NEW c \in DOMAIN o
    PROVE  IndexOf(o, c) \in 0..Count(o) - 1
<1>1. IndexOf(o, c) \in 0..Count(o) /\ Count(o) \in Nat /\ IsFiniteSet(DOMAIN o)
  BY OrderFinite
<1>2. c \notin Before(o, c) /\ Before(o, c) \in SUBSET DOMAIN o
  BY PrecedesIsOrder DEF Before
<1>3. IndexOf(o, c) # Count(o)
  BY <1>1, <1>2, FS_Subset DEF IndexOf, Count
<1> QED
  BY <1>1, <1>3

\* A category stands at every index: sortedCategories is a sequence of them.
LEMMA SortedType ==
    ASSUME NEW o, IsOrder(o)
    PROVE  Sorted(o) \in Seq(DOMAIN o)
<1> DEFINE f == [c \in DOMAIN o |-> IndexOf(o, c)]
<1> DEFINE T == 0..Count(o) - 1
<1>1. Count(o) \in Nat /\ IsFiniteSet(DOMAIN o)
  BY OrderFinite
<1>2. IsFiniteSet(T) /\ Cardinality(T) = Count(o)
  BY <1>1, FS_Interval
<1>3. f \in Injection(DOMAIN o, T)
  <2>1. f \in [DOMAIN o -> T]
    BY IndexBelowCount
  <2>2. ASSUME NEW b \in DOMAIN o, NEW c \in DOMAIN o, f[b] = f[c] PROVE b = c
    <3>1. IndexOf(o, b) = IndexOf(o, c) /\ IndexOf(o, b) \in Nat
      BY <2>2, OrderFinite
    <3>2. ~Precedes(o, b, c) /\ ~Precedes(o, c, b)
      BY <3>1, IndexMonotone
    <3> QED
      BY <3>2, PrecedesIsOrder
  <2> QED
    BY <2>1, <2>2 DEF Injection, IsInjective
<1>4. f \in Surjection(DOMAIN o, T)
  BY <1>2, <1>3, FS_Injection DEF Count
<1>5. ASSUME NEW i \in 1..Count(o) PROVE \E c \in DOMAIN o : IndexOf(o, c) = i - 1
  <2>1. i - 1 \in T
    BY <1>1
  <2> QED
    BY <1>4, <2>1 DEF Surjection
<1>6. Sorted(o) \in [1..Count(o) -> DOMAIN o]
  BY <1>5 DEF Sorted
<1> QED
  BY <1>1, <1>6

\* The sorted list leaves no category out.
LEMMA SortedHasAll ==
    ASSUME NEW o, IsOrder(o), NEW c \in DOMAIN o
    PROVE  \E i \in 1..Len(Sorted(o)) : Sorted(o)[i] = c
<1> DEFINE i == IndexOf(o, c) + 1
<1>1. Count(o) \in Nat /\ Len(Sorted(o)) = Count(o) /\ i \in 1..Count(o)
  BY OrderFinite, IndexBelowCount DEF Sorted
<1>2. ASSUME NEW d \in DOMAIN o, IndexOf(o, d) = i - 1 PROVE d = c
  <2>1. IndexOf(o, d) = IndexOf(o, c) /\ IndexOf(o, c) \in Nat
    BY <1>2, OrderFinite
  <2> QED
    BY <2>1, IndexMonotone, PrecedesIsOrder
<1>3. IndexOf(o, c) = i - 1
  BY OrderFinite
<1> HIDE DEF i
<1>4. (CHOOSE d \in DOMAIN o : IndexOf(o, d) = i - 1) = c
  BY <1>2, <1>3
<1>5. Sorted(o)[i] = c
  BY <1>1, <1>4 DEF Sorted
<1> QED
  BY <1>1, <1>5

-----------------------------------------------------------------------------
(* What becomes of orders, indices and the place.                          *)

\* Clamping answers a place in bounds, and keeps one that is.
LEMMA ClampedType ==
    ASSUME NEW o, IsOrder(o), NEW p \in Int
    PROVE  Clamped(p, o) \in 0..Count(o) /\ (p \in 0..Count(o) => Clamped(p, o) = p)
  BY OrderFinite DEF Clamped

\* Closing the gaps between orders moves nothing.
LEMMA NormalizedKeeps ==
    ASSUME NEW o, IsOrder(o)
    PROVE  /\ IsOrder(Normalized(o)) /\ DOMAIN Normalized(o) = DOMAIN o
           /\ Count(Normalized(o)) = Count(o)
           /\ \A b, c \in DOMAIN o : Precedes(Normalized(o), b, c) <=> Precedes(o, b, c)
           /\ \A c \in DOMAIN o : IndexOf(Normalized(o), c) = IndexOf(o, c)
<1>1. IsOrder(Normalized(o)) /\ DOMAIN Normalized(o) = DOMAIN o
  BY OrderFinite DEF IsOrder, Normalized
<1>2. ASSUME NEW b \in DOMAIN o, NEW c \in DOMAIN o
      PROVE  Precedes(Normalized(o), b, c) <=> Precedes(o, b, c)
  <2>1. IndexOf(o, b) \in Nat /\ IndexOf(o, c) \in Nat
    BY OrderFinite
  <2>2. IndexOf(o, b) = IndexOf(o, c) => b = c
    BY <2>1, IndexMonotone, PrecedesIsOrder
  <2>3. b = c => ~(b < c)
    BY CategoryAssumption DEF IsOrder
  <2>4. Precedes(Normalized(o), b, c) <=> IndexOf(o, b) < IndexOf(o, c)
    BY <2>1, <2>2, <2>3 DEF Precedes, Normalized
  <2> QED
    BY <2>4, IndexMonotone
<1>3. ASSUME NEW c \in DOMAIN o PROVE Before(Normalized(o), c) = Before(o, c)
  BY <1>1, <1>2 DEF Before
<1> QED
  BY <1>1, <1>2, <1>3 DEF IndexOf, Count

\* A new category is above all others.
LEMMA AddedKeeps ==
    ASSUME NEW o, IsOrder(o), NEW c \in Category \ DOMAIN o
    PROVE  /\ IsOrder(Added(o, c)) /\ Count(Added(o, c)) = Count(o) + 1
           /\ \A a, b \in DOMAIN o : Precedes(Added(o, c), a, b) <=> Precedes(o, a, b)
           /\ \A b \in DOMAIN o : IndexOf(Added(o, c), b) = IndexOf(o, b) + 1
<1>1. DOMAIN Added(o, c) = DOMAIN o \cup {c} /\ IsOrder(Added(o, c))
  BY DEF Added, IsOrder
<1>2. Count(Added(o, c)) = Count(o) + 1
  BY <1>1, OrderFinite, FS_AddElement DEF Count
<1>3. ASSUME NEW a \in DOMAIN o, NEW b \in DOMAIN o
      PROVE  Precedes(Added(o, c), a, b) <=> Precedes(o, a, b)
  BY DEF IsOrder, Added, Precedes
<1>4. ASSUME NEW b \in DOMAIN o PROVE Before(Added(o, c), b) = Before(o, b) \cup {c}
  <2>1. Precedes(Added(o, c), c, b)
    BY DEF IsOrder, Added, Precedes
  <2> QED
    BY <1>1, <1>3, <2>1 DEF Before
<1>5. ASSUME NEW b \in DOMAIN o PROVE IndexOf(Added(o, c), b) = IndexOf(o, b) + 1
  <2>1. c \notin Before(o, b)
    BY DEF Before
  <2>2. IsFiniteSet(Before(o, b))
    BY OrderFinite
  <2> QED
    BY <1>4, <2>1, <2>2, FS_AddElement DEF IndexOf
<1> QED
  BY <1>1, <1>2, <1>3, <1>5

\* What was below the removed category moves up by one.
LEMMA WithoutKeeps ==
    ASSUME NEW o, IsOrder(o), NEW c \in DOMAIN o
    PROVE  /\ IsOrder(Without(o, c)) /\ Count(Without(o, c)) = Count(o) - 1
           /\ \A a, b \in DOMAIN o \ {c} : Precedes(Without(o, c), a, b) <=> Precedes(o, a, b)
           /\ \A b \in DOMAIN o \ {c} :
                IndexOf(Without(o, c), b) = IF Precedes(o, c, b) THEN IndexOf(o, b) - 1
                                            ELSE IndexOf(o, b)
<1>1. DOMAIN Without(o, c) = DOMAIN o \ {c} /\ IsOrder(Without(o, c))
  BY DEF Without, IsOrder
<1>2. Count(Without(o, c)) = Count(o) - 1
  BY <1>1, OrderFinite, FS_RemoveElement DEF Count
<1>3. ASSUME NEW a \in DOMAIN o \ {c}, NEW b \in DOMAIN o \ {c}
      PROVE  Precedes(Without(o, c), a, b) <=> Precedes(o, a, b)
  BY DEF Without, Precedes
<1>4. ASSUME NEW b \in DOMAIN o \ {c} PROVE Before(Without(o, c), b) = Before(o, b) \ {c}
  BY <1>1, <1>3 DEF Before
<1>5. ASSUME NEW b \in DOMAIN o \ {c}
      PROVE  IndexOf(Without(o, c), b) = IF Precedes(o, c, b) THEN IndexOf(o, b) - 1
                                         ELSE IndexOf(o, b)
  <2>1. c \in Before(o, b) <=> Precedes(o, c, b)
    BY DEF Before
  <2> QED
    BY <1>4, <2>1, OrderFinite, FS_RemoveElement DEF IndexOf
<1> QED
  BY <1>1, <1>2, <1>3, <1>5

\* The place moves up with what is below the removed category.
LEMMA PlaceAfterDeletingKeeps ==
    ASSUME NEW o, IsOrder(o), NEW c \in DOMAIN o, NEW p \in 0..Count(o),
           NEW b \in DOMAIN o \ {c}
    PROVE  IndexOf(Without(o, c), b) < PlaceAfterDeleting(o, p, c) <=> IndexOf(o, b) < p
<1>1. /\ Count(o) \in Nat /\ Count(Without(o, c)) = Count(o) - 1 /\ IsOrder(Without(o, c))
      /\ IndexOf(o, b) \in Nat /\ IndexOf(o, c) \in 0..Count(o) - 1
  BY OrderFinite, WithoutKeeps, IndexBelowCount
<1>2. \/ Precedes(o, c, b) /\ IndexOf(o, c) < IndexOf(o, b)
      \/ ~Precedes(o, c, b) /\ IndexOf(o, b) < IndexOf(o, c)
  BY IndexMonotone, PrecedesIsOrder
<1>3. IndexOf(Without(o, c), b) = IF Precedes(o, c, b) THEN IndexOf(o, b) - 1 ELSE IndexOf(o, b)
  BY WithoutKeeps
<1>4. CASE IndexOf(o, c) < p
  <2>1. p - 1 \in 0..Count(Without(o, c))
    BY <1>1, <1>4
  <2>2. PlaceAfterDeleting(o, p, c) = p - 1
    BY <1>1, <1>4, <2>1, ClampedType DEF PlaceAfterDeleting
  <2> QED
    BY <1>1, <1>2, <1>3, <1>4, <2>2
<1>5. CASE ~(IndexOf(o, c) < p)
  <2>1. p \in 0..Count(Without(o, c))
    BY <1>1, <1>5
  <2>2. PlaceAfterDeleting(o, p, c) = p
    BY <1>1, <1>5, <2>1, ClampedType DEF PlaceAfterDeleting
  <2> QED
    BY <1>1, <1>2, <1>3, <1>5, <2>2
<1> QED
  BY <1>4, <1>5

-----------------------------------------------------------------------------
(* Dragging.                                                               *)

\* Where a member of a sequence is.
LEMMA AtType ==
    ASSUME NEW S, NEW s \in Seq(S), NEW x, Contains(s, x)
    PROVE  At(s, x) \in 1..Len(s) /\ s[At(s, x)] = x
  BY DEF At, Contains

\* A joined sequence has the members of both.
LEMMA Joined ==
    ASSUME NEW S, NEW s \in Seq(S), NEW t \in Seq(S), NEW x
    PROVE  s \o t \in Seq(S) /\ (Contains(s, x) \/ Contains(t, x) => Contains(s \o t, x))
<1> DEFINE st == s \o t
<1>1. /\ st \in Seq(S) /\ Len(st) = Len(s) + Len(t)
      /\ \A j \in 1..Len(s) + Len(t) : st[j] = IF j <= Len(s) THEN s[j] ELSE t[j - Len(s)]
  BY ConcatProperties
<1>2. Len(s) \in Nat /\ Len(t) \in Nat
  BY LenProperties
<1> HIDE DEF st
<1>3. ASSUME NEW j \in 1..Len(s), s[j] = x PROVE Contains(st, x)
  <2>1. j \in 1..Len(st) /\ st[j] = x
    BY <1>1, <1>2, <1>3
  <2> QED
    BY <2>1 DEF Contains
<1>4. ASSUME NEW j \in 1..Len(t), t[j] = x PROVE Contains(st, x)
  <2>1. Len(s) + j \in 1..Len(s) + Len(t) /\ ~(Len(s) + j <= Len(s)) /\ Len(s) + j - Len(s) = j
    BY <1>2
  <2>2. st[Len(s) + j] = x
    BY <1>1, <1>4, <2>1
  <2> QED
    BY <1>1, <2>1, <2>2 DEF Contains
<1>5. Contains(s, x) \/ Contains(t, x) => Contains(st, x)
  BY <1>3, <1>4 DEF Contains
<1> QED
  BY <1>1, <1>5 DEF st

\* What is in a sequence is in the part that holds its index.
LEMMA InPart ==
    ASSUME NEW S, NEW s \in Seq(S), NEW m \in 1..Len(s) + 1, NEW n \in 0..Len(s)
    PROVE  /\ SubSeq(s, m, n) \in Seq(S)
           /\ \A j \in m..n : Contains(SubSeq(s, m, n), s[j])
<1> DEFINE r == SubSeq(s, m, n)
<1>1. /\ r \in Seq(S) /\ Len(r) = IF m <= n THEN n - m + 1 ELSE 0
      /\ \A i \in 1..n - m + 1 : r[i] = s[m + i - 1]
  BY SubSeqProperties, LenProperties
<1> HIDE DEF r
<1>2. ASSUME NEW j \in m..n PROVE Contains(r, s[j])
  <2>1. j - m + 1 \in 1..n - m + 1 /\ m + (j - m + 1) - 1 = j /\ m <= n
    BY LenProperties
  <2>2. r[j - m + 1] = s[j] /\ j - m + 1 \in 1..Len(r)
    BY <1>1, <2>1
  <2> QED
    BY <2>2 DEF Contains
<1> QED
  BY <1>1, <1>2 DEF r

\* Removing one element keeps the others.
LEMMA RemovedAt ==
    ASSUME NEW S, NEW s \in Seq(S), NEW i \in 1..Len(s), NEW x
    PROVE  /\ RemoveAt(s, i) \in Seq(S)
           /\ Contains(s, x) /\ x # s[i] => Contains(RemoveAt(s, i), x)
<1> DEFINE a == SubSeq(s, 1, i - 1)
<1> DEFINE b == SubSeq(s, i + 1, Len(s))
<1>1. Len(s) \in Nat
  BY LenProperties
<1>2. 1 \in 1..Len(s) + 1 /\ i - 1 \in 0..Len(s) /\ i + 1 \in 1..Len(s) + 1 /\ Len(s) \in 0..Len(s)
  BY <1>1
<1>3. a \in Seq(S) /\ \A j \in 1..i - 1 : Contains(a, s[j])
  BY <1>2, InPart
<1>4. b \in Seq(S) /\ \A j \in i + 1..Len(s) : Contains(b, s[j])
  BY <1>2, InPart
<1>5. RemoveAt(s, i) = a \o b
  BY DEF RemoveAt
<1> HIDE DEF a, b
<1>6. Contains(s, x) /\ x # s[i] => Contains(a, x) \/ Contains(b, x)
  <2> SUFFICES ASSUME NEW j \in 1..Len(s), s[j] = x, x # s[i]
               PROVE  Contains(a, x) \/ Contains(b, x)
    BY DEF Contains
  <2>1. j \in 1..i - 1 \/ j \in i + 1..Len(s)
    BY <1>1
  <2> QED
    BY <1>3, <1>4, <2>1
<1>7. a \o b \in Seq(S) /\ (Contains(a, x) \/ Contains(b, x) => Contains(a \o b, x))
  BY <1>3, <1>4, Joined
<1> QED
  BY <1>5, <1>6, <1>7

\* Inserting one element keeps the others.
LEMMA InsertedAt ==
    ASSUME NEW S, NEW s \in Seq(S), NEW i \in 1..Len(s) + 1, NEW g \in S, NEW x
    PROVE  /\ InsertAt(s, i, g) \in Seq(S)
           /\ Contains(s, x) \/ x = g => Contains(InsertAt(s, i, g), x)
<1> DEFINE a == SubSeq(s, 1, i - 1)
<1> DEFINE b == SubSeq(s, i, Len(s))
<1> DEFINE one == <<g>>
<1>1. Len(s) \in Nat
  BY LenProperties
<1>2. 1 \in 1..Len(s) + 1 /\ i - 1 \in 0..Len(s) /\ Len(s) \in 0..Len(s)
  BY <1>1
<1>3. a \in Seq(S) /\ \A j \in 1..i - 1 : Contains(a, s[j])
  BY <1>2, InPart
<1>4. b \in Seq(S) /\ \A j \in i..Len(s) : Contains(b, s[j])
  BY <1>2, InPart
<1>5. one \in Seq(S) /\ Contains(one, g)
  BY DEF Contains
<1>6. InsertAt(s, i, g) = (a \o one) \o b
  BY DEF InsertAt
<1> HIDE DEF a, b, one
<1>7. Contains(s, x) => Contains(a, x) \/ Contains(b, x)
  <2> SUFFICES ASSUME NEW j \in 1..Len(s), s[j] = x
               PROVE  Contains(a, x) \/ Contains(b, x)
    BY DEF Contains
  <2>1. j \in 1..i - 1 \/ j \in i..Len(s)
    BY <1>1
  <2> QED
    BY <1>3, <1>4, <2>1
<1>8. a \o one \in Seq(S) /\ (Contains(a, x) \/ Contains(one, x) => Contains(a \o one, x))
  BY <1>3, <1>5, Joined
<1> DEFINE c == a \o one
<1> HIDE DEF c
<1>9. c \in Seq(S) /\ (Contains(a, x) \/ Contains(one, x) => Contains(c, x))
  BY <1>8 DEF c
<1>10. c \o b \in Seq(S) /\ (Contains(c, x) \/ Contains(b, x) => Contains(c \o b, x))
  BY <1>4, <1>9, Joined
<1> QED
  BY <1>5, <1>6, <1>7, <1>9, <1>10 DEF c

\* The groups are the categories and the uncategorized group.
LEMMA GroupsType ==
    ASSUME NEW o, IsOrder(o), NEW p \in Int, NEW u, NEW x \in DOMAIN o \cup {u}
    PROVE  /\ Groups(o, p, u) \in Seq(DOMAIN o \cup {u})
           /\ Contains(Groups(o, p, u), x)
<1> DEFINE S == DOMAIN o \cup {u}
<1> DEFINE s == Sorted(o)
<1> DEFINE n == Clamped(p, o) + 1
<1>1. s \in Seq(DOMAIN o) /\ Len(s) = Count(o) /\ Count(o) \in Nat
  BY SortedType, OrderFinite DEF Sorted
<1>2. s \in Seq(S) /\ n \in 1..Len(s) + 1 /\ u \in S
  BY <1>1, ClampedType
<1>3. Groups(o, p, u) = InsertAt(s, n, u)
  BY DEF Groups
<1>4. x # u => Contains(s, x)
  BY SortedHasAll DEF Contains
<1> HIDE DEF s, n, S
<1>5. /\ InsertAt(s, n, u) \in Seq(S)
      /\ Contains(s, x) \/ x = u => Contains(InsertAt(s, n, u), x)
  BY <1>2, InsertedAt
<1> QED
  BY <1>3, <1>4, <1>5 DEF S

\* Dragging loses no group and brings in none.
LEMMA DraggedType ==
    ASSUME NEW S, NEW s \in Seq(S), NEW g \in S, NEW h, NEW x, Contains(s, g), Contains(s, x)
    PROVE  Dragged(s, g, h) \in Seq(S) /\ Contains(Dragged(s, g, h), x)
<1> DEFINE rest == RemoveAt(s, At(s, g))
<1>1. At(s, g) \in 1..Len(s) /\ s[At(s, g)] = g
  BY AtType
<1>2. rest \in Seq(S) /\ (x # g => Contains(rest, x))
  BY <1>1, RemovedAt
<1>3. Dragged(s, g, h) = IF Contains(rest, h) THEN InsertAt(rest, At(rest, h), g)
                         ELSE Append(rest, g)
  BY DEF Dragged
<1> HIDE DEF rest
<1>4. Len(rest) \in Nat
  BY <1>2, LenProperties
<1>5. CASE Contains(rest, h)
  <2> DEFINE k == At(rest, h)
  <2>1. k \in 1..Len(rest)
    BY <1>2, <1>5, AtType
  <2> HIDE DEF k
  <2>2. k \in 1..Len(rest) + 1
    BY <1>4, <2>1
  <2>3. /\ InsertAt(rest, k, g) \in Seq(S)
        /\ Contains(rest, x) \/ x = g => Contains(InsertAt(rest, k, g), x)
    BY <1>2, <2>2, InsertedAt
  <2> QED
    BY <1>2, <1>3, <1>5, <2>3 DEF k
<1>6. CASE ~Contains(rest, h)
  <2> DEFINE one == <<g>>
  <2>1. Append(rest, g) = rest \o one
    BY <1>2, AppendIsConcat
  <2>2. one \in Seq(S) /\ Contains(one, g)
    BY DEF Contains
  <2> HIDE DEF one
  <2>3. rest \o one \in Seq(S) /\ (Contains(rest, x) \/ Contains(one, x) => Contains(rest \o one, x))
    BY <1>2, <2>2, Joined
  <2> QED
    BY <1>2, <1>3, <1>6, <2>1, <2>2, <2>3
<1> QED
  BY <1>5, <1>6

\* Reordering gives every category an order.
LEMMA ReorderedType ==
    ASSUME NEW S \in SUBSET Category, NEW u, NEW s \in Seq(S \cup {u})
    PROVE  IsOrder(Reordered(s, u))
<1>1. DOMAIN Reordered(s, u) = ToSet(s) \ {u} /\ ToSet(s) \ {u} \subseteq Category
  BY DEF Reordered, ToSet
<1>2. ASSUME NEW c \in ToSet(s) \ {u} PROVE Reordered(s, u)[c] \in Nat
  <2> DEFINE above == {i \in 1..At(s, c) - 1 : s[i] # u}
  <2>1. Contains(s, c)
    BY DEF ToSet, Contains
  <2>2. At(s, c) - 1 \in Int
    BY <2>1, AtType
  <2>3. IsFiniteSet(1..At(s, c) - 1) /\ above \in SUBSET (1..At(s, c) - 1)
    BY <2>2, FS_Interval
  <2>4. Cardinality(above) \in Nat
    BY <2>3, FS_Subset, FS_CardinalityType
  <2> QED
    BY <1>2, <2>4 DEF Reordered
<1> QED
  BY <1>1, <1>2 DEF IsOrder, Reordered

=============================================================================
