-------------------------- MODULE StropheHandlersProofs --------------------------
(***************************************************************************)
(* The lists of handlers and the walks over them, for any number of        *)
(* handlers and ids: each list holds what was added to it and not removed, *)
(* and a walk calls every handler that it finds, and may call, once.       *)
(*                                                                         *)
(* A list is described by its set of items and a rank for each of them,    *)
(* with which the next pointers grow.  An item that is added gets a rank   *)
(* above all others, and one that is removed leaves the ranks of the       *)
(* others as they are; so what is ahead of a walk is what ranks higher.    *)
(***************************************************************************)
EXTENDS StropheHandlers, FiniteSetTheorems, WellFoundedInduction, TLAPS

\* The items of list L are those of S, in the order of their ranks r.
InOrder(L, S, r) ==
  /\ r \in [All -> Nat] /\ \A g, h \in S : r[g] = r[h] => g = h
  /\ S = {} => L.head = None
  /\ S # {} => L.head \in S /\ \A g \in S : r[L.head] <= r[g]
  /\ \A h \in S :
       IF L.next[h] = None THEN \A g \in S : r[g] <= r[h]
       ELSE /\ L.next[h] \in S /\ r[h] < r[L.next[h]]
            /\ \A g \in S : r[g] <= r[h] \/ r[L.next[h]] <= r[g]

-------------------------------------------------------------------------------
(* Following the next pointers *)

\* A set of numbers that is not empty has a least element: the inductions
\* below take the least number for which a claim would fail.
LEMMA Least ==
  ASSUME NEW T, T \subseteq Nat, T # {}
  PROVE  \E m \in T : \A k \in T : m <= k
<1> DEFINE R == OpToRel(<, Nat)
<1>1. IsWellFoundedOn(R, Nat)
  BY NatLessThanWellFounded
<1>2. \A x, y \in Nat : <<y, x>> \in R <=> y < x
  BY DEF OpToRel
<1> HIDE DEF R
<1>3. PICK m \in T : \A k \in T : ~(<<k, m>> \in R)
  BY <1>1, WFMin
<1>4. \A k \in T : ~(k < m)
  BY <1>2, <1>3
<1>5. \A k \in T : m <= k
  BY <1>4
<1> QED
  BY <1>5

LEMMA AllIsFinite ==
  /\ IsFiniteSet(All) /\ None \notin All /\ Cardinality(All) \in Nat
  BY FunctionsAssumption, FS_CardinalityType DEF All

\* The recursive definition of Follow has a solution, which is a function.
LEMMA Following ==
  ASSUME NEW L \in Links
  PROVE  /\ Follow(L) \in [0..Cardinality(All) -> All \cup {None}]
         /\ Follow(L)[0] = L.head
         /\ \A k \in 1..Cardinality(All) :
              Follow(L)[k] = IF Follow(L)[k-1] = None THEN None ELSE L.next[Follow(L)[k-1]]
<1> DEFINE N == Cardinality(All)
           D == All \cup {None}
           Hop(x) == IF x = None THEN None ELSE L.next[x]
           Runs(f, n) == f[0] = L.head /\ \A k \in 1..n : f[k] = Hop(f[k-1])
           bad == {n \in Nat : ~ \E f \in [0..n -> D] : Runs(f, n)}
<1>1. L.head \in D /\ \A x \in D : Hop(x) \in D
  BY DEF Links
<1>2. N \in Nat
  BY AllIsFinite
<1> HIDE DEF N, D, Hop
<1>3. bad = {}
  <2> SUFFICES ASSUME bad # {} PROVE FALSE
    OBVIOUS
  <2>0. bad \subseteq Nat
    OBVIOUS
  <2>1. PICK m \in bad : \A k \in bad : m <= k
    BY <2>0, Least
  <2>n. m \in Nat
    BY <2>1
  <2>2. CASE m = 0
    <3>1. [k \in 0..0 |-> L.head] \in [0..0 -> D] /\ Runs([k \in 0..0 |-> L.head], 0)
      BY <1>1
    <3> QED
      BY <2>1, <2>2, <3>1
  <2>3. CASE m > 0
    <3> HIDE DEF bad
    <3>1. m - 1 \in Nat /\ m - 1 \notin bad
      BY <2>1, <2>n, <2>3
    <3> USE DEF bad
    <3>2. PICK f \in [0..(m-1) -> D] : Runs(f, m - 1)
      BY <3>1
    <3> DEFINE g == [k \in 0..m |-> IF k = m THEN Hop(f[m-1]) ELSE f[k]]
    <3>3. m - 1 \in 0..(m-1) /\ f[m-1] \in D
      BY <2>1, <3>1, <3>2
    <3>4. g \in [0..m -> D]
      <4>1. \A k \in 0..m : k # m => k \in 0..(m-1)
        BY <2>1
      <4> QED
        BY <1>1, <3>2, <3>3, <4>1
    <3>5. Runs(g, m)
      <4>1. g[0] = L.head
        BY <2>1, <2>3, <3>2
      <4>2. ASSUME NEW k \in 1..m PROVE g[k] = Hop(g[k-1])
        <5>1. k \in 0..m /\ k - 1 \in 0..m /\ k - 1 # m /\ (k # m => k \in 1..(m-1))
          BY <2>1
        <5>2. g[k-1] = f[k-1]
          BY <5>1
        <5>3. g[k] = IF k = m THEN Hop(f[m-1]) ELSE f[k]
          BY <5>1
        <5> QED
          BY <3>2, <5>1, <5>2, <5>3
      <4> QED
        BY <4>1, <4>2
    <3> QED
      BY <2>1, <3>4, <3>5
  <2> QED
    BY <2>1, <2>2, <2>3
<1>4. PICK f \in [0..N -> D] : Runs(f, N)
  BY <1>2, <1>3
<1> DEFINE Eq(g) == g = [k \in 0..N |-> IF k = 0 THEN L.head
                                          ELSE IF g[k-1] = None THEN None ELSE L.next[g[k-1]]]
<1>5. Eq(f)
  <2>1. \A k \in 0..N : k # 0 => k \in 1..N
    BY <1>2
  <2>2. \A k \in 0..N : f[k] = IF k = 0 THEN L.head
                              ELSE IF f[k-1] = None THEN None ELSE L.next[f[k-1]]
    BY <1>4, <2>1 DEF Hop
  <2> QED
    BY <1>4, <2>2
<1>6. Follow(L) = CHOOSE g : Eq(g)
  BY DEF Follow, N
<1> HIDE DEF Eq
<1>7. Eq(Follow(L))
  BY <1>5, <1>6
<1> USE DEF Eq
<1> DEFINE F == Follow(L)
<1>8. /\ DOMAIN F = 0..N
      /\ \A k \in 0..N : F[k] = IF k = 0 THEN L.head
                                ELSE IF F[k-1] = None THEN None ELSE L.next[F[k-1]]
  BY <1>7
<1> HIDE DEF F
<1>9. F[0] = L.head /\ \A k \in 1..N : F[k] = Hop(F[k-1])
  <2>1. 0 \in 0..N /\ \A k \in 1..N : k \in 0..N /\ k # 0
    BY <1>2
  <2> QED
    BY <1>8, <2>1 DEF Hop
<1>10. \A k \in 0..N : F[k] \in D
  <2> DEFINE out == {k \in 0..N : F[k] \notin D}
  <2> SUFFICES ASSUME out # {} PROVE FALSE
    OBVIOUS
  <2>0. out \subseteq Nat
    BY <1>2
  <2>1. PICK m \in out : \A k \in out : m <= k
    BY <2>0, Least
  <2>2. m # 0
    BY <1>1, <1>9, <2>1
  <2>3. m - 1 \in 0..N /\ m \in 1..N /\ m - 1 \notin out
    BY <1>2, <2>1, <2>2
  <2> QED
    BY <1>1, <1>9, <2>1, <2>3
<1>11. F = [k \in 0..N |-> F[k]]
  BY <1>7, <1>8 DEF F
<1>12. F \in [0..N -> D]
  BY <1>10, <1>11
<1> QED
  BY <1>9, <1>12 DEF F, N, D, Hop

\* The walk along the next pointers of a list in order meets its items and no
\* others, and comes to an end.
LEMMA ItemsInOrder ==
  ASSUME NEW L \in Links, NEW S \in SUBSET All, NEW r, InOrder(L, S, r)
  PROVE  /\ Items(L) = S
         /\ Follow(L)[Cardinality(All)] = None
         /\ S # {} => \E h \in S : L.next[h] = None
         /\ \A h \in S : h = L.head \/ \E p \in S : L.next[p] = h
<1> DEFINE N == Cardinality(All)
           F == Follow(L)
<1>0. /\ N \in Nat /\ None \notin S
      /\ F[0] = L.head
      /\ \A k \in 1..N : F[k] = IF F[k-1] = None THEN None ELSE L.next[F[k-1]]
  BY AllIsFinite, Following
<1>i. Items(L) = {F[k] : k \in 0..N} \ {None}
  BY DEF Items
<1>r. /\ r \in [All -> Nat] /\ \A g \in S : r[g] \in Nat
      /\ \A g, h \in S : r[g] = r[h] => g = h
  BY DEF InOrder
<1> HIDE DEF N, F
<1>1. \A k \in 0..N : F[k] \in S \cup {None}
  <2> DEFINE out == {k \in 0..N : F[k] \notin S \cup {None}}
  <2> SUFFICES ASSUME out # {} PROVE FALSE
    OBVIOUS
  <2>0. out \subseteq Nat
    BY <1>0
  <2>1. PICK m \in out : \A k \in out : m <= k
    BY <2>0, Least
  <2>2. m # 0
    BY <1>0, <2>1 DEF InOrder
  <2>3. m - 1 \in 0..N /\ m \in 1..N /\ m - 1 \notin out
    BY <1>0, <2>1, <2>2
  <2> QED
    BY <1>0, <2>1, <2>3 DEF InOrder
<1>2. \A k \in 1..N : F[k] # None =>
        F[k-1] \in S /\ F[k] = L.next[F[k-1]] /\ r[F[k-1]] < r[F[k]]
  <2> TAKE k \in 1..N
  <2>1. k - 1 \in 0..N
    BY <1>0
  <2> QED
    BY <1>0, <1>1, <2>1 DEF InOrder
<1>3. ASSUME NEW i \in 0..N
      PROVE  \A j \in 0..N : i < j /\ F[j] # None => F[i] \in S /\ r[F[i]] < r[F[j]]
  <2> DEFINE out == {j \in 0..N : i < j /\ F[j] # None /\ ~(F[i] \in S /\ r[F[i]] < r[F[j]])}
  <2> SUFFICES ASSUME out # {} PROVE FALSE
    OBVIOUS
  <2>0. out \subseteq Nat
    BY <1>0
  <2>1. PICK m \in out : \A k \in out : m <= k
    BY <2>0, Least
  <2>2. m - 1 \in 0..N /\ m \in 1..N /\ m - 1 \notin out /\ i <= m - 1
    BY <1>0, <2>1
  <2>3. F[m-1] \in S /\ r[F[m-1]] < r[F[m]] /\ F[m] \in S
    BY <1>1, <1>2, <2>1, <2>2
  <2>4. i # m - 1
    BY <2>1, <2>3
  <2>5. F[i] \in S /\ r[F[i]] < r[F[m-1]]
    BY <1>0, <2>2, <2>3, <2>4
  <2> QED
    BY <1>r, <2>1, <2>3, <2>5
<1>4. F[N] = None
  <2> SUFFICES ASSUME F[N] # None PROVE FALSE
    OBVIOUS
  <2>1. N \in 0..N /\ \A k \in 0..N : k = N \/ k < N
    BY <1>0
  <2>2. \A k \in 0..N : F[k] \in S
    BY <1>1, <1>3, <2>1
  <2>3. ASSUME NEW i \in 0..N, NEW j \in 0..N, F[i] = F[j]
        PROVE  i = j
    <3>1. ~(i < j) /\ ~(j < i)
      BY <1>0, <1>3, <1>r, <2>2, <2>3
    <3> QED
      BY <1>0, <3>1
  <2>4. IsFiniteSet(0..N) /\ Cardinality(0..N) = N + 1
    BY <1>0, FS_Interval
  <2>5. IsFiniteSet(All) /\ Cardinality(All) = N
    BY AllIsFinite DEF N
  <2> DEFINE f == [k \in 0..N |-> F[k]]
  <2>6. f \in [0..N -> All]
    BY <2>2
  <2>7. \E i, j \in 0..N : i # j /\ f[i] = f[j]
    <3> HIDE DEF f
    <3>1. Cardinality(0..N) > Cardinality(All)
      BY <1>0, <2>4, <2>5
    <3> DEFINE I == 0..N
    <3>2. IsFiniteSet(I) /\ IsFiniteSet(All) /\ Cardinality(I) > Cardinality(All) /\ f \in [I -> All]
      BY <2>4, <2>5, <2>6, <3>1
    <3> HIDE DEF I
    <3>3. \E i, j \in I : i # j /\ f[i] = f[j]
      BY <3>2, FS_PigeonHole
    <3> QED
      BY <3>3 DEF I
  <2> QED
    BY <2>3, <2>7
<1>5. ASSUME NEW g \in S
      PROVE  \E k \in 0..N : F[k] = g
  <2> DEFINE T == {k \in 0..N : F[k] = None \/ r[g] <= r[F[k]]}
  <2>0. T \subseteq Nat /\ T # {}
    BY <1>0, <1>4
  <2>1. PICK m \in T : \A k \in T : m <= k
    BY <2>0, Least
  <2>2. CASE m = 0
    BY <1>0, <1>r, <1>5, <2>1, <2>2 DEF InOrder
  <2>3. CASE m # 0
    <3>1. m - 1 \in 0..N /\ m \in 1..N /\ m - 1 \notin T
      BY <1>0, <2>1, <2>3
    <3>2. F[m-1] \in S /\ r[F[m-1]] < r[g] /\ F[m] = L.next[F[m-1]]
      BY <1>0, <1>1, <1>r, <3>1
    <3>3. F[m] # None
      BY <1>5, <1>r, <3>2 DEF InOrder
    <3>4. F[m] \in S /\ r[g] <= r[F[m]]
      BY <1>1, <2>1, <3>1, <3>3
    <3>5. r[F[m]] <= r[g]
      BY <1>5, <1>r, <3>2, <3>3 DEF InOrder
    <3> QED
      BY <1>5, <1>r, <3>1, <3>4, <3>5
  <2> QED
    BY <2>2, <2>3
<1>6. Items(L) = S
  BY <1>0, <1>1, <1>5, <1>i
<1>7. ASSUME S # {}
      PROVE  \E h \in S : L.next[h] = None
  <2> DEFINE T == {k \in 0..N : F[k] = None}
  <2>0. T \subseteq Nat /\ T # {}
    BY <1>0, <1>4
  <2>1. PICK m \in T : \A k \in T : m <= k
    BY <2>0, Least
  <2>2. m # 0
    BY <1>0, <1>7, <2>1 DEF InOrder
  <2>3. m - 1 \in 0..N /\ m \in 1..N /\ m - 1 \notin T
    BY <1>0, <2>1, <2>2
  <2> QED
    BY <1>0, <1>1, <2>1, <2>3
<1>8. ASSUME NEW h \in S
      PROVE  h = L.head \/ \E p \in S : L.next[p] = h
  <2>1. PICK k \in 0..N : F[k] = h
    BY <1>5
  <2>2. k = 0 \/ k \in 1..N
    BY <1>0
  <2> QED
    BY <1>0, <1>2, <2>1, <2>2
<1> QED
  BY <1>4, <1>6, <1>7, <1>8 DEF F, N

-------------------------------------------------------------------------------
(* The operations on lists *)

\* The ranks q are those of r with h behind the items of S.
Behind(S, r, h, q) ==
  /\ \A g \in S : q[g] = r[g]
  /\ h \notin S => \A g \in S : q[g] < q[h]

\* _handler_add and its like put an item behind all others, unless it is there.
LEMMA AddInOrder ==
  ASSUME NEW L \in Links, NEW S \in SUBSET All, NEW r, InOrder(L, S, r), NEW h \in All
  PROVE  /\ Added(L, h) \in Links
         /\ \E q : InOrder(Added(L, h), S \cup {h}, q) /\ Behind(S, r, h, q)
         /\ S # {} => Added(L, h).head = L.head
         /\ \A g \in S : L.next[g] # None => Added(L, h).next[g] = L.next[g]
         /\ h \in S => Added(L, h) = L
<1>0. /\ L.head \in All \cup {None} /\ L.next \in [All -> All \cup {None}]
      /\ L = [head |-> L.head, next |-> L.next]
      /\ None \notin All
  BY AllIsFinite DEF Links
<1>i. Items(L) = S
  BY ItemsInOrder
<1>1. CASE h \in S
  <2>1. Added(L, h) = L /\ S \cup {h} = S
    BY <1>1, <1>i DEF Added
  <2> QED
    BY <1>1, <2>1 DEF Behind
<1>2. CASE S = {}
  <2> DEFINE A == [head |-> h, next |-> [L.next EXCEPT ![h] = None]]
  <2>1. Added(L, h) = A
    BY <1>i, <1>2 DEF Added, InOrder
  <2>2. A \in Links
    BY <1>0 DEF Links
  <2>3. A.head = h /\ A.next[h] = None
    BY <1>0
  <2> HIDE DEF A
  <2>4. InOrder(A, S \cup {h}, r)
    BY <1>2, <2>3 DEF InOrder
  <2> QED
    BY <1>2, <2>1, <2>2, <2>4 DEF Behind
<1>3. CASE h \notin S /\ S # {}
  <2> DEFINE z == LastOf(L)
             next == [L.next EXCEPT ![z] = h, ![h] = None]
             A == [head |-> L.head, next |-> next]
             q == [r EXCEPT ![h] = r[z] + 1]
  <2>1. z \in S /\ L.next[z] = None
    <3>1. \E x \in S : L.next[x] = None
      BY <1>3, ItemsInOrder
    <3> QED
      BY <1>i, <3>1 DEF LastOf
  <2> HIDE DEF z
  <2>2. Added(L, h) = A
    <3>1. L.head # None
      BY <1>0, <1>3 DEF InOrder
    <3>2. Added(L, h) = [L EXCEPT !.next = [L.next EXCEPT ![LastOf(L)] = h, ![h] = None]]
      BY <1>3, <1>i, <3>1 DEF Added
    <3> QED
      BY <1>0, <3>2 DEF z
  <2>3. next \in [All -> All \cup {None}]
    BY <1>0
  <2>4. \A g \in All : next[g] = IF g = h THEN None ELSE IF g = z THEN h ELSE L.next[g]
    BY <1>0, <1>3, <2>1
  <2> HIDE DEF next
  <2>5. A \in Links /\ A.head = L.head /\ A.next = next
    BY <1>0, <2>3 DEF Links
  <2> HIDE DEF A
  <2>6. r \in [All -> Nat] /\ \A g \in S : r[g] \in Nat /\ r[g] <= r[z]
    BY <2>1 DEF InOrder
  <2>7. /\ q \in [All -> Nat] /\ q[h] = r[z] + 1
        /\ \A g \in S : q[g] = r[g] /\ q[g] < q[h]
    BY <1>3, <2>1, <2>6
  <2> HIDE DEF q
  <2>8. InOrder(A, S \cup {h}, q)
    <3>1. \A g, x \in S \cup {h} : q[g] = q[x] => g = x
      BY <2>6, <2>7 DEF InOrder
    <3>2. A.head \in S \cup {h} /\ \A g \in S \cup {h} : q[A.head] <= q[g]
      BY <1>3, <2>5, <2>6, <2>7 DEF InOrder
    <3>3. ASSUME NEW x \in S \cup {h}
          PROVE  IF A.next[x] = None THEN \A g \in S \cup {h} : q[g] <= q[x]
                 ELSE /\ A.next[x] \in S \cup {h} /\ q[x] < q[A.next[x]]
                      /\ \A g \in S \cup {h} : q[g] <= q[x] \/ q[A.next[x]] <= q[g]
      <4>1. CASE x = h
        BY <2>4, <2>5, <2>6, <2>7, <4>1
      <4>2. CASE x = z
        BY <1>0, <1>3, <2>1, <2>4, <2>5, <2>6, <2>7, <4>2
      <4>3. CASE x \in S /\ x # z
        <5>1. A.next[x] = L.next[x]
          BY <1>3, <2>4, <2>5, <4>3
        <5>2. L.next[x] # None
          BY <2>1, <2>6, <4>3 DEF InOrder
        <5>3. /\ L.next[x] \in S /\ r[x] < r[L.next[x]]
              /\ \A g \in S : r[g] <= r[x] \/ r[L.next[x]] <= r[g]
          BY <4>3, <5>2 DEF InOrder
        <5>4. q[L.next[x]] <= q[h]
          BY <2>6, <2>7, <5>3
        <5> QED
          BY <2>7, <4>3, <5>1, <5>2, <5>3, <5>4
      <4> QED
        BY <4>1, <4>2, <4>3
    <3> QED
      BY <2>7, <3>1, <3>2, <3>3 DEF InOrder
  <2>9. \A g \in S : L.next[g] # None => A.next[g] = L.next[g]
    BY <1>3, <2>1, <2>4, <2>5
  <2> QED
    BY <1>3, <2>2, <2>5, <2>7, <2>8, <2>9 DEF Behind
<1> QED
  BY <1>1, <1>2, <1>3

\* prev is where the pointer to item is: in the head of the list or in another item.
Before(L, S, prev, item) ==
  (prev = None /\ L.head = item) \/ (prev \in S /\ L.next[prev] = item)

\* U is the list L without h, whose successor was n and whose predecessor was prev.
Without(L, U, S, r, h, prev, n) ==
  /\ U \in Links /\ InOrder(U, S \ {h}, r)
  /\ prev # h /\ n # h
  /\ prev = None => U.head = n
  /\ prev # None => U.next[prev] = n

\* Giving the predecessor of an item its successor takes the item out.
LEMMA UnlinkInOrder ==
  ASSUME NEW L \in Links, NEW S \in SUBSET All, NEW r, InOrder(L, S, r), NEW h \in S,
         NEW prev, Before(L, S, prev, h)
  PROVE  Without(L, Unlinked(L, h, prev, L.next[h]), S, r, h, prev, L.next[h])
<1> DEFINE n == L.next[h]
           next == IF prev = None THEN [L.next EXCEPT ![h] = None]
                   ELSE [L.next EXCEPT ![prev] = n, ![h] = None]
           U == [head |-> IF prev = None THEN n ELSE L.head, next |-> next]
           T == S \ {h}
<1>0. /\ L.head \in All \cup {None} /\ L.next \in [All -> All \cup {None}]
      /\ L = [head |-> L.head, next |-> L.next]
      /\ None \notin All
  BY AllIsFinite DEF Links
<1>r. /\ r \in [All -> Nat] /\ \A g \in S : r[g] \in Nat
      /\ \A g, x \in S : r[g] = r[x] => g = x
  BY DEF InOrder
<1>b. (prev = None /\ L.head = h) \/ (prev \in S /\ L.next[prev] = h)
  BY DEF Before
<1>1. Unlinked(L, h, prev, n) = U
  BY <1>0 DEF Unlinked
<1>2. n \in All \cup {None}
  BY <1>0
<1>3. next \in [All -> All \cup {None}]
  BY <1>0, <1>2
<1>4. prev # None => prev \in S /\ r[prev] < r[h] /\ prev # h
  BY <1>0, <1>b, <1>r DEF InOrder
<1>5. \A g \in All : next[g] = IF g = h THEN None ELSE IF g = prev THEN n ELSE L.next[g]
  BY <1>0, <1>4
<1> HIDE DEF next
<1>6. U \in Links /\ U.next = next /\ U.head = IF prev = None THEN n ELSE L.head
  BY <1>0, <1>2, <1>3 DEF Links
<1> HIDE DEF U
<1>7. IF n = None THEN \A g \in S : r[g] <= r[h]
      ELSE n \in S /\ r[h] < r[n] /\ \A g \in S : r[g] <= r[h] \/ r[n] <= r[g]
  BY DEF InOrder
<1> HIDE DEF n
<1>8. T = {} => U.head = None
  <2> SUFFICES ASSUME T = {} PROVE U.head = None
    OBVIOUS
  <2>1. prev = None
    BY <1>4
  <2>2. n = None
    BY <1>7, <1>r
  <2> QED
    BY <1>6, <2>1, <2>2
<1>9. ASSUME T # {}
      PROVE  U.head \in T /\ \A g \in T : r[U.head] <= r[g]
  <2>1. CASE prev = None
    <3>1. L.head = h /\ \A g \in S : r[h] <= r[g]
      BY <1>0, <1>b, <2>1 DEF InOrder
    <3>2. n # None
      BY <1>7, <1>9, <1>r, <3>1
    <3>3. \A g \in T : r[n] <= r[g]
      BY <1>7, <1>r, <3>1, <3>2
    <3> QED
      BY <1>6, <1>7, <1>r, <2>1, <3>2, <3>3
  <2>2. CASE prev # None
    <3>1. L.head \in S /\ \A g \in S : r[L.head] <= r[g]
      BY DEF InOrder
    <3>2. L.head # h
      BY <1>4, <1>r, <2>2, <3>1
    <3> QED
      BY <1>6, <2>2, <3>1, <3>2
  <2> QED
    BY <2>1, <2>2
<1>10. ASSUME NEW x \in T
       PROVE  IF U.next[x] = None THEN \A g \in T : r[g] <= r[x]
              ELSE /\ U.next[x] \in T /\ r[x] < r[U.next[x]]
                   /\ \A g \in T : r[g] <= r[x] \/ r[U.next[x]] <= r[g]
  <2>1. CASE x = prev
    <3>1. U.next[x] = n /\ prev # None /\ L.next[prev] = h
      BY <1>0, <1>5, <1>6, <1>b, <2>1
    <3>2. \A g \in S : r[g] <= r[x] \/ r[h] <= r[g]
      BY <1>0, <2>1, <3>1 DEF InOrder
    <3>3. \A g \in T : r[g] <= r[x] \/ r[h] < r[g]
      BY <1>r, <3>2
    <3>4. CASE n = None
      BY <1>7, <1>r, <3>1, <3>3, <3>4
    <3>5. CASE n # None
      <4>1. n \in T /\ r[x] < r[n]
        BY <1>4, <1>7, <1>r, <2>1, <3>1, <3>5
      <4>2. \A g \in T : r[g] <= r[x] \/ r[n] <= r[g]
        BY <1>7, <1>r, <3>3, <3>5
      <4> QED
        BY <3>1, <3>5, <4>1, <4>2
    <3> QED
      BY <3>4, <3>5
  <2>2. CASE x # prev
    <3>1. U.next[x] = L.next[x]
      BY <1>5, <1>6, <2>2
    <3>2. IF L.next[x] = None THEN \A g \in S : r[g] <= r[x]
          ELSE /\ L.next[x] \in S /\ r[x] < r[L.next[x]]
               /\ \A g \in S : r[g] <= r[x] \/ r[L.next[x]] <= r[g]
      BY DEF InOrder
    <3>3. L.next[x] # h
      <4> SUFFICES ASSUME L.next[x] = h PROVE FALSE
        OBVIOUS
      <4>1. r[x] < r[h] /\ \A g \in S : r[g] <= r[x] \/ r[h] <= r[g]
        BY <1>0, <3>2
      <4>2. CASE prev = None
        BY <1>0, <1>b, <1>r, <4>1, <4>2 DEF InOrder
      <4>3. CASE prev # None
        <5>1. /\ prev \in S /\ r[prev] < r[h]
              /\ \A g \in S : r[g] <= r[prev] \/ r[h] <= r[g]
          BY <1>0, <1>4, <1>b, <4>3 DEF InOrder
        <5>2. r[x] <= r[prev] /\ r[prev] <= r[x]
          BY <1>r, <4>1, <5>1
        <5> QED
          BY <1>r, <2>2, <5>1, <5>2
      <4> QED
        BY <4>2, <4>3
    <3> QED
      BY <3>1, <3>2, <3>3
  <2> QED
    BY <2>1, <2>2
<1>11. InOrder(U, T, r)
  BY <1>r, <1>8, <1>9, <1>10 DEF InOrder
<1>12. prev # None => U.next[prev] = n
  BY <1>4, <1>5, <1>6
<1>13. prev # h /\ n # h
  BY <1>0, <1>4, <1>7, <1>r
<1>14. Without(L, U, S, r, h, prev, n)
  BY <1>6, <1>11, <1>12, <1>13 DEF Without
<1> QED
  BY <1>1, <1>14 DEF n

\* xmpp_id_handler_delete and xmpp_timed_handler_delete take out the item, if it
\* is there.
LEMMA DeleteInOrder ==
  ASSUME NEW L \in Links, NEW S \in SUBSET All, NEW r, InOrder(L, S, r), NEW h
  PROVE  Deleted(L, h) \in Links /\ InOrder(Deleted(L, h), S \ {h}, r)
<1>1. Items(L) = S /\ None \notin S
  BY ItemsInOrder, AllIsFinite
<1>2. CASE h \notin S
  <2>1. Deleted(L, h) = L /\ S \ {h} = S
    BY <1>1, <1>2 DEF Deleted
  <2> QED
    BY <2>1
<1>3. CASE h \in S
  <2> DEFINE prev == IF h = L.head THEN None ELSE CHOOSE p \in Items(L) : L.next[p] = h
  <2>1. Before(L, S, prev, h)
    <3>1. h = L.head \/ \E p \in S : L.next[p] = h
      BY <1>3, ItemsInOrder
    <3> QED
      BY <1>1, <3>1 DEF Before
  <2>2. Deleted(L, h) = Unlinked(L, h, prev, L.next[h])
    BY <1>1, <1>3 DEF Deleted
  <2> HIDE DEF prev
  <2>3. Without(L, Unlinked(L, h, prev, L.next[h]), S, r, h, prev, L.next[h])
    BY <1>3, <2>1, UnlinkInOrder
  <2> QED
    BY <2>2, <2>3 DEF Without
<1> QED
  BY <1>2, <1>3

-------------------------------------------------------------------------------
(* The invariant *)

\* What a walk has still to come to, in a list with ranks r.
Ahead(r, h) ==
  walk.item # None /\ IF walk.running THEN r[walk.item] < r[h] ELSE r[walk.item] <= r[h]

\* A walk on list l, whose items have the ranks r: its pointers are to items of the
\* list, prev is before item unless nobody needs it, nothing ahead has been called, and
\* what is owed is ahead and will not be passed by.
At(l, r) ==
  /\ {walk.prev, walk.item, walk.saved} \subseteq want[l] \cup {None}
  /\ walk.running => walk.item # None /\ Callable(walk.item)
  /\ l # "timed" => \/ Before(list[l], want[l], walk.prev, walk.item)
                    \/ l \in Ids /\ \A h \in want[l] : ~Callable(h)
  /\ l = "timed" => walk.prev = None
  /\ l \in Ids /\ walk.running => walk.saved = list[l].next[walk.item]
  /\ \A h \in want[l] : Ahead(r, h) /\ (l \in Ids \/ h \in enabled) => calls[h] = 0
  /\ \A h \in owed : /\ h \in want[l] /\ Ahead(r, h) /\ Callable(h)
                     /\ l \notin Ids => h \in enabled
                     /\ l = "stanza" => h \in walk.matches
                     /\ l = "timed" => h \in due

\* Taking an item out moves the pointer before it to the next one.
LEMMA UnlinkMoves ==
  ASSUME NEW L \in Links, NEW S \in SUBSET All, NEW r, InOrder(L, S, r), NEW h \in S,
         NEW prev, Before(L, S, prev, h), NEW n, n = L.next[h]
  PROVE  /\ Unlinked(L, h, prev, n) \in Links
         /\ InOrder(Unlinked(L, h, prev, n), S \ {h}, r)
         /\ prev \in (S \ {h}) \cup {None}
         /\ Before(Unlinked(L, h, prev, n), S \ {h}, prev, n)
<1> DEFINE U == Unlinked(L, h, prev, n)
<1>1. Without(L, U, S, r, h, prev, n)
  BY UnlinkInOrder
<1> HIDE DEF U
<1>2. /\ U \in Links /\ InOrder(U, S \ {h}, r) /\ prev # h
      /\ prev = None => U.head = n
      /\ prev # None => U.next[prev] = n
  BY <1>1 DEF Without
<1>3. prev \in (S \ {h}) \cup {None}
  BY <1>2 DEF Before
<1>4. Before(U, S \ {h}, prev, n)
  BY <1>2, <1>3 DEF Before
<1> QED
  BY <1>2, <1>3, <1>4 DEF U

HInv ==
  /\ TypeOK
  /\ \A l \in Lists : want[l] \subseteq MayHold(l)
  /\ enabled \subseteq want["stanza"] \cup want["timed"]
  /\ \A h \in All : calls[h] <= 1
  /\ walk.running => walk.on # "none"
  /\ \A l \in Lists : \E r : InOrder(list[l], want[l], r) /\ (walk.on = l => At(l, r))

\* Which list may hold what.
LEMMA Kinds ==
  /\ "stanza" \in Lists /\ "timed" \in Lists /\ Ids \subseteq Lists /\ "none" \notin Lists
  /\ "stanza" \notin Ids /\ "timed" \notin Ids
  /\ \A l \in Lists : l = "stanza" \/ l = "timed" \/ l \in Ids
  /\ MayHold("stanza") = StanzaHandlers /\ MayHold("timed") = TimedHandlers
  /\ \A l \in Ids : MayHold(l) = IF l \in UserIds THEN IdHandlers \cap UserHandlers
                                                  ELSE IdHandlers \ UserHandlers
  /\ \A l \in Lists : MayHold(l) \subseteq All
<1>1. "stanza" \notin Ids /\ "timed" \notin Ids /\ "none" \notin Ids /\ UserIds \subseteq Ids
  BY IdsAssumption
<1>2. MayHold("stanza") = StanzaHandlers /\ MayHold("timed") = TimedHandlers
  BY <1>1 DEF MayHold
<1>3. \A l \in Ids : MayHold(l) = IF l \in UserIds THEN IdHandlers \cap UserHandlers
                                                    ELSE IdHandlers \ UserHandlers
  BY <1>1 DEF MayHold
<1> QED
  BY <1>1, <1>2, <1>3 DEF Lists, All

\* HInv of the next state from its parts.
LEMMA Assemble ==
  ASSUME list' \in [Lists -> Links], want' \in [Lists -> SUBSET All],
         \A l \in Lists : want'[l] \subseteq MayHold(l),
         enabled' \subseteq want'["stanza"] \cup want'["timed"],
         due' \subseteq TimedHandlers, auth' \in BOOLEAN, walk' \in Walks,
         calls' \in [All -> 0..1], owed' \subseteq All, walk'.running => walk'.on # "none",
         \A l \in Lists : \E r : InOrder(list'[l], want'[l], r) /\ (walk'.on = l => At(l, r)')
  PROVE  HInv'
<1>1. enabled' \subseteq StanzaHandlers \cup TimedHandlers
  BY Kinds
<1>2. calls' \in [All -> 0..2] /\ \A h \in All : calls'[h] <= 1
  OBVIOUS
<1>3. walk'.on # "none" =>
        {walk'.prev, walk'.item, walk'.saved} \ {None} \subseteq want'[walk'.on]
  <2> SUFFICES ASSUME walk'.on # "none"
               PROVE  {walk'.prev, walk'.item, walk'.saved} \ {None} \subseteq want'[walk'.on]
    OBVIOUS
  <2>1. PICK l \in Lists : l = walk'.on
    BY DEF Walks
  <2>2. PICK r : At(l, r)'
    BY <2>1
  <2> QED
    BY <2>1, <2>2 DEF At
<1>4. TypeOK'
  BY <1>1, <1>2, <1>3 DEF TypeOK
<1> QED
  BY <1>2, <1>4 DEF HInv

\* Between walks only the lists matter.
LEMMA BetweenWalks ==
  ASSUME HInv, walk.on = "none", UNCHANGED <<auth, walk, calls, owed>>,
         list' \in [Lists -> Links], want' \in [Lists -> SUBSET All],
         \A l \in Lists : want'[l] \subseteq MayHold(l),
         enabled' \subseteq want'["stanza"] \cup want'["timed"], due' \subseteq TimedHandlers,
         \A l \in Lists : \E r : InOrder(list'[l], want'[l], r)
  PROVE  HInv'
<1>1. /\ auth' \in BOOLEAN /\ walk' \in Walks /\ owed' \subseteq All
      /\ calls' \in [All -> 0..1] /\ (walk'.running => walk'.on # "none")
  BY DEF HInv, TypeOK
<1>2. walk'.on \notin Lists
  BY Kinds
<1> QED
  BY <1>1, <1>2, Assemble

\* What Add does to the lists.
LEMMA AddToList ==
  ASSUME HInv, NEW l \in Lists, NEW h \in MayHold(l), Add(l, h)
  PROVE  /\ list' \in [Lists -> Links] /\ want' \in [Lists -> SUBSET All]
         /\ \A k \in Lists : want'[k] \subseteq MayHold(k)
         /\ enabled' \subseteq want'["stanza"] \cup want'["timed"] /\ due' \subseteq TimedHandlers
         /\ list'[l] = Added(list[l], h) /\ want'[l] = want[l] \cup {h}
         /\ \A k \in Lists : k # l => list'[k] = list[k] /\ want'[k] = want[k]
<1>1. /\ list \in [Lists -> Links] /\ want \in [Lists -> SUBSET All] /\ due \subseteq TimedHandlers
      /\ \A k \in Lists : want[k] \subseteq MayHold(k)
      /\ enabled \subseteq want["stanza"] \cup want["timed"]
      /\ list[l] \in Links /\ want[l] \in SUBSET All
  BY DEF HInv, TypeOK
<1>2. h \in All
  BY Kinds
<1>3. PICK r : InOrder(list[l], want[l], r)
  BY DEF HInv
<1>4. Added(list[l], h) \in Links
  BY <1>1, <1>2, <1>3, AddInOrder
<1>5. /\ list' = [list EXCEPT ![l] = Added(list[l], h)]
      /\ want' = [want EXCEPT ![l] = want[l] \cup {h}]
      /\ enabled' = enabled /\ due' = due
  BY DEF Add
<1>6. /\ list' \in [Lists -> Links] /\ list'[l] = Added(list[l], h)
      /\ \A k \in Lists : k # l => list'[k] = list[k]
  BY <1>1, <1>4, <1>5
<1>7. /\ want' \in [Lists -> SUBSET All] /\ want'[l] = want[l] \cup {h}
      /\ \A k \in Lists : k # l => want'[k] = want[k]
  BY <1>1, <1>2, <1>5
<1>8. \A k \in Lists : want'[k] \subseteq MayHold(k) /\ want[k] \subseteq want'[k]
  BY <1>1, <1>7
<1> QED
  BY <1>1, <1>5, <1>6, <1>7, <1>8, Kinds

\* What the removal of an item does to the lists, if `links` is the list without it.
LEMMA RemoveFromList ==
  ASSUME HInv, NEW l \in Lists, NEW h, NEW links \in Links, Remove(l, h, links),
         h \in MayHold(l)
  PROVE  /\ list' \in [Lists -> Links] /\ want' \in [Lists -> SUBSET All]
         /\ \A k \in Lists : want'[k] \subseteq MayHold(k)
         /\ enabled' \subseteq want'["stanza"] \cup want'["timed"] /\ due' \subseteq TimedHandlers
         /\ list'[l] = links /\ want'[l] = want[l] \ {h}
         /\ \A k \in Lists : k # l => list'[k] = list[k] /\ want'[k] = want[k]
         /\ enabled' = enabled \ {h} /\ due' = due \ {h}
<1>1. /\ list \in [Lists -> Links] /\ want \in [Lists -> SUBSET All] /\ due \subseteq TimedHandlers
      /\ \A k \in Lists : want[k] \subseteq MayHold(k)
      /\ enabled \subseteq want["stanza"] \cup want["timed"]
  BY DEF HInv, TypeOK
<1>2. /\ list' = [list EXCEPT ![l] = links]
      /\ want' = [want EXCEPT ![l] = want[l] \ {h}]
      /\ enabled' = enabled \ {h} /\ due' = due \ {h}
  BY DEF Remove
<1>3. /\ list' \in [Lists -> Links] /\ list'[l] = links
      /\ \A k \in Lists : k # l => list'[k] = list[k]
  BY <1>1, <1>2
<1>4. /\ want' \in [Lists -> SUBSET All] /\ want'[l] = want[l] \ {h}
      /\ \A k \in Lists : k # l => want'[k] = want[k]
  BY <1>1, <1>2
<1>5. \A k \in Lists : want'[k] \subseteq MayHold(k) /\ want[k] \ {h} \subseteq want'[k]
  BY <1>1, <1>4
<1> QED
  BY <1>1, <1>2, <1>3, <1>4, <1>5, Kinds

-------------------------------------------------------------------------------
(* Between walks *)

\* mio_handler_add and its like.
LEMMA UserAdds ==
  ASSUME HInv, NEW l \in Lists, NEW h, mio_handler_add(l, h)
  PROVE  HInv'
<1>1. h \in MayHold(l) /\ Add(l, h) /\ walk.on = "none" /\ h \in All
      /\ UNCHANGED <<auth, walk, calls, owed>>
  BY Kinds DEF mio_handler_add
<1>2. /\ list' \in [Lists -> Links] /\ want' \in [Lists -> SUBSET All]
      /\ \A k \in Lists : want'[k] \subseteq MayHold(k)
      /\ enabled' \subseteq want'["stanza"] \cup want'["timed"] /\ due' \subseteq TimedHandlers
      /\ list'[l] = Added(list[l], h) /\ want'[l] = want[l] \cup {h}
      /\ \A k \in Lists : k # l => list'[k] = list[k] /\ want'[k] = want[k]
  BY <1>1, AddToList
<1>3. ASSUME NEW k \in Lists
      PROVE  \E r : InOrder(list'[k], want'[k], r)
  <2>1. PICK r : InOrder(list[k], want[k], r)
    BY DEF HInv
  <2>2. list[k] \in Links /\ want[k] \in SUBSET All
    BY DEF HInv, TypeOK
  <2>3. \E q : InOrder(Added(list[k], h), want[k] \cup {h}, q)
    BY <1>1, <2>1, <2>2, AddInOrder
  <2> QED
    BY <1>2, <2>1, <2>3
<1> QED
  BY <1>1, <1>2, <1>3, BetweenWalks

\* mio_handler_id_delete.
LEMMA UserDeletes ==
  ASSUME HInv, NEW l \in Lists, NEW h, mio_handler_id_delete(l, h)
  PROVE  HInv'
<1>1. h \in MayHold(l) /\ Remove(l, h, Deleted(list[l], h)) /\ walk.on = "none"
      /\ UNCHANGED <<auth, walk, calls, owed>>
  BY DEF mio_handler_id_delete
<1>2. list[l] \in Links /\ want[l] \in SUBSET All
  BY DEF HInv, TypeOK
<1>3. PICK r : InOrder(list[l], want[l], r)
  BY DEF HInv
<1>4. Deleted(list[l], h) \in Links /\ InOrder(Deleted(list[l], h), want[l] \ {h}, r)
  BY <1>2, <1>3, DeleteInOrder
<1>5. /\ list' \in [Lists -> Links] /\ want' \in [Lists -> SUBSET All]
      /\ \A k \in Lists : want'[k] \subseteq MayHold(k)
      /\ enabled' \subseteq want'["stanza"] \cup want'["timed"] /\ due' \subseteq TimedHandlers
      /\ list'[l] = Deleted(list[l], h) /\ want'[l] = want[l] \ {h}
      /\ \A k \in Lists : k # l => list'[k] = list[k] /\ want'[k] = want[k]
  BY <1>1, <1>4, RemoveFromList
<1>6. \A k \in Lists : \E q : InOrder(list'[k], want'[k], q)
  BY <1>4, <1>5 DEF HInv
<1> QED
  BY <1>1, <1>5, <1>6, BetweenWalks

\* auth_handle_open.
LEMMA StreamOpens ==
  ASSUME HInv, auth_handle_open
  PROVE  HInv'
<1> DEFINE L1 == Added(list["stanza"], Error)
           L2 == Added(L1, Features)
           L3 == Added(list["timed"], MissingFeatures)
<1>1. /\ list \in [Lists -> Links] /\ want \in [Lists -> SUBSET All]
      /\ \A k \in Lists : want[k] \subseteq MayHold(k)
      /\ enabled \subseteq want["stanza"] \cup want["timed"]
  BY DEF HInv, TypeOK
<1>2. /\ Error \in All /\ Features \in All /\ MissingFeatures \in All
      /\ {Error, Features} \subseteq MayHold("stanza") /\ MissingFeatures \in MayHold("timed")
  BY HandlersAssumption, Kinds
<1>3. PICK r : InOrder(list["stanza"], want["stanza"], r)
  BY Kinds DEF HInv
<1>4. PICK q : InOrder(list["timed"], want["timed"], q)
  BY Kinds DEF HInv
<1>5. L1 \in Links /\ \E r1 : InOrder(L1, want["stanza"] \cup {Error}, r1)
  BY <1>1, <1>2, <1>3, Kinds, AddInOrder
<1>6. L3 \in Links /\ \E r3 : InOrder(L3, want["timed"] \cup {MissingFeatures}, r3)
  BY <1>1, <1>2, <1>4, Kinds, AddInOrder
<1> DEFINE S1 == want["stanza"] \cup {Error}
<1>7. S1 \in SUBSET All
  BY <1>1, <1>2, Kinds
<1> HIDE DEF L1, S1
<1>8. L2 \in Links /\ \E r2 : InOrder(L2, S1 \cup {Features}, r2)
  BY <1>2, <1>5, <1>7, AddInOrder DEF S1
<1> HIDE DEF L2, L3
<1>9. /\ list' = [[[list EXCEPT !["stanza"] = L1] EXCEPT !["stanza"] = L2] EXCEPT !["timed"] = L3]
      /\ want' = [want EXCEPT !["stanza"] = want["stanza"] \cup {Error, Features},
                              !["timed"] = want["timed"] \cup {MissingFeatures}]
      /\ walk.on = "none" /\ due' = {}
      /\ UNCHANGED <<enabled, auth, walk, calls, owed>>
  BY <1>1, Kinds DEF auth_handle_open, L1, L2, L3
<1>10. /\ list' \in [Lists -> Links] /\ list'["stanza"] = L2 /\ list'["timed"] = L3
       /\ \A k \in Ids : list'[k] = list[k]
  BY <1>1, <1>5, <1>6, <1>8, <1>9, Kinds
<1>11. /\ want' \in [Lists -> SUBSET All] /\ want'["stanza"] = S1 \cup {Features}
       /\ want'["timed"] = want["timed"] \cup {MissingFeatures}
       /\ \A k \in Ids : want'[k] = want[k]
  BY <1>1, <1>2, <1>9, Kinds DEF S1
<1>12. ASSUME NEW k \in Lists
       PROVE  (\E x : InOrder(list'[k], want'[k], x)) /\ want'[k] \subseteq MayHold(k)
  <2>1. CASE k = "stanza"
    BY <1>1, <1>2, <1>8, <1>10, <1>11, <2>1 DEF S1
  <2>2. CASE k = "timed"
    BY <1>1, <1>2, <1>6, <1>10, <1>11, <2>2
  <2>3. CASE k \in Ids
    BY <1>1, <1>10, <1>11, <2>3 DEF HInv
  <2> QED
    BY <2>1, <2>2, <2>3, Kinds
<1>13. enabled' \subseteq want'["stanza"] \cup want'["timed"] /\ due' \subseteq TimedHandlers
  BY <1>1, <1>9, <1>11 DEF S1
<1> QED
  BY <1>9, <1>10, <1>11, <1>12, <1>13, BetweenWalks

-------------------------------------------------------------------------------
(* Steps of a walk *)

\* The walk of a list begins: all its items are ahead.
LEMMA WalkBegins ==
  ASSUME HInv, NEW l \in Lists, Begin(l)
  PROVE  HInv'
<1>1. /\ list \in [Lists -> Links] /\ want \in [Lists -> SUBSET All] /\ due \subseteq TimedHandlers
      /\ \A k \in Lists : want[k] \subseteq MayHold(k) /\ list[k] \in Links /\ want[k] \in SUBSET All
      /\ enabled \subseteq want["stanza"] \cup want["timed"] /\ auth \in BOOLEAN
      /\ None \notin All
  BY AllIsFinite DEF HInv, TypeOK
<1>2. PICK r : InOrder(list[l], want[l], r)
  BY DEF HInv
<1>3. Items(list[l]) = want[l]
  BY <1>1, <1>2, ItemsInOrder
<1>4. PICK m \in IF l = "stanza" THEN SUBSET Items(list[l]) ELSE {{}} :
        /\ walk' = [Idle EXCEPT !.on = l, !.item = list[l].head, !.matches = m]
        /\ enabled' = IF l \in Ids THEN enabled ELSE enabled \cup Items(list[l])
        /\ calls' = [h \in All |-> 0] /\ owed' = Owes(l, m)
        /\ UNCHANGED <<list, due, auth, want>>
  BY DEF Begin
<1>5. walk' = [on |-> l, prev |-> None, item |-> list[l].head, saved |-> None,
               running |-> FALSE, matches |-> m]
  BY <1>4 DEF Idle
<1>f. /\ walk'.on = l /\ walk'.prev = None /\ walk'.item = list[l].head /\ walk'.saved = None
      /\ walk'.running = FALSE /\ walk'.matches = m
  BY <1>5
<1>6. m \subseteq StanzaHandlers /\ list[l].head \in want[l] \cup {None}
  BY <1>1, <1>2, <1>3, <1>4, Kinds DEF InOrder
<1>7. walk' \in Walks
  BY <1>1, <1>5, <1>6 DEF Walks
<1>8. enabled' \subseteq want'["stanza"] \cup want'["timed"] /\ (l \notin Ids => want[l] \subseteq enabled')
  BY <1>1, <1>3, <1>4, Kinds
<1>9. calls' \in [All -> 0..1] /\ owed' \subseteq All /\ owed' \subseteq want[l]
  BY <1>1, <1>4 DEF Owes
<1>10. At(l, r)'
  <2>1. {walk'.prev, walk'.item, walk'.saved} \subseteq want'[l] \cup {None}
    BY <1>4, <1>f, <1>6
  <2>2. ~walk'.running /\ Before(list'[l], want'[l], walk'.prev, walk'.item)
    BY <1>4, <1>f DEF Before
  <2>3. \A h \in want[l] : calls'[h] = 0
    BY <1>1, <1>4
  <2>4. ASSUME NEW h \in owed'
        PROVE  /\ h \in want'[l] /\ Ahead(r, h)' /\ Callable(h)'
               /\ l \notin Ids => h \in enabled'
               /\ l = "stanza" => h \in walk'.matches
               /\ l = "timed" => h \in due'
    <3>1. h \in want[l] /\ Callable(h) /\ (l = "stanza" => h \in m) /\ (l = "timed" => h \in due)
      BY <1>4, <2>4 DEF Owes
    <3>2. list[l].head # None /\ r[list[l].head] <= r[h]
      BY <1>1, <1>2, <3>1 DEF InOrder
    <3> QED
      BY <1>4, <1>f, <1>8, <3>1, <3>2 DEF Ahead, Callable
  <2> QED
    BY <1>4, <1>f, <2>1, <2>2, <2>3, <2>4 DEF At
<1>11. \A k \in Lists : \E q : InOrder(list'[k], want'[k], q) /\ (walk'.on = k => At(k, q)')
  <2> TAKE k \in Lists
  <2>1. CASE k = l
    BY <1>2, <1>4, <1>10, <2>1
  <2>2. CASE k # l
    BY <1>4, <1>f, <2>2 DEF HInv
  <2> QED
    BY <2>1, <2>2
<1> QED
  BY <1>1, <1>4, <1>f, <1>7, <1>8, <1>9, <1>11, Assemble

\* A step of a walk that leaves the lists alone.
LEMMA WalkSteps ==
  ASSUME HInv, NEW l \in Lists, walk.on = l, UNCHANGED <<list, want, enabled>>,
         due' \subseteq TimedHandlers, auth' \in BOOLEAN, walk' \in Walks, walk'.on = l,
         calls' \in [All -> 0..1], owed' \subseteq All,
         NEW r, InOrder(list[l], want[l], r), At(l, r)'
  PROVE  HInv'
<1>1. /\ list' \in [Lists -> Links] /\ want' \in [Lists -> SUBSET All]
      /\ \A k \in Lists : want'[k] \subseteq MayHold(k)
      /\ enabled' \subseteq want'["stanza"] \cup want'["timed"]
  BY DEF HInv, TypeOK
<1>2. \A k \in Lists : \E q : InOrder(list'[k], want'[k], q) /\ (walk'.on = k => At(k, q)')
  BY DEF HInv
<1> QED
  BY <1>1, <1>2, Kinds, Assemble

\* An item is passed by: nothing is owed to it.
LEMMA SkipKeeps ==
  ASSUME HInv, Skip
  PROVE  HInv'
<1>1. PICK l \in Lists : l = walk.on
  BY DEF Skip, HInv, TypeOK, Walks
<1>2. PICK r : InOrder(list[l], want[l], r) /\ At(l, r)
  BY <1>1 DEF HInv
<1> DEFINE S == want[l]
           i == walk.item
           n == list[l].next[i]
<1>3. /\ walk \in Walks /\ calls \in [All -> 0..2] /\ \A h \in All : calls[h] <= 1
      /\ owed \subseteq All /\ auth \in BOOLEAN /\ due \subseteq TimedHandlers /\ None \notin All
      /\ S \subseteq All /\ S \subseteq MayHold(l)
  BY AllIsFinite DEF HInv, TypeOK
<1>4. /\ i # None /\ ~walk.running /\ Passes
      /\ walk' = [walk EXCEPT !.item = n, !.prev = IF l = "stanza" THEN i ELSE @]
      /\ UNCHANGED <<list, enabled, due, auth, want, calls, owed>>
  BY <1>1 DEF Skip
<1>5. i \in S /\ {walk.prev, walk.item, walk.saved} \subseteq S \cup {None}
  BY <1>2, <1>4 DEF At
<1>6. /\ IF n = None THEN \A g \in S : r[g] <= r[i]
          ELSE n \in S /\ r[i] < r[n] /\ \A g \in S : r[g] <= r[i] \/ r[n] <= r[g]
      /\ \A g \in S : r[g] \in Nat
      /\ \A g \in S : r[g] = r[i] => g = i
  BY <1>2, <1>3, <1>5 DEF InOrder
<1>7. /\ walk' \in Walks /\ walk'.on = l /\ walk'.item = n /\ walk'.saved = walk.saved
      /\ walk'.running = walk.running /\ walk'.matches = walk.matches
      /\ walk'.prev = IF l = "stanza" THEN i ELSE walk.prev
  BY <1>1, <1>3, <1>4, <1>5, <1>6 DEF Walks
<1>8. At(l, r)'
  <2>1. {walk'.prev, walk'.item, walk'.saved} \subseteq want'[l] \cup {None}
    BY <1>4, <1>5, <1>6, <1>7
  <2>2. l = "stanza" => Before(list'[l], want'[l], walk'.prev, walk'.item)
    BY <1>4, <1>5, <1>7 DEF Before
  <2>3. l \in Ids => \A h \in want'[l] : ~Callable(h)'
    <3> SUFFICES ASSUME l \in Ids PROVE \A h \in S : ~Callable(h)'
      BY <1>4
    <3>1. ~Callable(i)
      BY <1>1, <1>4, Kinds DEF Passes
    <3>2. \A h \in S : h \in UserHandlers
      BY <1>3, <1>5, <3>1, Kinds DEF Callable
    <3> QED
      BY <1>4, <3>1, <3>2 DEF Callable
  <2>4. l = "timed" => walk'.prev = None
    BY <1>2, <1>7 DEF At
  <2>5. \A h \in S : Ahead(r, h)' => Ahead(r, h)
    BY <1>4, <1>5, <1>6, <1>7 DEF Ahead
  <2>6. \A h \in want'[l] : Ahead(r, h)' /\ (l \in Ids \/ h \in enabled') => calls'[h] = 0
    BY <1>2, <1>4, <2>5 DEF At
  <2>7. ASSUME NEW h \in owed'
        PROVE  /\ h \in want'[l] /\ Ahead(r, h)' /\ Callable(h)'
               /\ l \notin Ids => h \in enabled'
               /\ l = "stanza" => h \in walk'.matches
               /\ l = "timed" => h \in due'
    <3>1. /\ h \in S /\ Ahead(r, h) /\ Callable(h)
          /\ l \notin Ids => h \in enabled
          /\ l = "stanza" => h \in walk.matches
          /\ l = "timed" => h \in due
      BY <1>2, <1>4, <2>7 DEF At
    <3>2. h # i
      BY <1>1, <1>4, <3>1 DEF Passes
    <3>3. r[i] < r[h]
      BY <1>4, <1>5, <1>6, <3>1, <3>2 DEF Ahead
    <3>4. n # None /\ r[n] <= r[h]
      BY <1>5, <1>6, <3>1, <3>3
    <3> QED
      BY <1>4, <1>7, <3>1, <3>4 DEF Ahead, Callable
  <2> QED
    BY <1>4, <1>7, <2>1, <2>2, <2>3, <2>4, <2>6, <2>7, Kinds DEF At
<1>9. due' \subseteq TimedHandlers /\ auth' \in BOOLEAN /\ calls' \in [All -> 0..1] /\ owed' \subseteq All
  BY <1>3, <1>4
<1> QED
  BY <1>1, <1>2, <1>4, <1>7, <1>8, <1>9, WalkSteps

\* An item is called, for the first time in the walk.
LEMMA CallKeeps ==
  ASSUME HInv, Call
  PROVE  HInv'
<1>1. PICK l \in Lists : l = walk.on
  BY DEF Call, HInv, TypeOK, Walks
<1>2. PICK r : InOrder(list[l], want[l], r) /\ At(l, r)
  BY <1>1 DEF HInv
<1> DEFINE S == want[l]
           i == walk.item
           n == list[l].next[i]
<1>3. /\ walk \in Walks /\ calls \in [All -> 0..2] /\ \A h \in All : calls[h] <= 1
      /\ owed \subseteq All /\ auth \in BOOLEAN /\ due \subseteq TimedHandlers /\ None \notin All
      /\ S \subseteq All
  BY AllIsFinite DEF HInv, TypeOK
<1>4. /\ i # None /\ ~walk.running /\ ~Passes
      /\ walk' = [walk EXCEPT !.running = TRUE, !.saved = n]
      /\ calls' = [calls EXCEPT ![i] = calls[i] + 1]
      /\ owed' = owed \ {i} /\ due' = due \ {i}
      /\ UNCHANGED <<list, enabled, auth, want>>
  BY <1>1 DEF Call
<1>5. i \in S /\ {walk.prev, walk.item, walk.saved} \subseteq S \cup {None}
  BY <1>2, <1>4 DEF At
<1>6. /\ n \in S \cup {None}
      /\ \A g \in S : r[g] \in Nat
      /\ \A g \in S : r[g] = r[i] => g = i
  BY <1>2, <1>3, <1>5 DEF InOrder
<1>7. /\ walk' \in Walks /\ walk'.on = l /\ walk'.item = i /\ walk'.saved = n
      /\ walk'.running = TRUE /\ walk'.matches = walk.matches /\ walk'.prev = walk.prev
  BY <1>1, <1>3, <1>4, <1>6 DEF Walks
<1>p. Callable(i) /\ (l \notin Ids => i \in enabled)
  BY <1>1, <1>4 DEF Passes
<1>8. calls[i] = 0
  BY <1>2, <1>4, <1>5, <1>6, <1>p DEF At, Ahead
<1>9. calls' \in [All -> 0..1] /\ \A h \in All : h # i => calls'[h] = calls[h]
  BY <1>3, <1>4, <1>5, <1>8
<1>10. At(l, r)'
  <2>1. {walk'.prev, walk'.item, walk'.saved} \subseteq want'[l] \cup {None}
    BY <1>4, <1>5, <1>6, <1>7
  <2>2. /\ l # "timed" => \/ Before(list'[l], want'[l], walk'.prev, walk'.item)
                          \/ l \in Ids /\ \A h \in want'[l] : ~Callable(h)'
        /\ l = "timed" => walk'.prev = None
    BY <1>2, <1>4, <1>7 DEF At, Callable
  <2>3. Callable(walk.item)'
    BY <1>4, <1>7, <1>p DEF Callable
  <2>4. \A h \in S : Ahead(r, h)' => Ahead(r, h) /\ h # i
    BY <1>4, <1>5, <1>6, <1>7 DEF Ahead
  <2>5. \A h \in want'[l] : Ahead(r, h)' /\ (l \in Ids \/ h \in enabled') => calls'[h] = 0
    BY <1>2, <1>3, <1>4, <1>9, <2>4 DEF At
  <2>6. ASSUME NEW h \in owed'
        PROVE  /\ h \in want'[l] /\ Ahead(r, h)' /\ Callable(h)'
               /\ l \notin Ids => h \in enabled'
               /\ l = "stanza" => h \in walk'.matches
               /\ l = "timed" => h \in due'
    <3>1. /\ h \in S /\ h # i /\ Ahead(r, h) /\ Callable(h)
          /\ l \notin Ids => h \in enabled
          /\ l = "stanza" => h \in walk.matches
          /\ l = "timed" => h \in due
      BY <1>2, <1>4, <2>6 DEF At
    <3>2. r[i] < r[h]
      BY <1>4, <1>5, <1>6, <3>1 DEF Ahead
    <3> QED
      BY <1>4, <1>7, <3>1, <3>2 DEF Ahead, Callable
  <2> QED
    BY <1>4, <1>7, <2>1, <2>2, <2>3, <2>5, <2>6 DEF At
<1>11. due' \subseteq TimedHandlers /\ auth' \in BOOLEAN /\ owed' \subseteq All
  BY <1>3, <1>4
<1> QED
  BY <1>1, <1>2, <1>4, <1>7, <1>9, <1>10, <1>11, WalkSteps

\* A step of a walk that changes one of the lists: the others stay as they are.
LEMMA WalkEdits ==
  ASSUME HInv, NEW l \in Lists, NEW k \in Lists, walk'.on = l,
         list' \in [Lists -> Links], want' \in [Lists -> SUBSET All],
         \A j \in Lists : want'[j] \subseteq MayHold(j),
         enabled' \subseteq want'["stanza"] \cup want'["timed"],
         due' \subseteq TimedHandlers, auth' \in BOOLEAN, walk' \in Walks,
         calls' \in [All -> 0..1], owed' \subseteq All,
         \A j \in Lists : j # k => list'[j] = list[j] /\ want'[j] = want[j],
         NEW q, InOrder(list'[k], want'[k], q),
         NEW r, InOrder(list'[l], want'[l], r), At(l, r)'
  PROVE  HInv'
<1>1. ASSUME NEW j \in Lists
      PROVE  \E x : InOrder(list'[j], want'[j], x) /\ (walk'.on = j => At(j, x)')
  <2>1. CASE j = l
    BY <2>1
  <2>2. CASE j = k /\ j # l
    BY <2>2
  <2>3. CASE j # k /\ j # l
    BY <2>3 DEF HInv
  <2> QED
    BY <2>1, <2>2, <2>3
<1> QED
  BY <1>1, Kinds, Assemble

\* The called handler returns and the walk goes on behind it; if it asked to be
\* removed, the item before it, or the head of the list, now points to the next one.
LEMMA ReturnKeeps ==
  ASSUME HInv, NEW keep \in BOOLEAN, Return(keep)
  PROVE  HInv'
<1>1. PICK l \in Lists : l = walk.on
  BY DEF Return, HInv, TypeOK, Walks
<1>2. PICK r : InOrder(list[l], want[l], r) /\ At(l, r)
  BY <1>1 DEF HInv
<1> DEFINE S == want[l]
           i == walk.item
           n == list[l].next[i]
<1>3. /\ walk \in Walks /\ calls \in [All -> 0..1]
      /\ owed \subseteq All /\ auth \in BOOLEAN /\ due \subseteq TimedHandlers /\ None \notin All
      /\ S \in SUBSET All /\ S \subseteq MayHold(l) /\ list[l] \in Links
  BY AllIsFinite DEF HInv, TypeOK
<1>4. walk.running /\ i \in S /\ Callable(i) /\ (l \in Ids => walk.saved = n)
      /\ walk.prev \in S \cup {None}
  BY <1>1, <1>2 DEF Return, At
<1>5. /\ walk' = [walk EXCEPT !.running = FALSE, !.saved = None, !.item = n,
                              !.prev = IF keep /\ l # "timed" THEN i ELSE @]
      /\ UNCHANGED <<auth, calls, owed>>
      /\ IF keep THEN UNCHANGED <<list, enabled, due, want>>
         ELSE Remove(l, i, IF l = "timed" THEN Deleted(list[l], i)
                           ELSE Unlinked(list[l], i, walk.prev, n))
  BY <1>1, <1>4 DEF Return, After
<1>6. /\ IF n = None THEN \A g \in S : r[g] <= r[i]
         ELSE n \in S /\ r[i] < r[n] /\ \A g \in S : r[g] <= r[i] \/ r[n] <= r[g]
      /\ \A g \in S : r[g] \in Nat
      /\ \A g \in S : r[g] = r[i] => g = i
  BY <1>2, <1>3, <1>4 DEF InOrder
<1>7. /\ walk' \in Walks /\ walk'.on = l /\ walk'.item = n /\ walk'.saved = None
      /\ walk'.running = FALSE /\ walk'.matches = walk.matches
      /\ walk'.prev = IF keep /\ l # "timed" THEN i ELSE walk.prev
  BY <1>1, <1>3, <1>4, <1>5, <1>6 DEF Walks
<1>8. \A h \in S : Ahead(r, h)' => Ahead(r, h) /\ h # i
  <2>1. \A h \in S : n # None /\ r[n] <= r[h] => r[i] < r[h]
    BY <1>4, <1>6
  <2>2. \A h \in S : Ahead(r, h)' => n # None /\ r[n] <= r[h]
    BY <1>7 DEF Ahead
  <2> QED
    BY <1>3, <1>4, <1>6, <2>1, <2>2 DEF Ahead
<1>9. ASSUME NEW h \in owed'
      PROVE  /\ h \in S \ {i} /\ Ahead(r, h)' /\ Callable(h)'
             /\ l \notin Ids => h \in enabled \ {i}
             /\ l = "stanza" => h \in walk'.matches
             /\ l = "timed" => h \in due \ {i}
  <2>1. /\ h \in S /\ Ahead(r, h) /\ Callable(h)
        /\ l \notin Ids => h \in enabled
        /\ l = "stanza" => h \in walk.matches
        /\ l = "timed" => h \in due
    BY <1>2, <1>5, <1>9 DEF At
  <2>2. r[i] < r[h]
    BY <1>4, <2>1 DEF Ahead
  <2>3. h # i /\ n # None /\ r[n] <= r[h]
    BY <1>4, <1>6, <2>1, <2>2
  <2>4. Ahead(r, h)'
    BY <1>7, <2>3 DEF Ahead
  <2> QED
    BY <1>5, <1>7, <2>1, <2>3, <2>4 DEF Callable
<1>10. \A h \in S : Ahead(r, h)' /\ (l \in Ids \/ h \in enabled) => calls'[h] = 0
  BY <1>2, <1>5, <1>8 DEF At
<1>11. CASE keep
  <2>1. UNCHANGED <<list, want, enabled, due>>
    BY <1>5, <1>11
  <2>2. {walk'.prev, walk'.item, walk'.saved} \subseteq want'[l] \cup {None}
    BY <1>4, <1>6, <1>7, <2>1
  <2>3. l # "timed" => Before(list'[l], want'[l], walk'.prev, walk'.item)
    BY <1>4, <1>7, <1>11, <2>1 DEF Before
  <2>4. l = "timed" => walk'.prev = None
    BY <1>2, <1>7 DEF At
  <2>5. At(l, r)'
    BY <1>7, <1>9, <1>10, <2>1, <2>2, <2>3, <2>4 DEF At
  <2> QED
    BY <1>1, <1>2, <1>3, <1>5, <1>7, <2>1, <2>5, WalkSteps
<1>12. CASE ~keep
  <2> DEFINE U == IF l = "timed" THEN Deleted(list[l], i)
                  ELSE Unlinked(list[l], i, walk.prev, n)
  <2>1. l # "timed" => Before(list[l], S, walk.prev, i)
    BY <1>2, <1>4 DEF At
  <2>m. l # "timed" => /\ Unlinked(list[l], i, walk.prev, n) \in Links
                       /\ InOrder(Unlinked(list[l], i, walk.prev, n), S \ {i}, r)
                       /\ walk.prev \in (S \ {i}) \cup {None}
                       /\ Before(Unlinked(list[l], i, walk.prev, n), S \ {i}, walk.prev, n)
    <3>1. list[l] \in Links /\ S \in SUBSET All /\ InOrder(list[l], S, r) /\ i \in S
      BY <1>2, <1>3, <1>4
    <3>2. n = list[l].next[i]
      OBVIOUS
    <3> HIDE DEF S, i, n, U
    <3> SUFFICES ASSUME Before(list[l], S, walk.prev, i)
                 PROVE  /\ Unlinked(list[l], i, walk.prev, n) \in Links
                        /\ InOrder(Unlinked(list[l], i, walk.prev, n), S \ {i}, r)
                        /\ walk.prev \in (S \ {i}) \cup {None}
                        /\ Before(Unlinked(list[l], i, walk.prev, n), S \ {i}, walk.prev, n)
      BY <2>1
    <3> QED
      BY <3>1, <3>2, UnlinkMoves
  <2>2. U \in Links /\ InOrder(U, S \ {i}, r)
    <3>1. CASE l = "timed"
      BY <1>2, <1>3, <3>1, DeleteInOrder
    <3>2. CASE l # "timed"
      BY <2>m, <3>2
    <3> QED
      BY <3>1, <3>2
  <2>3. l # "timed" => /\ walk.prev \in (S \ {i}) \cup {None}
                       /\ Before(U, S \ {i}, walk.prev, n)
    BY <2>m
  <2> HIDE DEF U
  <2>4. Remove(l, i, U) /\ i \in MayHold(l)
    BY <1>3, <1>4, <1>5, <1>12 DEF U
  <2>5. /\ list' \in [Lists -> Links] /\ want' \in [Lists -> SUBSET All]
        /\ \A k \in Lists : want'[k] \subseteq MayHold(k)
        /\ enabled' \subseteq want'["stanza"] \cup want'["timed"] /\ due' \subseteq TimedHandlers
        /\ list'[l] = U /\ want'[l] = S \ {i}
        /\ \A k \in Lists : k # l => list'[k] = list[k] /\ want'[k] = want[k]
        /\ enabled' = enabled \ {i} /\ due' = due \ {i}
    BY <2>2, <2>4, RemoveFromList
  <2>6. {walk'.prev, walk'.item, walk'.saved} \subseteq want'[l] \cup {None}
    <3>1. n \in (S \ {i}) \cup {None}
      BY <1>4, <1>6
    <3>2. walk.prev \in (S \ {i}) \cup {None}
      BY <1>2, <2>3 DEF At
    <3> QED
      BY <1>7, <1>12, <2>5, <3>1, <3>2
  <2>7. l # "timed" => Before(list'[l], want'[l], walk'.prev, walk'.item)
    BY <1>7, <1>12, <2>3, <2>5
  <2>8. l = "timed" => walk'.prev = None
    BY <1>2, <1>7 DEF At
  <2>9. At(l, r)'
    BY <1>7, <1>9, <1>10, <2>5, <2>6, <2>7, <2>8 DEF At
  <2>10. InOrder(list'[l], want'[l], r)
    BY <2>2, <2>5
  <2>11. auth' \in BOOLEAN /\ calls' \in [All -> 0..1] /\ owed' \subseteq All
    BY <1>3, <1>5
  <2> QED
    BY <1>7, <2>5, <2>9, <2>10, <2>11, WalkEdits
<1> QED
  BY <1>11, <1>12

-------------------------------------------------------------------------------
(* What a called handler does *)

\* Where a handler of libstrophe runs: in a walk, called from an item of the list.
LEMMA Inside ==
  ASSUME HInv, InSystemHandler
  PROVE  /\ walk.on \in Lists /\ walk.running
         /\ calls \in [All -> 0..1] /\ walk \in Walks /\ owed \subseteq All
         /\ auth \in BOOLEAN /\ due \subseteq TimedHandlers /\ None \notin All
         /\ list \in [Lists -> Links] /\ want \in [Lists -> SUBSET All]
         /\ \A k \in Lists : /\ list[k] \in Links /\ want[k] \in SUBSET All
                             /\ want[k] \subseteq MayHold(k)
         /\ \A h \in enabled : h \in want["stanza"] \/ h \in want["timed"]
BY AllIsFinite DEF HInv, TypeOK, Walks, InSystemHandler

\* It adds another handler: to another list, or behind all those of the list that is
\* walked, where it is not enabled.
LEMMA HandlerAddsKeeps ==
  ASSUME HInv, NEW k \in Lists, NEW h, HandlerAdds(k, h)
  PROVE  HInv'
<1>1. /\ InSystemHandler /\ h \in MayHold(k) /\ Add(k, h) /\ ~(walk.on \in Ids /\ k = walk.on)
      /\ calls' = IF k = walk.on /\ h \notin want[k] THEN [calls EXCEPT ![h] = 1] ELSE calls
      /\ UNCHANGED <<auth, walk, owed, enabled>> /\ h \in All /\ due' = due
  BY Kinds DEF HandlerAdds, Add
<1>2. PICK l \in Lists : l = walk.on
  BY <1>1, Inside
<1>3. PICK r : InOrder(list[l], want[l], r) /\ At(l, r)
  BY <1>2 DEF HInv
<1>4. PICK x : InOrder(list[k], want[k], x)
  BY DEF HInv
<1>5. /\ list' \in [Lists -> Links] /\ want' \in [Lists -> SUBSET All]
      /\ \A j \in Lists : want'[j] \subseteq MayHold(j)
      /\ enabled' \subseteq want'["stanza"] \cup want'["timed"] /\ due' \subseteq TimedHandlers
      /\ list'[k] = Added(list[k], h) /\ want'[k] = want[k] \cup {h}
      /\ \A j \in Lists : j # k => list'[j] = list[j] /\ want'[j] = want[j]
  BY <1>1, AddToList
<1>6. /\ auth' \in BOOLEAN /\ walk' \in Walks /\ owed' \subseteq All /\ walk'.on = l
      /\ calls' \in [All -> 0..1]
  <2>0. 1 \in 0..1
    OBVIOUS
  <2>1. calls \in [All -> 0..1] => [calls EXCEPT ![h] = 1] \in [All -> 0..1]
    BY <2>0, Zenon
  <2>2. calls' \in [All -> 0..1]
    BY <1>1, <2>1, Inside
  <2> QED
    BY <1>1, <1>2, <2>2, Inside
<1>7. list[k] \in Links /\ want[k] \in SUBSET All
  BY <1>1, Inside
<1>8. CASE k # l
  <2>0. \E q : InOrder(Added(list[k], h), want[k] \cup {h}, q)
    BY <1>1, <1>4, <1>7, AddInOrder
  <2>1. PICK q : InOrder(list'[k], want'[k], q)
    BY <1>5, <2>0
  <2>2. list'[l] = list[l] /\ want'[l] = want[l] /\ calls' = calls
    BY <1>1, <1>2, <1>5, <1>8
  <2>3. At(l, r)'
    BY <1>1, <1>3, <2>2 DEF At, Ahead, Callable
  <2> QED
    BY <1>3, <1>5, <1>6, <2>1, <2>2, <2>3, WalkEdits
<1>9. CASE k = l
  <2> DEFINE S == want[l]
             A == Added(list[l], h)
  <2>0. InOrder(list[l], S, r) /\ list[l] \in Links /\ S \in SUBSET All /\ None \notin S
    BY <1>1, <1>3, <1>7, <1>9, Inside
  <2> HIDE DEF S, A
  <2>1. PICK q : /\ InOrder(A, S \cup {h}, q)
                 /\ \A g \in S : q[g] = r[g]
                 /\ h \notin S => \A g \in S : q[g] < q[h]
    <3>1. \E q : InOrder(Added(list[l], h), S \cup {h}, q) /\ Behind(S, r, h, q)
      BY <1>1, <2>0, AddInOrder
    <3> QED
      BY <3>1 DEF A, Behind
  <2>2. /\ S # {} => A.head = list[l].head
        /\ \A g \in S : list[l].next[g] # None => A.next[g] = list[l].next[g]
    <3> DEFINE L == list[l]
    <3>0. L \in Links /\ S \in SUBSET All /\ InOrder(L, S, r) /\ h \in All
      BY <1>1, <2>0
    <3> HIDE DEF L
    <3>1. S # {} => Added(L, h).head = L.head
      BY <3>0, AddInOrder
    <3>2. \A g \in S : L.next[g] # None => Added(L, h).next[g] = L.next[g]
      BY <3>0, AddInOrder
    <3> QED
      BY <3>1, <3>2 DEF A, L
  <2>3. list'[l] = A /\ want'[l] = S \cup {h} /\ l \notin Ids
    BY <1>1, <1>2, <1>5, <1>9 DEF A, S
  <2>4. /\ walk.item \in S /\ walk.running /\ Callable(walk.item)
        /\ {walk.prev, walk.item, walk.saved} \subseteq S \cup {None}
        /\ l = "timed" => walk.prev = None
        /\ l # "timed" => Before(list[l], S, walk.prev, walk.item)
        /\ \A g \in S : Ahead(r, g) /\ g \in enabled => calls[g] = 0
    BY <1>1, <1>3, <2>3, Inside DEF At, S
  <2>5. l # "timed" => Before(A, S \cup {h}, walk.prev, walk.item)
    BY <2>0, <2>2, <2>4 DEF Before
  <2>6. h \in enabled => h \in S
    <3>1. l = "stanza" \/ l = "timed"
      BY <2>3, Kinds
    <3>2. want["stanza"] \subseteq StanzaHandlers /\ want["timed"] \subseteq TimedHandlers
      BY <1>1, Inside, Kinds
    <3> QED
      BY <1>1, <1>9, <3>1, <3>2, Inside, Kinds, FunctionsAssumption DEF S
  <2>7. \A g \in S : Ahead(q, g)' <=> Ahead(r, g)
    BY <1>1, <2>1, <2>4 DEF Ahead
  <2>8. \A g \in S : calls'[g] = calls[g]
    <3>1. calls \in [All -> 0..1]
      BY <1>1, Inside
    <3> QED
      BY <1>1, <1>2, <1>9, <2>0, <3>1 DEF S
  <2>9. \A g \in want'[l] : Ahead(q, g)' /\ (l \in Ids \/ g \in enabled') => calls'[g] = 0
    BY <1>1, <2>3, <2>4, <2>6, <2>7, <2>8
  <2>10. \A g \in owed' : /\ g \in want'[l] /\ Ahead(q, g)' /\ Callable(g)'
                          /\ l \notin Ids => g \in enabled'
                          /\ l = "stanza" => g \in walk'.matches
                          /\ l = "timed" => g \in due'
    BY <1>1, <1>3, <2>3, <2>7 DEF At, S, Callable
  <2>11. At(l, q)'
    <3>1. {walk'.prev, walk'.item, walk'.saved} \subseteq want'[l] \cup {None}
      BY <1>1, <2>3, <2>4
    <3>2. walk'.item # None /\ Callable(walk.item)'
      BY <1>1, <2>0, <2>4 DEF Callable
    <3>3. l # "timed" => Before(list'[l], want'[l], walk'.prev, walk'.item)
      BY <1>1, <2>3, <2>5
    <3>4. l = "timed" => walk'.prev = None
      BY <1>1, <2>4
    <3> QED
      BY <2>3, <2>9, <2>10, <3>1, <3>2, <3>3, <3>4 DEF At
  <2>12. InOrder(list'[l], want'[l], q)
    BY <2>1, <2>3
  <2> QED
    BY <1>5, <1>6, <1>9, <2>11, <2>12, WalkEdits
<1> QED
  BY <1>8, <1>9

\* It removes a timed handler, which is not in the list that is walked.
LEMMA HandlerDeletesKeeps ==
  ASSUME HInv, NEW h \in TimedHandlers, HandlerDeletesTimed(h)
  PROVE  HInv'
<1>1. /\ InSystemHandler /\ walk.on # "timed"
      /\ Remove("timed", h, Deleted(list["timed"], h))
      /\ UNCHANGED <<auth, walk, calls, owed>>
      /\ "timed" \in Lists /\ h \in MayHold("timed")
  BY Kinds DEF HandlerDeletesTimed
<1>2. PICK l \in Lists : l = walk.on
  BY <1>1, Inside
<1>3. PICK r : InOrder(list[l], want[l], r) /\ At(l, r)
  BY <1>2 DEF HInv
<1>4. PICK q : InOrder(list["timed"], want["timed"], q)
  BY <1>1 DEF HInv
<1>5. Deleted(list["timed"], h) \in Links /\ InOrder(Deleted(list["timed"], h), want["timed"] \ {h}, q)
  BY <1>1, <1>4, Inside, DeleteInOrder
<1>6. /\ list' \in [Lists -> Links] /\ want' \in [Lists -> SUBSET All]
      /\ \A j \in Lists : want'[j] \subseteq MayHold(j)
      /\ enabled' \subseteq want'["stanza"] \cup want'["timed"] /\ due' \subseteq TimedHandlers
      /\ list'["timed"] = Deleted(list["timed"], h) /\ want'["timed"] = want["timed"] \ {h}
      /\ \A j \in Lists : j # "timed" => list'[j] = list[j] /\ want'[j] = want[j]
      /\ enabled' = enabled \ {h} /\ due' = due \ {h}
  BY <1>1, <1>5, RemoveFromList
<1>7. list'[l] = list[l] /\ want'[l] = want[l] /\ l # "timed"
  BY <1>1, <1>2, <1>6
<1>8. l \notin Ids => h \notin owed
  <2>1. l \notin Ids => l = "stanza"
    BY <1>7, Kinds
  <2>2. owed \subseteq want[l] /\ want[l] \subseteq MayHold(l)
    BY <1>1, <1>3, Inside DEF At
  <2> QED
    BY <2>1, <2>2, Kinds, FunctionsAssumption
<1>9. At(l, r)'
  BY <1>1, <1>3, <1>6, <1>7, <1>8 DEF At, Ahead, Callable
<1>10. /\ auth' \in BOOLEAN /\ walk' \in Walks /\ owed' \subseteq All /\ walk'.on = l
       /\ calls' \in [All -> 0..1]
  BY <1>1, <1>2, Inside
<1>11. InOrder(list'["timed"], want'["timed"], q) /\ InOrder(list'[l], want'[l], r)
  BY <1>3, <1>5, <1>6, <1>7
<1> QED
  BY <1>1, <1>6, <1>9, <1>10, <1>11, WalkEdits

\* It authenticates: the user handlers may be called from now on.
LEMMA AuthenticateKeeps ==
  ASSUME HInv, Authenticate
  PROVE  HInv'
<1>1. /\ InSystemHandler /\ auth' = TRUE
      /\ UNCHANGED <<list, enabled, due, walk, want, calls, owed>>
  BY DEF Authenticate
<1>2. PICK l \in Lists : l = walk.on
  BY <1>1, Inside
<1>3. PICK r : InOrder(list[l], want[l], r) /\ At(l, r)
  BY <1>2 DEF HInv
<1>4. \A h : Callable(h) => Callable(h)'
  BY <1>1 DEF Callable
<1>5. l # "timed" => Before(list[l], want[l], walk.prev, walk.item)
  BY <1>1, <1>3, Inside DEF At
<1>6. At(l, r)'
  BY <1>1, <1>3, <1>4, <1>5, Inside DEF At, Ahead
<1> QED
  BY <1>1, <1>2, <1>3, <1>6, Inside, WalkSteps

-------------------------------------------------------------------------------
(* The invariant holds *)

\* Time passes, between walks or in one of the timed handlers.
LEMMA PeriodKeeps ==
  ASSUME HInv, NEW h \in TimedHandlers, PeriodPasses(h)
  PROVE  HInv'
<1>1. /\ walk.on \in {"none", "timed"} /\ due' = due \cup {h}
      /\ UNCHANGED <<list, enabled, auth, walk, want, calls, owed>>
  BY DEF PeriodPasses
<1>2. /\ due' \subseteq TimedHandlers /\ auth' \in BOOLEAN /\ walk' \in Walks
      /\ owed' \subseteq All /\ calls' \in [All -> 0..1]
      /\ list' \in [Lists -> Links] /\ want' \in [Lists -> SUBSET All]
      /\ \A k \in Lists : want'[k] \subseteq MayHold(k)
      /\ enabled' \subseteq want'["stanza"] \cup want'["timed"]
  BY <1>1 DEF HInv, TypeOK
<1>3. CASE walk.on = "none"
  <2>1. \A k \in Lists : \E q : InOrder(list'[k], want'[k], q)
    BY <1>1 DEF HInv
  <2> QED
    BY <1>1, <1>2, <1>3, <2>1, BetweenWalks
<1>4. CASE walk.on = "timed"
  <2>1. PICK l \in Lists : l = walk.on
    BY <1>4, Kinds
  <2>2. PICK r : InOrder(list[l], want[l], r) /\ At(l, r)
    BY <2>1 DEF HInv
  <2>3. At(l, r)'
    BY <1>1, <2>2 DEF At, Ahead, Callable
  <2> QED
    BY <1>1, <1>2, <2>1, <2>2, <2>3, WalkSteps
<1> QED
  BY <1>1, <1>3, <1>4

\* A walk is over.
LEMMA WalkDoneKeeps ==
  ASSUME HInv, WalkDone
  PROVE  HInv'
<1>1. /\ walk' = Idle /\ calls' = [h \in All |-> 0] /\ owed' = {}
      /\ UNCHANGED <<list, enabled, due, auth, want>>
  BY DEF WalkDone
<1>2. walk' \in Walks /\ walk'.on = "none" /\ ~walk'.running
  BY <1>1 DEF Idle, Walks
<1>3. /\ due' \subseteq TimedHandlers /\ auth' \in BOOLEAN
      /\ owed' \subseteq All /\ calls' \in [All -> 0..1]
      /\ list' \in [Lists -> Links] /\ want' \in [Lists -> SUBSET All]
      /\ \A k \in Lists : want'[k] \subseteq MayHold(k)
      /\ enabled' \subseteq want'["stanza"] \cup want'["timed"]
  BY <1>1 DEF HInv, TypeOK
<1>4. \A k \in Lists : \E q : InOrder(list'[k], want'[k], q) /\ (walk'.on = k => At(k, q)')
  BY <1>1, <1>2, Kinds DEF HInv
<1> QED
  BY <1>2, <1>3, <1>4, Assemble

LEMMA InitInvariant ==
  ASSUME Init
  PROVE  HInv
<1> DEFINE L == [head |-> None, next |-> [h \in All |-> None]]
           r == [h \in All |-> 0]
<1>1. L \in Links /\ Idle \in Walks /\ Idle.on = "none" /\ ~Idle.running
  BY DEF Links, Idle, Walks
<1>2. InOrder(L, {}, r)
  BY DEF InOrder
<1>3. TypeOK
  <2>1. list \in [Lists -> Links] /\ want \in [Lists -> SUBSET All]
    BY <1>1 DEF Init
  <2>2. 0 \in 0..2
    OBVIOUS
  <2>3. calls \in [All -> 0..2]
    BY <2>2 DEF Init
  <2> QED
    BY <1>1, <2>1, <2>3 DEF Init, TypeOK
<1>4. \A l \in Lists : list[l] = L /\ want[l] = {}
  BY DEF Init
<1>5. \A l \in Lists : \E q : InOrder(list[l], want[l], q) /\ (walk.on = l => At(l, q))
  BY <1>1, <1>2, <1>4, Kinds DEF Init
<1>6. want["stanza"] = {} /\ want["timed"] = {} /\ \A h \in All : calls[h] <= 1
  BY <1>4, Kinds DEF Init
<1> QED
  BY <1>1, <1>3, <1>4, <1>5, <1>6 DEF HInv, Init

LEMMA NextInvariant ==
  ASSUME HInv, [Next]_vars
  PROVE  HInv'
<1>1. ASSUME NEW l \in Lists, NEW h \in All, mio_handler_add(l, h)
      PROVE  HInv'
  BY <1>1, UserAdds
<1>2. ASSUME NEW l \in Lists, NEW h \in All, mio_handler_id_delete(l, h)
      PROVE  HInv'
  BY <1>2, UserDeletes
<1>3. ASSUME NEW l \in Lists, NEW h \in All, HandlerAdds(l, h)
      PROVE  HInv'
  BY <1>3, HandlerAddsKeeps
<1>4. ASSUME NEW i \in Ids \cup {None}, handler_fire_stanza(i)
      PROVE  HInv'
  <2>1. PICK l \in Lists : Begin(l)
    BY <1>4, Kinds DEF handler_fire_stanza
  <2> QED
    BY <2>1, WalkBegins
<1>5. CASE handler_fire_timed
  BY <1>5, WalkBegins, Kinds DEF handler_fire_timed
<1>6. CASE IdWalkDone
  BY <1>6, WalkBegins, Kinds DEF IdWalkDone
<1>7. ASSUME NEW h \in TimedHandlers, PeriodPasses(h)
      PROVE  HInv'
  BY <1>7, PeriodKeeps
<1>8. ASSUME NEW h \in TimedHandlers, HandlerDeletesTimed(h)
      PROVE  HInv'
  BY <1>8, HandlerDeletesKeeps
<1>9. CASE auth_handle_open
  BY <1>9, StreamOpens
<1>10. CASE Authenticate
  BY <1>10, AuthenticateKeeps
<1>11. CASE WalkDone
  BY <1>11, WalkDoneKeeps
<1>12. CASE Skip
  BY <1>12, SkipKeeps
<1>13. CASE Call
  BY <1>13, CallKeeps
<1>14. ASSUME NEW keep \in Results, Return(keep)
       PROVE  HInv'
  <2>1. keep \in BOOLEAN
    BY DEF Results, mio_handler_generic, mio_handler_generic_id, mio_handler_generic_timed
  <2> QED
    BY <1>14, <2>1, ReturnKeeps
<1>15. CASE UNCHANGED vars
  BY <1>15 DEF vars, HInv, TypeOK, At, Ahead, Callable
<1> QED
  BY <1>1, <1>2, <1>3, <1>4, <1>5, <1>6, <1>7, <1>8, <1>9, <1>10, <1>11, <1>12, <1>13,
     <1>14, <1>15 DEF Next, Loop

LEMMA Invariant == Spec => []HInv
<1>1. Init => HInv
  BY InitInvariant
<1>2. HInv /\ [Next]_vars => HInv'
  BY NextInvariant
<1> QED
  BY <1>1, <1>2, PTL DEF Spec

-------------------------------------------------------------------------------
(* What it says of the lists and the walks *)

\* Whatever the handlers that are called, and other threads between walks, do to the
\* lists, each of them holds what was added and not removed, its next pointers end, and
\* no pointer of a walk outlives its item (handler.c: handler_fire_stanza,
\* handler_fire_timed and the adds and deletes).
THEOREM ListsStaySound == Spec => []ListsAreSound
<1>1. ASSUME HInv
      PROVE  ListsAreSound
  <2>1. TypeOK
    BY <1>1 DEF HInv
  <2>2. ASSUME NEW l \in Lists
        PROVE  Items(list[l]) = want[l] /\ Follow(list[l])[Cardinality(All)] = None
    <3>1. PICK r : InOrder(list[l], want[l], r)
      BY <1>1 DEF HInv
    <3>2. list[l] \in Links /\ want[l] \in SUBSET All
      BY <2>1 DEF TypeOK
    <3> QED
      BY <3>1, <3>2, ItemsInOrder
  <2> QED
    BY <2>1, <2>2 DEF ListsAreSound, ListsAgree
<1> QED
  BY <1>1, Invariant, PTL

\* A walk calls no handler twice, none that was added while it ran, and by its end every
\* one that was in the list as it began, fitted the stanza or was due, and could be
\* called; only those that were removed meanwhile are left out (handler.c: the enabled
\* flags and the next pointers of handler_fire_stanza and handler_fire_timed).
THEOREM EachIsCalledOnce == Spec => []CalledExactlyOnce
<1>1. ASSUME HInv
      PROVE  CalledExactlyOnce
  <2>1. OncePerWalk
    BY <1>1 DEF HInv, OncePerWalk
  <2>2. ASSUME walk.on \in Lists, walk.item = None
        PROVE  owed = {}
    <3>1. PICK l \in Lists : l = walk.on
      BY <2>2
    <3>2. PICK r : At(l, r)
      BY <1>1, <3>1 DEF HInv
    <3>3. \A h \in owed : Ahead(r, h)
      BY <3>2 DEF At
    <3> QED
      BY <2>2, <3>3 DEF Ahead
  <2>3. NoneSkipped
    BY <2>2 DEF NoneSkipped
  <2> QED
    BY <2>1, <2>3 DEF CalledExactlyOnce
<1> QED
  BY <1>1, Invariant, PTL
===============================================================================
