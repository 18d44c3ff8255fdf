----------------------------- MODULE RingProofs ------------------------------
(***************************************************************************)
(* Proofs about Ring, for every set of servers, every number of replicas,  *)
(* every hash function and every sequence of added and removed servers.    *)
(***************************************************************************)
EXTENDS Ring, FiniteSetTheorems, FunctionTheorems, NaturalsInduction, TLAPS

(***************************************************************************)
(* Sorting.  Of two numbers of f the smaller one comes first, of two equal *)
(* ones that with the smaller index; the rank of a number is how many come *)
(* before it.                                                              *)
(***************************************************************************)
Numbers(f) == IsFiniteSet(DOMAIN f) /\ DOMAIN f \subseteq Nat /\ \A i \in DOMAIN f : f[i] \in Nat

Before(f, j) == {i \in DOMAIN f : f[i] < f[j] \/ (f[i] = f[j] /\ i < j)}
Rank(f, j) == Cardinality(Before(f, j))
Copies(f, h) == {i \in DOMAIN f : f[i] = h}
UpTo(f, h) == Cardinality({i \in DOMAIN f : f[i] <= h})

\* Sets between which a function is one to one have as many elements.
LEMMA SameNumber ==
  ASSUME NEW A, NEW B, IsFiniteSet(A), NEW f \in [A -> B],
         \A x, y \in A : f[x] = f[y] => x = y, \A y \in B : \E x \in A : f[x] = y
  PROVE  IsFiniteSet(B) /\ Cardinality(B) = Cardinality(A)
<1>1. f \in Bijection(A, B)
  BY Fun_IsBij
<1>2. ExistsBijection(A, B)
  BY <1>1, Fun_ExistsBij
<1> QED BY <1>2, FS_Bijection

\* A set of numbers has a least one.
LEMMA LeastNumber ==
  ASSUME NEW S, S \subseteq Nat, S # {}
  PROVE  \E n \in S : \A k \in S : n <= k
<1>1. PICK n \in S : \A k \in S : ~ (<<k, n>> \in OpToRel(<, Nat))
  BY NatLessThanWellFounded, WFMin, Zenon
<1>2. ASSUME NEW k \in S PROVE n <= k
  <2>1. ~ (k < n)
    BY <1>1 DEF OpToRel
  <2> QED BY <2>1
<1> QED BY <1>2

LEMMA RankInRange ==
  ASSUME NEW f, Numbers(f), NEW j \in DOMAIN f
  PROVE  /\ Rank(f, j) \in 0 .. (Cardinality(DOMAIN f) - 1)
         /\ IsFiniteSet(Before(f, j)) /\ j \notin Before(f, j)
<1>1. j \notin Before(f, j) /\ Before(f, j) \subseteq DOMAIN f \ {j}
  BY DEF Before, Numbers
<1>2. IsFiniteSet(DOMAIN f \ {j}) /\ Cardinality(DOMAIN f \ {j}) = Cardinality(DOMAIN f) - 1
  BY FS_RemoveElement DEF Numbers
<1>3. IsFiniteSet(Before(f, j)) /\ Cardinality(Before(f, j)) <= Cardinality(DOMAIN f \ {j})
  BY <1>1, <1>2, FS_Subset
<1>4. Cardinality(Before(f, j)) \in Nat /\ Cardinality(DOMAIN f) \in Nat
  BY <1>3, FS_CardinalityType DEF Numbers
<1> QED BY <1>1, <1>2, <1>3, <1>4 DEF Rank

LEMMA RankGrows ==
  ASSUME NEW f, Numbers(f), NEW j \in DOMAIN f, NEW i \in Before(f, j)
  PROVE  Rank(f, i) < Rank(f, j)
<1>1. i \in DOMAIN f
  BY DEF Before
<1>2. Before(f, i) \cup {i} \subseteq Before(f, j)
  BY DEF Before, Numbers
<1>3. /\ IsFiniteSet(Before(f, i)) /\ i \notin Before(f, i) /\ IsFiniteSet(Before(f, j))
      /\ Rank(f, i) \in Nat /\ Rank(f, j) \in Nat
  BY <1>1, RankInRange
<1>4. Cardinality(Before(f, i) \cup {i}) = Rank(f, i) + 1
  BY <1>3, FS_AddElement DEF Rank
<1>5. Cardinality(Before(f, i) \cup {i}) <= Rank(f, j)
  BY <1>2, <1>3, FS_Subset DEF Rank
<1> QED BY <1>3, <1>4, <1>5

\* The ranks are 0, 1, ... up to the number of indices, each exactly once.
LEMMA RankOneToOne ==
  ASSUME NEW f, Numbers(f)
  PROVE  /\ \A i, j \in DOMAIN f : Rank(f, i) = Rank(f, j) => i = j
         /\ \A r \in 0 .. (Cardinality(DOMAIN f) - 1) : \E j \in DOMAIN f : Rank(f, j) = r
<1> DEFINE n == Cardinality(DOMAIN f)
           g == [j \in DOMAIN f |-> Rank(f, j)]
<1>1. ASSUME NEW i \in DOMAIN f, NEW j \in DOMAIN f, i # j
      PROVE  Rank(f, i) # Rank(f, j)
  <2>1. i \in Before(f, j) \/ j \in Before(f, i)
    BY <1>1 DEF Before, Numbers
  <2>2. Rank(f, i) \in Int /\ Rank(f, j) \in Int
    BY RankInRange
  <2> QED BY <2>1, <2>2, RankGrows
<1>2. n \in Nat
  BY FS_CardinalityType DEF Numbers
<1>3. IsFiniteSet(0 .. (n - 1)) /\ Cardinality(0 .. (n - 1)) = n
  BY <1>2, FS_Interval, SMTT(30)
<1>4. g \in [DOMAIN f -> 0 .. (n - 1)]
  BY RankInRange
<1>5. g \in Injection(DOMAIN f, 0 .. (n - 1))
  BY <1>1, <1>4, Fun_IsInj
<1>6. g \in Surjection(DOMAIN f, 0 .. (n - 1))
  BY <1>3, <1>5, FS_Injection
<1> HIDE DEF g, n
<1>7. \A r \in 0 .. (n - 1) : \E j \in DOMAIN f : g[j] = r
  BY <1>6 DEF Surjection
<1> QED BY <1>1, <1>7 DEF g, n

\* std::sort puts every number at its rank, and nothing else.
LEMMA SortAtRank ==
  ASSUME NEW f, Numbers(f)
  PROVE  /\ Cardinality(DOMAIN f) \in Nat
         /\ DOMAIN Sort(f) = 0 .. (Cardinality(DOMAIN f) - 1)
         /\ \A j \in DOMAIN f : Sort(f)[Rank(f, j)] = f[j]
<1> DEFINE Vals == {f[i] : i \in DOMAIN f}
           At(h, i) == UpTo(f, h) > i /\ \A g \in Vals : UpTo(f, g) > i => h <= g
<1>1. Sort(f) = [i \in 0 .. (Cardinality(DOMAIN f) - 1) |-> CHOOSE h \in Vals : At(h, i)]
  BY DEF Sort, UpTo
<1>2. ASSUME NEW j \in DOMAIN f
      PROVE  Sort(f)[Rank(f, j)] = f[j]
  <2> DEFINE r == Rank(f, j)
  <2>1. /\ r \in 0 .. (Cardinality(DOMAIN f) - 1) /\ r \in Nat
        /\ IsFiniteSet(Before(f, j)) /\ j \notin Before(f, j)
    BY RankInRange
  <2>2. ASSUME NEW h PROVE IsFiniteSet({i \in DOMAIN f : f[i] <= h}) /\ UpTo(f, h) \in Nat
    <3>1. IsFiniteSet({i \in DOMAIN f : f[i] <= h})
      BY FS_Subset DEF Numbers
    <3> QED BY <3>1, FS_CardinalityType DEF UpTo
  <2>3. UpTo(f, f[j]) > r
    <3>1. Before(f, j) \cup {j} \subseteq {i \in DOMAIN f : f[i] <= f[j]}
      BY DEF Before, Numbers
    <3>2. Cardinality(Before(f, j) \cup {j}) <= UpTo(f, f[j])
      BY <3>1, <2>2, FS_Subset DEF UpTo
    <3>3. Cardinality(Before(f, j) \cup {j}) = r + 1
      BY <2>1, FS_AddElement DEF Rank
    <3>4. UpTo(f, f[j]) \in Nat
      BY <2>2
    <3> QED BY <3>2, <3>3, <3>4, <2>1
  <2>4. ASSUME NEW g \in Vals, UpTo(f, g) > r PROVE f[j] <= g
    <3> SUFFICES ASSUME g < f[j] PROVE FALSE
      BY DEF Numbers
    <3>1. {i \in DOMAIN f : f[i] <= g} \subseteq Before(f, j)
      BY DEF Before, Numbers
    <3>2. UpTo(f, g) <= r
      BY <3>1, <2>1, FS_Subset DEF UpTo, Rank
    <3>3. UpTo(f, g) \in Nat
      BY <2>2
    <3> QED BY <3>2, <3>3, <2>1, <2>4
  <2>5. f[j] \in Vals /\ At(f[j], r)
    BY <2>3, <2>4
  <2>6. \A h \in Vals : At(h, r) => h = f[j]
    <3> SUFFICES ASSUME NEW h \in Vals, At(h, r) PROVE h = f[j] OBVIOUS
    <3>1. h <= f[j] /\ f[j] <= h
      BY <2>5
    <3> QED BY <3>1 DEF Numbers
  <2> HIDE DEF At, Vals, r
  <2>7. (CHOOSE h \in Vals : At(h, r)) = f[j]
    BY <2>5, <2>6
  <2> QED BY <1>1, <2>1, <2>7 DEF r
<1>3. Cardinality(DOMAIN f) \in Nat
  BY FS_CardinalityType DEF Numbers
<1> HIDE DEF At, Vals
<1> QED BY <1>1, <1>2, <1>3

\* The result is in order and has as many copies of each number.
LEMMA Sorted ==
  ASSUME NEW f, Numbers(f)
  PROVE  /\ \A i \in DOMAIN Sort(f) : \E j \in DOMAIN f : Sort(f)[i] = f[j]
         /\ \A i, k \in DOMAIN Sort(f) : i <= k => Sort(f)[i] <= Sort(f)[k]
         /\ \A h : Cardinality(Copies(Sort(f), h)) = Cardinality(Copies(f, h))
<1> DEFINE n == Cardinality(DOMAIN f)
<1>1. /\ n \in Nat /\ DOMAIN Sort(f) = 0 .. (n - 1)
      /\ \A j \in DOMAIN f : Sort(f)[Rank(f, j)] = f[j]
  BY SortAtRank
<1>2. \A i \in 0 .. (n - 1) : \E j \in DOMAIN f : Rank(f, j) = i
  BY RankOneToOne
<1>3. ASSUME NEW i \in 0 .. (n - 1), NEW k \in 0 .. (n - 1), i <= k
      PROVE  Sort(f)[i] <= Sort(f)[k]
  <2>1. PICK a \in DOMAIN f : Rank(f, a) = i
    BY <1>2
  <2>2. PICK b \in DOMAIN f : Rank(f, b) = k
    BY <1>2
  <2>3. ~(f[b] < f[a])
    <3> SUFFICES ASSUME f[b] < f[a] PROVE FALSE OBVIOUS
    <3>1. b \in Before(f, a)
      BY DEF Before
    <3>2. Rank(f, b) < Rank(f, a)
      BY <3>1, RankGrows
    <3> QED BY <3>2, <2>1, <2>2, <1>3
  <2>4. f[a] <= f[b]
    BY <2>3 DEF Numbers
  <2> QED BY <2>1, <2>2, <2>4, <1>1
<1>4. ASSUME NEW h PROVE Cardinality(Copies(Sort(f), h)) = Cardinality(Copies(f, h))
  <2> DEFINE A == Copies(f, h)
             B == Copies(Sort(f), h)
             g == [j \in A |-> Rank(f, j)]
  <2>1. IsFiniteSet(A)
    BY FS_Subset DEF Copies, Numbers
  <2>2. g \in [A -> B]
    BY <1>1, RankInRange DEF Copies
  <2>3. \A x, y \in A : g[x] = g[y] => x = y
    BY RankOneToOne DEF Copies
  <2>4. \A y \in B : \E x \in A : g[x] = y
    BY <1>1, <1>2 DEF Copies
  <2> HIDE DEF A, B, g
  <2>5. Cardinality(B) = Cardinality(A)
    BY <2>1, <2>2, <2>3, <2>4, SameNumber
  <2> QED BY <2>5 DEF A, B
<1> QED BY <1>1, <1>2, <1>3, <1>4
(***************************************************************************)
(* Counting.                                                               *)
(***************************************************************************)

\* All but the first c of a set of numbers.
LEMMA LastOnes ==
  ASSUME NEW A, IsFiniteSet(A), A \subseteq Nat, NEW c \in 0 .. Cardinality(A)
  PROVE  Cardinality({i \in A : Cardinality({j \in A : j < i}) >= c}) = Cardinality(A) - c
<1> DEFINE f == [i \in A |-> 0]
           n == Cardinality(A)
           L == {i \in A : Cardinality({j \in A : j < i}) >= c}
           g == [i \in L |-> Rank(f, i)]
<1>1. Numbers(f) /\ DOMAIN f = A /\ n \in Nat
  BY FS_CardinalityType DEF Numbers
<1>2. ASSUME NEW i \in A PROVE Rank(f, i) = Cardinality({j \in A : j < i})
  <2>1. Before(f, i) = {j \in A : j < i}
    BY DEF Before
  <2> QED BY <2>1 DEF Rank
<1>3. \A i \in A : Rank(f, i) \in 0 .. (n - 1)
  BY <1>1, RankInRange
<1>4. /\ \A i, j \in A : Rank(f, i) = Rank(f, j) => i = j
      /\ \A r \in 0 .. (n - 1) : \E j \in A : Rank(f, j) = r
  BY <1>1, RankOneToOne
<1>5. L = {i \in A : Rank(f, i) >= c}
  BY <1>2
<1> HIDE DEF f, n
<1>6. IsFiniteSet(L)
  BY FS_Subset
<1> HIDE DEF L
<1>7. g \in [L -> c .. (n - 1)]
  <2>1. \A i \in L : Rank(f, i) \in c .. (n - 1)
    BY <1>1, <1>3, <1>5
  <2> QED BY <2>1
<1>8. \A x, y \in L : g[x] = g[y] => x = y
  BY <1>4, <1>5
<1>9. c \in 0 .. n
  BY DEF n
<1>10. \A y \in c .. (n - 1) : \E x \in L : g[x] = y
  <2> SUFFICES ASSUME NEW y \in c .. (n - 1) PROVE \E x \in L : g[x] = y OBVIOUS
  <2>1. y \in 0 .. (n - 1) /\ y >= c
    BY <1>1, <1>9
  <2>2. PICK j \in A : Rank(f, j) = y
    BY <1>4, <2>1
  <2> QED BY <2>1, <2>2, <1>5
<1> HIDE DEF g
<1>11. Cardinality(c .. (n - 1)) = Cardinality(L)
  BY <1>6, <1>7, <1>8, <1>10, SameNumber
<1>12. Cardinality(c .. (n - 1)) = n - c
  BY <1>1, <1>9, FS_Interval
<1> QED BY <1>11, <1>12 DEF L, n

\* Sets that have as many elements of every kind have as many elements.
LEMMA SameKinds ==
  ASSUME NEW A, NEW B, NEW H, IsFiniteSet(A), IsFiniteSet(B), NEW a \in [A -> H], NEW b \in [B -> H],
         \A h \in H : Cardinality(Copies(a, h)) = Cardinality(Copies(b, h))
  PROVE  Cardinality(A) = Cardinality(B)
<1> DEFINE KA(h) == Copies(a, h)
           KB(h) == Copies(b, h)
           G == [h \in H |-> CHOOSE g : g \in Bijection(KA(h), KB(h))]
           f == [x \in A |-> G[a[x]][x]]
<1>1. ASSUME NEW h \in H PROVE G[h] \in Bijection(KA(h), KB(h))
  <2>1. IsFiniteSet(KA(h)) /\ IsFiniteSet(KB(h))
    BY FS_Subset DEF Copies
  <2>2. Cardinality(KA(h)) = Cardinality(KB(h))
    OBVIOUS
  <2> HIDE DEF KA, KB
  <2>3. Bijection(KA(h), KB(h)) # {}
    BY <2>1, <2>2, FS_SameCardinalityBij, Fun_ExistsBij
  <2> QED BY <2>3
<1> HIDE DEF G
<1>2. ASSUME NEW h \in H
      PROVE  /\ \A x \in KA(h) : G[h][x] \in KB(h)
             /\ \A x, y \in KA(h) : G[h][x] = G[h][y] => x = y
             /\ \A y \in KB(h) : \E x \in KA(h) : G[h][x] = y
  <2> HIDE DEF KA, KB
  <2> QED BY <1>1 DEF Bijection, Injection, Surjection, IsInjective
<1>3. ASSUME NEW x \in A PROVE f[x] \in B /\ b[f[x]] = a[x] /\ f[x] = G[a[x]][x]
  BY <1>2 DEF Copies
<1>4. f \in [A -> B]
  BY <1>3
<1>5. \A x, y \in A : f[x] = f[y] => x = y
  <2> SUFFICES ASSUME NEW x \in A, NEW y \in A, f[x] = f[y] PROVE x = y OBVIOUS
  <2>1. a[x] = a[y] /\ a[x] \in H
    BY <1>3
  <2> QED BY <2>1, <1>2, <1>3 DEF Copies
<1>6. \A y \in B : \E x \in A : f[x] = y
  <2> SUFFICES ASSUME NEW y \in B PROVE \E x \in A : f[x] = y OBVIOUS
  <2>1. b[y] \in H
    OBVIOUS
  <2>2. PICK x \in KA(b[y]) : G[b[y]][x] = y
    BY <2>1, <1>2 DEF Copies
  <2> QED BY <2>2, <1>3 DEF Copies
<1> HIDE DEF f
<1> QED BY <1>4, <1>5, <1>6, SameNumber

-----------------------------------------------------------------------------
(***************************************************************************)
(* The ring: sorted, with a copy of each hash for every point of the       *)
(* servers that has it.                                                    *)
(***************************************************************************)
Ordered ==
  /\ hfunc \in [Points -> Hashes] /\ servers \subseteq Names
  /\ size \in Nat /\ IsFiniteSet(DOMAIN srv_hashring) /\ DOMAIN srv_hashring = 0 .. (size - 1)
  /\ \A i \in DOMAIN srv_hashring : srv_hashring[i] \in Hashes
  /\ \A i, j \in DOMAIN srv_hashring : i <= j => srv_hashring[i] <= srv_hashring[j]

PointsAt(S, h) == {p \in Live(S) : hfunc[p] = h}

Counted ==
  \A h \in Hashes : Cardinality(Copies(srv_hashring, h)) = Cardinality(PointsAt(servers, h))

LEMMA PointsFinite ==
  /\ IsFiniteSet(Points) /\ Cardinality(Points) \in Nat
  /\ \A S, h : IsFiniteSet(Live(S)) /\ IsFiniteSet(PointsAt(S, h))
<1>1. IsFiniteSet(0 .. (replicas - 1))
  BY RingAssumption, FS_Interval
<1>2. IsFiniteSet(Points)
  BY <1>1, RingAssumption, FS_Product DEF Points
<1>3. ASSUME NEW S, NEW h PROVE IsFiniteSet(Live(S)) /\ IsFiniteSet(PointsAt(S, h))
  <2>1. Live(S) \subseteq Points /\ PointsAt(S, h) \subseteq Points
    BY DEF Live, PointsAt
  <2> QED BY <2>1, <1>2, FS_Subset
<1> QED BY <1>2, <1>3, FS_CardinalityType

\* The indices of the ring are far from where size_t wraps.
LEMMA IndicesFit ==
  ASSUME Ordered, Counted
  PROVE  size + 1 < SizeLimit /\ SizeLimit \in Nat
<1> DEFINE A == DOMAIN srv_hashring
           B == Live(servers)
           a == [i \in A |-> srv_hashring[i]]
           b == [p \in B |-> hfunc[p]]
<1>1. IsFiniteSet(A) /\ IsFiniteSet(B) /\ B \subseteq Points
  BY PointsFinite DEF Ordered, Live
<1>2. a \in [A -> Hashes] /\ b \in [B -> Hashes]
  BY <1>1 DEF Ordered
<1>3. ASSUME NEW h \in Hashes
      PROVE  Cardinality(Copies(a, h)) = Cardinality(Copies(b, h))
  <2>1. Copies(a, h) = Copies(srv_hashring, h) /\ Copies(b, h) = PointsAt(servers, h)
    BY DEF Copies, PointsAt
  <2> QED BY <2>1 DEF Counted
<1> HIDE DEF a, b, A, B
<1>4. Cardinality(A) = Cardinality(B)
  <2>1. \A h \in Hashes : Cardinality(Copies(a, h)) = Cardinality(Copies(b, h))
    BY <1>3
  <2> QED BY <2>1, <1>1, <1>2, SameKinds
<1>5. Cardinality(B) <= Cardinality(Points)
  BY <1>1, PointsFinite, FS_Subset
<1>6. size = Cardinality(A) /\ size \in Nat
  BY DEF size, A, Ordered
<1> QED BY <1>4, <1>5, <1>6, PointsFinite, RingAssumption
\* A ring that has been sorted again is in order.
LEMMA SortedAgain ==
  ASSUME Ordered, NEW f, Numbers(f), \A i \in DOMAIN f : f[i] \in Hashes,
         srv_hashring' = Sort(f), UNCHANGED hfunc, servers' \subseteq Names
  PROVE  Ordered'
<1> DEFINE n == Cardinality(DOMAIN f)
<1>1. n \in Nat /\ DOMAIN srv_hashring' = 0 .. (n - 1)
  BY SortAtRank
<1>2. IsFiniteSet(0 .. (n - 1)) /\ Cardinality(0 .. (n - 1)) = n
  BY <1>1, FS_Interval
<1> HIDE DEF n
<1>3. size' = n /\ IsFiniteSet(DOMAIN srv_hashring')
  BY <1>1, <1>2 DEF size
<1>4. \A i \in DOMAIN srv_hashring' : srv_hashring'[i] \in Hashes
  BY Sorted
<1>5. \A i, j \in DOMAIN srv_hashring' : i <= j => srv_hashring'[i] <= srv_hashring'[j]
  BY Sorted
<1> QED BY <1>1, <1>3, <1>4, <1>5 DEF Ordered

\* Disjoint finite sets.
LEMMA DisjointSum ==
  ASSUME NEW A, NEW B, IsFiniteSet(A), IsFiniteSet(B), A \cap B = {}
  PROVE  /\ Cardinality(A) \in Nat /\ Cardinality(B) \in Nat
         /\ Cardinality(A \cup B) = Cardinality(A) + Cardinality(B)
<1>1. Cardinality({}) = 0
  BY FS_EmptySet
<1>2. Cardinality(A) \in Nat /\ Cardinality(B) \in Nat
  BY FS_CardinalityType
<1>3. Cardinality(A \cup B) = Cardinality(A) + Cardinality(B) - Cardinality(A \cap B)
  BY FS_Union
<1>4. Cardinality(A \cap B) = 0
  BY <1>1
<1> QED BY <1>2, <1>3, <1>4

OwnAt(n, h) == {p \in PointsOf(n) : hfunc[p] = h}

\* The points of n come to those of the servers.
LEMMA PointsAdded ==
  ASSUME NEW T, NEW n, n \notin T, NEW h
  PROVE  /\ Cardinality(PointsAt(T \cup {n}, h)) =
              Cardinality(PointsAt(T, h)) + Cardinality(OwnAt(n, h))
         /\ Cardinality(PointsAt(T, h)) \in Nat /\ Cardinality(OwnAt(n, h)) \in Nat
<1>1. IsFiniteSet(OwnAt(n, h))
  <2>1. OwnAt(n, h) \subseteq Points
    BY DEF OwnAt, PointsOf
  <2> QED BY <2>1, PointsFinite, FS_Subset
<1>2. PointsAt(T \cup {n}, h) = PointsAt(T, h) \cup OwnAt(n, h)
  BY DEF PointsAt, OwnAt, PointsOf, Live
<1>3. PointsAt(T, h) \cap OwnAt(n, h) = {}
  BY DEF PointsAt, OwnAt, PointsOf, Live
<1>4. IsFiniteSet(PointsAt(T, h))
  BY PointsFinite
<1> QED BY <1>1, <1>2, <1>3, <1>4, DisjointSum

LEMMA AddKeepsRing ==
  ASSUME Ordered, Counted, NEW n \in Names, AddServer(n)
  PROVE  Ordered' /\ Counted'
<1> DEFINE f == WithPoints(n)
<1>1. n \notin servers /\ servers' = servers \cup {n} /\ srv_hashring' = Sort(f) /\ UNCHANGED hfunc
  BY DEF AddServer
<1>2. /\ size \in Nat /\ replicas \in Nat \ {0} /\ DOMAIN srv_hashring = 0 .. (size - 1)
      /\ hfunc \in [Points -> Hashes] /\ IsFiniteSet(DOMAIN srv_hashring)
  BY RingAssumption DEF Ordered
<1>3. DOMAIN f = 0 .. (size + replicas - 1)
  BY DEF WithPoints
<1>4. \A i \in 0 .. (size - 1) : f[i] = srv_hashring[i]
  BY <1>2 DEF WithPoints
<1>5. \A i \in size .. (size + replicas - 1) : <<n, i - size>> \in PointsOf(n) /\ f[i] = hfunc[<<n, i - size>>]
  BY <1>2 DEF WithPoints, PointsOf, Points
<1> HIDE DEF f
<1>6. \A i \in DOMAIN f : f[i] \in Hashes
  <2>1. \A i \in DOMAIN f : i \in 0 .. (size - 1) \/ i \in size .. (size + replicas - 1)
    BY <1>2, <1>3
  <2> QED BY <2>1, <1>2, <1>4, <1>5 DEF Ordered, PointsOf
<1>7. Numbers(f)
  <2>1. IsFiniteSet(DOMAIN f)
    BY <1>2, <1>3, FS_Interval
  <2> QED BY <2>1, <1>2, <1>3, <1>6 DEF Numbers, Hashes
<1>8. Ordered'
  BY <1>1, <1>6, <1>7, SortedAgain DEF Ordered
<1>9. ASSUME NEW h \in Hashes
      PROVE  Cardinality(Copies(srv_hashring', h)) = Cardinality(PointsAt(servers, h)') 
  <2> DEFINE E == {i \in size .. (size + replicas - 1) : hfunc[<<n, i - size>>] = h}
             g == [i \in E |-> <<n, i - size>>]
  <2>1. Copies(f, h) = Copies(srv_hashring, h) \cup E /\ Copies(srv_hashring, h) \cap E = {}
    BY <1>2, <1>3, <1>4, <1>5 DEF Copies
  <2>2. IsFiniteSet(E) /\ IsFiniteSet(Copies(srv_hashring, h))
    <3>1. IsFiniteSet(size .. (size + replicas - 1))
      BY <1>2, FS_Interval
    <3> QED BY <3>1, <1>2, FS_Subset DEF Copies
  <2>3. Cardinality(OwnAt(n, h)) = Cardinality(E)
    <3>1. g \in [E -> OwnAt(n, h)]
      BY <1>5 DEF OwnAt
    <3>2. \A x, y \in E : g[x] = g[y] => x = y
      BY <1>2
    <3>3. ASSUME NEW p \in OwnAt(n, h) PROVE \E i \in E : g[i] = p
      <4>1. PICK r \in 0 .. (replicas - 1) : p = <<n, r>>
        BY DEF OwnAt, PointsOf, Points
      <4>2. hfunc[<<n, r>>] = h
        BY <4>1 DEF OwnAt
      <4>3. r + size \in size .. (size + replicas - 1) /\ (r + size) - size = r
        BY <1>2
      <4>4. r + size \in E
        BY <4>2, <4>3
      <4> QED BY <4>1, <4>3, <4>4
    <3> HIDE DEF E, g
    <3> QED BY <3>1, <3>2, <3>3, <2>2, SameNumber
  <2> HIDE DEF E
  <2>4. Cardinality(Copies(f, h)) = Cardinality(Copies(srv_hashring, h)) + Cardinality(E)
    BY <2>1, <2>2, DisjointSum
  <2>5. Cardinality(Copies(srv_hashring', h)) = Cardinality(Copies(f, h))
    BY <1>1, <1>7, Sorted
  <2>6. Cardinality(PointsAt(servers \cup {n}, h)) = Cardinality(PointsAt(servers, h)) + Cardinality(OwnAt(n, h))
    BY <1>1, PointsAdded
  <2>7. PointsAt(servers, h)' = PointsAt(servers \cup {n}, h)
    BY <1>1 DEF PointsAt, Live
  <2> QED BY <2>3, <2>4, <2>5, <2>6, <2>7 DEF Counted
<1>10. Counted'
  BY <1>9 DEF Counted, Copies
<1> QED BY <1>8, <1>10

LEMMA RemoveKeepsRing ==
  ASSUME Ordered, Counted, NEW n \in Names, RemoveServer(n)
  PROVE  Ordered' /\ Counted'
<1> DEFINE D == {j \in DOMAIN srv_hashring : Stays(n, j)}
           f == [i \in D |-> srv_hashring[i]]
<1>1. n \in servers /\ servers' = servers \ {n} /\ srv_hashring' = Sort(f) /\ UNCHANGED hfunc
  BY DEF RemoveServer
<1>2. D \subseteq DOMAIN srv_hashring
  OBVIOUS
<1>3. \A i \in D : Stays(n, i)
  OBVIOUS
<1>4. Numbers(f) /\ \A i \in DOMAIN f : f[i] \in Hashes
  <2>1. IsFiniteSet(D)
    BY <1>2, FS_Subset DEF Ordered
  <2>2. \A i \in D : i \in Nat /\ srv_hashring[i] \in Nat /\ srv_hashring[i] \in Hashes
    BY <1>2 DEF Ordered, Hashes
  <2> HIDE DEF D
  <2> QED BY <2>1, <2>2 DEF Numbers
<1>5. Ordered'
  <2> HIDE DEF f
  <2> QED BY <1>1, <1>4, SortedAgain DEF Ordered
<1>6. ASSUME NEW h \in Hashes
      PROVE  Cardinality(Copies(srv_hashring', h)) = Cardinality(PointsAt(servers, h)')
  <2> DEFINE A == Copies(srv_hashring, h)
             c == Cardinality(OwnAt(n, h))
             L == {i \in A : Cardinality({j \in A : j < i}) >= c}
  <2>1. Copies(f, h) = L
    <3>1. ASSUME NEW i \in A PROVE Stays(n, i) <=> Cardinality({j \in A : j < i}) >= c
      <4>1. {j \in DOMAIN srv_hashring : j < i /\ srv_hashring[j] = srv_hashring[i]} = {j \in A : j < i}
        BY DEF Copies
      <4>2. {p \in PointsOf(n) : hfunc[p] = srv_hashring[i]} = OwnAt(n, h)
        BY DEF Copies, OwnAt
      <4> QED BY <4>1, <4>2 DEF Stays
    <3>2. Copies(f, h) = {i \in A : Stays(n, i)}
      BY DEF Copies
    <3> HIDE DEF A, c
    <3> QED BY <3>1, <3>2
  <2>2. IsFiniteSet(A) /\ A \subseteq Nat
    BY FS_Subset DEF Copies, Ordered
  <2>3. /\ Cardinality(PointsAt(servers, h)) = Cardinality(PointsAt(servers \ {n}, h)) + c
        /\ c \in Nat /\ Cardinality(PointsAt(servers \ {n}, h)) \in Nat
    <3> HIDE DEF A, L
    <3> DEFINE T == servers \ {n}
    <3>1. n \notin T /\ T \cup {n} = servers
      BY <1>1
    <3> HIDE DEF T
    <3>2. /\ Cardinality(PointsAt(T \cup {n}, h)) =
               Cardinality(PointsAt(T, h)) + Cardinality(OwnAt(n, h))
          /\ Cardinality(PointsAt(T, h)) \in Nat /\ Cardinality(OwnAt(n, h)) \in Nat
      BY <3>1, PointsAdded
    <3>3. Cardinality(PointsAt(servers, h)) = Cardinality(PointsAt(T, h)) + Cardinality(OwnAt(n, h))
      BY <3>1, <3>2
    <3> QED BY <3>2, <3>3 DEF T
  <2>4. Cardinality(A) = Cardinality(PointsAt(servers, h))
    BY DEF Counted
  <2>5. c \in 0 .. Cardinality(A)
    BY <2>3, <2>4
  <2> HIDE DEF A, c
  <2>6. Cardinality(L) = Cardinality(A) - c
    BY <2>2, <2>5, LastOnes
  <2>7. Cardinality(Copies(srv_hashring', h)) = Cardinality(Copies(f, h))
    <3> HIDE DEF f
    <3> QED BY <1>1, <1>4, Sorted
  <2>8. PointsAt(servers, h)' = PointsAt(servers \ {n}, h)
    BY <1>1 DEF PointsAt, Live
  <2> HIDE DEF L, f
  <2> QED BY <2>1, <2>3, <2>4, <2>6, <2>7, <2>8
<1>7. Counted'
  BY <1>6 DEF Counted, Copies
<1> QED BY <1>5, <1>7
-----------------------------------------------------------------------------
(***************************************************************************)
(* The binary search: the points before s are before the key, those after  *)
(* e are after it, and m is the neighbour of one of the two ends.          *)
(***************************************************************************)
Probing ==
  /\ s \in 0 .. size /\ e \in 0 .. (size - 1) /\ s <= e + 1
  /\ srv_hashring[0] <= key /\ key <= srv_hashring[size - 1]
  /\ \A i \in DOMAIN srv_hashring : /\ i < s => srv_hashring[i] < key
                                    /\ i > e => srv_hashring[i] > key
  /\ \/ s = 0 /\ e = size - 1
     \/ m = s - 1 /\ m \in DOMAIN srv_hashring /\ srv_hashring[m] < key
     \/ m = e + 1 /\ m \in DOMAIN srv_hashring /\ srv_hashring[m] > key

Searching ==
  /\ pc \in {"idle", "probe", "lookup"} /\ key \in Hashes
  /\ pc # "idle" => size > 0
  /\ pc = "probe" => Probing
  /\ pc = "lookup" => m \in DOMAIN srv_hashring
  /\ SearchExact

LEMMA NoWrap == ASSUME NEW L \in Nat, NEW x \in 0 .. (L - 1) PROVE x % L = x
OBVIOUS

LEMMA GetKeepsSearching ==
  ASSUME Ordered, Counted, Searching, NEW k \in Hashes, GetServer(k)
  PROVE  Searching'
<1>1. size > 0 /\ key' = k /\ UNCHANGED <<srv_hashring, size>>
  BY DEF GetServer, ringVars, size
<1>2. /\ size \in Nat /\ DOMAIN srv_hashring = 0 .. (size - 1) /\ k \in Nat
      /\ \A i \in DOMAIN srv_hashring : srv_hashring[i] \in Nat
      /\ \A i, j \in DOMAIN srv_hashring : i <= j => srv_hashring[i] <= srv_hashring[j]
  BY DEF Ordered, Hashes
<1>3. CASE k < srv_hashring[0] \/ k > srv_hashring[size - 1]
  <2>1. pc' = "lookup" /\ m' = 0
    BY <1>3 DEF GetServer, Goto
  <2>2. CASE k < srv_hashring[0]
    <3>1. \A i \in 0 .. (size - 1) : srv_hashring[i] >= srv_hashring[0]
      BY <1>1, <1>2
    <3>2. 0 \in 0 .. (size - 1) /\ srv_hashring[0] >= k
      BY <1>1, <1>2, <2>2
    <3> QED BY <2>1, <3>1, <3>2, <1>1, <1>2 DEF Searching, SearchExact
  <2>3. CASE k > srv_hashring[size - 1]
    <3>1. \A i \in 0 .. (size - 1) : srv_hashring[i] <= srv_hashring[size - 1]
      BY <1>1, <1>2
    <3>2. size - 1 \in DOMAIN srv_hashring
      BY <1>1, <1>2
    <3>3. \A i \in 0 .. (size - 1) : ~(srv_hashring[i] >= k)
      BY <3>1, <3>2, <1>2, <2>3
    <3> QED BY <2>1, <3>3, <1>1, <1>2 DEF Searching, SearchExact
  <2> QED BY <1>3, <2>2, <2>3
<1>4. CASE ~(k < srv_hashring[0] \/ k > srv_hashring[size - 1])
  <2>1. pc' = "probe" /\ s' = 0 /\ e' = size - 1
    BY <1>4 DEF GetServer, Goto
  <2>2. srv_hashring[0] \in Nat /\ srv_hashring[size - 1] \in Nat
    BY <1>1, <1>2
  <2>3. Probing'
    BY <2>1, <2>2, <1>1, <1>2, <1>4 DEF Probing
  <2> QED BY <2>1, <2>3, <1>1 DEF Searching, SearchExact
<1> QED BY <1>3, <1>4

LEMMA ProbeKeepsSearching ==
  ASSUME Ordered, Counted, Searching, Probe
  PROVE  Searching'
<1> DEFINE mid == s + ((e - s) \div 2)
<1>1. /\ pc = "probe" /\ s <= e /\ m' = mid
      /\ UNCHANGED <<srv_hashring, size, key>>
  BY DEF Probe, ringVars, size
<1>2. /\ size \in Nat /\ DOMAIN srv_hashring = 0 .. (size - 1)
      /\ \A i \in DOMAIN srv_hashring : srv_hashring[i] \in Nat
      /\ \A i, j \in DOMAIN srv_hashring : i <= j => srv_hashring[i] <= srv_hashring[j]
      /\ key \in Nat /\ key \in Hashes
  BY DEF Ordered, Searching, Hashes
<1>3. Probing /\ size > 0
  BY <1>1 DEF Searching
<1>4. /\ s \in 0 .. size /\ e \in 0 .. (size - 1)
  BY <1>3 DEF Probing
<1>5. mid \in s .. e /\ mid \in DOMAIN srv_hashring /\ srv_hashring[mid] \in Nat
  BY <1>1, <1>2, <1>4
<1>6. size + 1 < SizeLimit /\ SizeLimit \in Nat
  BY IndicesFit
<1> HIDE DEF mid
<1>7. CASE srv_hashring[mid] < key
  <2>1. s' = (mid + 1) % SizeLimit /\ UNCHANGED <<e, pc>>
    BY <1>7, <1>5, <1>2 DEF Probe, mid
  <2>2. s' = mid + 1
    BY <2>1, <1>2, <1>4, <1>5, <1>6, NoWrap
  <2>3. \A i \in DOMAIN srv_hashring : i < mid + 1 => srv_hashring[i] < key
    BY <1>2, <1>5, <1>7
  <2>4. Probing'
    <3>1. mid + 1 \in 0 .. size /\ mid + 1 <= e + 1 /\ mid = (mid + 1) - 1
      BY <1>2, <1>4, <1>5
    <3>2. \A i \in DOMAIN srv_hashring : i > e => srv_hashring[i] > key
      BY <1>3 DEF Probing
    <3>3. e' = e /\ m' = s' - 1 /\ m' = mid
      BY <2>1, <2>2, <3>1, <1>1
    <3> QED BY <2>2, <2>3, <3>1, <3>2, <3>3, <1>1, <1>3, <1>4, <1>5, <1>7 DEF Probing
  <2> QED BY <2>1, <2>4, <1>1, <1>2, <1>3 DEF Searching, SearchExact
<1>8. CASE srv_hashring[mid] > key
  <2>1. e' = (mid - 1) % SizeLimit /\ UNCHANGED <<s, pc>>
    BY <1>8, <1>5, <1>2 DEF Probe, mid
  <2>2. mid # 0
    BY <1>8, <1>2, <1>3, <1>5 DEF Probing
  <2>3. e' = mid - 1
    BY <2>1, <2>2, <1>2, <1>4, <1>5, <1>6, NoWrap
  <2>4. \A i \in DOMAIN srv_hashring : i > mid - 1 => srv_hashring[i] > key
    BY <1>2, <1>5, <1>8
  <2>5. Probing'
    BY <2>1, <2>2, <2>3, <2>4, <1>1, <1>2, <1>3, <1>4, <1>5, <1>8 DEF Probing
  <2> QED BY <2>1, <2>5, <1>1, <1>2, <1>3 DEF Searching, SearchExact
<1>9. CASE srv_hashring[mid] = key
  <2>1. pc' = "lookup"
    BY <1>9, <1>5, <1>2 DEF Probe, mid, Goto
  <2>2. SearchExact'
    BY <2>1, <1>1, <1>2, <1>5, <1>9 DEF SearchExact
  <2> QED BY <2>1, <2>2, <1>1, <1>2, <1>3, <1>5 DEF Searching
<1> QED BY <1>2, <1>5, <1>7, <1>8, <1>9

LEMMA EndKeepsSearching ==
  ASSUME Ordered, Counted, Searching, ProbeEnd
  PROVE  Searching'
<1>1. /\ pc = "probe" /\ s > e /\ pc' = "lookup"
      /\ m' = IF srv_hashring[m] < key THEN m + 1 ELSE m
      /\ UNCHANGED <<srv_hashring, size, key>>
  BY DEF ProbeEnd, ringVars, size, Goto
<1>2. /\ size \in Nat /\ DOMAIN srv_hashring = 0 .. (size - 1)
      /\ \A i \in DOMAIN srv_hashring : srv_hashring[i] \in Nat
      /\ \A i, j \in DOMAIN srv_hashring : i <= j => srv_hashring[i] <= srv_hashring[j]
      /\ key \in Nat /\ key \in Hashes
  BY DEF Ordered, Searching, Hashes
<1>3. Probing /\ size > 0
  BY <1>1 DEF Searching
<1>4. s \in 0 .. size /\ e \in 0 .. (size - 1) /\ s = e + 1
  BY <1>1, <1>2, <1>3 DEF Probing
<1>5. /\ size - 1 \in DOMAIN srv_hashring /\ srv_hashring[size - 1] >= key
      /\ \A i \in DOMAIN srv_hashring : /\ i < s => srv_hashring[i] < key
                                        /\ i >= s => srv_hashring[i] > key
  BY <1>2, <1>3, <1>4 DEF Probing
<1>6. s < size
  BY <1>2, <1>4, <1>5
<1>7. m' = s
  BY <1>1, <1>2, <1>3, <1>4, <1>5 DEF Probing
<1>8. s \in DOMAIN srv_hashring /\ srv_hashring[s] >= key
  BY <1>2, <1>4, <1>5, <1>6
<1>9. \A i \in DOMAIN srv_hashring : srv_hashring[i] >= key => srv_hashring[i] >= srv_hashring[s]
  BY <1>2, <1>4, <1>5, <1>8
<1>10. SearchExact'
  BY <1>1, <1>2, <1>6, <1>7, <1>8, <1>9 DEF SearchExact
<1> QED BY <1>1, <1>2, <1>3, <1>7, <1>8, <1>10 DEF Searching

-----------------------------------------------------------------------------
(***************************************************************************)
(* The map: without collisions it has the servers' points and no others.   *)
(***************************************************************************)
Known ==
  CollisionFree =>
    /\ DOMAIN srv_hashring_dct = {hfunc[p] : p \in Live(servers)}
    /\ \A p \in Live(servers) : srv_hashring_dct[hfunc[p]] = p[1]

RingInv == Ordered /\ Counted /\ Searching /\ Known

\* A hash of the ring is that of a point, and the other way round.
LEMMA HashIsPoint ==
  ASSUME Ordered, Counted
  PROVE  /\ \A i \in DOMAIN srv_hashring : \E p \in Live(servers) : hfunc[p] = srv_hashring[i]
         /\ \A p \in Live(servers) : \E i \in DOMAIN srv_hashring : srv_hashring[i] = hfunc[p]
<1>1. ASSUME NEW h \in Hashes
      PROVE  Copies(srv_hashring, h) = {} <=> PointsAt(servers, h) = {}
  <2>1. IsFiniteSet(Copies(srv_hashring, h)) /\ IsFiniteSet(PointsAt(servers, h))
    BY PointsFinite, FS_Subset DEF Copies, Ordered
  <2>2. Cardinality(Copies(srv_hashring, h)) = Cardinality(PointsAt(servers, h))
    BY DEF Counted
  <2> QED BY <2>1, <2>2, FS_EmptySet
<1>2. ASSUME NEW i \in DOMAIN srv_hashring
      PROVE  \E p \in Live(servers) : hfunc[p] = srv_hashring[i]
  <2>1. srv_hashring[i] \in Hashes
    BY DEF Ordered
  <2>2. Copies(srv_hashring, srv_hashring[i]) # {}
    BY DEF Copies
  <2>3. PointsAt(servers, srv_hashring[i]) # {}
    BY <2>1, <2>2, <1>1
  <2> QED BY <2>3 DEF PointsAt
<1>3. ASSUME NEW p \in Live(servers)
      PROVE  \E i \in DOMAIN srv_hashring : srv_hashring[i] = hfunc[p]
  <2>1. hfunc[p] \in Hashes
    BY DEF Ordered, Live
  <2>2. PointsAt(servers, hfunc[p]) # {}
    BY DEF PointsAt
  <2>3. Copies(srv_hashring, hfunc[p]) # {}
    BY <2>1, <2>2, <1>1
  <2> QED BY <2>3 DEF Copies
<1> QED BY <1>2, <1>3
LEMMA AddKeepsKnown ==
  ASSUME Ordered, Known, NEW n \in Names, AddServer(n)
  PROVE  Known'
<1>1. /\ n \notin servers /\ servers' = servers \cup {n} /\ hfunc' = hfunc
      /\ srv_hashring_dct' = [h \in DOMAIN srv_hashring_dct \cup HashesOf(n) |->
           IF h \in HashesOf(n) THEN n ELSE srv_hashring_dct[h]]
  BY DEF AddServer
<1> DEFINE S == servers \cup {n}
           d == srv_hashring_dct'
<1> HIDE DEF S, d
<1>2. servers' = S /\ hfunc' = hfunc /\ srv_hashring_dct' = d
  BY <1>1 DEF S, d
<1> SUFFICES ASSUME CollisionFree
               PROVE  /\ DOMAIN d = {hfunc[p] : p \in Live(S)}
                      /\ \A p \in Live(S) : d[hfunc[p]] = p[1]
  BY <1>2 DEF Known, CollisionFree, Live
<1> USE DEF S, d
<1>4. /\ DOMAIN srv_hashring_dct = {hfunc[p] : p \in Live(servers)}
      /\ \A p \in Live(servers) : srv_hashring_dct[hfunc[p]] = p[1]
  BY DEF Known
<1>5. Live(servers \cup {n}) = Live(servers) \cup PointsOf(n)
  BY DEF Live, PointsOf
<1>6. DOMAIN srv_hashring_dct' = {hfunc[p] : p \in Live(servers \cup {n})}
  BY <1>1, <1>4, <1>5 DEF HashesOf
<1>7. ASSUME NEW p \in PointsOf(n) PROVE srv_hashring_dct'[hfunc[p]] = p[1]
  <2>1. hfunc[p] \in HashesOf(n) /\ p[1] = n
    BY DEF HashesOf, PointsOf
  <2> QED BY <2>1, <1>1
<1>8. ASSUME NEW p \in Live(servers) PROVE srv_hashring_dct'[hfunc[p]] = p[1]
  <2>1. hfunc[p] \in DOMAIN srv_hashring_dct /\ p \in Points /\ p[1] # n
    BY <1>1, <1>4 DEF Live
  <2>2. hfunc[p] \notin HashesOf(n)
    BY <2>1 DEF HashesOf, PointsOf, CollisionFree
  <2> QED BY <2>1, <2>2, <1>1, <1>4
<1> QED BY <1>5, <1>6, <1>7, <1>8

LEMMA RemoveKeepsKnown ==
  ASSUME Ordered, Known, NEW n \in Names, RemoveServer(n)
  PROVE  Known'
<1>1. /\ servers' = servers \ {n} /\ hfunc' = hfunc
      /\ srv_hashring_dct' = [h \in DOMAIN srv_hashring_dct \ HashesOf(n) |-> srv_hashring_dct[h]]
  BY DEF RemoveServer
<1> SUFFICES ASSUME CollisionFree
             PROVE  /\ DOMAIN srv_hashring_dct' = {hfunc[p] : p \in Live(servers \ {n})}
                    /\ \A p \in Live(servers \ {n}) : srv_hashring_dct'[hfunc[p]] = p[1]
  BY <1>1 DEF Known, CollisionFree, Live
<1>2. /\ DOMAIN srv_hashring_dct = {hfunc[p] : p \in Live(servers)}
      /\ \A p \in Live(servers) : srv_hashring_dct[hfunc[p]] = p[1]
  BY DEF Known
<1>3. \A p \in Live(servers) : hfunc[p] \in HashesOf(n) <=> p[1] = n
  BY DEF HashesOf, PointsOf, CollisionFree, Live
<1>4. \A p : p \in Live(servers \ {n}) <=> p \in Live(servers) /\ p[1] # n
  BY DEF Live
<1>5. DOMAIN srv_hashring_dct' = DOMAIN srv_hashring_dct \ HashesOf(n)
  BY <1>1
<1>6. DOMAIN srv_hashring_dct' = {hfunc[p] : p \in Live(servers \ {n})}
  <2>1. ASSUME NEW h, h \in DOMAIN srv_hashring_dct'
        PROVE  \E p \in Live(servers \ {n}) : h = hfunc[p]
    <3>1. PICK p \in Live(servers) : h = hfunc[p]
      BY <2>1, <1>2, <1>5
    <3> QED BY <3>1, <2>1, <1>3, <1>4, <1>5
  <2>2. ASSUME NEW p \in Live(servers \ {n})
        PROVE  hfunc[p] \in DOMAIN srv_hashring_dct'
    BY <1>2, <1>3, <1>4, <1>5
  <2> QED BY <2>1, <2>2
<1>7. ASSUME NEW p \in Live(servers \ {n}) PROVE srv_hashring_dct'[hfunc[p]] = p[1]
  <2>1. hfunc[p] \in DOMAIN srv_hashring_dct' /\ p \in Live(servers)
    BY <1>4, <1>6
  <2>2. srv_hashring_dct'[hfunc[p]] = srv_hashring_dct[hfunc[p]]
    BY <2>1, <1>1
  <2> QED BY <2>1, <2>2, <1>2
<1> QED BY <1>6, <1>7

\* What a lookup answers; without collisions it inserts nothing.
LEMMA LookupFinds ==
  ASSUME RingInv, Lookup, CollisionFree
  PROVE  /\ DOMAIN srv_hashring_dct' = DOMAIN srv_hashring_dct
         /\ \A g \in DOMAIN srv_hashring_dct : srv_hashring_dct'[g] = srv_hashring_dct[g]
         /\ \E p \in Live(servers) : hfunc[p] = srv_hashring[m] /\ server' = p[1]
<1> DEFINE h == srv_hashring[m]
           d == [g \in DOMAIN srv_hashring_dct \cup {h} |->
                   IF g \in DOMAIN srv_hashring_dct THEN srv_hashring_dct[g] ELSE DefaultName]
<1>1. srv_hashring_dct' = d /\ server' = d[h] /\ pc = "lookup"
  BY DEF Lookup
<1>2. m \in DOMAIN srv_hashring
  BY <1>1 DEF RingInv, Searching
<1>3. PICK p \in Live(servers) : hfunc[p] = h
  BY <1>2, HashIsPoint DEF RingInv
<1>4. h \in DOMAIN srv_hashring_dct /\ srv_hashring_dct[h] = p[1]
  BY <1>3 DEF RingInv, Known
<1>5. /\ d[h] = p[1] /\ DOMAIN d = DOMAIN srv_hashring_dct
      /\ \A g \in DOMAIN srv_hashring_dct : d[g] = srv_hashring_dct[g]
  BY <1>4
<1> QED BY <1>1, <1>3, <1>5
-----------------------------------------------------------------------------
(***************************************************************************)
(* The invariant of the ring.                                              *)
(***************************************************************************)
LEMMA RingInit == Init => RingInv
<1> SUFFICES ASSUME Init PROVE RingInv OBVIOUS
<1>1. /\ hfunc \in [Points -> Hashes] /\ servers = {} /\ pc = "idle" /\ key = 0
      /\ DOMAIN srv_hashring = {} /\ DOMAIN srv_hashring_dct = {}
  BY RingAssumption DEF Init
<1>2. IsFiniteSet({}) /\ Cardinality({}) = 0
  BY FS_EmptySet
<1>3. size = 0
  BY <1>1, <1>2 DEF size
<1>4. Ordered
  BY <1>1, <1>2, <1>3 DEF Ordered
<1>5. Counted
  <2>1. \A h : Copies(srv_hashring, h) = {} /\ PointsAt(servers, h) = {}
    BY <1>1 DEF Copies, PointsAt, Live
  <2> QED BY <2>1 DEF Counted
<1>6. Searching
  BY <1>1, RingAssumption DEF Searching, SearchExact, Hashes
<1>7. Known
  BY <1>1 DEF Known, Live
<1> QED BY <1>4, <1>5, <1>6, <1>7 DEF RingInv

LEMMA RingStep == RingInv /\ [Next]_vars => RingInv'
<1> SUFFICES ASSUME RingInv, [Next]_vars PROVE RingInv' OBVIOUS
<1>1. Ordered /\ Counted /\ Searching /\ Known
  BY DEF RingInv
<1>2. ASSUME UNCHANGED <<hfunc, servers, srv_hashring>> PROVE Ordered' /\ Counted'
  BY <1>1, <1>2 DEF Ordered, Counted, size, Copies, PointsAt, Live
<1>3. ASSUME UNCHANGED ringVars PROVE Known'
  BY <1>1, <1>3 DEF Known, ringVars, CollisionFree, Live
<1>4. ASSUME UNCHANGED searchVars, pc = "idle" PROVE Searching'
  BY <1>1, <1>4 DEF Searching, SearchExact, searchVars
<1>5. ASSUME NEW n \in Names, AddServer(n) PROVE RingInv'
  <2>1. UNCHANGED searchVars /\ pc = "idle"
    BY <1>5 DEF AddServer
  <2> QED BY <2>1, <1>1, <1>4, <1>5, AddKeepsRing, AddKeepsKnown DEF RingInv
<1>6. ASSUME NEW n \in Names, RemoveServer(n) PROVE RingInv'
  <2>1. UNCHANGED searchVars /\ pc = "idle"
    BY <1>6 DEF RemoveServer
  <2> QED BY <2>1, <1>1, <1>4, <1>6, RemoveKeepsRing, RemoveKeepsKnown DEF RingInv
<1>7. ASSUME NEW k \in Hashes, GetServer(k) PROVE RingInv'
  <2>1. UNCHANGED ringVars
    BY <1>7 DEF GetServer
  <2> QED BY <2>1, <1>1, <1>2, <1>3, <1>7, GetKeepsSearching DEF RingInv, ringVars
<1>8. CASE Probe
  <2>1. UNCHANGED ringVars
    BY <1>8 DEF Probe
  <2> QED BY <2>1, <1>1, <1>2, <1>3, <1>8, ProbeKeepsSearching DEF RingInv, ringVars
<1>9. CASE ProbeEnd
  <2>1. UNCHANGED ringVars
    BY <1>9 DEF ProbeEnd
  <2> QED BY <2>1, <1>1, <1>2, <1>3, <1>9, EndKeepsSearching DEF RingInv, ringVars
<1>10. CASE Lookup
  <2>1. UNCHANGED <<hfunc, servers, srv_hashring>> /\ pc' = "idle" /\ key' = 0
    BY <1>10 DEF Lookup, Goto
  <2>2. Searching'
    BY <2>1, RingAssumption DEF Searching, SearchExact, Hashes
  <2>3. Known'
    <3> SUFFICES ASSUME CollisionFree
                 PROVE  /\ DOMAIN srv_hashring_dct' = {hfunc[p] : p \in Live(servers)}
                        /\ \A p \in Live(servers) : srv_hashring_dct'[hfunc[p]] = p[1]
      BY <2>1 DEF Known, CollisionFree, Live
    <3>1. /\ DOMAIN srv_hashring_dct' = DOMAIN srv_hashring_dct
          /\ \A g \in DOMAIN srv_hashring_dct : srv_hashring_dct'[g] = srv_hashring_dct[g]
      BY <1>10, LookupFinds
    <3> QED BY <3>1, <1>1 DEF Known
  <2> QED BY <2>1, <2>2, <2>3, <1>2 DEF RingInv
<1>11. CASE UNCHANGED vars
  <2>1. Searching'
    BY <1>1, <1>11 DEF vars, ringVars, searchVars, Searching, Probing, SearchExact, size
  <2> QED BY <2>1, <1>2, <1>3, <1>11 DEF vars, ringVars, RingInv
<1> QED BY <1>5, <1>6, <1>7, <1>8, <1>9, <1>10, <1>11 DEF Next

\* The ring is sorted and has exactly the points of the servers, the search
\* keeps its bounds and the map knows every point (RingInv): the invariant that
\* the other theorems rest on.
THEOREM RingCorrect == Safety => []RingInv
BY RingInit, RingStep, PTL DEF Safety

\* ring_bsearch finds the first point at or after the key, or index 0 when there
\* is none, without an index that wraps around or leaves the ring: for every ring
\* that add_server and remove_server can make, collisions of hashes included.
THEOREM SearchIsExact == Safety => []SearchExact
<1>1. RingInv => SearchExact
  BY DEF RingInv, Searching
<1> QED BY <1>1, RingCorrect, PTL

-----------------------------------------------------------------------------
(***************************************************************************)
(* The owner of a hash.                                                    *)
(***************************************************************************)
LEMMA DistValue ==
  ASSUME NEW k \in Hashes, NEW h \in Hashes
  PROVE  Dist(k, h) = (IF h >= k THEN h - k ELSE h - k + HashLimit)
<1>1. HashLimit \in Nat \ {0} /\ k \in 0 .. (HashLimit - 1) /\ h \in 0 .. (HashLimit - 1)
  BY RingAssumption DEF Hashes
<1>2. CASE h >= k
  BY <1>1, <1>2, NoWrap DEF Dist
<1>3. CASE h < k
  <2>1. h - k + HashLimit \in 0 .. (HashLimit - 1)
    BY <1>1, <1>3
  <2>2. (h - k) % HashLimit = (h - k + HashLimit) % HashLimit
    BY <1>1
  <2> QED BY <2>1, <2>2, <1>1, <1>3, NoWrap DEF Dist
<1> QED BY <1>1, <1>2, <1>3

\* Two points are never equally far from a hash.
LEMMA SameDist ==
  ASSUME hfunc \in [Points -> Hashes], CollisionFree, NEW k \in Hashes,
         NEW p \in Points, NEW q \in Points,
         Dist(k, hfunc[p]) <= Dist(k, hfunc[q]), Dist(k, hfunc[q]) <= Dist(k, hfunc[p])
  PROVE  q = p
<1>1. /\ hfunc[p] \in Nat /\ hfunc[q] \in Nat /\ k \in Nat /\ HashLimit \in Nat
      /\ hfunc[p] < HashLimit /\ hfunc[q] < HashLimit /\ k < HashLimit
      /\ hfunc[p] \in Hashes /\ hfunc[q] \in Hashes
  BY RingAssumption DEF Hashes
<1>2. /\ Dist(k, hfunc[p]) = (IF hfunc[p] >= k THEN hfunc[p] - k ELSE hfunc[p] - k + HashLimit)
      /\ Dist(k, hfunc[q]) = (IF hfunc[q] >= k THEN hfunc[q] - k ELSE hfunc[q] - k + HashLimit)
  BY <1>1, DistValue
<1>3. hfunc[p] = hfunc[q]
  BY <1>1, <1>2
<1> QED BY <1>3 DEF CollisionFree

\* A point that no other one is nearer than is the nearest.
LEMMA NearestIs ==
  ASSUME hfunc \in [Points -> Hashes], CollisionFree, NEW S, NEW k \in Hashes, NEW p \in Live(S),
         \A q \in Live(S) : Dist(k, hfunc[p]) <= Dist(k, hfunc[q])
  PROVE  Nearest(S, k) = p
<1> DEFINE near(q) == \A r \in Live(S) : Dist(k, hfunc[q]) <= Dist(k, hfunc[r])
<1>1. p \in Points /\ \A q \in Live(S) : q \in Points
  BY DEF Live
<1>2. ASSUME NEW q \in Live(S), near(q) PROVE q = p
  <2>1. Dist(k, hfunc[p]) <= Dist(k, hfunc[q]) /\ Dist(k, hfunc[q]) <= Dist(k, hfunc[p])
    BY <1>2
  <2> QED BY <2>1, <1>1, SameDist
<1>3. near(p)
  OBVIOUS
<1> HIDE DEF near
<1>4. (CHOOSE q \in Live(S) : near(q)) = p
  BY <1>2, <1>3
<1> QED BY <1>4 DEF near, Nearest

\* The first point at or after k, or the first one of all, is the nearest.
LEMMA FirstIsNearest ==
  ASSUME Ordered, Counted, CollisionFree, NEW k \in Hashes, NEW p \in Live(servers),
         \/ /\ hfunc[p] >= k
            /\ \A i \in DOMAIN srv_hashring : srv_hashring[i] >= k => srv_hashring[i] >= hfunc[p]
         \/ /\ \A i \in DOMAIN srv_hashring : ~(srv_hashring[i] >= k)
            /\ hfunc[p] = srv_hashring[0]
  PROVE  /\ Nearest(servers, k) = p
         /\ \A q \in Live(servers) : Dist(k, hfunc[p]) <= Dist(k, hfunc[q])
<1>1. hfunc \in [Points -> Hashes] /\ \A q \in Live(servers) : hfunc[q] \in Hashes
  BY DEF Ordered, Live
<1>2. ASSUME NEW q \in Live(servers)
      PROVE  Dist(k, hfunc[p]) <= Dist(k, hfunc[q])
  <2>1. PICK i \in DOMAIN srv_hashring : srv_hashring[i] = hfunc[q]
    BY HashIsPoint
  <2>2. PICK j \in DOMAIN srv_hashring : srv_hashring[j] = hfunc[p]
    BY HashIsPoint
  <2>3. 0 \in DOMAIN srv_hashring /\ srv_hashring[0] <= srv_hashring[i]
    BY DEF Ordered
  <2>4. /\ hfunc[p] \in Nat /\ hfunc[q] \in Nat /\ k \in Nat /\ HashLimit \in Nat
        /\ hfunc[p] < HashLimit /\ hfunc[q] < HashLimit /\ k < HashLimit
    BY <1>1, RingAssumption DEF Hashes
  <2>5. /\ Dist(k, hfunc[p]) = (IF hfunc[p] >= k THEN hfunc[p] - k ELSE hfunc[p] - k + HashLimit)
        /\ Dist(k, hfunc[q]) = (IF hfunc[q] >= k THEN hfunc[q] - k ELSE hfunc[q] - k + HashLimit)
    BY <1>1, DistValue
  <2> QED BY <2>1, <2>2, <2>3, <2>4, <2>5
<1> QED BY <1>1, <1>2, NearestIs

\* When no two points collide, get_server returns the server that the hash and
\* the set of servers determine, whatever was added and removed in which order.
THEOREM RoutesRight == Safety => RoutesToOwner
<1>1. RingInv /\ [Next]_vars =>
        [pc = "lookup" /\ CollisionFree => servers # {} /\ server' = Nearest(servers, key)[1]]_vars
  <2> SUFFICES ASSUME RingInv, Next, pc = "lookup", CollisionFree
               PROVE  servers # {} /\ server' = Nearest(servers, key)[1]
    OBVIOUS
  <2>1. Lookup
    BY DEF Next, AddServer, RemoveServer, GetServer, Probe, ProbeEnd
  <2>2. PICK p \in Live(servers) : hfunc[p] = srv_hashring[m] /\ server' = p[1]
    BY <2>1, LookupFinds
  <2>3. /\ Ordered /\ Counted /\ key \in Hashes /\ DOMAIN srv_hashring = 0 .. (size - 1)
        /\ SearchExact /\ m \in DOMAIN srv_hashring
    BY DEF RingInv, Searching, Ordered
  <2>4. Nearest(servers, key) = p
    BY <2>2, <2>3, FirstIsNearest DEF SearchExact
  <2> QED BY <2>2, <2>4 DEF Live
<1> QED BY <1>1, RingCorrect, PTL DEF Safety, RoutesToOwner

-----------------------------------------------------------------------------
(***************************************************************************)
(* Adding and removing servers.                                            *)
(***************************************************************************)

\* Where the ring's data would send a hash is where it belongs.
RouteOwned ==
  CollisionFree /\ servers # {} =>
    \A k \in Hashes : \E p \in Live(servers) :
      /\ Route(k) = p[1]
      /\ \A q \in Live(servers) : Dist(k, hfunc[p]) <= Dist(k, hfunc[q])

LEMMA RouteIsOwner == RingInv => RouteOwned
<1> SUFFICES ASSUME RingInv, CollisionFree, servers # {}, NEW k \in Hashes
             PROVE  \E p \in Live(servers) :
                      /\ Route(k) = p[1]
                      /\ \A q \in Live(servers) : Dist(k, hfunc[p]) <= Dist(k, hfunc[q])
  BY DEF RouteOwned
<1> DEFINE After == {i \in DOMAIN srv_hashring : srv_hashring[i] >= k}
           first == IF After = {} THEN 0 ELSE CHOOSE j \in After : \A l \in After : j <= l
<1>1. /\ Ordered /\ Counted /\ Known /\ size \in Nat /\ DOMAIN srv_hashring = 0 .. (size - 1)
      /\ \A i, j \in DOMAIN srv_hashring : i <= j => srv_hashring[i] <= srv_hashring[j]
  BY DEF RingInv, Ordered
<1>2. 0 \in DOMAIN srv_hashring
  <2>1. PICK n \in servers : n \in Names
    BY <1>1 DEF Ordered
  <2>2. <<n, 0>> \in Live(servers)
    BY <2>1, RingAssumption DEF Live, Points
  <2>3. DOMAIN srv_hashring # {}
    BY <2>2, <1>1, HashIsPoint
  <2> QED BY <2>3, <1>1
<1>3. Route(k) = srv_hashring_dct[srv_hashring[first]]
  BY DEF Route
<1>4. After # {} => first \in After /\ \A l \in After : first <= l
  <2> SUFFICES ASSUME After # {} PROVE first \in After /\ \A l \in After : first <= l OBVIOUS
  <2>1. After \subseteq Nat
    BY <1>1
  <2> HIDE DEF After
  <2> QED BY <2>1, LeastNumber
<1>5. first \in DOMAIN srv_hashring
  <2>1. After \subseteq DOMAIN srv_hashring
    OBVIOUS
  <2>2. After = {} => first = 0
    OBVIOUS
  <2> HIDE DEF After, first
  <2> QED BY <2>1, <2>2, <1>2, <1>4
<1>6. \/ srv_hashring[first] >= k /\ \A i \in DOMAIN srv_hashring :
                                       srv_hashring[i] >= k => srv_hashring[i] >= srv_hashring[first]
      \/ (\A i \in DOMAIN srv_hashring : ~(srv_hashring[i] >= k)) /\ first = 0
  <2>1. CASE After = {}
    BY <2>1
  <2>2. CASE After # {}
    <3>1. first \in After /\ \A l \in After : first <= l
      BY <2>2, <1>4
    <3> HIDE DEF first
    <3>2. srv_hashring[first] >= k
      BY <3>1
    <3>3. ASSUME NEW i \in DOMAIN srv_hashring, srv_hashring[i] >= k
          PROVE  srv_hashring[i] >= srv_hashring[first]
      <4>1. first <= i
        BY <3>1, <3>3
      <4>2. srv_hashring[first] <= srv_hashring[i]
        BY <4>1, <3>1, <1>1
      <4>3. srv_hashring[first] \in Int /\ srv_hashring[i] \in Int
        BY <3>1, <1>1 DEF Ordered, Hashes
      <4> QED BY <4>2, <4>3
    <3> QED BY <3>2, <3>3
  <2> QED BY <2>1, <2>2
<1> HIDE DEF After, first
<1>7. PICK p \in Live(servers) : hfunc[p] = srv_hashring[first]
  BY <1>1, <1>5, HashIsPoint
<1>8. \A q \in Live(servers) : Dist(k, hfunc[p]) <= Dist(k, hfunc[q])
  BY <1>1, <1>6, <1>7, FirstIsNearest
<1>9. Route(k) = p[1]
  BY <1>1, <1>3, <1>7 DEF Known
<1> QED BY <1>8, <1>9

\* Adding a server to the ring only moves hashes to it, and removing one only
\* moves its own: the other servers keep what they hold.
THEOREM DisruptsLittle == Safety => MinimalDisruption
<1>1. RingInv /\ RouteOwned /\ RouteOwned' /\ [Next]_vars =>
        [ CollisionFree /\ servers # {} /\ servers' # {} =>
          \A k \in Hashes :
            Route(k)' # Route(k) => \/ Route(k)' \in servers' \ servers
                                    \/ Route(k) \in servers \ servers' ]_vars
  <2> SUFFICES ASSUME RingInv, RouteOwned, RouteOwned', Next, CollisionFree, servers # {},
                      servers' # {}, NEW k \in Hashes, Route(k)' # Route(k)
               PROVE  \/ Route(k)' \in servers' \ servers
                      \/ Route(k) \in servers \ servers'
    OBVIOUS
  <2>1. hfunc' = hfunc
    BY DEF Next, AddServer, RemoveServer, GetServer, Probe, ProbeEnd, Lookup, ringVars
  <2>2. PICK p \in Live(servers) :
          /\ Route(k) = p[1]
          /\ \A q \in Live(servers) : Dist(k, hfunc[p]) <= Dist(k, hfunc[q])
    BY DEF RouteOwned
  <2>3. PICK r \in Live(servers') :
          /\ Route(k)' = r[1]
          /\ \A q \in Live(servers') : Dist(k, hfunc[r]) <= Dist(k, hfunc[q])
    <3>1. CollisionFree'
      BY <2>1 DEF CollisionFree
    <3> QED BY <3>1, <2>1 DEF RouteOwned, Live, Dist
  <2>4. p \in Points /\ p[1] \in servers /\ r \in Points /\ r[1] \in servers' /\ p # r
    BY <2>2, <2>3 DEF Live
  <2>5. ~(r[1] \in servers /\ p[1] \in servers')
    <3> SUFFICES ASSUME r[1] \in servers, p[1] \in servers' PROVE FALSE OBVIOUS
    <3>1. r \in Live(servers) /\ p \in Live(servers')
      BY <2>4 DEF Live
    <3>2. hfunc \in [Points -> Hashes]
      BY DEF RingInv, Ordered
    <3> QED BY <3>1, <3>2, <2>2, <2>3, <2>4, SameDist
  <2> QED BY <2>2, <2>3, <2>4, <2>5
<1>2. Safety => []RouteOwned
  BY RouteIsOwner, RingCorrect, PTL
<1> QED BY <1>1, <1>2, RingCorrect, PTL DEF Safety, MinimalDisruption
=============================================================================
