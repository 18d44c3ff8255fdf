--------------------------- MODULE LoadingProofs ---------------------------
(***************************************************************************)
(* TLAPS proofs about Loading: whatever the files, the number of ranks and *)
(* the number of blocks, the ranges load the lines of the input in order,  *)
(* each at most once, and all of them when no line is empty; what Comm     *)
(* packs is unpacked again; the ranks of a row of the process grid number  *)
(* its rows alike, and number no row of another one; and every rank ends   *)
(* with the cells of the input that it owns.                               *)
(***************************************************************************)
EXTENDS Loading, FiniteSetTheorems, SequenceTheorems, WellFoundedInduction, TLAPS

(***************************************************************************)
(* Induction over naturals, with the predicate as a set.                   *)
(***************************************************************************)
LEMMA LeastOf ==
  ASSUME NEW T, T \subseteq Nat, T # {}
  PROVE  \E n \in T : \A k \in T : n <= k
<1>1. PICK n \in T : \A k \in T : ~ (<<k, n>> \in OpToRel(<, Nat))
  BY NatLessThanWellFounded, WFMin, Zenon
<1>2. ASSUME NEW k \in T PROVE n <= k
  <2>1. ~ (k < n)
    BY <1>1 DEF OpToRel
  <2> QED BY <2>1
<1> QED BY <1>2

LEMMA GreatestUpTo ==
  ASSUME NEW m \in Nat, NEW T, T \subseteq 1 .. m, T # {}
  PROVE  \E n \in T : \A k \in T : k <= n
<1> DEFINE U == {j \in Nat : m - j \in T}
<1>1. U \subseteq Nat /\ U # {}
  <2>1. PICK k \in T : TRUE
    OBVIOUS
  <2>2. m - k \in Nat /\ m - (m - k) = k
    BY <2>1
  <2> QED BY <2>1, <2>2
<1>2. PICK j \in U : \A k \in U : j <= k
  <2> HIDE DEF U
  <2> QED BY <1>1, LeastOf
<1>3. ASSUME NEW k \in T PROVE k <= m - j
  <2>1. k \in 1 .. m /\ m - k \in Nat /\ m - (m - k) = k
    OBVIOUS
  <2>2. m - k \in U
    BY <2>1
  <2>3. j \in Nat /\ j <= m - k
    BY <1>2, <2>2
  <2> HIDE DEF U
  <2> QED BY <2>1, <2>3
<1> QED BY <1>2, <1>3

LEMMA CountingUp ==
  ASSUME NEW T, 0 \in T, \A n \in Nat : n \in T => n + 1 \in T
  PROVE  \A n \in Nat : n \in T
<1> SUFFICES ASSUME Nat \ T # {} PROVE FALSE OBVIOUS
<1>1. PICK n \in Nat \ T : \A k \in Nat \ T : n <= k
  BY LeastOf
<1>2. n # 0 /\ n - 1 \in Nat /\ n - 1 \in T
  BY <1>1
<1> QED BY <1>2

(***************************************************************************)
(* A function defined by recursion exists: from b, step n is G[n].          *)
(***************************************************************************)
Steps(G, m, V) == G \in [1 .. m -> [V -> V]]
Repeats(f, b, G, m, V) ==
  f \in [0 .. m -> V] /\ f[0] = b /\ \A n \in 1 .. m : f[n] = G[n][f[n - 1]]

LEMMA Recursion ==
  ASSUME NEW V, NEW b \in V, NEW m \in Nat, NEW G, Steps(G, m, V)
  PROVE  \E f : Repeats(f, b, G, m, V)
<1>0. G \in [1 .. m -> [V -> V]]
  BY DEF Steps
<1> DEFINE Good(k, f) == f[0] = b /\ \A n \in 1 .. k : f[n] = G[n][f[n - 1]]
           T == {k \in Nat : k <= m => \E f \in [0 .. k -> V] : Good(k, f)}
<1>1. 0 \in T
  <2> DEFINE f == [n \in 0 .. 0 |-> b]
  <2>1. f \in [0 .. 0 -> V] /\ Good(0, f)
    OBVIOUS
  <2> QED BY <2>1
<1>2. ASSUME NEW k \in Nat, k \in T PROVE k + 1 \in T
  <2> SUFFICES ASSUME k + 1 <= m PROVE \E f \in [0 .. k + 1 -> V] : Good(k + 1, f)
    OBVIOUS
  <2>1. PICK f \in [0 .. k -> V] : Good(k, f)
    BY <1>2
  <2>2. k \in 0 .. k /\ k + 1 \in 1 .. m /\ f[k] \in V
    BY <2>1
  <2> DEFINE v == G[k + 1][f[k]]
             g == [n \in 0 .. k + 1 |-> IF n = k + 1 THEN v ELSE f[n]]
  <2>3. v \in V
    BY <1>0, <2>2
  <2>4. g \in [0 .. k + 1 -> V] /\ g[0] = b
    <3> HIDE DEF v
    <3>1. \A n \in 0 .. k + 1 : n # k + 1 => n \in 0 .. k
      OBVIOUS
    <3> QED BY <2>1, <2>3, <3>1
  <2>5. ASSUME NEW n \in 1 .. k + 1 PROVE g[n] = G[n][g[n - 1]]
    <3>1. n - 1 \in 0 .. k + 1 /\ n - 1 # k + 1 /\ n \in 0 .. k + 1 /\ g[n - 1] = f[n - 1]
      OBVIOUS
    <3>2. CASE n = k + 1
      <4>1. n - 1 = k
        BY <3>2
      <4> QED BY <3>1, <3>2, <4>1
    <3>3. CASE n # k + 1
      <4>1. n \in 1 .. k /\ g[n] = f[n]
        BY <3>3
      <4> QED BY <2>1, <3>1, <4>1
    <3> QED BY <3>2, <3>3
  <2> HIDE DEF g
  <2> QED BY <2>4, <2>5
<1> HIDE DEF T
<1>3. m \in T
  BY <1>1, <1>2, CountingUp
<1> QED BY <1>3 DEF T, Repeats

(***************************************************************************)
(* FlattenSeq, one sequence after the other.                               *)
(***************************************************************************)
LEMMA FlattenIs ==
  ASSUME NEW A, NEW ss \in Seq(Seq(A))
  PROVE  \E f \in [0 .. Len(ss) -> Seq(A)] :
           /\ f[0] = <<>> /\ \A n \in 1 .. Len(ss) : f[n] = f[n - 1] \o ss[n]
           /\ FlattenSeq(ss) = f[Len(ss)]
<1> DEFINE m == Len(ss)
           G == [n \in 1 .. m |-> [v \in Seq(A) |-> v \o ss[n]]]
<1>1. m \in Nat /\ \A n \in 1 .. m : ss[n] \in Seq(A)
  OBVIOUS
<1> HIDE DEF m
<1>2. G \in [1 .. m -> [Seq(A) -> Seq(A)]]
  BY <1>1
<1>3. PICK f \in [0 .. m -> Seq(A)] : f[0] = <<>> /\ \A n \in 1 .. m : f[n] = G[n][f[n - 1]]
  <2> DEFINE V == Seq(A)
             b == <<>>
  <2>1. b \in V /\ Steps(G, m, V)
    BY <1>2 DEF Steps
  <2> HIDE DEF G, V, b
  <2>2. \E f : Repeats(f, b, G, m, V)
    BY <1>1, <2>1, Recursion
  <2> QED BY <2>2 DEF V, b, Repeats
<1>4. ASSUME NEW n \in 1 .. m PROVE f[n] = f[n - 1] \o ss[n] /\ f[n - 1] \in Seq(A)
  <2>1. n - 1 \in 0 .. m
    BY <1>1
  <2>2. f[n - 1] \in Seq(A)
    BY <1>3, <2>1
  <2> QED BY <1>3, <2>2
<1>5. CASE m = 0
  BY <1>3, <1>4, <1>5 DEF FlattenSeq, m
<1>6. CASE m # 0
  <2> DEFINE Flat(g) == g = [i \in 1 .. m |-> IF i = 1 THEN ss[i] ELSE g[i - 1] \o ss[i]]
             h == [i \in 1 .. m |-> f[i]]
  <2>1. FlattenSeq(ss) = (CHOOSE g : Flat(g))[m]
    BY <1>6 DEF FlattenSeq, m
  <2>2. Flat(h)
    <3>1. ASSUME NEW i \in 1 .. m PROVE h[i] = IF i = 1 THEN ss[i] ELSE h[i - 1] \o ss[i]
      <4>1. CASE i = 1
        <5>0. 1 \in 1 .. m /\ 1 - 1 = 0
          BY <4>1
        <5>1. f[1] = <<>> \o ss[1] /\ ss[1] \in Seq(A)
          BY <1>1, <1>3, <1>4, <5>0
        <5>2. <<>> \o ss[1] = ss[1]
          BY <5>1
        <5> QED BY <4>1, <5>1, <5>2
      <4>2. CASE i # 1
        <5>1. i - 1 \in 1 .. m
          BY <1>1, <4>2
        <5> QED BY <1>4, <4>2, <5>1
      <4> QED BY <4>1, <4>2
    <3>2. h = [i \in 1 .. m |-> h[i]]
      OBVIOUS
    <3> HIDE DEF h
    <3> QED BY <3>1, <3>2
  <2>3. PICK g : Flat(g) /\ FlattenSeq(ss) = g[m]
    <3> HIDE DEF Flat
    <3>1. Flat(CHOOSE g : Flat(g))
      BY <2>2
    <3> QED BY <2>1, <3>1
  <2> DEFINE T == {n \in Nat : n + 1 <= m => g[n + 1] = f[n + 1]}
  <2>4. 0 \in T
    <3>1. 1 \in 1 .. m
      BY <1>1, <1>6
    <3>2. g[1] = ss[1] /\ h[1] = ss[1] /\ h[1] = f[1]
      BY <2>2, <2>3, <3>1
    <3> QED BY <3>2
  <2>5. ASSUME NEW n \in Nat, n \in T PROVE n + 1 \in T
    <3> SUFFICES ASSUME (n + 1) + 1 <= m PROVE g[(n + 1) + 1] = f[(n + 1) + 1]
      OBVIOUS
    <3>1. (n + 1) + 1 \in 1 .. m /\ n + 1 <= m /\ (n + 1) + 1 # 1 /\ ((n + 1) + 1) - 1 = n + 1
      BY <1>1
    <3>2. g[(n + 1) + 1] = g[n + 1] \o ss[(n + 1) + 1]
      BY <2>3, <3>1
    <3>3. f[(n + 1) + 1] = f[n + 1] \o ss[(n + 1) + 1]
      BY <1>4, <3>1
    <3> QED BY <2>5, <3>1, <3>2, <3>3
  <2> HIDE DEF T
  <2>6. \A n \in Nat : n \in T
    BY <2>4, <2>5, CountingUp
  <2>7. m - 1 \in Nat /\ (m - 1) + 1 = m
    BY <1>1, <1>6
  <2>8. g[m] = f[m]
    BY <2>6, <2>7 DEF T
  <2> QED BY <1>3, <1>4, <2>3, <2>8 DEF m
<1> QED BY <1>5, <1>6

LEMMA Flattened ==
  ASSUME NEW A, NEW ss \in Seq(Seq(A))
  PROVE  /\ FlattenSeq(ss) \in Seq(A)
         /\ Len(ss) = 0 => FlattenSeq(ss) = <<>>
         /\ \A x \in Seq(A) : FlattenSeq(Append(ss, x)) = FlattenSeq(ss) \o x
<1> DEFINE m == Len(ss)
<1>0. m \in Nat
  OBVIOUS
<1>1. PICK f \in [0 .. m -> Seq(A)] : /\ f[0] = <<>> /\ \A n \in 1 .. m : f[n] = f[n - 1] \o ss[n]
                                      /\ FlattenSeq(ss) = f[m]
  BY FlattenIs
<1>2. FlattenSeq(ss) \in Seq(A) /\ (m = 0 => FlattenSeq(ss) = <<>>)
  <2> HIDE DEF m
  <2> QED BY <1>0, <1>1
<1>3. ASSUME NEW x \in Seq(A) PROVE FlattenSeq(Append(ss, x)) = FlattenSeq(ss) \o x
  <2> DEFINE sx == Append(ss, x)
  <2>1. /\ sx \in Seq(Seq(A)) /\ Len(sx) = m + 1 /\ sx[m + 1] = x
        /\ \A n \in 1 .. m : sx[n] = ss[n]
    OBVIOUS
  <2> HIDE DEF sx
  <2>2. PICK g \in [0 .. m + 1 -> Seq(A)] :
               /\ g[0] = <<>> /\ \A n \in 1 .. m + 1 : g[n] = g[n - 1] \o sx[n]
               /\ FlattenSeq(sx) = g[m + 1]
    <3>1. \E g \in [0 .. Len(sx) -> Seq(A)] :
            /\ g[0] = <<>> /\ \A n \in 1 .. Len(sx) : g[n] = g[n - 1] \o sx[n]
            /\ FlattenSeq(sx) = g[Len(sx)]
      BY <2>1, FlattenIs
    <3> QED BY <2>1, <3>1
  <2> DEFINE T == {n \in Nat : n <= m => g[n] = f[n]}
  <2> HIDE DEF m
  <2>3. 0 \in T
    BY <1>1, <2>2
  <2>4. ASSUME NEW n \in Nat, n \in T PROVE n + 1 \in T
    <3> SUFFICES ASSUME n + 1 <= m PROVE g[n + 1] = f[n + 1]
      OBVIOUS
    <3>1. n + 1 \in 1 .. m /\ n + 1 \in 1 .. m + 1 /\ (n + 1) - 1 = n /\ n <= m
      BY <1>0
    <3>2. f[n + 1] = f[n] \o ss[n + 1]
      BY <1>1, <3>1
    <3>3. g[n + 1] = g[n] \o ss[n + 1]
      BY <2>1, <2>2, <3>1
    <3> QED BY <2>4, <3>1, <3>2, <3>3
  <2> HIDE DEF T
  <2>5. m \in T
    BY <1>0, <2>3, <2>4, CountingUp
  <2>6. g[m] = f[m]
    BY <1>0, <2>5 DEF T
  <2>7. m + 1 \in 1 .. m + 1 /\ (m + 1) - 1 = m
    BY <1>0
  <2>8. g[m + 1] = g[m] \o x
    BY <2>1, <2>2, <2>7
  <2> QED BY <1>1, <2>2, <2>6, <2>8 DEF sx
<1> QED BY <1>2, <1>3 DEF m

\* sx is ss, which has n elements, and then x.
Longer(sx, ss, n, x) ==
  /\ Len(ss) = n /\ sx = [k \in 1 .. n + 1 |-> sx[k]]
  /\ (\A k \in 1 .. n : sx[k] = ss[k]) /\ sx[n + 1] = x

LEMMA AppendIs ==
  ASSUME NEW A, NEW ss \in Seq(A), NEW x \in A, NEW sx, NEW n \in Nat, Longer(sx, ss, n, x)
  PROVE  sx = Append(ss, x)
<1> USE DEF Longer
<1> DEFINE w == Append(ss, x)
<1>1. /\ w \in Seq(A) /\ Len(w) = n + 1 /\ w[n + 1] = x
      /\ \A k \in 1 .. n : w[k] = ss[k] /\ ss[k] \in A
  OBVIOUS
<1> HIDE DEF w
<1>2. ASSUME NEW k \in 1 .. n + 1 PROVE sx[k] = w[k] /\ sx[k] \in A
  <2>1. k = n + 1 \/ k \in 1 .. n
    OBVIOUS
  <2> QED BY <1>1, <2>1
<1>3. sx \in [1 .. n + 1 -> A] /\ n + 1 \in Nat
  BY <1>2
<1>4. sx \in Seq(A) /\ Len(sx) = n + 1
  BY <1>3
<1>5. sx = w
  BY <1>1, <1>2, <1>4, SeqEqual
<1> QED BY <1>5 DEF w

(***************************************************************************)
(* The elements of a finite set in the order of their keys.                *)
(***************************************************************************)
Ranking(S, K) ==
  /\ IsFiniteSet(S) /\ K \in [S -> Nat]
  /\ \A x, y \in S : K[x] = K[y] => x = y
Below(K, S, x) == {y \in S : K[y] < K[x]}

LEMMA BelowCounts ==
  ASSUME NEW S, NEW K, Ranking(S, K), NEW x \in S
  PROVE  /\ Cardinality(Below(K, S, x)) \in Nat /\ Cardinality(S) \in Nat
         /\ Cardinality(Below(K, S, x)) < Cardinality(S)
         /\ \A y \in S : Cardinality(Below(K, S, x)) = Cardinality(Below(K, S, y)) => x = y
<1>0. IsFiniteSet(S) /\ K \in [S -> Nat] /\ \A a, b \in S : K[a] = K[b] => a = b
  BY DEF Ranking
<1>1. ASSUME NEW z \in S
      PROVE  /\ IsFiniteSet(Below(K, S, z)) /\ Below(K, S, z) \in SUBSET S /\ z \notin Below(K, S, z)
             /\ Cardinality(Below(K, S, z)) \in Nat
  <2>1. Below(K, S, z) \in SUBSET S /\ z \notin Below(K, S, z)
    BY <1>0 DEF Below
  <2>2. IsFiniteSet(Below(K, S, z))
    BY <1>0, <2>1, FS_Subset
  <2> QED BY <2>1, <2>2, FS_CardinalityType
<1>2. Cardinality(S) \in Nat
  BY <1>0, FS_CardinalityType
<1>3. Cardinality(Below(K, S, x)) < Cardinality(S)
  <2>1. /\ Cardinality(Below(K, S, x)) <= Cardinality(S)
        /\ Cardinality(S) = Cardinality(Below(K, S, x)) => S = Below(K, S, x)
    BY <1>0, <1>1, FS_Subset
  <2> QED BY <1>1, <1>2, <2>1
<1>4. ASSUME NEW a \in S, NEW b \in S, K[a] < K[b]
      PROVE  Cardinality(Below(K, S, a)) # Cardinality(Below(K, S, b))
  <2>1. Below(K, S, a) \in SUBSET Below(K, S, b) /\ a \in Below(K, S, b) /\ a \notin Below(K, S, a)
    <3>1. K[a] \in Nat /\ K[b] \in Nat /\ \A y \in S : K[y] \in Nat
      BY <1>0
    <3> QED BY <1>4, <3>1 DEF Below
  <2>2. Cardinality(Below(K, S, b)) = Cardinality(Below(K, S, a)) => Below(K, S, b) = Below(K, S, a)
    BY <1>1, <2>1, FS_Subset
  <2> QED BY <2>1, <2>2
<1>5. ASSUME NEW y \in S, Cardinality(Below(K, S, x)) = Cardinality(Below(K, S, y)) PROVE x = y
  <2>1. K[x] \in Nat /\ K[y] \in Nat
    BY <1>0
  <2>2. ~ (K[x] < K[y]) /\ ~ (K[y] < K[x])
    BY <1>4, <1>5
  <2> QED BY <1>0, <2>1, <2>2
<1> QED BY <1>1, <1>2, <1>3, <1>5

LEMMA PlacesTaken ==
  ASSUME NEW S, NEW K, Ranking(S, K), NEW k \in 1 .. Cardinality(S)
  PROVE  \E x \in S : Cardinality(Below(K, S, x)) = k - 1
<1>0. IsFiniteSet(S) /\ K \in [S -> Nat] /\ \A a, b \in S : K[a] = K[b] => a = b
  BY DEF Ranking
<1> DEFINE Good(U) == \A j \in 1 .. Cardinality(U) : \E x \in U : Cardinality(Below(K, U, x)) = j - 1
           T == {n \in Nat : \A U \in SUBSET S : Cardinality(U) = n => Good(U)}
<1>1. ASSUME NEW U \in SUBSET S PROVE IsFiniteSet(U) /\ Cardinality(U) \in Nat
  <2>1. IsFiniteSet(U)
    BY <1>0, FS_Subset
  <2> QED BY <2>1, FS_CardinalityType
<1>2. 0 \in T
  OBVIOUS
<1>3. ASSUME NEW n \in Nat, n \in T PROVE n + 1 \in T
  <2> SUFFICES ASSUME NEW U \in SUBSET S, Cardinality(U) = n + 1, NEW j \in 1 .. n + 1
               PROVE  \E x \in U : Cardinality(Below(K, U, x)) = j - 1
    OBVIOUS
  <2>1. U # {}
    BY FS_EmptySet
  <2>2. PICK x \in U : \A y \in U : K[x] <= K[y]
    <3> DEFINE V == {K[y] : y \in U}
    <3>1. V \subseteq Nat /\ V # {}
      BY <1>0, <2>1
    <3>2. PICK v \in V : \A w \in V : v <= w
      <4> HIDE DEF V
      <4> QED BY <3>1, LeastOf
    <3> QED BY <3>2
  <2>3. \A y \in U : K[y] \in Nat /\ (y # x => K[x] < K[y])
    <3>1. \A y \in U : K[y] \in Nat /\ K[x] \in Nat /\ (K[x] = K[y] => x = y)
      BY <1>0
    <3> QED BY <2>2, <3>1
  <2> DEFINE W == U \ {x}
  <2>4. W \in SUBSET S /\ Cardinality(W) = n
    <3>1. Cardinality(W) = Cardinality(U) - 1
      BY <1>1, FS_RemoveElement
    <3> QED BY <3>1
  <2>5. CASE j = 1
    <3>1. Below(K, U, x) = {}
      BY <2>3 DEF Below
    <3> QED BY <2>5, <3>1, FS_EmptySet
  <2>6. CASE j # 1
    <3>1. j - 1 \in 1 .. n
      BY <2>6
    <3>2. PICK z \in W : Cardinality(Below(K, W, z)) = (j - 1) - 1
      BY <1>3, <2>4, <3>1
    <3>3. Below(K, U, z) = Below(K, W, z) \cup {x} /\ x \notin Below(K, W, z)
      BY <2>3 DEF Below
    <3>4. IsFiniteSet(Below(K, W, z))
      BY <1>1, <2>4 DEF Below
    <3>5. Cardinality(Below(K, U, z)) = Cardinality(Below(K, W, z)) + 1
      BY <3>3, <3>4, FS_AddElement
    <3> QED BY <3>1, <3>2, <3>5
  <2> QED BY <2>5, <2>6
<1> HIDE DEF T
<1>4. \A n \in Nat : n \in T
  BY <1>2, <1>3, CountingUp
<1>5. Cardinality(S) \in T
  BY <1>1, <1>4
<1> QED BY <1>5 DEF T

-----------------------------------------------------------------------------
(***************************************************************************)
(* displs: the running sum exists and grows.                               *)
(***************************************************************************)
SumTo(fs, m, d) ==
  d = [i \in 1 .. m + 1 |-> IF i = 1 THEN 0 ELSE d[i - 1] + Len(fs[i - 1])]

LEMMA SumExists ==
  ASSUME NEW fs PROVE \A m \in Nat : \E d : SumTo(fs, m, d)
<1> DEFINE T == {m \in Nat : \E d : SumTo(fs, m, d)}
<1>1. 0 \in T
  <2> DEFINE d == [i \in 1 .. 0 + 1 |-> 0]
  <2>1. SumTo(fs, 0, d)
    BY DEF SumTo
  <2> QED BY <2>1
<1>2. ASSUME NEW m \in Nat, m \in T PROVE m + 1 \in T
  <2>1. PICK d : SumTo(fs, m, d)
    BY <1>2
  <2> DEFINE e == [i \in 1 .. (m + 1) + 1 |->
                     IF i = (m + 1) + 1 THEN d[m + 1] + Len(fs[m + 1]) ELSE d[i]]
  <2>2. ASSUME NEW i \in 1 .. (m + 1) + 1
        PROVE  e[i] = IF i = 1 THEN 0 ELSE e[i - 1] + Len(fs[i - 1])
    <3>1. CASE i = (m + 1) + 1
      BY <3>1
    <3>2. CASE i # (m + 1) + 1
      <4>1. i \in 1 .. m + 1 /\ e[i] = d[i] /\ (i # 1 => e[i - 1] = d[i - 1])
        BY <3>2
      <4>2. d[i] = IF i = 1 THEN 0 ELSE d[i - 1] + Len(fs[i - 1])
        BY <2>1, <4>1 DEF SumTo
      <4> QED BY <4>1, <4>2
    <3> QED BY <3>1, <3>2
  <2>3. SumTo(fs, m + 1, e)
    <3>1. e = [i \in 1 .. (m + 1) + 1 |-> e[i]]
      OBVIOUS
    <3> HIDE DEF e
    <3> QED BY <2>2, <3>1 DEF SumTo
  <2> QED BY <2>3
<1> HIDE DEF T
<1>3. \A m \in Nat : m \in T
  BY <1>1, <1>2, CountingUp
<1> QED BY <1>3 DEF T

LEMMA DisplsIs ==
  ASSUME NEW fs, Len(fs) \in Nat PROVE SumTo(fs, Len(fs), Displs(fs))
<1>1. Displs(fs) = CHOOSE d : SumTo(fs, Len(fs), d)
  BY DEF Displs, SumTo
<1> QED BY <1>1, SumExists
LEMMA DisplsValues ==
  ASSUME NEW fs \in Seq(Seq(BOOLEAN)), NEW d, d = Displs(fs)
  PROVE  /\ d \in [1 .. Len(fs) + 1 -> Nat] /\ d[1] = 0
         /\ \A i \in 1 .. Len(fs) : d[i + 1] = d[i] + Len(fs[i])
         /\ \A i, j \in 1 .. Len(fs) + 1 : i <= j => d[i] <= d[j]
<1> DEFINE n == Len(fs)
<1>0. n \in Nat /\ \A i \in 1 .. n : Len(fs[i]) \in Nat
  OBVIOUS
<1> HIDE DEF n
<1>1. d = [i \in 1 .. n + 1 |-> IF i = 1 THEN 0 ELSE d[i - 1] + Len(fs[i - 1])]
  BY <1>0, DisplsIs DEF SumTo, n
<1>2. d[1] = 0
  BY <1>0, <1>1
<1>3. ASSUME NEW i \in 1 .. n PROVE d[i + 1] = d[i] + Len(fs[i])
  <2>1. i + 1 \in 1 .. n + 1 /\ i + 1 # 1 /\ (i + 1) - 1 = i
    BY <1>0
  <2>2. d[i + 1] = IF i + 1 = 1 THEN 0 ELSE d[(i + 1) - 1] + Len(fs[(i + 1) - 1])
    BY <1>1, <2>1
  <2> QED BY <2>1, <2>2
<1>4. \A i \in 1 .. n + 1 : d[i] \in Nat
  <2> DEFINE T == {m \in Nat : m + 1 \in 1 .. n + 1 => d[m + 1] \in Nat}
  <2>1. 0 \in T
    BY <1>2
  <2>2. ASSUME NEW m \in Nat, m \in T PROVE m + 1 \in T
    <3>1. CASE (m + 1) + 1 \in 1 .. n + 1
      <4>1. m + 1 \in 1 .. n
        BY <3>1, <1>0
      <4> QED BY <4>1, <2>2, <1>0, <1>3, SMTT(30)
    <3> QED BY <3>1
  <2> HIDE DEF T
  <2>3. \A m \in Nat : m \in T
    BY <2>1, <2>2, CountingUp
  <2>4. ASSUME NEW i \in 1 .. n + 1 PROVE d[i] \in Nat
    <3>1. i - 1 \in Nat /\ (i - 1) + 1 = i
      BY <1>0
    <3> QED BY <2>3, <3>1 DEF T
  <2> QED BY <2>4
<1>5. ASSUME NEW i \in 1 .. n + 1
      PROVE  \A k \in Nat : i + k \in 1 .. n + 1 => d[i] <= d[i + k]
  <2> DEFINE T == {k \in Nat : i + k \in 1 .. n + 1 => d[i] <= d[i + k]}
  <2>1. 0 \in T
    BY <1>0, <1>4
  <2>2. ASSUME NEW k \in Nat, k \in T PROVE k + 1 \in T
    <3>1. CASE i + (k + 1) \in 1 .. n + 1
      <4>1. i + k \in 1 .. n /\ (i + k) + 1 = i + (k + 1)
        BY <3>1, <1>0
      <4>2. d[i + (k + 1)] = d[i + k] + Len(fs[i + k]) /\ d[i + k] \in Nat /\ Len(fs[i + k]) \in Nat
        BY <4>1, <1>0, <1>3, <1>4
      <4>3. d[i] <= d[i + k]
        BY <4>1, <2>2, <1>0
      <4> QED BY <4>2, <4>3, <1>4, SMTT(30)
    <3> QED BY <3>1
  <2> HIDE DEF T
  <2>3. \A k \in Nat : k \in T
    BY <2>1, <2>2, CountingUp
  <2> QED BY <2>3 DEF T
<1>6. ASSUME NEW i \in 1 .. n + 1, NEW j \in 1 .. n + 1, i <= j PROVE d[i] <= d[j]
  <2>1. j - i \in Nat /\ i + (j - i) = j
    BY <1>0, <1>6
  <2> QED BY <1>5, <2>1
<1>7. d \in [1 .. n + 1 -> Nat]
  BY <1>1, <1>4
<1> QED BY <1>2, <1>3, <1>6, <1>7 DEF n

-----------------------------------------------------------------------------
(***************************************************************************)
(* getline.                                                                *)
(***************************************************************************)

\* Position p of file f is where a line starts, or the end of the file.
AtLine(f, p) == p \in 0 .. Len(f) /\ (p = Len(f) \/ p = 0 \/ f[p])

LEMMA GetLine ==
  ASSUME NEW f \in Seq(BOOLEAN), NEW p \in 0 .. Len(f)
  PROVE  /\ LineEnd(f, p) \in p .. Len(f)
         /\ LineEnd(f, p) < Len(f) => f[LineEnd(f, p) + 1]
         /\ \A q \in p .. LineEnd(f, p) - 1 : ~f[q + 1]
         /\ AfterLine(f, p) \in p .. Len(f) /\ AtLine(f, AfterLine(f, p))
         /\ AfterLine(f, p) = IF LineEnd(f, p) < Len(f) THEN LineEnd(f, p) + 1 ELSE Len(f)
<1> DEFINE T == {q \in p .. Len(f) - 1 : f[q + 1]}
<1>0. Len(f) \in Nat /\ p \in Nat
  OBVIOUS
<1>1. CASE T = {}
  <2>1. ~ \E q \in p .. Len(f) - 1 : f[q + 1]
    BY <1>1
  <2>2. LineEnd(f, p) = Len(f)
    BY <2>1, <1>0 DEF LineEnd
  <2>3. AfterLine(f, p) = Len(f)
    BY <2>2, <1>0 DEF AfterLine
  <2> QED BY <1>0, <2>1, <2>2, <2>3 DEF AtLine
<1>2. CASE T # {}
  <2>1. T \subseteq Nat
    BY <1>0
  <2>2. PICK q \in T : \A k \in T : q <= k
    <3> HIDE DEF T
    <3> QED BY <1>2, <2>1, LeastOf
  <2>3. q \in p .. Len(f) - 1 /\ f[q + 1]
    BY <2>2
  <2>4. \A r \in p .. q - 1 : ~f[r + 1]
    BY <1>0, <2>2, <2>3
  <2> DEFINE e == LineEnd(f, p)
  <2>5. e = CHOOSE x \in p .. Len(f) - 1 : f[x + 1] /\ \A r \in p .. x - 1 : ~f[r + 1]
    BY <2>3 DEF LineEnd
  <2>6. e \in p .. Len(f) - 1 /\ f[e + 1] /\ \A r \in p .. e - 1 : ~f[r + 1]
    <3> HIDE DEF e, T
    <3> QED BY <2>3, <2>4, <2>5
  <2>7. AfterLine(f, p) = e + 1 /\ e < Len(f)
    BY <2>6, <1>0 DEF AfterLine
  <2> HIDE DEF e
  <2>8. AtLine(f, e + 1) /\ e + 1 \in p .. Len(f)
    BY <2>6, <1>0 DEF AtLine
  <2>9. e \in p .. Len(f)
    BY <2>6, <1>0
  <2> QED BY <2>6, <2>7, <2>8, <2>9 DEF e
<1> QED BY <1>1, <1>2

\* No line starts between p and where getline from p leaves the stream.
LEMMA NoLineBetween ==
  ASSUME NEW f \in Seq(BOOLEAN), NEW p \in 0 .. Len(f), NEW q \in LineStarts(f),
         p < q, q < AfterLine(f, p)
  PROVE  FALSE
<1>1. q \in 0 .. Len(f) - 1 /\ f[q] /\ Len(f) \in Nat
  BY DEF LineStarts
<1>2. q - 1 \in p .. LineEnd(f, p) - 1 /\ (q - 1) + 1 = q
  <2> DEFINE e == LineEnd(f, p)
  <2>1. e \in p .. Len(f) /\ AfterLine(f, p) = IF e < Len(f) THEN e + 1 ELSE Len(f)
    BY GetLine
  <2> HIDE DEF e
  <2> QED BY <1>1, <2>1 DEF e
<1>3. ~f[(q - 1) + 1]
  BY <1>2, GetLine
<1> QED BY <1>1, <1>2, <1>3
-----------------------------------------------------------------------------
(***************************************************************************)
(* The invariant.  A byte is told by its distance from the start of the    *)
(* first file.  Mark is how far the loading has come: what was loaded lies *)
(* before it, and, when no line is empty, all lines before it are loaded.  *)
(***************************************************************************)
Opened    == pc \notin {"partition", "assert_failed"}
Reading   == pc \in {"whole_file", "last_file"}
Global(l) == displs[l[1]] + l[2]
Size      == displs[NFiles + 1]
Mark      == IF pc = "block" THEN st ELSE IF Reading THEN displs[fi] + pos ELSE en

InputInv ==
  /\ namelst \in Seq(Seq(BOOLEAN)) /\ namelst # <<>>
  /\ np \in Nat \ {0} /\ blk_sz \in Nat \ {0}
  /\ pc \in {"partition", "assert_failed", "block", "whole_file", "last_file", "done"}

\* The ranges are not empty, and together they are the input.
RangeInv ==
  /\ displs = Displs(namelst)
  /\ slst \in [0 .. nbk - 1 -> Nat] /\ elst \in [0 .. nbk - 1 -> Nat]
  /\ slst[0] = 0 /\ elst[nbk - 1] = Size
  /\ \A b \in 0 .. nbk - 1 : /\ slst[b] < elst[b] /\ elst[b] <= Size
                             /\ b # nbk - 1 => elst[b] = slst[b + 1]

BlockInv ==
  /\ rk \in 0 .. np - 1 /\ blk \in 0 .. nbk - 1
  /\ rk * blk_sz <= blk /\ blk < (rk + 1) * blk_sz
  /\ pc = "done" => blk = nbk - 1

\* The stream is at a line of a file of the range; in the last file the program
\* knows where, except for the newline that the end of a file may lack.
CursorInv ==
  /\ fi \in 1 .. NFiles /\ fen \in 1 .. NFiles /\ fi <= fen
  /\ pc = "last_file" <=> fi = fen
  /\ displs[fen] < en /\ en <= displs[fen + 1]
  /\ AtLine(namelst[fi], pos)
  /\ pc = "last_file" =>
       \/ offset = pos
       \/ pos = Len(namelst[fi]) /\ offset = pos + 1

LinesInv ==
  /\ lines \in Seq(Nat \X Nat \X Nat)
  /\ \A k \in DOMAIN lines : <<lines[k][1], lines[k][2]>> \in AllLines
  /\ \A k \in DOMAIN lines : k > 1 => Global(lines[k - 1]) < Global(lines[k])
  /\ \A k \in DOMAIN lines : Global(lines[k]) < Mark /\ Global(lines[k]) < en

Loaded(l) == \E k \in DOMAIN lines : <<lines[k][1], lines[k][2]>> = l

AllInv == NoBlankLine => \A l \in AllLines : Global(l) < Mark => Loaded(l)

Inv ==
  /\ InputInv
  /\ ~Opened => lines = <<>> /\ rk = 0 /\ blk = 0
  /\ Opened => RangeInv /\ BlockInv /\ LinesInv /\ AllInv
  /\ Reading => CursorInv

-----------------------------------------------------------------------------
(***************************************************************************)
(* Files and distances.                                                    *)
(***************************************************************************)
LEMMA Distances ==
  ASSUME InputInv, RangeInv
  PROVE  /\ NFiles \in Nat \ {0} /\ displs \in [1 .. NFiles + 1 -> Nat] /\ displs[1] = 0
         /\ \A i \in 1 .. NFiles : /\ namelst[i] \in Seq(BOOLEAN) /\ Len(namelst[i]) \in Nat
                                   /\ displs[i + 1] = displs[i] + Len(namelst[i])
         /\ \A i, j \in 1 .. NFiles + 1 : i <= j => displs[i] <= displs[j]
<1>1. NFiles \in Nat \ {0}
  BY DEF InputInv, NFiles
<1>2. \A i \in 1 .. NFiles : namelst[i] \in Seq(BOOLEAN) /\ Len(namelst[i]) \in Nat
  BY DEF InputInv, NFiles
<1> QED BY <1>1, <1>2, DisplsValues DEF InputInv, RangeInv, NFiles

LEMMA LineFacts ==
  ASSUME InputInv, RangeInv, NEW l \in AllLines
  PROVE  /\ l[1] \in 1 .. NFiles /\ l[2] \in 0 .. Len(namelst[l[1]]) - 1
         /\ l[2] \in LineStarts(namelst[l[1]]) /\ l = <<l[1], l[2]>>
         /\ Global(l) \in Nat /\ displs[l[1]] <= Global(l) /\ Global(l) < displs[l[1] + 1]
<1>1. PICK i \in 1 .. NFiles : l \in {i} \X LineStarts(namelst[i])
  BY DEF AllLines, LinesOf, NFiles
<1>2. l[1] = i /\ l[2] \in LineStarts(namelst[i]) /\ l = <<l[1], l[2]>>
  BY <1>1
<1>3. l[2] \in 0 .. Len(namelst[i]) - 1
  BY <1>2 DEF LineStarts
<1>4. displs[i] \in Nat /\ Len(namelst[i]) \in Nat /\ displs[i + 1] = displs[i] + Len(namelst[i])
  BY <1>1, Distances
<1> QED BY <1>1, <1>2, <1>3, <1>4 DEF Global

\* A line that lies in file j by its distance is a line of file j.
LEMMA LineOfFile ==
  ASSUME InputInv, RangeInv, NEW l \in AllLines, NEW j \in 1 .. NFiles,
         displs[j] <= Global(l), Global(l) < displs[j + 1]
  PROVE  l[1] = j
<1>1. /\ l[1] \in 1 .. NFiles /\ Global(l) \in Nat
      /\ displs[l[1]] <= Global(l) /\ Global(l) < displs[l[1] + 1]
  BY LineFacts
<1>2. /\ NFiles \in Nat /\ displs \in [1 .. NFiles + 1 -> Nat]
      /\ \A i, k \in 1 .. NFiles + 1 : i <= k => displs[i] <= displs[k]
  BY Distances
<1>3. ~(l[1] < j)
  <2> SUFFICES ASSUME l[1] + 1 <= j PROVE FALSE BY <1>1
  <2>0. l[1] + 1 \in 1 .. NFiles + 1 /\ j \in 1 .. NFiles + 1
    BY <1>1, <1>2, SMTT(30)
  <2>1. displs[l[1] + 1] <= displs[j] /\ displs[l[1] + 1] \in Nat /\ displs[j] \in Nat
    BY <2>0, <1>2
  <2> QED BY <1>1, <2>1
<1>4. ~(j < l[1])
  <2> SUFFICES ASSUME j + 1 <= l[1] PROVE FALSE BY <1>1
  <2>1. displs[j + 1] <= displs[l[1]] /\ displs[j + 1] \in Nat /\ displs[l[1]] \in Nat
    BY <1>1, <1>2, SMTT(30)
  <2> QED BY <1>1, <2>1
<1> QED BY <1>1, <1>3, <1>4

LEMMA NoLineSkipped ==
  ASSUME InputInv, RangeInv, NEW l \in AllLines, NEW j \in 1 .. NFiles,
         NEW p \in 0 .. Len(namelst[j]), displs[j] + p < Global(l),
         Global(l) < displs[j] + AfterLine(namelst[j], p)
  PROVE  FALSE
<1> DEFINE f == namelst[j]
<1>1. f \in Seq(BOOLEAN) /\ Len(f) \in Nat /\ displs[j] \in Nat /\ displs[j + 1] = displs[j] + Len(f)
  <2>1. NFiles \in Nat /\ j \in 1 .. NFiles + 1 /\ displs \in [1 .. NFiles + 1 -> Nat]
    BY Distances
  <2> QED BY <2>1, Distances
<1>2. AfterLine(f, p) \in p .. Len(f)
  BY <1>1, GetLine
<1>3. Global(l) \in Nat
  BY LineFacts
<1>4. displs[j] <= Global(l) /\ Global(l) < displs[j + 1]
  BY <1>1, <1>2, <1>3
<1>5. l[1] = j
  BY <1>4, LineOfFile
<1>6. l[2] \in LineStarts(f) /\ l[2] \in Nat /\ Global(l) = displs[j] + l[2]
  BY <1>5, LineFacts DEF Global
<1>7. p < l[2] /\ l[2] < AfterLine(f, p)
  BY <1>1, <1>2, <1>6
<1> HIDE DEF f
<1> QED BY <1>1, <1>6, <1>7, NoLineBetween DEF f

\* The files of a range.
LEMMA RangeFiles ==
  ASSUME InputInv, RangeInv, BlockInv
  PROVE  /\ st \in Nat /\ en \in Nat /\ st < en /\ en <= Size
         /\ FirstFile \in 1 .. NFiles /\ displs[FirstFile] <= st /\ st < displs[FirstFile + 1]
         /\ LastFile \in 1 .. NFiles /\ displs[LastFile] < en /\ en <= displs[LastFile + 1]
         /\ FirstFile <= LastFile
<1>0. /\ NFiles \in Nat \ {0} /\ displs \in [1 .. NFiles + 1 -> Nat] /\ displs[1] = 0
      /\ \A i, j \in 1 .. NFiles + 1 : i <= j => displs[i] <= displs[j]
  BY Distances
<1>1. st \in Nat /\ en \in Nat /\ st < en /\ en <= Size
  BY DEF RangeInv, BlockInv, st, en
<1>2. FirstFile \in 1 .. NFiles /\ displs[FirstFile] <= st
      /\ \A j \in FirstFile + 1 .. NFiles : displs[j] > st
  <2> DEFINE T == {i \in 1 .. NFiles : displs[i] <= st}
  <2>1. T \subseteq 1 .. NFiles /\ 1 \in T
    BY <1>0, <1>1
  <2>2. PICK i \in T : \A j \in T : j <= i
    <3> HIDE DEF T
    <3> QED BY <2>1, <1>0, GreatestUpTo
  <2>3. i \in 1 .. NFiles /\ displs[i] <= st
    BY <2>2
  <2>4. ASSUME NEW j \in i + 1 .. NFiles PROVE displs[j] > st
    <3>1. j \in 1 .. NFiles /\ ~(j <= i)
      BY <2>3, <1>0
    <3>2. j \notin T
      BY <2>2, <3>1
    <3> QED BY <3>1, <3>2, <1>0, <1>1
  <2> HIDE DEF T
  <2> QED BY <2>3, <2>4 DEF FirstFile
<1>3. LastFile \in 1 .. NFiles /\ (LastFile > 1 => en > displs[LastFile])
      /\ \A j \in LastFile + 1 .. NFiles : en <= displs[j]
  <2> DEFINE T == {i \in 1 .. NFiles : displs[i] < en}
  <2>1. T \subseteq 1 .. NFiles /\ 1 \in T
    BY <1>0, <1>1
  <2>2. PICK i \in T : \A j \in T : j <= i
    <3> HIDE DEF T
    <3> QED BY <2>1, <1>0, GreatestUpTo
  <2>3. i \in 1 .. NFiles /\ en > displs[i]
    BY <2>2, <1>0, <1>1
  <2>4. ASSUME NEW j \in i + 1 .. NFiles PROVE en <= displs[j]
    <3>1. j \in 1 .. NFiles /\ ~(j <= i)
      BY <2>3, <1>0
    <3>2. j \notin T
      BY <2>2, <3>1
    <3> QED BY <3>1, <3>2, <1>0, <1>1
  <2> HIDE DEF T
  <2> QED BY <2>3, <2>4 DEF LastFile
<1> DEFINE F == FirstFile
           L == LastFile
<1> HIDE DEF F, L
<1>4. F \in 1 .. NFiles /\ displs[F] <= st /\ st < displs[F + 1]
  <2>1. CASE F = NFiles
    BY <1>0, <1>1, <1>2, <2>1 DEF Size, F
  <2>2. CASE F # NFiles
    <3>1. F \in 1 .. NFiles
      BY <1>2 DEF F
    <3>2. F + 1 \in F + 1 .. NFiles
      BY <3>1, <2>2, <1>0
    <3>3. displs[F + 1] > st /\ F + 1 \in 1 .. NFiles + 1
      BY <3>2, <1>2, <3>1, <1>0 DEF F
    <3> QED BY <1>0, <1>1, <1>2, <3>3 DEF F
  <2> QED BY <2>1, <2>2
<1>5. L \in 1 .. NFiles /\ displs[L] < en /\ en <= displs[L + 1]
  <2>0. L \in 1 .. NFiles /\ displs[L] \in Nat
    BY <1>0, <1>3 DEF L
  <2>1. displs[L] < en
    BY <1>0, <1>1, <1>3, <2>0 DEF L
  <2>2. CASE L = NFiles
    BY <1>1, <2>0, <2>1, <2>2 DEF Size
  <2>3. CASE L # NFiles
    <3>1. L + 1 \in L + 1 .. NFiles
      BY <2>0, <2>3, <1>0
    <3> QED BY <3>1, <1>3, <2>0, <2>1 DEF L
  <2> QED BY <2>2, <2>3
<1>6. F <= L
  <2> SUFFICES ASSUME L + 1 <= F PROVE FALSE BY <1>4, <1>5
  <2>1. displs[L + 1] <= displs[F] /\ displs[L + 1] \in Nat /\ displs[F] \in Nat
    BY <1>0, <1>4, <1>5
  <2> QED BY <1>1, <1>4, <1>5, <2>1
<1> QED BY <1>1, <1>4, <1>5, <1>6 DEF F, L
-----------------------------------------------------------------------------
(***************************************************************************)
(* Every step keeps the invariant.                                         *)
(***************************************************************************)
LEMMA Frame ==
  ASSUME UNCHANGED <<inputs, ranges>>
  PROVE  /\ AllLines' = AllLines /\ NFiles' = NFiles /\ nbk' = nbk /\ Size' = Size
         /\ NoBlankLine' = NoBlankLine /\ (RangeInv' <=> RangeInv)
         /\ \A l : Global(l)' = Global(l)
  BY DEF inputs, ranges, AllLines, LinesOf, NFiles, nbk, Size, NoBlankLine, RangeInv, Global

LEMMA BlocksCount ==
  ASSUME InputInv PROVE nbk \in Nat \ {0}
<1>1. ASSUME NEW a \in Nat \ {0}, NEW b \in Nat \ {0} PROVE a * b \in Nat \ {0}
  BY Z3T(30)
<1> QED BY <1>1 DEF InputInv, nbk

LEMMA InitInv == LoadInit => Inv
<1> SUFFICES ASSUME LoadInit PROVE Inv OBVIOUS
<1>1. namelst \in Seq(Seq(BOOLEAN)) /\ namelst # <<>> /\ np \in Nat \ {0} /\ blk_sz \in Nat \ {0}
  <2>1. CASE namelst \in FileLists /\ np \in NPs /\ blk_sz \in BlkSzs
    BY <2>1, PartitionAssumption
  <2>2. CASE \E c \in Cases : namelst = c.files /\ np = c.world.np /\ blk_sz = BlkSz(c.world)
    BY <2>2, LoadingAssumption DEF BlkSz
  <2> QED BY <2>1, <2>2 DEF LoadInit
<1>2. Fresh
  BY DEF LoadInit
<1>3. InputInv
  BY <1>1, <1>2 DEF Fresh, InputInv
<1> QED BY <1>2, <1>3 DEF Fresh, Inv, Opened, Reading

LEMMA DivLess ==
  ASSUME NEW a \in Nat, NEW m \in Nat \ {0}
  PROVE  a \div m \in Nat /\ m * (a \div m) <= a
<1>1. a \div m \in Int /\ a = m * (a \div m) + (a % m) /\ a % m \in 0 .. (m - 1)
  BY Z3T(30)
<1> DEFINE q == a \div m
<1> HIDE DEF q
<1>2. q \in Int /\ m * q > a - m /\ m * q <= a
  BY <1>1 DEF q
<1>3. q >= 0
  <2> SUFFICES ASSUME q <= -1 PROVE FALSE BY <1>2
  <2>1. m * q <= m * (-1)
    BY <1>2, Z3T(30)
  <2> QED BY <2>1, <1>2
<1> QED BY <1>2, <1>3 DEF q

LEMMA PartitionStep ==
  ASSUME Inv, FilesPartition PROVE Inv'
<1> DEFINE d == Displs(namelst)
           sz == d[NFiles + 1]
           q == sz \div nbk
<1>1. /\ InputInv /\ pc = "partition" /\ lines = <<>> /\ rk = 0 /\ blk = 0
  BY DEF Inv, FilesPartition, Opened
<1>2. /\ displs' = d
      /\ slst' = [i \in 0 .. nbk - 1 |-> RangeStart(i, sz)]
      /\ elst' = [i \in 0 .. nbk - 1 |-> RangeEnd(i, sz)]
      /\ pc' = (IF \E i \in 0 .. nbk - 1 : RangeStart(i, sz) >= RangeEnd(i, sz)
                THEN "assert_failed" ELSE "block")
      /\ UNCHANGED <<inputs, rk, blk, fi, fen, offset, pos, lines>>
  BY DEF FilesPartition
<1>3. InputInv' /\ NFiles' = NFiles /\ nbk' = nbk /\ AllLines' = AllLines
  BY <1>1, <1>2 DEF InputInv, inputs, NFiles, nbk, AllLines, LinesOf
<1>4. CASE pc' = "assert_failed"
  BY <1>1, <1>2, <1>3, <1>4 DEF Inv, Opened, Reading
<1>5. CASE pc' = "block"
  <2>1. NFiles \in Nat \ {0} /\ d \in [1 .. NFiles + 1 -> Nat] /\ sz \in Nat
    <3>1. NFiles \in Nat \ {0}
      BY <1>1 DEF InputInv, NFiles
    <3>2. d \in [1 .. NFiles + 1 -> Nat]
      BY <1>1, DisplsValues DEF InputInv, NFiles
    <3> QED BY <3>1, <3>2
  <2>2. nbk \in Nat \ {0}
    BY <1>1, BlocksCount
  <2> HIDE DEF d, sz
  <2>3. q \in Nat /\ nbk * q <= sz
    BY <2>1, <2>2, DivLess
  <2>4. ASSUME NEW b \in 0 .. nbk - 1
        PROVE  /\ slst'[b] = b * q /\ slst'[b] \in Nat
               /\ elst'[b] = (IF b = nbk - 1 THEN sz ELSE (b + 1) * q)
               /\ elst'[b] \in Nat /\ elst'[b] <= sz
    <3>1. slst'[b] = b * q /\ elst'[b] = (IF b = nbk - 1 THEN sz ELSE (b + 1) * q)
      BY <1>2 DEF RangeStart, RangeEnd
    <3> HIDE DEF q
    <3>2. b \in Nat /\ b + 1 <= nbk
      BY <2>2
    <3>3. b * q \in Nat /\ (b + 1) * q \in Nat
      BY <2>3, <3>2
    <3>4. (b + 1) * q <= nbk * q /\ nbk * q \in Nat
      BY <2>2, <2>3, <3>2, Z3T(30)
    <3> QED BY <2>1, <2>3, <3>1, <3>3, <3>4
  <2> HIDE DEF q
  <2>5. ASSUME NEW b \in 0 .. nbk - 1 PROVE slst'[b] < elst'[b]
    <3>1. ~(RangeStart(b, sz) >= RangeEnd(b, sz))
      BY <1>2, <1>5
    <3>2. slst'[b] = RangeStart(b, sz) /\ elst'[b] = RangeEnd(b, sz)
      BY <1>2
    <3> QED BY <2>4, <3>1, <3>2
  <2>6. ASSUME NEW b \in 0 .. nbk - 1, b # nbk - 1 PROVE elst'[b] = slst'[b + 1]
    <3>1. b + 1 \in 0 .. nbk - 1
      BY <2>2, <2>6
    <3> QED BY <2>4, <2>6, <3>1
  <2>7. 0 \in 0 .. nbk - 1 /\ nbk - 1 \in 0 .. nbk - 1
    BY <2>2
  <2>8. RangeInv'
    <3>1. Size' = sz
      BY <1>2, <1>3 DEF Size, sz
    <3>2. displs' = Displs(namelst)' /\ slst' \in [0 .. nbk - 1 -> Nat] /\ elst' \in [0 .. nbk - 1 -> Nat]
      BY <1>2, <2>4 DEF d, inputs
    <3>3. slst'[0] = 0 /\ elst'[nbk - 1] = sz
      BY <2>4, <2>7, <2>3
    <3> QED BY <1>3, <2>4, <2>5, <2>6, <3>1, <3>2, <3>3 DEF RangeInv
  <2>9. BlockInv'
    BY <1>1, <1>2, <1>3, <1>5, <2>7 DEF BlockInv, inputs, InputInv
  <2>10. LinesInv'
    BY <1>1, <1>2 DEF LinesInv
  <2>11. AllInv'
    <3> SUFFICES ASSUME NEW l \in AllLines' PROVE ~(Global(l)' < Mark')
      BY DEF AllInv
    <3>1. Mark' = 0
      <4>1. slst'[0] = 0 /\ blk' = 0
        BY <1>1, <1>2, <2>8 DEF RangeInv
      <4> QED BY <1>5, <4>1 DEF Mark, st
    <3>2. PICK i \in 1 .. NFiles : l \in {i} \X LineStarts(namelst[i])
      BY <1>3 DEF AllLines, LinesOf, NFiles
    <3>3. displs'[l[1]] \in Nat /\ l[2] \in Nat
      BY <1>2, <2>1, <3>2 DEF LineStarts
    <3> QED BY <3>1, <3>3 DEF Global
  <2> QED BY <1>3, <1>5, <2>8, <2>9, <2>10, <2>11 DEF Inv, Opened, Reading
<1> QED BY <1>2, <1>4, <1>5
\* A line was loaded and the stream is behind it.
LEMMA LineLoaded ==
  ASSUME Inv, Reading, UNCHANGED <<inputs, ranges, pc, rk, blk, fi, fen>>,
         pos < Len(namelst[fi]), displs[fi] + pos < en,
         lines' = Append(lines, <<fi, pos, rk>>), pos' = AfterLine(namelst[fi], pos)
  PROVE  LinesInv' /\ AllInv' /\ AtLine(namelst[fi], pos)' /\ BlockInv' /\ InputInv' /\ RangeInv'
<1> DEFINE f == namelst[fi]
           here == displs[fi] + pos
           new == <<fi, pos, rk>>
<1>1. InputInv /\ RangeInv /\ BlockInv /\ LinesInv /\ AllInv /\ CursorInv
  BY DEF Inv, Opened, Reading
<1>2. /\ AllLines' = AllLines /\ NFiles' = NFiles /\ nbk' = nbk
      /\ NoBlankLine' = NoBlankLine /\ RangeInv'
      /\ \A l : Global(l)' = Global(l)
  BY <1>1, Frame
<1>3. /\ fi \in 1 .. NFiles /\ f \in Seq(BOOLEAN) /\ Len(f) \in Nat /\ pos \in 0 .. Len(f)
      /\ AtLine(f, pos) /\ NFiles \in Nat /\ displs[fi] \in Nat /\ fi \in Nat
  <2>1. fi \in 1 .. NFiles /\ AtLine(f, pos)
    BY <1>1 DEF CursorInv
  <2>2. NFiles \in Nat /\ displs \in [1 .. NFiles + 1 -> Nat] /\ f \in Seq(BOOLEAN) /\ Len(f) \in Nat
    BY <1>1, <2>1, Distances
  <2>3. fi \in 1 .. NFiles + 1
    BY <2>1, <2>2
  <2> QED BY <2>1, <2>2, <2>3 DEF AtLine
<1>4. pos' \in pos .. Len(f) /\ pos < pos' /\ AtLine(f, pos')
  <2>1. /\ LineEnd(f, pos) \in pos .. Len(f) /\ AtLine(f, AfterLine(f, pos))
        /\ AfterLine(f, pos) \in pos .. Len(f)
        /\ AfterLine(f, pos) = IF LineEnd(f, pos) < Len(f) THEN LineEnd(f, pos) + 1 ELSE Len(f)
    BY <1>3, GetLine
  <2> HIDE DEF f
  <2> QED BY <1>3, <2>1 DEF f
<1>5. Mark = here /\ Mark' = displs[fi] + pos' /\ en' = en
  BY DEF Mark, Reading, ranges, en
<1>6. <<fi, pos>> \in AllLines
  <2>1. pos \in LineStarts(f)
    BY <1>3 DEF AtLine, LineStarts
  <2> QED BY <1>3, <2>1 DEF AllLines, LinesOf, NFiles
<1>7. LinesInv'
  <2>1. lines \in Seq(Nat \X Nat \X Nat) /\ new \in Nat \X Nat \X Nat
    BY <1>1, <1>3 DEF LinesInv, BlockInv
  <2>2. /\ lines' \in Seq(Nat \X Nat \X Nat)
        /\ Len(lines) \in Nat
        /\ DOMAIN lines = 1 .. Len(lines)
        /\ DOMAIN lines' = 1 .. Len(lines) + 1
        /\ lines'[Len(lines) + 1] = new
        /\ \A k \in 1 .. Len(lines) : lines'[k] = lines[k]
    BY <2>1
  <2>3. Global(new) = here
    BY DEF Global
  <2>4. ASSUME NEW k \in 1 .. Len(lines)
        PROVE  /\ Global(lines[k]) < here /\ Global(lines[k]) < en /\ Global(lines[k]) \in Nat
               /\ <<lines[k][1], lines[k][2]>> \in AllLines
    <3>1. /\ Global(lines[k]) < here /\ Global(lines[k]) < en
          /\ <<lines[k][1], lines[k][2]>> \in AllLines
      BY <1>1, <1>5, <2>2 DEF LinesInv
    <3>2. Global(<<lines[k][1], lines[k][2]>>) \in Nat
      BY <1>1, <3>1, LineFacts
    <3> QED BY <3>1, <3>2 DEF Global
  <2> HIDE DEF new, here
  <2>5. here < displs[fi] + pos' /\ here \in Nat /\ displs[fi] + pos' \in Nat
    BY <1>3, <1>4 DEF here
  <2>6. ASSUME NEW k \in DOMAIN lines'
        PROVE  /\ <<lines'[k][1], lines'[k][2]>> \in AllLines
               /\ k > 1 => Global(lines'[k - 1]) < Global(lines'[k])
               /\ Global(lines'[k]) < displs[fi] + pos' /\ Global(lines'[k]) < en
    <3>1. CASE k = Len(lines) + 1
      <4>1. lines'[k] = new
        BY <2>2, <3>1
      <4>2. ASSUME k > 1 PROVE k - 1 \in 1 .. Len(lines) /\ lines'[k - 1] = lines[k - 1]
        <5>1. k - 1 \in 1 .. Len(lines)
          BY <2>2, <3>1, <4>2
        <5> QED BY <2>2, <5>1
      <4>3. k > 1 => Global(lines[k - 1]) < here
        BY <2>4, <4>2
      <4>4. <<new[1], new[2]>> \in AllLines
        BY <1>6 DEF new
      <4>5. Global(new) < displs[fi] + pos' /\ Global(new) < en
        BY <2>3, <2>5 DEF here
      <4>6. k > 1 => Global(lines'[k - 1]) < Global(new)
        BY <2>3, <4>2, <4>3
      <4> QED BY <4>1, <4>4, <4>5, <4>6
    <3>2. CASE k # Len(lines) + 1
      <4>1. k \in 1 .. Len(lines) /\ lines'[k] = lines[k]
        BY <2>2, <3>2
      <4>2. ASSUME k > 1 PROVE k - 1 \in 1 .. Len(lines) /\ lines'[k - 1] = lines[k - 1]
        <5>0. k \in 1 .. Len(lines) /\ Len(lines) \in Nat
          BY <2>2, <4>1
        <5>1. k - 1 \in 1 .. Len(lines)
          BY <5>0, <4>2
        <5> QED BY <2>2, <5>1
      <4>3. k > 1 => Global(lines[k - 1]) < Global(lines[k])
        BY <1>1, <2>2, <4>1 DEF LinesInv
      <4>4. Global(lines[k]) < displs[fi] + pos'
        <5>1. Global(lines[k]) < here /\ Global(lines[k]) \in Nat
          BY <2>4, <4>1
        <5> QED BY <2>5, <5>1
      <4> QED BY <2>4, <4>1, <4>2, <4>3, <4>4
    <3> QED BY <3>1, <3>2
  <2>7. \A l : Global(l)' = displs'[l[1]] + l[2] /\ Global(l) = displs[l[1]] + l[2] /\ displs' = displs
    BY DEF Global, ranges
  <2> QED BY <1>2, <1>5, <2>2, <2>6, <2>7 DEF LinesInv, Global
<1>8. AllInv'
  <2> SUFFICES ASSUME NoBlankLine, NEW l \in AllLines, Global(l) < displs[fi] + pos'
               PROVE  Loaded(l)'
    BY <1>2, <1>5 DEF AllInv
  <2>1. lines \in Seq(Nat \X Nat \X Nat)
    BY <1>1 DEF LinesInv
  <2>2. /\ Len(lines) \in Nat /\ DOMAIN lines = 1 .. Len(lines)
        /\ DOMAIN lines' = 1 .. Len(lines) + 1
        /\ lines'[Len(lines) + 1] = new
        /\ \A k \in 1 .. Len(lines) : lines'[k] = lines[k]
    BY <2>1
  <2>3. CASE Global(l) < here
    <3>1. Loaded(l)
      BY <1>1, <1>5, <2>3 DEF AllInv
    <3> QED BY <3>1, <2>2 DEF Loaded
  <2>4. CASE ~(Global(l) < here)
    <3>1. Global(l) \in Nat /\ l[1] \in 1 .. NFiles /\ l = <<l[1], l[2]>> /\ l[2] \in Nat
      BY <1>1, LineFacts
    <3>2. ~(here < Global(l))
      BY <1>1, <1>3, <1>4, NoLineSkipped
    <3>3. Global(l) = here
      BY <1>3, <2>4, <3>1, <3>2
    <3>4. displs[fi + 1] = displs[fi] + Len(f)
      BY <1>1, <1>3, Distances
    <3>5. l[1] = fi
      BY <1>1, <1>3, <3>3, <3>4, LineOfFile
    <3>6. l[2] = pos
      BY <1>3, <3>1, <3>3, <3>5 DEF Global
    <3> QED BY <2>2, <3>1, <3>5, <3>6 DEF Loaded
  <2> QED BY <2>3, <2>4
<1>9. BlockInv' /\ InputInv' /\ AtLine(f, pos)'
  BY <1>1, <1>2, <1>4 DEF BlockInv, InputInv, inputs, AtLine
<1> QED BY <1>2, <1>7, <1>8, <1>9
\* Nothing was loaded, and there was nothing to load.
LEMMA MarkMoved ==
  ASSUME Inv, Opened, UNCHANGED <<inputs, ranges, lines>>,
         \A k \in DOMAIN lines : Global(lines[k]) < Mark' /\ Global(lines[k]) < en',
         NoBlankLine => \A l \in AllLines : Global(l) < Mark' => Global(l) < Mark
  PROVE  LinesInv' /\ AllInv'
<1>1. LinesInv /\ AllInv
  BY DEF Inv
<1>2. /\ AllLines' = AllLines /\ NoBlankLine' = NoBlankLine
      /\ \A l : Global(l)' = Global(l)
  BY Frame
<1>3. \A l : Global(l)' = displs'[l[1]] + l[2] /\ Global(l) = displs[l[1]] + l[2] /\ displs' = displs
  BY DEF Global, ranges
<1>4. LinesInv'
  BY <1>1, <1>2, <1>3 DEF LinesInv, Global
<1>5. AllInv'
  BY <1>1, <1>2 DEF AllInv, Loaded
<1> QED BY <1>4, <1>5

LEMMA StartBlockStep ==
  ASSUME Inv, StartBlock PROVE Inv'
<1> DEFINE F == FirstFile
           L == LastFile
           o == st - displs[F]
           f == namelst[F]
<1>1. InputInv /\ RangeInv /\ BlockInv /\ LinesInv /\ AllInv /\ pc = "block" /\ Opened
  BY DEF Inv, Opened, StartBlock
<1>2. /\ fen' = L /\ OpenAt(F, o, L) /\ UNCHANGED <<inputs, ranges, rk, blk, lines>>
  BY DEF StartBlock
<1>3. /\ st \in Nat /\ en \in Nat /\ st < en
      /\ F \in 1 .. NFiles /\ displs[F] <= st /\ st < displs[F + 1]
      /\ L \in 1 .. NFiles /\ displs[L] < en /\ en <= displs[L + 1]
      /\ F <= L
  BY <1>1, RangeFiles
<1>4. /\ f \in Seq(BOOLEAN) /\ Len(f) \in Nat /\ displs[F] \in Nat
      /\ displs[F + 1] = displs[F] + Len(f) /\ NFiles \in Nat
  <2>1. NFiles \in Nat /\ displs \in [1 .. NFiles + 1 -> Nat]
    BY <1>1, Distances
  <2>2. F \in 1 .. NFiles + 1
    BY <1>3, <2>1
  <2> QED BY <1>1, <1>3, <2>1, <2>2, Distances
<1> HIDE DEF F, L, f
<1>5. o \in 0 .. Len(f) - 1 /\ st = displs[F] + o
  BY <1>3, <1>4
<1> HIDE DEF o
<1>6. fi' = F /\ fen' = L /\ pc' = (IF F = L THEN "last_file" ELSE "whole_file")
  BY <1>2 DEF OpenAt
<1>7. Reading' /\ Opened' /\ en' = en /\ NFiles' = NFiles /\ namelst' = namelst /\ displs' = displs
  BY <1>2, <1>6 DEF Reading, Opened, en, ranges, inputs, NFiles
<1>8. Mark' = displs[F] + pos' /\ Mark = st
  BY <1>1, <1>6, <1>7 DEF Mark, Reading
<1>9. /\ AtLine(f, pos') /\ pos' \in o .. Len(f)
      /\ offset' = pos' \/ (pos' = Len(f) /\ offset' = pos' + 1)
      /\ \A l \in AllLines : Global(l) < displs[F] + pos' => Global(l) < st
  <2>1. CASE o = 0
    <3>1. offset' = 0 /\ pos' = 0
      BY <1>2, <2>1 DEF OpenAt
    <3> QED BY <1>4, <1>5, <2>1, <3>1 DEF AtLine
  <2>2. CASE o # 0
    <3> DEFINE e == LineEnd(f, o - 1)
    <3>1. offset' = o + (e - (o - 1)) /\ pos' = AfterLine(f, o - 1)
      <4>1. o > 0
        BY <1>5, <1>4, <2>2
      <4> QED BY <1>2, <4>1 DEF OpenAt, SkipPartial, f
    <3>2. o - 1 \in 0 .. Len(f)
      BY <1>4, <1>5, <2>2
    <3>3. /\ e \in o - 1 .. Len(f)
          /\ pos' \in o - 1 .. Len(f) /\ AtLine(f, pos')
          /\ pos' = IF e < Len(f) THEN e + 1 ELSE Len(f)
      BY <1>4, <3>1, <3>2, GetLine
    <3> HIDE DEF e
    <3>4. offset' = e + 1 /\ pos' \in o .. Len(f)
      BY <1>4, <1>5, <3>1, <3>2, <3>3
    <3>5. ASSUME NEW l \in AllLines, Global(l) < displs[F] + pos', ~(Global(l) < st) PROVE FALSE
      <4>1. Global(l) \in Nat
        BY <1>1, LineFacts
      <4>2. displs[F] + (o - 1) < Global(l)
        BY <1>4, <1>5, <3>5, <4>1
      <4> QED BY <1>1, <1>3, <3>1, <3>2, <3>5, <4>2, NoLineSkipped DEF f
    <3> QED BY <1>4, <3>3, <3>4, <3>5
  <2> QED BY <2>1, <2>2
<1>10. CursorInv'
  BY <1>3, <1>4, <1>6, <1>7, <1>9 DEF CursorInv, f
<1>11. LinesInv' /\ AllInv'
  <2>1. ASSUME NEW k \in DOMAIN lines PROVE Global(lines[k]) < Mark' /\ Global(lines[k]) < en'
    <3>1. Global(lines[k]) < st /\ Global(lines[k]) < en /\ <<lines[k][1], lines[k][2]>> \in AllLines
      BY <1>1, <1>8, <2>1 DEF LinesInv
    <3>2. Global(<<lines[k][1], lines[k][2]>>) \in Nat
      BY <1>1, <3>1, LineFacts
    <3>3. Global(lines[k]) \in Nat
      BY <3>2 DEF Global
    <3>4. st <= displs[F] + pos' /\ displs[F] + pos' \in Nat
      BY <1>4, <1>5, <1>9
    <3> QED BY <1>3, <1>7, <1>8, <3>1, <3>3, <3>4
  <2> QED BY <1>1, <1>2, <1>8, <1>9, <2>1, MarkMoved
<1>12. InputInv' /\ RangeInv' /\ BlockInv'
  <2>1. RangeInv' /\ nbk' = nbk
    BY <1>1, <1>2, Frame
  <2> QED BY <1>1, <1>2, <1>6, <2>1 DEF InputInv, BlockInv, inputs
<1> QED BY <1>7, <1>10, <1>11, <1>12 DEF Inv

LEMMA ReadWholeFileStep ==
  ASSUME Inv, ReadWholeFile PROVE Inv'
<1> DEFINE f == namelst[fi]
<1>1. /\ InputInv /\ RangeInv /\ BlockInv /\ LinesInv /\ AllInv /\ CursorInv
      /\ pc = "whole_file" /\ Opened /\ Reading
  BY DEF Inv, Opened, Reading, ReadWholeFile
<1>2. /\ fi \in 1 .. NFiles /\ fen \in 1 .. NFiles /\ fi < fen /\ AtLine(f, pos)
      /\ displs[fen] < en /\ en <= displs[fen + 1] /\ NFiles \in Nat
  <2>1. NFiles \in Nat /\ fi # fen
    BY <1>1, Distances DEF CursorInv
  <2> QED BY <1>1, <2>1 DEF CursorInv
<1>3. st \in Nat /\ en \in Nat
  BY <1>1, RangeFiles
<1>4. /\ f \in Seq(BOOLEAN) /\ Len(f) \in Nat /\ displs[fi] \in Nat /\ displs[fen] \in Nat
      /\ displs[fi + 1] = displs[fi] + Len(f) /\ displs[fi + 1] <= displs[fen]
      /\ pos \in 0 .. Len(f)
  <2>1. NFiles \in Nat /\ displs \in [1 .. NFiles + 1 -> Nat]
    BY <1>1, Distances
  <2>2. fi \in 1 .. NFiles + 1 /\ fi + 1 \in 1 .. NFiles + 1 /\ fen \in 1 .. NFiles + 1 /\ fi + 1 <= fen
    BY <1>2, <2>1
  <2> QED BY <1>1, <1>2, <2>1, <2>2, Distances DEF AtLine
<1>5. CASE LineEnd(f, pos) = pos
  <2>1. OpenAt(fi + 1, 0, fen) /\ UNCHANGED <<fen, lines, inputs, ranges, rk, blk>>
    BY <1>5 DEF ReadWholeFile
  <2>2. /\ fi' = fi + 1 /\ offset' = 0 /\ pos' = 0
        /\ pc' = (IF fi + 1 = fen THEN "last_file" ELSE "whole_file")
    BY <2>1 DEF OpenAt
  <2>3. /\ Reading' /\ Opened' /\ en' = en /\ NFiles' = NFiles /\ namelst' = namelst
        /\ displs' = displs /\ fen' = fen
    BY <2>1, <2>2 DEF Reading, Opened, en, ranges, inputs, NFiles
  <2>4. fi + 1 \in 1 .. NFiles /\ fi + 1 <= fen
    BY <1>2
  <2>5. AtLine(namelst[fi + 1], 0)
    BY <1>1, <2>4, Distances DEF AtLine
  <2>6. CursorInv'
    BY <1>2, <2>2, <2>3, <2>4, <2>5 DEF CursorInv
  <2>7. Mark' = displs[fi + 1] /\ Mark = displs[fi] + pos
    BY <1>1, <1>4, <2>2, <2>3 DEF Mark, Reading
  <2>8. ASSUME NoBlankLine PROVE Mark' = Mark
    <3>1. pos = Len(f)
      <4> SUFFICES ASSUME pos # Len(f) PROVE FALSE OBVIOUS
      <4>1. pos \in LineStarts(f)
        BY <1>2, <1>4 DEF AtLine, LineStarts
      <4>2. f[pos + 1]
        <5>1. LineEnd(f, pos) < Len(f) => f[LineEnd(f, pos) + 1]
          BY <1>4, GetLine
        <5>2. pos < Len(f)
          BY <1>4
        <5> QED BY <1>5, <5>1, <5>2
      <4> QED BY <1>2, <2>8, <4>1, <4>2 DEF NoBlankLine
    <3> QED BY <1>4, <2>7, <3>1
  <2>9. ASSUME NEW k \in DOMAIN lines PROVE Global(lines[k]) < Mark' /\ Global(lines[k]) < en'
    <3>1. Global(lines[k]) < Mark /\ Global(lines[k]) < en /\ <<lines[k][1], lines[k][2]>> \in AllLines
      BY <1>1 DEF LinesInv
    <3>2. Global(<<lines[k][1], lines[k][2]>>) \in Nat
      BY <1>1, <3>1, LineFacts
    <3>3. Global(lines[k]) \in Nat
      BY <3>2 DEF Global
    <3> QED BY <1>4, <2>3, <2>7, <3>1, <3>3
  <2>10. LinesInv' /\ AllInv'
    BY <1>1, <2>1, <2>8, <2>9, MarkMoved
  <2>11. InputInv' /\ RangeInv' /\ BlockInv'
    <3>1. RangeInv' /\ nbk' = nbk
      BY <1>1, <2>1, Frame
    <3> QED BY <1>1, <2>1, <2>2, <3>1 DEF InputInv, BlockInv, inputs
  <2> QED BY <2>3, <2>6, <2>10, <2>11 DEF Inv
<1>6. CASE LineEnd(f, pos) # pos
  <2>1. /\ lines' = Append(lines, <<fi, pos, rk>>) /\ pos' = AfterLine(f, pos)
        /\ UNCHANGED <<fi, fen, offset, pc, inputs, ranges, rk, blk>>
    BY <1>6 DEF ReadWholeFile
  <2>2. pos < Len(f)
    BY <1>4, <1>6, GetLine
  <2>3. displs[fi] + pos < en
    BY <1>2, <1>3, <1>4, <2>2
  <2>4. LinesInv' /\ AllInv' /\ AtLine(f, pos)' /\ BlockInv' /\ InputInv' /\ RangeInv'
    BY <1>1, <2>1, <2>2, <2>3, LineLoaded
  <2>5. CursorInv'
    BY <1>1, <2>1, <2>4 DEF CursorInv, NFiles, inputs, ranges, en
  <2> QED BY <1>1, <2>1, <2>4, <2>5 DEF Inv, Opened, Reading
<1> QED BY <1>5, <1>6
LEMMA ReadLastFileStep ==
  ASSUME Inv, ReadLastFile PROVE Inv'
<1> DEFINE f == namelst[fi]
<1>1. /\ InputInv /\ RangeInv /\ BlockInv /\ LinesInv /\ AllInv /\ CursorInv
      /\ pc = "last_file" /\ Opened /\ Reading /\ InRange
  BY DEF Inv, Opened, Reading, ReadLastFile
<1>2. /\ lines' = Append(lines, <<fi, pos, rk>>) /\ pos' = AfterLine(f, pos)
      /\ offset' = offset + (LineEnd(f, pos) - pos) + 1
      /\ UNCHANGED <<fi, fen, pc, inputs, ranges, rk, blk>>
  BY DEF ReadLastFile
<1>3. st \in Nat /\ en \in Nat
  BY <1>1, RangeFiles
<1>4. /\ f \in Seq(BOOLEAN) /\ Len(f) \in Nat /\ displs[fi] \in Nat /\ pos \in 0 .. Len(f)
      /\ en <= displs[fi] + Len(f)
  <2>1. NFiles \in Nat /\ displs \in [1 .. NFiles + 1 -> Nat]
    BY <1>1, Distances
  <2>2. fi \in 1 .. NFiles /\ fi \in 1 .. NFiles + 1 /\ fi = fen /\ AtLine(f, pos)
    BY <1>1, <2>1 DEF CursorInv
  <2>3. displs[fi + 1] = displs[fi] + Len(f)
    BY <1>1, <2>2, Distances
  <2> QED BY <1>1, <2>1, <2>2, <2>3, Distances DEF AtLine, CursorInv
<1>5. offset = pos /\ pos < Len(f) /\ displs[fi] + pos < en
  <2>1. offset = pos \/ (pos = Len(f) /\ offset = pos + 1)
    BY <1>1 DEF CursorInv
  <2>2. offset + displs[fi] < en
    BY <1>1 DEF InRange
  <2> HIDE DEF f
  <2> QED BY <1>3, <1>4, <2>1, <2>2
<1>6. LinesInv' /\ AllInv' /\ AtLine(f, pos)' /\ BlockInv' /\ InputInv' /\ RangeInv'
  BY <1>1, <1>2, <1>5, LineLoaded
<1>7. offset' = pos' \/ (pos' = Len(f) /\ offset' = pos' + 1)
  <2> DEFINE e == LineEnd(f, pos)
  <2>1. e \in pos .. Len(f) /\ pos' = IF e < Len(f) THEN e + 1 ELSE Len(f)
    BY <1>2, <1>4, GetLine
  <2>2. offset' = e + 1
    <3> HIDE DEF f
    <3> QED BY <1>2, <1>4, <1>5, <2>1 DEF f
  <2> HIDE DEF e, f
  <2> QED BY <1>4, <2>1, <2>2
<1>8. CursorInv'
  BY <1>1, <1>2, <1>6, <1>7 DEF CursorInv, NFiles, inputs, ranges, en
<1> QED BY <1>1, <1>2, <1>6, <1>8 DEF Inv, Opened, Reading

LEMMA EndBlockStep ==
  ASSUME Inv, EndBlock PROVE Inv'
<1> DEFINE f == namelst[fi]
           here == displs[fi] + pos
<1>1. /\ InputInv /\ RangeInv /\ BlockInv /\ LinesInv /\ AllInv /\ CursorInv
      /\ pc = "last_file" /\ Opened /\ Reading /\ ~InRange
  BY DEF Inv, Opened, Reading, EndBlock
<1>2. /\ UNCHANGED <<inputs, ranges, fi, fen, offset, pos, lines>>
      /\ IF blk + 1 < (rk + 1) * blk_sz
         THEN blk' = blk + 1 /\ rk' = rk /\ pc' = "block"
         ELSE IF rk + 1 < np
         THEN blk' = (rk + 1) * blk_sz /\ rk' = rk + 1 /\ pc' = "block"
         ELSE pc' = "done" /\ UNCHANGED <<blk, rk>>
  BY DEF EndBlock
<1>3. st \in Nat /\ en \in Nat
  BY <1>1, RangeFiles
<1>4. /\ Len(f) \in Nat /\ displs[fi] \in Nat /\ pos \in 0 .. Len(f)
      /\ en <= displs[fi] + Len(f)
  <2>1. NFiles \in Nat /\ displs \in [1 .. NFiles + 1 -> Nat]
    BY <1>1, Distances
  <2>2. fi \in 1 .. NFiles /\ fi \in 1 .. NFiles + 1 /\ fi = fen /\ AtLine(f, pos)
    BY <1>1, <2>1 DEF CursorInv
  <2>3. displs[fi + 1] = displs[fi] + Len(f)
    BY <1>1, <2>2, Distances
  <2> QED BY <1>1, <2>1, <2>2, <2>3, Distances DEF AtLine, CursorInv
<1>5. en <= here
  <2>1. offset = pos \/ (pos = Len(f) /\ offset = pos + 1)
    BY <1>1 DEF CursorInv
  <2>2. ~(offset + displs[fi] < en)
    BY <1>1 DEF InRange
  <2> HIDE DEF f
  <2> QED BY <1>3, <1>4, <2>1, <2>2
<1>6. /\ np \in Nat \ {0} /\ blk_sz \in Nat \ {0} /\ nbk \in Nat \ {0} /\ nbk = np * blk_sz
      /\ rk \in 0 .. np - 1 /\ blk \in 0 .. nbk - 1
      /\ rk * blk_sz <= blk /\ blk < (rk + 1) * blk_sz
      /\ rk * blk_sz \in Nat /\ (rk + 1) * blk_sz = rk * blk_sz + blk_sz
      /\ ((rk + 1) + 1) * blk_sz = (rk + 1) * blk_sz + blk_sz
  <2>1. np \in Nat \ {0} /\ blk_sz \in Nat \ {0} /\ nbk \in Nat \ {0} /\ rk \in 0 .. np - 1
    BY <1>1, BlocksCount DEF InputInv, BlockInv
  <2>2. ASSUME NEW a \in Nat PROVE a * blk_sz \in Nat /\ (a + 1) * blk_sz = a * blk_sz + blk_sz
    BY <2>1
  <2>3. rk \in Nat /\ rk + 1 \in Nat
    BY <2>1
  <2> QED BY <1>1, <2>1, <2>2, <2>3 DEF BlockInv, nbk
<1>7. /\ rk' \in 0 .. np - 1 /\ rk' * blk_sz <= blk' /\ blk' < (rk' + 1) * blk_sz
      /\ \/ pc' = "block" /\ blk' = blk + 1 /\ blk' \in 0 .. nbk - 1
         \/ pc' = "done" /\ blk' = blk /\ blk = nbk - 1
  <2>1. CASE blk + 1 < (rk + 1) * blk_sz
    <3>1. (rk + 1) * blk_sz <= np * blk_sz
      BY <1>6, Z3T(30)
    <3> QED BY <1>2, <1>6, <2>1, <3>1
  <2>2. CASE ~(blk + 1 < (rk + 1) * blk_sz) /\ rk + 1 < np
    <3>1. blk' = (rk + 1) * blk_sz /\ rk' = rk + 1 /\ pc' = "block"
      BY <1>2, <2>2
    <3>2. blk + 1 = (rk + 1) * blk_sz
      BY <1>6, <2>2
    <3>3. ((rk + 1) + 1) * blk_sz <= np * blk_sz
      BY <1>6, <2>2, Z3T(30)
    <3> QED BY <1>6, <2>2, <3>1, <3>2, <3>3
  <2>3. CASE ~(blk + 1 < (rk + 1) * blk_sz) /\ ~(rk + 1 < np)
    <3>1. pc' = "done" /\ blk' = blk /\ rk' = rk
      BY <1>2, <2>3
    <3>2. rk + 1 = np
      BY <1>6, <2>3
    <3>3. blk + 1 = nbk
      BY <1>6, <2>3, <3>2
    <3> QED BY <1>6, <3>1, <3>3
  <2> QED BY <2>1, <2>2, <2>3
<1>8. Mark' = en /\ Mark = here /\ (en' = en \/ en < en') /\ en' \in Nat
  <2>1. Mark = here
    BY <1>1 DEF Mark, Reading
  <2>2. CASE pc' = "block"
    <3>1. blk' = blk + 1 /\ blk' \in 0 .. nbk - 1 /\ blk # nbk - 1
      BY <1>6, <1>7, <2>2
    <3>2. elst[blk] = slst[blk + 1] /\ slst[blk + 1] < elst[blk + 1] /\ elst[blk + 1] \in Nat
      BY <1>1, <1>6, <3>1 DEF RangeInv
    <3>3. st' = slst[blk + 1] /\ en' = elst[blk + 1]
      BY <1>2, <3>1 DEF st, en, ranges
    <3> QED BY <2>1, <2>2, <3>2, <3>3 DEF Mark, en
  <2>3. CASE pc' = "done"
    <3>1. en' = en
      BY <1>2, <1>7, <2>3 DEF en, ranges
    <3> QED BY <1>3, <2>1, <2>3, <3>1 DEF Mark, Reading
  <2> QED BY <1>7, <2>2, <2>3
<1>9. LinesInv' /\ AllInv'
  <2>1. ASSUME NEW k \in DOMAIN lines PROVE Global(lines[k]) < Mark' /\ Global(lines[k]) < en'
    <3>1. Global(lines[k]) < en /\ <<lines[k][1], lines[k][2]>> \in AllLines
      BY <1>1 DEF LinesInv
    <3>2. Global(<<lines[k][1], lines[k][2]>>) \in Nat
      BY <1>1, <3>1, LineFacts
    <3>3. Global(lines[k]) \in Nat
      BY <3>2 DEF Global
    <3> QED BY <1>3, <1>8, <3>1, <3>3
  <2>2. ASSUME NEW l \in AllLines, Global(l) < Mark' PROVE Global(l) < Mark
    <3>1. Global(l) \in Nat
      BY <1>1, LineFacts
    <3>2. Global(l) < en /\ here \in Nat
      BY <1>4, <1>8, <2>2
    <3> HIDE DEF here
    <3> QED BY <1>3, <1>5, <1>8, <3>1, <3>2
  <2> QED BY <1>1, <1>2, <2>1, <2>2, MarkMoved
<1>10. InputInv' /\ RangeInv' /\ BlockInv' /\ Opened' /\ ~Reading'
  <2>1. RangeInv' /\ nbk' = nbk /\ np' = np /\ blk_sz' = blk_sz
    BY <1>1, <1>2, Frame DEF inputs
  <2> QED BY <1>1, <1>2, <1>6, <1>7, <2>1 DEF InputInv, BlockInv, inputs, Opened, Reading
<1> QED BY <1>9, <1>10 DEF Inv

LEMMA StutterStep ==
  ASSUME Inv, UNCHANGED vars PROVE Inv'
<1>1. UNCHANGED <<inputs, ranges>> /\ UNCHANGED <<pc, rk, blk, fi, fen, offset, pos, lines>>
  BY DEF vars, inputs, ranges
<1>2. /\ AllLines' = AllLines /\ NFiles' = NFiles /\ nbk' = nbk /\ Size' = Size
      /\ NoBlankLine' = NoBlankLine /\ (RangeInv' <=> RangeInv)
      /\ \A l : Global(l)' = Global(l)
  BY <1>1, Frame
<1>3. en' = en /\ st' = st /\ Mark' = Mark
  BY <1>1 DEF en, st, Mark, Reading, ranges
<1>4. (CursorInv' <=> CursorInv) /\ (InputInv' <=> InputInv) /\ (BlockInv' <=> BlockInv)
  BY <1>1, <1>2, <1>3 DEF CursorInv, InputInv, BlockInv, inputs, ranges, AtLine
<1>5. Opened => LinesInv' /\ AllInv'
  <2>1. ASSUME Opened, NEW k \in DOMAIN lines PROVE Global(lines[k]) < Mark' /\ Global(lines[k]) < en'
    BY <1>3, <2>1 DEF Inv, LinesInv
  <2> QED BY <1>1, <1>3, <2>1, MarkMoved
<1> QED BY <1>1, <1>2, <1>4, <1>5 DEF Inv, Opened, Reading

LEMMA GlobalOrders ==
  ASSUME InputInv, RangeInv, NEW x \in AllLines, NEW y \in AllLines
  PROVE  /\ Global(x) \in Nat /\ Global(y) \in Nat
         /\ Before(x, y) <=> Global(x) < Global(y)
         /\ Global(x) = Global(y) => x = y
<1>1. /\ x[1] \in 1 .. NFiles /\ x[2] \in Nat /\ Global(x) \in Nat /\ x = <<x[1], x[2]>>
      /\ displs[x[1]] <= Global(x) /\ Global(x) < displs[x[1] + 1]
  BY LineFacts
<1>2. /\ y[1] \in 1 .. NFiles /\ y[2] \in Nat /\ Global(y) \in Nat /\ y = <<y[1], y[2]>>
      /\ displs[y[1]] <= Global(y) /\ Global(y) < displs[y[1] + 1]
  BY LineFacts
<1>3. /\ NFiles \in Nat /\ displs \in [1 .. NFiles + 1 -> Nat]
      /\ \A i, j \in 1 .. NFiles + 1 : i <= j => displs[i] <= displs[j]
  BY Distances
<1>4. ASSUME NEW a \in 1 .. NFiles, NEW b \in 1 .. NFiles, a < b PROVE displs[a + 1] <= displs[b]
  <2>1. a + 1 \in 1 .. NFiles + 1 /\ b \in 1 .. NFiles + 1 /\ a + 1 <= b
    BY <1>3, <1>4
  <2> QED BY <1>3, <2>1
<1>5. \A a \in 1 .. NFiles : displs[a] \in Nat /\ displs[a + 1] \in Nat
  <2>1. ASSUME NEW a \in 1 .. NFiles PROVE a \in 1 .. NFiles + 1 /\ a + 1 \in 1 .. NFiles + 1
    BY <1>3
  <2> QED BY <1>3, <2>1
<1>6. CASE x[1] < y[1]
  <2>1. displs[x[1] + 1] <= displs[y[1]] /\ displs[x[1] + 1] \in Nat /\ displs[y[1]] \in Nat
    BY <1>1, <1>2, <1>4, <1>5, <1>6
  <2>2. Global(x) < Global(y)
    BY <1>1, <1>2, <2>1
  <2> QED BY <1>1, <1>2, <1>6, <2>2 DEF Before
<1>7. CASE y[1] < x[1]
  <2>1. displs[y[1] + 1] <= displs[x[1]] /\ displs[y[1] + 1] \in Nat /\ displs[x[1]] \in Nat
    BY <1>1, <1>2, <1>4, <1>5, <1>7
  <2>2. Global(y) < Global(x)
    BY <1>1, <1>2, <2>1
  <2>3. ~ (x[1] < y[1]) /\ x[1] # y[1]
    BY <1>1, <1>2, <1>7
  <2> QED BY <1>1, <1>2, <2>2, <2>3 DEF Before
<1>8. CASE x[1] = y[1]
  <2>1. Global(x) = displs[x[1]] + x[2] /\ Global(y) = displs[x[1]] + y[2] /\ displs[x[1]] \in Nat
    BY <1>1, <1>5, <1>8 DEF Global
  <2>2. Global(x) < Global(y) <=> x[2] < y[2]
    BY <1>1, <1>2, <2>1
  <2>3. Global(x) = Global(y) => x[2] = y[2]
    BY <1>1, <1>2, <2>1
  <2> QED BY <1>1, <1>2, <1>8, <2>2, <2>3 DEF Before
<1> QED BY <1>1, <1>2, <1>6, <1>7, <1>8

\* What holds while the files are cut and loaded (files_partition,
\* files_load_lines_impl and structure_load), for any files, ranks and blocks.
THEOREM LoadingCorrect == Load => []Inv
<1>1. Inv /\ Cut => Inv'
  BY PartitionStep, StartBlockStep, ReadWholeFileStep, ReadLastFileStep, EndBlockStep DEF Cut
<1>2. Inv /\ [LoadNext]_<<vars, xvars>> => Inv'
  BY <1>1, StutterStep DEF LoadNext
<1> QED BY <1>2, InitInv, PTL DEF Load

\* The same for Partition by itself.
THEOREM PartitionCorrect == Spec => []Inv
<1>1. Init => Inv
  <2> SUFFICES ASSUME Init PROVE Inv OBVIOUS
  <2>1. InputInv
    BY PartitionAssumption DEF Init, Fresh, InputInv
  <2> QED BY <2>1 DEF Init, Fresh, Inv, Opened, Reading
<1>2. Inv /\ [Next]_vars => Inv'
  BY PartitionStep, StartBlockStep, ReadWholeFileStep, ReadLastFileStep, EndBlockStep, StutterStep
  DEF Next, Terminated
<1> QED BY <1>1, <1>2, PTL DEF Spec

\* No range of the input loads what its neighbour loads, at the seams of blocks
\* and of files: what files_load_lines_impl returns on all ranks are lines of
\* the files from their first byte on, in the order of the input, none twice;
\* for all files, with or without empty lines, and all numbers of blocks.
THEOREM LinesComeInOrder == Load => []LinesInOrder
<1>1. Inv => LinesInOrder
  <2> SUFFICES ASSUME Inv PROVE LinesInOrder OBVIOUS
  <2>1. CASE ~Opened
    <3>1. DOMAIN lines = {}
      BY <2>1 DEF Inv
    <3> QED BY <3>1 DEF LinesInOrder
  <2>2. CASE Opened
    <3>1. InputInv /\ RangeInv /\ LinesInv
      BY <2>2 DEF Inv
    <3>2. \A k \in DOMAIN lines : <<lines[k][1], lines[k][2]>> \in AllLines
      BY <3>1 DEF LinesInv
    <3>3. ASSUME NEW k \in DOMAIN lines, k > 1 PROVE Before(lines[k - 1], lines[k])
      <4> DEFINE x == <<lines[k - 1][1], lines[k - 1][2]>>
                 y == <<lines[k][1], lines[k][2]>>
      <4>1. k - 1 \in DOMAIN lines
        <5>1. lines \in Seq(Nat \X Nat \X Nat)
          BY <3>1 DEF LinesInv
        <5> QED BY <5>1, <3>3
      <4>2. x \in AllLines /\ y \in AllLines
        BY <3>2, <4>1
      <4>3. Global(x) < Global(y)
        BY <3>1, <3>3 DEF LinesInv, Global
      <4>4. x[1] = lines[k - 1][1] /\ x[2] = lines[k - 1][2] /\ y[1] = lines[k][1] /\ y[2] = lines[k][2]
        OBVIOUS
      <4> HIDE DEF x, y
      <4>5. Before(x, y)
        BY <3>1, <4>2, <4>3, GlobalOrders
      <4> QED BY <4>4, <4>5 DEF Before
    <3> QED BY <3>2, <3>3 DEF LinesInOrder
  <2> QED BY <2>1, <2>2
<1> QED BY <1>1, LoadingCorrect, PTL

\* Files without an empty line are loaded completely (an empty line ends the
\* reading of a file that is not the last of its range): every line of every file
\* is in the result of some rank when structure_load is through.
THEOREM EveryLineIsLoaded == Load => []LoadsEveryLine
<1>1. Inv => LoadsEveryLine
  <2> SUFFICES ASSUME Inv, pc = "done", NoBlankLine, NEW l \in AllLines PROVE Loaded(l)
    BY DEF LoadsEveryLine, Loaded
  <2>1. InputInv /\ RangeInv /\ BlockInv /\ AllInv
    BY DEF Inv, Opened
  <2>2. Mark = Size
    BY <2>1 DEF Mark, Reading, en, BlockInv, RangeInv
  <2>3. l[1] \in 1 .. NFiles /\ Global(l) \in Nat /\ Global(l) < displs[l[1] + 1]
    BY <2>1, LineFacts
  <2>4. /\ NFiles \in Nat /\ displs \in [1 .. NFiles + 1 -> Nat]
        /\ \A i, j \in 1 .. NFiles + 1 : i <= j => displs[i] <= displs[j]
    BY <2>1, Distances
  <2>5. l[1] + 1 \in 1 .. NFiles + 1 /\ NFiles + 1 \in 1 .. NFiles + 1 /\ l[1] + 1 <= NFiles + 1
    BY <2>3, <2>4
  <2>6. displs[l[1] + 1] <= Size /\ displs[l[1] + 1] \in Nat /\ Size \in Nat
    BY <2>4, <2>5 DEF Size
  <2>7. Global(l) < Mark
    BY <2>2, <2>3, <2>6
  <2> QED BY <2>1, <2>7 DEF AllInv
<1> QED BY <1>1, LoadingCorrect, PTL

\* Every line that is loaded is a rank's.
RankedInv == \A k \in DOMAIN lines : lines[k][3] \in 0 .. np - 1

LEMMA LinesAreRanked == Load => []RankedInv
<1>1. LoadInit => RankedInv
  BY DEF LoadInit, Fresh, RankedInv
<1>2. Inv /\ RankedInv /\ [LoadNext]_<<vars, xvars>> => RankedInv'
  <2> SUFFICES ASSUME Inv, RankedInv, [LoadNext]_<<vars, xvars>> PROVE RankedInv'
    OBVIOUS
  <2>1. CASE UNCHANGED <<lines, np>>
    BY <2>1 DEF RankedInv
  <2>2. CASE Reading /\ lines' = Append(lines, <<fi, pos, rk>>) /\ np' = np
    <3>1. lines \in Seq(Nat \X Nat \X Nat) /\ rk \in 0 .. np - 1
      BY <2>2 DEF Inv, Reading, Opened, LinesInv, BlockInv
    <3> DEFINE l == <<fi, pos, rk>>
               n == Len(lines)
    <3>2. l[3] = rk
      OBVIOUS
    <3> HIDE DEF l
    <3>3. /\ n \in Nat /\ DOMAIN lines = 1 .. n /\ DOMAIN lines' = 1 .. n + 1 /\ lines'[n + 1] = l
          /\ \A k \in 1 .. n : lines'[k] = lines[k]
      BY <2>2, <3>1 DEF l
    <3> HIDE DEF n
    <3>4. ASSUME NEW k \in 1 .. n + 1 PROVE lines'[k][3] \in 0 .. np - 1
      <4>1. CASE k = n + 1
        BY <3>1, <3>2, <3>3, <4>1
      <4>2. CASE k # n + 1
        <5>1. k \in 1 .. n
          BY <3>3, <4>2
        <5> QED BY <3>3, <5>1 DEF RankedInv
      <4> QED BY <4>1, <4>2
    <3> QED BY <2>2, <3>3, <3>4 DEF RankedInv
  <2>3. Cut => UNCHANGED <<lines, np>> \/ (Reading /\ lines' = Append(lines, <<fi, pos, rk>>) /\ np' = np)
    BY DEF Cut, FilesPartition, StartBlock, ReadWholeFile, ReadLastFile, EndBlock, inputs, Reading
  <2> QED BY <2>1, <2>2, <2>3 DEF LoadNext, vars
<1> QED BY <1>1, <1>2, LoadingCorrect, PTL DEF Load

-----------------------------------------------------------------------------
(***************************************************************************)
(* Pieces, one token after the other.                                      *)
(***************************************************************************)
Token == [t : {"_", "ps", "PARACEL", "word", "num"}, v : Int]
Text  == Seq(Token)
Cuts  == Seq(Text) \ {<<>>}

LEMMA FrontLast ==
  ASSUME NEW A, NEW fr \in Seq(A), NEW q \in A
  PROVE  Last(Append(fr, q)) = q /\ Front(Append(fr, q)) = fr
<1> DEFINE w == Append(fr, q)
<1>1. /\ w \in Seq(A) /\ Len(w) = Len(fr) + 1 /\ w[Len(fr) + 1] = q /\ Len(fr) \in Nat
      /\ \A j \in 1 .. Len(fr) : w[j] = fr[j] /\ w[j] \in A
  OBVIOUS
<1> HIDE DEF w
<1>2. Last(w) = q
  BY <1>1 DEF Last
<1>3. Front(w) = fr
  <2> DEFINE m == Len(fr)
             z == SubSeq(w, 1, m)
  <2>1. m \in Nat /\ Front(w) = z /\ \A j \in 1 .. m : w[j] \in A
    BY <1>1 DEF Front
  <2>2. /\ SubSeq(w, 1, m) \in Seq(A)
        /\ Len(SubSeq(w, 1, m)) = IF 1 <= m THEN m - 1 + 1 ELSE 0
        /\ \A j \in 1 .. m - 1 + 1 : SubSeq(w, 1, m)[j] = w[1 + j - 1]
    <3> HIDE DEF m
    <3> QED BY <2>1, SubSeqProperties
  <2>3. z \in Seq(A) /\ Len(z) = m /\ \A j \in 1 .. m : z[j] = fr[j]
    BY <1>1, <2>1, <2>2
  <2> HIDE DEF z
  <2> QED BY <2>1, <2>3, SeqEqual
<1> QED BY <1>2, <1>3 DEF w

\* The last piece grows, or a separator at its end is cut off.
LEMMA ExtendIs ==
  ASSUME NEW fr \in Seq(Text), NEW q \in Text, NEW c \in Token, NEW sep
  PROVE  Extend(Append(fr, q), c, sep) =
           IF Closes(Append(q, c), sep)
           THEN Append(Append(fr, SubSeq(Append(q, c), 1, Len(Append(q, c)) - 3)), <<>>)
           ELSE Append(fr, Append(q, c))
<1>1. Last(Append(fr, q)) = q /\ Front(Append(fr, q)) = fr
  BY FrontLast
<1> DEFINE a == Append(fr, q)
<1> HIDE DEF a
<1>2. Extend(a, c, sep) =
        IF Closes(Append(Last(a), c), sep)
        THEN Append(Append(Front(a), SubSeq(Append(Last(a), c), 1, Len(Append(Last(a), c)) - 3)), <<>>)
        ELSE Append(Front(a), Append(Last(a), c))
  BY DEF Extend
<1>3. Last(a) = q /\ Front(a) = fr
  BY <1>1 DEF a
<1>4. Extend(a, c, sep) =
        IF Closes(Append(q, c), sep)
        THEN Append(Append(fr, SubSeq(Append(q, c), 1, Len(Append(q, c)) - 3)), <<>>)
        ELSE Append(fr, Append(q, c))
  BY <1>2, <1>3, Zenon
<1> QED BY <1>4 DEF a

LEMMA LastOf ==
  ASSUME NEW A, NEW s \in Seq(A), s # <<>>
  PROVE  \E fr \in Seq(A), q \in A : s = Append(fr, q) /\ Len(s) = Len(fr) + 1
<1> DEFINE m == Len(s)
           fr == SubSeq(s, 1, m - 1)
<1>1. m \in Nat /\ m # 0 /\ s[m] \in A
  OBVIOUS
<1> HIDE DEF m
<1>2. /\ fr \in Seq(A) /\ Len(fr) = m - 1 /\ \A j \in 1 .. m - 1 : fr[j] = s[j]
  <2>1. \A j \in 1 .. m - 1 : s[j] \in A
    BY <1>1 DEF m
  <2>2. /\ SubSeq(s, 1, m - 1) \in Seq(A)
        /\ Len(SubSeq(s, 1, m - 1)) = IF 1 <= m - 1 THEN (m - 1) - 1 + 1 ELSE 0
        /\ \A j \in 1 .. (m - 1) - 1 + 1 : SubSeq(s, 1, m - 1)[j] = s[1 + j - 1]
    BY <1>1, <2>1, SubSeqProperties
  <2> QED BY <1>1, <2>2
<1> DEFINE w == Append(fr, s[m])
<1>3. w \in Seq(A) /\ Len(w) = m /\ \A j \in 1 .. m : w[j] = s[j]
  <2> HIDE DEF fr
  <2> QED BY <1>1, <1>2
<1>4. w = s
  <2> HIDE DEF w
  <2> QED BY <1>1, <1>3, SeqEqual DEF m
<1>5. m = Len(fr) + 1
  BY <1>1, <1>2
<1> QED BY <1>1, <1>2, <1>4, <1>5 DEF m

LEMMA FirstPart ==
  ASSUME NEW A, NEW s \in Seq(A), NEW m \in 0 .. Len(s)
  PROVE  /\ SubSeq(s, 1, m) \in Seq(A) /\ Len(SubSeq(s, 1, m)) = m
         /\ \A j \in 1 .. m : SubSeq(s, 1, m)[j] = s[j]
<1>1. \A j \in 1 .. m : s[j] \in A
  OBVIOUS
<1>2. /\ SubSeq(s, 1, m) \in Seq(A)
      /\ Len(SubSeq(s, 1, m)) = IF 1 <= m THEN m - 1 + 1 ELSE 0
      /\ \A j \in 1 .. m - 1 + 1 : SubSeq(s, 1, m)[j] = s[1 + j - 1]
  BY <1>1, SubSeqProperties
<1>3. m \in Nat /\ m - 1 + 1 = m /\ (~(1 <= m) => m = 0)
  OBVIOUS
<1> QED BY <1>2, <1>3

LEMMA ExtendTyped ==
  ASSUME NEW ps \in Cuts, NEW c \in Token, NEW sep PROVE Extend(ps, c, sep) \in Cuts
<1>1. PICK fr \in Seq(Text), q \in Text : ps = Append(fr, q)
  BY LastOf DEF Cuts
<1> DEFINE y == Append(q, c)
           z == SubSeq(y, 1, Len(y) - 3)
           e == <<>>
<1>2. y \in Text /\ e \in Text
  BY DEF Text
<1>3. Extend(ps, c, sep) = IF Closes(y, sep) THEN Append(Append(fr, z), e) ELSE Append(fr, y)
  BY <1>1, ExtendIs
<1> HIDE DEF y
<1>4. Closes(y, sep) => z \in Text
  <2> SUFFICES ASSUME Closes(y, sep) PROVE z \in Text
    OBVIOUS
  <2>1. Len(y) \in Nat /\ Len(y) >= 3
    BY <1>2 DEF Closes, Text
  <2>2. Len(y) - 3 \in 0 .. Len(y)
    BY <2>1
  <2> QED BY <1>2, <2>2, FirstPart DEF Text
<1> HIDE DEF z, e
<1>5. Append(fr, y) \in Seq(Text) /\ Append(fr, y) # <<>>
  <2>1. y \in Text
    BY <1>2
  <2>2. Append(fr, y) \in Seq(Text) /\ Len(Append(fr, y)) = Len(fr) + 1 /\ Len(fr) \in Nat
    BY <2>1
  <2> QED BY <2>2
<1>6. CASE Closes(y, sep)
  <2> DEFINE g == Append(fr, z)
  <2>1. g \in Seq(Text)
    BY <1>4, <1>6
  <2> HIDE DEF g
  <2>2. Append(g, e) \in Seq(Text) /\ Append(g, e) # <<>>
    BY <1>2, <2>1
  <2> QED BY <1>3, <1>6, <2>2 DEF Cuts, g
<1> QED BY <1>3, <1>5, <1>6 DEF Cuts

\* f[n]: the pieces of the first n tokens of s.
Cutting(f, s, sep) ==
  /\ f \in [0 .. Len(s) -> Cuts] /\ f[0] = << <<>> >>
  /\ \A n \in 1 .. Len(s) : f[n] = Extend(f[n - 1], s[n], sep)

LEMMA PiecesAre ==
  ASSUME NEW s \in Text, NEW sep
  PROVE  \E f : Cutting(f, s, sep) /\ Pieces(s, sep) = f[Len(s)]
<1> DEFINE m == Len(s)
           G == [n \in 1 .. m |-> [v \in Cuts |->
                   Extend(v, s[n], sep)]]
           Up(f) == f = [n \in 0 .. m |->
                   IF n = 0 THEN << <<>> >>
                   ELSE Extend(f[n - 1], s[n], sep)]
<1>1. m \in Nat /\ \A n \in 1 .. m : s[n] \in Token
  BY DEF Text
<1>2. Pieces(s, sep) = (CHOOSE f : Up(f))[m]
  BY DEF Pieces
<1> HIDE DEF m
<1>3. <<>> \in Text /\ << <<>> >> \in Cuts
  <2>1. <<>> \in Text
    BY DEF Text
  <2>2. << <<>> >> \in Seq(Text) /\ << <<>> >> # <<>>
    BY <2>1
  <2> QED BY <2>1, <2>2 DEF Cuts
<1>4. ASSUME NEW v \in Cuts, NEW n \in 1 .. m
      PROVE  Extend(v, s[n], sep) \in Cuts
  <2>1. Append(v, <<>>) \in Seq(Text) /\ Append(v, <<>>) # <<>>
    BY <1>3 DEF Cuts
  <2> QED BY <1>1, <2>1, ExtendTyped DEF Cuts
<1>5. PICK f : Repeats(f, << <<>> >>, G, m, Cuts)
  <2> DEFINE b == << <<>> >>
  <2>1. Steps(G, m, Cuts)
    BY <1>4 DEF Steps
  <2>2. b \in Cuts
    BY <1>3
  <2> HIDE DEF G, b
  <2>3. \E f : Repeats(f, b, G, m, Cuts)
    BY <1>1, <2>1, <2>2, Recursion
  <2> QED BY <2>3 DEF b
<1>6. /\ f \in [0 .. m -> Cuts] /\ f[0] = << <<>> >>
      /\ \A n \in 1 .. m : f[n] = Extend(f[n - 1], s[n], sep)
  <2>1. f \in [0 .. m -> Cuts] /\ f[0] = << <<>> >> /\ \A n \in 1 .. m : f[n] = G[n][f[n - 1]]
    BY <1>5 DEF Repeats
  <2>2. ASSUME NEW n \in 1 .. m PROVE f[n - 1] \in Cuts
    <3>1. n - 1 \in 0 .. m
      BY <1>1
    <3> QED BY <2>1, <3>1
  <2> QED BY <2>1, <2>2
<1>7. Up(f)
  <2>1. f = [n \in 0 .. m |-> f[n]]
    BY <1>6
  <2>2. ASSUME NEW n \in 0 .. m
        PROVE  f[n] = IF n = 0 THEN << <<>> >>
                      ELSE Extend(f[n - 1], s[n], sep)
    <3>1. CASE n = 0
      BY <1>6, <3>1
    <3>2. CASE n # 0
      <4>1. n \in 1 .. m
        BY <1>1, <3>2
      <4> QED BY <1>6, <3>2, <4>1
    <3> QED BY <3>1, <3>2
  <2> QED BY <2>1, <2>2
<1>8. PICK g : Up(g) /\ Pieces(s, sep) = g[m]
  <2> HIDE DEF Up
  <2>1. Up(CHOOSE h : Up(h))
    BY <1>7
  <2> QED BY <1>2, <2>1
<1>9. g[0] = << <<>> >> /\ DOMAIN g = 0 .. m
  <2>1. 0 \in 0 .. m
    BY <1>1
  <2> QED BY <1>8, <2>1
<1>10. ASSUME NEW n \in 1 .. m
       PROVE  g[n] = Extend(g[n - 1], s[n], sep)
  <2>1. n \in 0 .. m /\ n # 0
    BY <1>1
  <2> QED BY <1>8, <2>1
<1> DEFINE T == {n \in Nat : n <= m => g[n] = f[n]}
<1>11. 0 \in T
  BY <1>6, <1>9
<1>12. ASSUME NEW n \in Nat, n \in T PROVE n + 1 \in T
  <2> SUFFICES ASSUME n + 1 <= m PROVE g[n + 1] = f[n + 1]
    OBVIOUS
  <2>1. n + 1 \in 1 .. m /\ (n + 1) - 1 = n /\ g[n] = f[n]
    BY <1>1, <1>12
  <2> QED BY <1>6, <1>10, <2>1
<1> HIDE DEF T
<1>13. m \in T
  BY <1>1, <1>11, <1>12, CountingUp
<1>14. g[m] = f[m]
  BY <1>1, <1>13 DEF T
<1> QED BY <1>6, <1>8, <1>14 DEF Cutting, m

LEMMA PiecesNext ==
  ASSUME NEW s \in Text, NEW c \in Token, NEW sep
  PROVE  /\ Pieces(s, sep) \in Cuts
         /\ Pieces(<<>>, sep) = << <<>> >>
         /\ Pieces(Append(s, c), sep) =
              Extend(Pieces(s, sep), c, sep)
<1> DEFINE m == Len(s)
           sx == Append(s, c)
<1>1. /\ m \in Nat /\ sx \in Text /\ Len(sx) = m + 1 /\ sx[m + 1] = c
      /\ \A n \in 1 .. m : sx[n] = s[n]
  BY DEF Text
<1>2. PICK f : Cutting(f, s, sep) /\ Pieces(s, sep) = f[m]
  BY PiecesAre
<1> HIDE DEF sx
<1>3. PICK g : Cutting(g, sx, sep) /\ Pieces(sx, sep) = g[m + 1]
  <2>1. \E g : Cutting(g, sx, sep) /\ Pieces(sx, sep) = g[Len(sx)]
    BY <1>1, PiecesAre
  <2> QED BY <1>1, <2>1
<1>4. Pieces(<<>>, sep) = << <<>> >>
  <2> DEFINE e == <<>>
  <2>1. e \in Text /\ Len(e) = 0
    BY DEF Text
  <2> HIDE DEF e
  <2>2. PICK h : Cutting(h, e, sep) /\ Pieces(e, sep) = h[Len(e)]
    BY <2>1, PiecesAre
  <2>3. Pieces(e, sep) = << <<>> >>
    BY <2>1, <2>2 DEF Cutting
  <2> QED BY <2>3 DEF e
<1>5. /\ f \in [0 .. m -> Cuts] /\ f[0] = << <<>> >>
      /\ \A n \in 1 .. m : f[n] = Extend(f[n - 1], s[n], sep)
  BY <1>2 DEF Cutting
<1> HIDE DEF m
<1>6. /\ g[0] = << <<>> >>
      /\ \A n \in 1 .. m + 1 : g[n] = Extend(g[n - 1], sx[n], sep)
  BY <1>1, <1>3 DEF Cutting
<1> DEFINE T == {n \in Nat : n <= m => g[n] = f[n]}
<1>7. 0 \in T
  BY <1>5, <1>6
<1>8. ASSUME NEW n \in Nat, n \in T PROVE n + 1 \in T
  <2> SUFFICES ASSUME n + 1 <= m PROVE g[n + 1] = f[n + 1]
    OBVIOUS
  <2>1. /\ n + 1 \in 1 .. m /\ n + 1 \in 1 .. m + 1 /\ (n + 1) - 1 = n /\ g[n] = f[n]
        /\ sx[n + 1] = s[n + 1]
    BY <1>1, <1>8
  <2>2. f[n + 1] = Extend(f[n], s[n + 1], sep)
    BY <1>5, <2>1
  <2>3. g[n + 1] = Extend(g[n], sx[n + 1], sep)
    BY <1>6, <2>1
  <2> QED BY <2>1, <2>2, <2>3
<1> HIDE DEF T
<1>9. m \in T
  BY <1>1, <1>7, <1>8, CountingUp
<1>10. g[m] = f[m] /\ f[m] \in Cuts
  BY <1>1, <1>5, <1>9 DEF T
<1>11. g[m + 1] = Extend(g[m], c, sep)
  <2>1. m + 1 \in 1 .. m + 1 /\ (m + 1) - 1 = m
    BY <1>1
  <2> QED BY <1>1, <1>6, <2>1
<1> QED BY <1>2, <1>3, <1>4, <1>10, <1>11 DEF sx

\* A separator: one token around another one, which no text without the separator
\* needs to have.
IsSep(sep) ==
  \E u, w \in Token : u # w /\ sep = <<u, w, u>>
Without(p, sep) == \A k \in 1 .. Len(p) : p[k] # sep[2]

LEMMA StaysOpen ==
  ASSUME NEW q \in Text, NEW sep, Without(q, sep) PROVE ~Closes(q, sep)
<1> SUFFICES ASSUME Closes(q, sep) PROVE FALSE OBVIOUS
<1>1. Len(q) \in Nat
  BY DEF Text
<1>2. Len(q) >= 3 /\ q[Len(q) - 3 + 2] = sep[2] /\ Len(q) - 3 + 2 \in 1 .. Len(q)
  BY <1>1 DEF Closes
<1> QED BY <1>2 DEF Without

LEMMA WithoutConcat ==
  ASSUME NEW y \in Text, NEW z \in Text, NEW sep, Without(y, sep), Without(z, sep)
  PROVE  Without(y \o z, sep)
<1> SUFFICES ASSUME NEW k \in 1 .. Len(y \o z) PROVE (y \o z)[k] # sep[2]
  BY DEF Without
<1>1. Len(y \o z) = Len(y) + Len(z) /\ Len(y) \in Nat /\ Len(z) \in Nat
  BY DEF Text
<1>2. CASE k <= Len(y)
  <2>1. k \in 1 .. Len(y) /\ (y \o z)[k] = y[k]
    BY <1>1, <1>2 DEF Text
  <2> QED BY <2>1 DEF Without
<1>3. CASE k > Len(y)
  <2>1. k - Len(y) \in 1 .. Len(z) /\ (y \o z)[k] = z[k - Len(y)]
    BY <1>1, <1>3 DEF Text
  <2> QED BY <2>1 DEF Without
<1> QED BY <1>1, <1>2, <1>3

\* q is the last piece of s, and fr the ones before it.
CutAs(s, sep, fr, q) == Pieces(s, sep) = Append(fr, q)

LEMMA CutNext ==
  ASSUME NEW s \in Text, NEW sep, NEW fr \in Seq(Text), NEW q \in Text, NEW c \in Token,
         CutAs(s, sep, fr, q), ~Closes(Append(q, c), sep)
  PROVE  CutAs(Append(s, c), sep, fr, Append(q, c))
<1>1. Pieces(Append(s, c), sep) = Extend(Append(fr, q), c, sep)
  BY PiecesNext DEF CutAs
<1>2. Extend(Append(fr, q), c, sep) = Append(fr, Append(q, c))
  BY ExtendIs
<1> QED BY <1>1, <1>2 DEF CutAs

LEMMA TextsJoin ==
  \A a, b, c \in Text : (a \o b) \o c = a \o (b \o c)
BY ConcatAssociative DEF Text

LEMMA ConcatNext ==
  ASSUME NEW A, NEW s \in Seq(A), NEW y \in Seq(A), NEW c \in A
  PROVE  /\ s \o Append(y, c) = Append(s \o y, c)
         /\ s \o y \in Seq(A) /\ s \o Append(y, c) \in Seq(A)
<1>1. s \o y \in Seq(A) /\ <<c>> \in Seq(A)
  OBVIOUS
<1>2. Append(y, c) = y \o <<c>> /\ Append(s \o y, c) = (s \o y) \o <<c>>
  BY <1>1, AppendIsConcat
<1>3. (s \o y) \o <<c>> = s \o (y \o <<c>>)
  BY <1>1, ConcatAssociative
<1>4. Append(s \o y, c) \in Seq(A)
  BY <1>1, AppendProperties
<1> QED BY <1>1, <1>2, <1>3, <1>4

LEMMA TextGrows ==
  \A s, y \in Text, c \in Token :
    /\ s \o Append(y, c) = Append(s \o y, c)
    /\ s \o y \in Text /\ s \o Append(y, c) \in Text
BY ConcatNext DEF Text

\* What has no separator goes to the last piece.
LEMMA PiecesTail ==
  ASSUME NEW s \in Text, NEW p \in Text, NEW sep, Without(p, sep),
         NEW fr \in Seq(Text), NEW q \in Text, CutAs(s, sep, fr, q), Without(q, sep)
  PROVE  CutAs(s \o p, sep, fr, q \o p)
<1> DEFINE Good(x) == CutAs(s \o x, sep, fr, q \o x)
           T == {n \in Nat : \A x \in Text : Len(x) = n /\ Without(x, sep) => Good(x)}
<1>1. 0 \in T
  <2> SUFFICES ASSUME NEW x \in Text, Len(x) = 0 PROVE Good(x)
    OBVIOUS
  <2>1. s \o x = s /\ q \o x = q
    <3>1. x = <<>>
      BY DEF Text
    <3> QED BY <3>1, ConcatEmptySeq DEF Text
  <2> QED BY <2>1
<1>2. ASSUME NEW n \in Nat, n \in T PROVE n + 1 \in T
  <2> SUFFICES ASSUME NEW x \in Text, Len(x) = n + 1, Without(x, sep) PROVE Good(x)
    OBVIOUS
  <2>1. PICK y \in Text, c \in Token : x = Append(y, c) /\ Len(x) = Len(y) + 1
    <3>1. x # <<>>
      BY DEF Text
    <3> QED BY <3>1, LastOf DEF Text
  <2>2. Len(y) = n /\ Without(y, sep)
    <3>1. Len(y) \in Nat
      BY DEF Text
    <3>2. Len(y) = n
      BY <2>1, <3>1
    <3>3. ASSUME NEW k \in 1 .. n PROVE y[k] # sep[2]
      <4>1. k \in 1 .. Len(x) /\ x[k] = y[k]
        BY <2>1, <3>2 DEF Text
      <4> QED BY <4>1 DEF Without
    <3> QED BY <3>2, <3>3 DEF Without
  <2>3. CutAs(s \o y, sep, fr, q \o y)
    BY <1>2, <2>2
  <2>4. s \o x = Append(s \o y, c) /\ q \o x = Append(q \o y, c) /\ s \o y \in Text /\ q \o y \in Text
        /\ q \o x \in Text
    <3>1. /\ s \o Append(y, c) = Append(s \o y, c) /\ s \o y \in Text
          /\ q \o Append(y, c) = Append(q \o y, c) /\ q \o y \in Text /\ q \o Append(y, c) \in Text
      BY TextGrows, ZenonT(40)
    <3> QED BY <2>1, <3>1, Zenon
  <2>5. ~Closes(q \o x, sep)
    BY <2>4, WithoutConcat, StaysOpen
  <2> DEFINE z == s \o y
             v == q \o y
  <2>6. z \in Text /\ v \in Text /\ CutAs(z, sep, fr, v) /\ ~Closes(Append(v, c), sep)
    BY <2>3, <2>4, <2>5
  <2>7. s \o x = Append(z, c) /\ q \o x = Append(v, c)
    BY <2>4
  <2> HIDE DEF z, v
  <2>8. CutAs(Append(z, c), sep, fr, Append(v, c))
    BY <2>6, CutNext
  <2> QED BY <2>7, <2>8
<1> HIDE DEF T
<1>3. Len(p) \in T /\ Len(p) \in Nat
  <2>1. Len(p) \in Nat
    BY DEF Text
  <2> QED BY <1>1, <1>2, <2>1, CountingUp
<1> QED BY <1>3 DEF T

LEMMA ThreeMore ==
  ASSUME NEW A, NEW s \in Seq(A), NEW u \in A, NEW w \in A
  PROVE  s \o <<u, w, u>> = Append(Append(Append(s, u), w), u)
<1> DEFINE n == Len(s)
           a == Append(s, u)
           b == Append(a, w)
           c == Append(b, u)
           t == <<u, w, u>>
           d == s \o t
<1>0. n \in Nat /\ t \in Seq(A) /\ Len(t) = 3 /\ t[1] = u /\ t[2] = w /\ t[3] = u
  OBVIOUS
<1>1. a \in Seq(A) /\ Len(a) = n + 1 /\ a[n + 1] = u /\ \A k \in 1 .. n : a[k] = s[k]
  OBVIOUS
<1> HIDE DEF t
<1>2. d \in Seq(A) /\ Len(d) = n + 3 /\ (\A k \in 1 .. n : d[k] = s[k])
      /\ d[n + 1] = u /\ d[n + 2] = w /\ d[n + 3] = u
  <2>1. /\ d \in Seq(A) /\ Len(d) = Len(s) + Len(t)
        /\ \A i \in 1 .. Len(s) + Len(t) : d[i] = IF i <= Len(s) THEN s[i] ELSE t[i - Len(s)]
    BY <1>0, ConcatProperties
  <2> HIDE DEF d, n
  <2>2. Len(s) = n
    BY DEF n
  <2>3. ASSUME NEW i \in 1 .. n + 3 PROVE d[i] = IF i <= n THEN s[i] ELSE t[i - n]
    BY <1>0, <2>1, <2>2
  <2>4. (n + 1) - n = 1 /\ (n + 2) - n = 2 /\ (n + 3) - n = 3
    BY <1>0
  <2>5. d[n + 1] = t[1] /\ d[n + 2] = t[2] /\ d[n + 3] = t[3]
    <3>1. /\ n + 1 \in 1 .. n + 3 /\ n + 2 \in 1 .. n + 3 /\ n + 3 \in 1 .. n + 3
          /\ ~(n + 1 <= n) /\ ~(n + 2 <= n) /\ ~(n + 3 <= n)
      BY <1>0
    <3> QED BY <2>3, <2>4, <3>1
  <2>6. ASSUME NEW k \in 1 .. n PROVE d[k] = s[k]
    BY <1>0, <2>3
  <2> QED BY <1>0, <2>1, <2>2, <2>5, <2>6
<1> HIDE DEF n, a
<1>3. b \in Seq(A) /\ Len(b) = n + 2 /\ b[n + 2] = w /\ \A k \in 1 .. n + 1 : b[k] = a[k]
  BY <1>0, <1>1
<1> HIDE DEF b
<1>4. c \in Seq(A) /\ Len(c) = n + 3 /\ c[n + 3] = u /\ \A k \in 1 .. n + 2 : c[k] = b[k]
  BY <1>0, <1>3
<1> HIDE DEF c, d
<1>5. ASSUME NEW k \in 1 .. n + 3 PROVE c[k] = d[k]
  <2>1. k = n + 3 \/ k = n + 2 \/ k = n + 1 \/ k \in 1 .. n
    BY <1>0
  <2>2. CASE k = n + 3
    BY <1>2, <1>4, <2>2
  <2>3. CASE k # n + 3
    <3>1. k \in 1 .. n + 2 /\ c[k] = b[k]
      BY <1>0, <1>4, <2>3
    <3>2. CASE k = n + 2
      BY <1>2, <1>3, <3>1, <3>2
    <3>3. CASE k # n + 2
      <4>1. k \in 1 .. n + 1 /\ b[k] = a[k]
        BY <1>0, <1>3, <3>1, <3>3
      <4> QED BY <1>1, <1>2, <2>1, <2>3, <3>1, <3>3, <4>1
    <3> QED BY <3>2, <3>3
  <2> QED BY <2>2, <2>3
<1>6. c = d
  BY <1>2, <1>4, <1>5, SeqEqual
<1> QED BY <1>6 DEF a, b, c, d, t

\* A separator ends a piece, and an empty one begins.
LEMMA CutEnds ==
  ASSUME NEW s \in Text, NEW sep, IsSep(sep), NEW fr \in Seq(Text), NEW q \in Text,
         CutAs(s, sep, fr, q), Without(q, sep)
  PROVE  CutAs(s \o sep, sep, Append(fr, q), <<>>)
<1>1. PICK u \in Token, w \in Token : u # w /\ sep = <<u, w, u>>
  BY DEF IsSep
<1>2. sep[1] = u /\ sep[2] = w /\ sep[3] = u
  BY <1>1
<1> DEFINE n == Len(q)
           s1 == Append(s, u)
           s2 == Append(s1, w)
           q1 == Append(q, u)
           q2 == Append(q1, w)
           q3 == Append(q2, u)
<1>3. n \in Nat /\ s1 \in Text /\ q1 \in Text /\ Len(q1) = n + 1 /\ q1[n + 1] = u /\ \A k \in 1 .. n : q1[k] = q[k]
  BY DEF Text
<1> HIDE DEF n, s1, q1
<1>4. s2 \in Text /\ q2 \in Text /\ Len(q2) = n + 2 /\ q2[n + 2] = w /\ \A k \in 1 .. n + 1 : q2[k] = q1[k]
  BY <1>3 DEF Text
<1> HIDE DEF s2, q2
<1>5. q3 \in Text /\ Len(q3) = n + 3 /\ q3[n + 3] = u /\ \A k \in 1 .. n + 2 : q3[k] = q2[k]
  BY <1>3, <1>4 DEF Text
<1> HIDE DEF q3
<1>6. ~Closes(q1, sep)
  <2>1. ASSUME NEW k \in 1 .. Len(q1) PROVE q1[k] # sep[2]
    <3>1. k \in 1 .. n \/ k = n + 1
      BY <1>3
    <3>2. \A j \in 1 .. n : q[j] # sep[2]
      BY DEF Without, n
    <3> QED BY <1>1, <1>2, <1>3, <3>1, <3>2
  <2> QED BY <1>3, <2>1, StaysOpen DEF Without
<1>7. ~Closes(q2, sep)
  <2> SUFFICES ASSUME Closes(q2, sep) PROVE FALSE OBVIOUS
  <2>1. q2[Len(q2) - 3 + 3] = sep[3]
    BY DEF Closes
  <2>2. Len(q2) - 3 + 3 = n + 2
    BY <1>3, <1>4
  <2> QED BY <1>1, <1>2, <1>4, <2>1, <2>2
<1>8. Closes(q3, sep)
  <2>1. Len(q3) - 3 + 1 = n + 1 /\ Len(q3) - 3 + 2 = n + 2 /\ Len(q3) - 3 + 3 = n + 3 /\ Len(q3) >= 3
    BY <1>3, <1>5
  <2>2. n + 1 \in 1 .. n + 1 /\ n + 1 \in 1 .. n + 2 /\ n + 2 \in 1 .. n + 2
    BY <1>3
  <2>3. q3[n + 1] = u /\ q3[n + 2] = w /\ q3[n + 3] = u
    BY <1>3, <1>4, <1>5, <2>2
  <2>4. \A k \in 1 .. 3 : k = 1 \/ k = 2 \/ k = 3
    OBVIOUS
  <2> QED BY <1>2, <2>1, <2>3, <2>4 DEF Closes
<1>9. CutAs(s2, sep, fr, q2)
  <2>1. CutAs(s1, sep, fr, q1)
    BY <1>6, CutNext DEF s1, q1
  <2> QED BY <1>3, <1>7, <2>1, CutNext DEF s2, q2
<1>10. SubSeq(q3, 1, Len(q3) - 3) = q
  <2> DEFINE z == SubSeq(q3, 1, n)
  <2>1. Len(q3) - 3 = n /\ n \in 0 .. Len(q3)
    BY <1>3, <1>5
  <2>2. z \in Text /\ Len(z) = n /\ \A j \in 1 .. n : z[j] = q3[j]
    BY <1>5, <2>1, FirstPart DEF Text
  <2> HIDE DEF z
  <2>3. ASSUME NEW j \in 1 .. n PROVE z[j] = q[j]
    <3>1. j \in 1 .. n + 1 /\ j \in 1 .. n + 2
      BY <1>3
    <3> QED BY <1>3, <1>4, <1>5, <2>2, <3>1
  <2>4. z = q
    BY <2>2, <2>3, SeqEqual DEF n, Text
  <2> QED BY <2>1, <2>4 DEF z
<1>11. Pieces(Append(s2, u), sep) = Append(Append(fr, q), <<>>)
  <2>1. Pieces(Append(s2, u), sep) = Extend(Append(fr, q2), u, sep)
    <3>1. Pieces(Append(s2, u), sep) = Extend(Pieces(s2, sep), u, sep)
      BY <1>4, PiecesNext
    <3> QED BY <1>9, <3>1 DEF CutAs
  <2> DEFINE e == <<>>
  <2>2. Extend(Append(fr, q2), u, sep) =
          IF Closes(q3, sep) THEN Append(Append(fr, SubSeq(q3, 1, Len(q3) - 3)), e) ELSE Append(fr, q3)
    BY <1>4, ExtendIs DEF q3
  <2> HIDE DEF e
  <2>3. Extend(Append(fr, q2), u, sep) = Append(Append(fr, q), e)
    BY <1>8, <1>10, <2>2, Zenon
  <2> QED BY <2>1, <2>3 DEF e
<1>12. s \o sep = Append(s2, u)
  BY <1>1, ThreeMore DEF s1, s2, Text
<1> QED BY <1>11, <1>12 DEF CutAs

LEMMA NothingCut == ASSUME NEW sep PROVE CutAs(<<>>, sep, <<>>, <<>>)
<1>1. <<>> \in Text /\ Append(<<>>, <<>>) = << <<>> >>
  BY DEF Text
<1>2. \E c : c \in Token
  <2>1. [t |-> "_", v |-> 0] \in Token
    BY DEF Token
  <2> QED BY <2>1
<1>3. Pieces(<<>>, sep) = << <<>> >>
  BY <1>1, <1>2, PiecesNext
<1> QED BY <1>1, <1>3 DEF CutAs

\* Pieces with a separator after each, or between them.
Closed(ps, sep)  == FlattenSeq([k \in 1 .. Len(ps) |-> ps[k] \o sep])
Joined(ps, sep) ==
  FlattenSeq([k \in 1 .. Len(ps) |-> ps[k] \o IF k < Len(ps) THEN sep ELSE <<>>])

LEMMA ClosedPieces ==
  ASSUME NEW sep, IsSep(sep)
  PROVE  \A ps \in Seq(Text) : (\A k \in 1 .. Len(ps) : Without(ps[k], sep)) =>
           Closed(ps, sep) \in Text /\ Pieces(Closed(ps, sep), sep) = Append(ps, <<>>)
<1> DEFINE Pure(ps) == \A k \in 1 .. Len(ps) : Without(ps[k], sep)
           Good(ps) == Closed(ps, sep) \in Text /\ Pieces(Closed(ps, sep), sep) = Append(ps, <<>>)
           T == {n \in Nat : \A ps \in Seq(Text) : Len(ps) = n /\ Pure(ps) => Good(ps)}
<1>0. <<>> \in Text /\ sep \in Text /\ Without(<<>>, sep)
  <2>1. PICK u \in Token, w \in Token : sep = <<u, w, u>>
    BY DEF IsSep
  <2> QED BY <2>1 DEF Text, Without
<1>1. 0 \in T
  <2> SUFFICES ASSUME NEW ps \in Seq(Text), Len(ps) = 0 PROVE Good(ps)
    OBVIOUS
  <2>1. ps = <<>> /\ Append(ps, <<>>) = << <<>> >>
    OBVIOUS
  <2>2. Closed(ps, sep) = <<>>
    <3> DEFINE ss == [k \in 1 .. Len(ps) |-> ps[k] \o sep]
    <3>1. ss \in Seq(Seq(Token)) /\ Len(ss) = 0
      OBVIOUS
    <3> HIDE DEF ss
    <3>2. FlattenSeq(ss) = <<>>
      BY <3>1, Flattened
    <3> QED BY <3>2 DEF Closed, ss
  <2>3. Pieces(<<>>, sep) = << <<>> >>
    BY NothingCut DEF CutAs
  <2> QED BY <1>0, <2>1, <2>2, <2>3
<1>2. ASSUME NEW n \in Nat, n \in T PROVE n + 1 \in T
  <2> SUFFICES ASSUME NEW ps \in Seq(Text), Len(ps) = n + 1, Pure(ps) PROVE Good(ps)
    OBVIOUS
  <2>1. PICK fr \in Seq(Text), p \in Text : ps = Append(fr, p) /\ Len(ps) = Len(fr) + 1
    <3>1. ps # <<>>
      OBVIOUS
    <3> QED BY <3>1, LastOf
  <2>2. Len(fr) = n /\ Pure(fr) /\ Without(p, sep)
    <3>1. Len(fr) = n
      BY <2>1
    <3>2. /\ ps[n + 1] = p /\ n + 1 \in 1 .. Len(ps)
          /\ \A k \in 1 .. n : ps[k] = fr[k] /\ k \in 1 .. Len(ps)
      BY <2>1, <3>1
    <3> QED BY <3>1, <3>2
  <2>3. Closed(fr, sep) \in Text /\ Pieces(Closed(fr, sep), sep) = Append(fr, <<>>)
    BY <1>2, <2>2
  <2>4. Closed(ps, sep) = (Closed(fr, sep) \o p) \o sep
    <3> DEFINE ss == [k \in 1 .. Len(fr) |-> fr[k] \o sep]
               sx == [k \in 1 .. Len(ps) |-> ps[k] \o sep]
               x == p \o sep
    <3>1. x \in Seq(Token) /\ \A k \in 1 .. Len(fr) : fr[k] \o sep \in Seq(Token)
      BY <1>0 DEF Text
    <3>2. ss \in Seq(Seq(Token)) /\ Len(ss) = n
      BY <2>2, <3>1
    <3>3. sx = Append(ss, x)
      <4>1. ASSUME NEW k \in 1 .. n PROVE ps[k] = fr[k]
        BY <2>1, <2>2
      <4>2. ps[n + 1] = p
        BY <2>1, <2>2
      <4>6. sx[n + 1] = x
        <5>1. n + 1 \in 1 .. Len(ps)
          BY <2>2
        <5>2. sx[n + 1] = ps[n + 1] \o sep
          BY <5>1
        <5> HIDE DEF sx
        <5> QED BY <4>2, <5>2
      <4>3. ASSUME NEW k \in 1 .. n PROVE sx[k] = ss[k]
        <5>1. k \in 1 .. Len(ps) /\ k \in 1 .. Len(fr)
          BY <2>2
        <5>2. sx[k] = ps[k] \o sep /\ ss[k] = fr[k] \o sep
          BY <5>1
        <5> HIDE DEF sx, ss
        <5> QED BY <4>1, <5>2, Zenon
      <4>4. sx = [k \in 1 .. n + 1 |-> sx[k]]
        OBVIOUS
      <4> DEFINE B == Seq(Token)
      <4>5. ss \in Seq(B) /\ x \in B
        BY <3>1, <3>2
      <4> HIDE DEF sx, ss, x, B
      <4>7. Longer(sx, ss, n, x)
        BY <3>2, <4>3, <4>4, <4>6 DEF Longer
      <4> QED BY <4>5, <4>7, AppendIs
    <3>4. FlattenSeq(Append(ss, x)) = FlattenSeq(ss) \o x
      <4> HIDE DEF ss, x
      <4> QED BY <3>1, <3>2, Flattened
    <3>5. Closed(ps, sep) = Closed(fr, sep) \o (p \o sep)
      BY <3>3, <3>4 DEF Closed
    <3> DEFINE c == Closed(fr, sep)
    <3>6. c \in Text /\ p \in Text /\ sep \in Text
      BY <1>0, <2>3
    <3> HIDE DEF c, sx, ss, x
    <3>7. (c \o p) \o sep = c \o (p \o sep)
      BY <3>6, TextsJoin, Zenon
    <3> QED BY <3>5, <3>7, Zenon DEF c
  <2>5. Closed(fr, sep) \o p \in Text /\ Pieces(Closed(fr, sep) \o p, sep) = Append(fr, <<>> \o p)
    <3> DEFINE c == Closed(fr, sep)
               e == <<>>
    <3>1. c \in Text /\ e \in Text /\ Pieces(c, sep) = Append(fr, e) /\ c \o p \in Text
      BY <1>0, <2>3 DEF Text
    <3>2. Without(p, sep) /\ Without(e, sep)
      BY <1>0, <2>2
    <3> HIDE DEF c, e
    <3>3. CutAs(c, sep, fr, e)
      BY <3>1 DEF CutAs
    <3>4. CutAs(c \o p, sep, fr, e \o p)
      BY <3>1, <3>2, <3>3, PiecesTail
    <3> QED BY <3>1, <3>4 DEF c, e, CutAs
  <2>6. <<>> \o p = p
    BY DEF Text
  <2>7. Pieces(Closed(ps, sep), sep) = Append(ps, <<>>)
    <3> DEFINE c == Closed(fr, sep) \o p
    <3>1. c \in Text /\ CutAs(c, sep, fr, p)
      BY <2>5, <2>6 DEF CutAs
    <3> HIDE DEF c
    <3>2. CutAs(c \o sep, sep, Append(fr, p), <<>>)
      BY <2>2, <3>1, CutEnds
    <3> QED BY <2>1, <2>4, <3>2 DEF c, CutAs
  <2>8. Closed(ps, sep) \in Text
    BY <2>4, <2>5, <1>0 DEF Text
  <2> QED BY <2>7, <2>8
<1> HIDE DEF T
<1>3. \A n \in Nat : n \in T
  BY <1>1, <1>2, CountingUp
<1>4. ASSUME NEW ps \in Seq(Text), Pure(ps) PROVE Good(ps)
  <2>1. Len(ps) \in T
    BY <1>3
  <2> QED BY <1>4, <2>1 DEF T
<1> QED BY <1>4

\* Pieces without the separator come out as they went in.
LEMMA JoinedPieces ==
  ASSUME NEW sep, IsSep(sep), NEW ps \in Seq(Text), ps # <<>>,
         \A k \in 1 .. Len(ps) : Without(ps[k], sep)
  PROVE  Pieces(Joined(ps, sep), sep) = ps
<1>1. PICK fr \in Seq(Text), p \in Text : ps = Append(fr, p) /\ Len(ps) = Len(fr) + 1
  BY LastOf
<1> DEFINE n == Len(fr)
<1>2. /\ n \in Nat /\ Len(ps) = n + 1 /\ ps[n + 1] = p
      /\ \A k \in 1 .. n : ps[k] = fr[k] /\ fr[k] \in Text
  BY <1>1
<1> HIDE DEF n
<1>3. Without(p, sep) /\ \A k \in 1 .. n : Without(fr[k], sep)
  <2>1. n + 1 \in 1 .. Len(ps) /\ \A k \in 1 .. n : k \in 1 .. Len(ps)
    BY <1>2
  <2> QED BY <1>2, <2>1
<1>4. Closed(fr, sep) \in Text /\ Pieces(Closed(fr, sep), sep) = Append(fr, <<>>)
  BY <1>3, ClosedPieces DEF n
<1>7. sep \in Text
  <2>1. PICK u \in Token, w \in Token : sep = <<u, w, u>>
    BY DEF IsSep
  <2> QED BY <2>1 DEF Text
<1>5. Joined(ps, sep) = Closed(fr, sep) \o p
  <2> DEFINE ss == [k \in 1 .. n |-> fr[k] \o sep]
             sx == [k \in 1 .. n + 1 |-> ps[k] \o IF k < n + 1 THEN sep ELSE <<>>]
  <2>1. \A k \in 1 .. n : fr[k] \o sep \in Seq(Token)
    BY <1>2, <1>7 DEF Text
  <2>2. ss \in Seq(Seq(Token)) /\ Len(ss) = n
    BY <1>2, <2>1
  <2>3. p \in Seq(Token) /\ p \o <<>> = p
    BY ConcatEmptySeq DEF Text
  <2>4. ASSUME NEW k \in 1 .. n PROVE sx[k] = ss[k]
    <3>1. k \in 1 .. n + 1 /\ k < n + 1 /\ ps[k] = fr[k]
      BY <1>2
    <3> QED BY <3>1
  <2>5. sx[n + 1] = p
    <3>1. n + 1 \in 1 .. n + 1 /\ ~(n + 1 < n + 1)
      BY <1>2
    <3>2. sx[n + 1] = ps[n + 1] \o <<>>
      BY <3>1
    <3> HIDE DEF sx
    <3> QED BY <1>2, <2>3, <3>2, Zenon
  <2>6. sx = [k \in 1 .. n + 1 |-> sx[k]]
    OBVIOUS
  <2>7. FlattenSeq(ss) = Closed(fr, sep)
    BY DEF Closed, n
  <2>8. FlattenSeq(sx) = Joined(ps, sep)
    BY <1>2 DEF Joined
  <2> HIDE DEF ss, sx
  <2>9. sx = Append(ss, p)
    <3> DEFINE B == Seq(Token)
    <3>1. ss \in Seq(B) /\ p \in B
      BY <2>2, <2>3
    <3> HIDE DEF B
    <3>2. Longer(sx, ss, n, p)
      BY <2>2, <2>4, <2>5, <2>6 DEF Longer
    <3> QED BY <1>2, <3>1, <3>2, AppendIs
  <2>10. FlattenSeq(Append(ss, p)) = FlattenSeq(ss) \o p
    BY <2>2, <2>3, Flattened
  <2> QED BY <2>7, <2>8, <2>9, <2>10
<1>6. Pieces(Closed(fr, sep) \o p, sep) = Append(fr, p)
  <2> DEFINE c == Closed(fr, sep)
             e == <<>>
  <2>1. c \in Text /\ e \in Text /\ e \o p = p /\ Without(e, sep)
    BY <1>4 DEF Text, Without
  <2>2. CutAs(c, sep, fr, e)
    BY <1>4 DEF CutAs
  <2> HIDE DEF c, e
  <2>3. CutAs(c \o p, sep, fr, e \o p)
    BY <1>3, <2>1, <2>2, PiecesTail
  <2> QED BY <2>1, <2>3 DEF c, CutAs
<1> QED BY <1>1, <1>5, <1>6

-----------------------------------------------------------------------------
(***************************************************************************)
(* What is packed is unpacked again.                                       *)
(***************************************************************************)
LEMMA SplitIs ==
  ASSUME NEW s, NEW sep, NEW fr \in Seq(Text), NEW q \in Text, CutAs(s, sep, fr, q)
  PROVE  SplitByWord(s, sep) = IF q = <<>> THEN fr ELSE Append(fr, q)
<1>1. Last(Append(fr, q)) = q /\ Front(Append(fr, q)) = fr
  BY FrontLast
<1> DEFINE w == Append(fr, q)
           e == <<>>
<1>2. Pieces(s, sep) = w
  BY DEF CutAs
<1>3. SplitByWord(s, sep) = IF Last(Pieces(s, sep)) = e THEN Front(Pieces(s, sep)) ELSE Pieces(s, sep)
  BY DEF SplitByWord
<1>4. Last(w) = q /\ Front(w) = fr
  BY <1>1
<1> HIDE DEF w, e
<1>5. SplitByWord(s, sep) = IF q = e THEN fr ELSE w
  BY <1>2, <1>3, <1>4, Zenon
<1> QED BY <1>5 DEF w, e

LEMMA Tuples ==
  ASSUME NEW x, NEW y, NEW z
  PROVE  Append(<<>>, x) = <<x>> /\ Append(<<x>>, y) = <<x, y>> /\ Append(<<x, y>>, z) = <<x, y, z>>
<1> DEFINE A == {x, y, z}
           p == <<x, y>>
           q == <<x, y, z>>
<1>1. Append(<<>>, x) = <<x>>
  OBVIOUS
<1>2. Append(<<x>>, y) = p
  <2>1. <<x>> \in Seq(A) /\ Len(<<x>>) = 1 /\ <<x>>[1] = x
    OBVIOUS
  <2>2. p[1] = x /\ p[1 + 1] = y /\ DOMAIN p = 1 .. 1 + 1
    OBVIOUS
  <2>3. p = [k \in 1 .. 1 + 1 |-> p[k]]
    BY <2>2
  <2>4. y \in A
    OBVIOUS
  <2> DEFINE o == <<x>>
  <2> HIDE DEF p, A
  <2>5. Longer(p, o, 1, y)
    BY <2>1, <2>2, <2>3 DEF Longer
  <2> HIDE DEF o
  <2>6. p = Append(o, y)
    BY <2>1, <2>4, <2>5, AppendIs DEF o
  <2> QED BY <2>6 DEF o
<1>3. Append(p, z) = q
  <2>1. p \in Seq(A) /\ Len(p) = 2 /\ p[1] = x /\ p[2] = y
    OBVIOUS
  <2>2. q[1] = x /\ q[2] = y /\ q[2 + 1] = z /\ DOMAIN q = 1 .. 2 + 1
    OBVIOUS
  <2>3. q = [k \in 1 .. 2 + 1 |-> q[k]]
    BY <2>2
  <2>4. z \in A
    OBVIOUS
  <2> HIDE DEF p, q, A
  <2>5. Longer(q, p, 2, z)
    BY <2>1, <2>2, <2>3 DEF Longer
  <2> QED BY <2>1, <2>4, <2>5, AppendIs
<1> QED BY <1>1, <1>2, <1>3

\* The token in the middle of the separators.
LEMMA Separators ==
  /\ IsSep(SEP) /\ IsSep(INNER) /\ SEP \in Text /\ INNER \in Text
  /\ SEP[2] = Alone("PARACEL") /\ INNER[2] = Alone("ps") /\ Without(INNER, SEP)
<1> DEFINE u == Alone("_")
           p == Alone("PARACEL")
           i == Alone("ps")
<1>1. u \in Token /\ p \in Token /\ i \in Token /\ u # p /\ u # i /\ i # p
  <2>1. u.t = "_" /\ p.t = "PARACEL" /\ i.t = "ps"
    BY DEF Alone
  <2>2. u \in Token /\ p \in Token /\ i \in Token
    BY DEF Alone, Token
  <2> HIDE DEF u, p, i
  <2> QED BY <2>1, <2>2
<1> HIDE DEF u, p, i
<1>2. SEP = <<u, p, u>> /\ INNER = <<u, i, u>>
  BY DEF SEP, INNER, u, p, i
<1>3. IsSep(SEP) /\ IsSep(INNER)
  BY <1>1, <1>2 DEF IsSep
<1>4. SEP \in Text /\ INNER \in Text /\ SEP[2] = p /\ INNER[2] = i
  BY <1>1, <1>2 DEF Text
<1>5. Without(INNER, SEP)
  <2>1. Len(INNER) = 3 /\ INNER[1] = u /\ INNER[2] = i /\ INNER[3] = u
    BY <1>2
  <2>2. \A k \in 1 .. 3 : k = 1 \/ k = 2 \/ k = 3
    OBVIOUS
  <2> QED BY <1>1, <1>4, <2>1, <2>2 DEF Without
<1> QED BY <1>3, <1>4, <1>5 DEF p, i

\* The text of a number, or of a name without the words of the separators.
Intact(num, x) == num \/ Plain(x)

LEMMA Limit == IdLimit \in Nat
BY WireAssumption, Zenon

LEMMA Names ==
  ASSUME NEW x \in Id
  PROVE  /\ Spelling(x) \in Text /\ NameOf(Spelling(x)) = x
         /\ Plain(x) => Without(Spelling(x), SEP) /\ Without(Spelling(x), INNER)
<1> DEFINE s == Spelling(x)
           N == [t : {"_", "ps", "PARACEL", "word"}, v : Int]
<1>1. s \in Seq(N) /\ \A y \in Id : Spelling(y) = s => y = x
  BY WireAssumption
<1>2. s \in Text
  <2>1. N \subseteq Token
    BY DEF Token
  <2> HIDE DEF N, s
  <2> QED BY <1>1, <2>1 DEF Text
<1>3. NameOf(s) = x
  <2>1. \E y \in Id : Spelling(y) = s
    OBVIOUS
  <2> DEFINE y == CHOOSE y \in Id : Spelling(y) = s
  <2>2. y \in Id /\ Spelling(y) = s
    BY <2>1
  <2>3. NameOf(s) = y
    BY <2>1 DEF NameOf
  <2> HIDE DEF y
  <2> QED BY <1>1, <2>2, <2>3
<1>4. ASSUME Plain(x), NEW k \in 1 .. Len(s) PROVE s[k] # SEP[2] /\ s[k] # INNER[2]
  <2>1. s[k].t \notin {"ps", "PARACEL"}
    BY <1>4 DEF Plain
  <2>2. SEP[2].t = "PARACEL" /\ INNER[2].t = "ps"
    BY Separators DEF Alone
  <2> QED BY <2>1, <2>2
<1> QED BY <1>2, <1>3, <1>4 DEF Without

LEMMA IdTexts ==
  ASSUME NEW num, NEW x \in Id, Intact(num, x)
  PROVE  /\ IdText(num, x) \in Text /\ IdOf(num, IdText(num, x)) = x
         /\ Without(IdText(num, x), SEP) /\ Without(IdText(num, x), INNER)
<1>1. CASE num
  <2> DEFINE c == Num(x)
             s == <<c>>
  <2>0. IdLimit \in Nat
    BY Limit
  <2>1. c \in Token /\ c.v = x /\ c.t = "num"
    BY <2>0 DEF Num, Token, Id
  <2>2. SEP[2].t = "PARACEL" /\ INNER[2].t = "ps"
    BY Separators DEF Alone
  <2>3. c # SEP[2] /\ c # INNER[2]
    BY <2>1, <2>2
  <2> HIDE DEF c
  <2>4. s \in Text /\ Len(s) = 1 /\ s[1] = c
    BY <2>1 DEF Text
  <2>5. IdText(num, x) = s
    BY <1>1 DEF IdText, c
  <2> HIDE DEF s
  <2>6. Without(s, SEP) /\ Without(s, INNER)
    BY <2>3, <2>4 DEF Without
  <2>7. IdOf(num, s) = x
    BY <1>1, <2>1, <2>4 DEF IdOf
  <2> QED BY <2>4, <2>5, <2>6, <2>7
<1>2. CASE ~num
  <2>1. Plain(x) /\ IdText(num, x) = Spelling(x)
    BY <1>2 DEF Intact, IdText
  <2>2. IdOf(num, Spelling(x)) = x
    BY <1>2, Names DEF IdOf
  <2> QED BY <2>1, <2>2, Names
<1> QED BY <1>1, <1>2

-----------------------------------------------------------------------------
(***************************************************************************)
(* What is packed is unpacked again.                                       *)
(***************************************************************************)
Triple == [row : Id, col : Id, w : Int]
Rounded(x) == [row |-> x.row, col |-> x.col, w |-> Printed(x.w)]

LEMMA LocalPackIs ==
  ASSUME NEW num, NEW x \in Triple, Intact(num, x.row), Intact(num, x.col)
  PROVE  /\ LocalPack(num, x) \in Text /\ LocalPack(num, x) # <<>> /\ Without(LocalPack(num, x), SEP)
         /\ HasParts(LocalPack(num, x)) /\ LocalUnpack(num, LocalPack(num, x)) = Rounded(x)
<1> DEFINE c == Num(Printed(x.w))
           a == IdText(num, x.row)
           b == IdText(num, x.col)
           e == <<>>
           i == INNER
           u == <<c>>
<1>1. x.row \in Id /\ x.col \in Id /\ Printed(x.w) \in Int
  BY DEF Triple, Printed
<1>2. /\ a \in Text /\ b \in Text /\ Without(a, SEP) /\ Without(b, SEP)
      /\ Without(a, INNER) /\ Without(b, INNER) /\ IdOf(num, a) = x.row /\ IdOf(num, b) = x.col
  BY <1>1, IdTexts
<1>3. c \in Token /\ c # SEP[2] /\ c # INNER[2] /\ c.v = Printed(x.w) /\ c.t = "num"
  <2>1. c \in Token /\ c.v = Printed(x.w) /\ c.t = "num"
    BY <1>1 DEF Token, Num
  <2>2. SEP[2].t = "PARACEL" /\ INNER[2].t = "ps"
    BY Separators DEF Alone
  <2> HIDE DEF c
  <2> QED BY <2>1, <2>2
<1> HIDE DEF c, a, b
<1>4. /\ e \in Text /\ i \in Text /\ u \in Text /\ Len(u) = 1 /\ u[1] = c
      /\ u # <<>> /\ e \o a = a /\ e \o b = b /\ e \o u = u
  <2>1. u \in Text /\ Len(u) = 1 /\ u[1] = c /\ u # <<>> /\ e \in Text /\ i \in Text
    BY <1>3, Separators DEF Text
  <2> HIDE DEF u
  <2> QED BY <1>2, <2>1, ConcatEmptySeq DEF Text
<1>5. Without(i, SEP) /\ Without(u, SEP) /\ Without(u, INNER) /\ Without(e, INNER)
  BY <1>3, <1>4, Separators DEF Without
<1>6. LocalPack(num, x) = (((a \o i) \o b) \o i) \o u
  BY DEF LocalPack, a, b, c
<1> DEFINE s2 == a \o i
           s3 == s2 \o b
           s4 == s3 \o i
           s5 == s4 \o u
<1>7. s2 \in Text /\ s3 \in Text /\ s4 \in Text /\ s5 \in Text /\ s5 # <<>>
  BY <1>2, <1>4 DEF Text
<1>8. CutAs(s5, INNER, <<a, b>>, u)
  <2> DEFINE f1 == <<a>>
             f2 == <<a, b>>
  <2>1. f1 \in Seq(Text) /\ f2 \in Seq(Text) /\ e \in Seq(Text)
    BY <1>2
  <2>2. Append(e, a) = f1 /\ Append(f1, b) = f2
    BY Tuples
  <2>3. CutAs(e, i, e, e) /\ IsSep(i)
    BY NothingCut, Separators
  <2>4. Without(a, i) /\ Without(b, i) /\ Without(u, i) /\ Without(e, i)
    BY <1>2, <1>5
  <2> HIDE DEF e, u, i, s2, s3, s4, s5, f1, f2
  <2>5. CutAs(a, i, e, a)
    <3>1. CutAs(e \o a, i, e, e \o a)
      BY <1>2, <1>4, <2>1, <2>3, <2>4, PiecesTail
    <3> QED BY <1>4, <3>1
  <2>6. CutAs(s2, i, f1, e)
    BY <1>2, <2>1, <2>2, <2>3, <2>4, <2>5, CutEnds DEF e, s2
  <2>7. CutAs(s3, i, f1, b)
    <3>1. CutAs(s2 \o b, i, f1, e \o b)
      BY <1>2, <1>4, <1>7, <2>1, <2>4, <2>6, PiecesTail
    <3> QED BY <1>4, <3>1 DEF s3
  <2>8. CutAs(s4, i, f2, e)
    BY <1>2, <1>7, <2>1, <2>2, <2>3, <2>4, <2>7, CutEnds DEF e, s4
  <2>9. CutAs(s4 \o u, i, f2, e \o u)
    BY <1>4, <1>7, <2>1, <2>4, <2>8, PiecesTail
  <2> QED BY <1>4, <2>9 DEF s5, f2, i
<1>9. LocalPack(num, x) = s5
  BY <1>6
<1>10. SplitByWord(s5, INNER) = <<a, b, u>>
  <2> DEFINE f2 == <<a, b>>
  <2>1. f2 \in Seq(Text)
    BY <1>2
  <2>4. Append(f2, u) = <<a, b, u>>
    <3> HIDE DEF u
    <3> QED BY Tuples
  <2> HIDE DEF f2, u, s5
  <2>2. CutAs(s5, INNER, f2, u)
    BY <1>8 DEF f2
  <2>3. SplitByWord(s5, INNER) = IF u = <<>> THEN f2 ELSE Append(f2, u)
    BY <1>4, <2>1, <2>2, SplitIs
  <2> QED BY <1>4, <2>3, <2>4
<1>11. HasParts(s5) /\ LocalUnpack(num, s5) = Rounded(x)
  <2> DEFINE p == <<a, b, u>>
  <2>1. Len(p) = 3 /\ p[1] = a /\ p[2] = b /\ p[3] = u
    OBVIOUS
  <2> HIDE DEF p, u, s5
  <2>2. SplitByWord(s5, INNER) = p
    BY <1>10 DEF p
  <2>3. HasParts(s5)
    <3>1. Len(p) >= 3 /\ Len(p[3]) = 1 /\ p[3][1].t = "num"
      BY <1>3, <1>4, <2>1
    <3> QED BY <2>2, <3>1, Zenon DEF HasParts
  <2>4. LocalUnpack(num, s5) = [row |-> IdOf(num, p[1]), col |-> IdOf(num, p[2]), w |-> p[3][1].v]
    BY <2>2 DEF LocalUnpack
  <2> QED BY <1>2, <1>3, <1>4, <2>1, <2>3, <2>4 DEF Rounded
<1>12. Without(s5, SEP)
  <2> HIDE DEF i, u, s2, s3, s4, s5
  <2>1. Without(s2, SEP)
    BY <1>2, <1>4, <1>5, WithoutConcat DEF s2
  <2>2. Without(s3, SEP)
    BY <1>2, <1>7, <2>1, WithoutConcat DEF s3
  <2>3. Without(s4, SEP)
    BY <1>4, <1>5, <1>7, <2>2, WithoutConcat DEF s4
  <2> QED BY <1>4, <1>5, <1>7, <2>3, WithoutConcat DEF s5
<1> HIDE DEF s5
<1> QED BY <1>7, <1>9, <1>11, <1>12

LEMMA EmptyText ==
  ASSUME NEW ss \in Seq(Text), Len(ss) = 0
  PROVE  SplitByWord(FlattenSeq(ss), SEP) = <<>>
<1> DEFINE e == <<>>
<1>1. e \in Text /\ e \in Seq(Text) /\ CutAs(e, SEP, e, e)
  BY NothingCut, Separators DEF Text
<1>2. FlattenSeq(ss) = e
  BY Flattened DEF Text
<1> HIDE DEF e
<1>3. SplitByWord(e, SEP) = IF e = <<>> THEN e ELSE Append(e, e)
  BY <1>1, SplitIs
<1> QED BY <1>2, <1>3 DEF e

\* A list of names arrives as it was sent, the empty name included, if none of
\* them has a word of the separators in it.
THEOREM StringsArrive ==
  ASSUME NEW l \in Seq(Id), \A k \in 1 .. Len(l) : Plain(l[k])
  PROVE  RecvStrings(PackStrings(l)) = l
<1> DEFINE n == Len(l)
           ps == [k \in 1 .. n |-> Spelling(l[k])]
           m == PackStrings(l)
           r == SplitByWord(m.text, SEP)
<1>1. n \in Nat /\ \A k \in 1 .. n : l[k] \in Id /\ Plain(l[k])
  OBVIOUS
<1>2. l = [k \in 1 .. n |-> l[k]]
  OBVIOUS
<1> HIDE DEF n
<1>3. \A k \in 1 .. n : ps[k] \in Text /\ Without(ps[k], SEP) /\ NameOf(ps[k]) = l[k]
  BY <1>1, Names
<1>4. ps \in Seq(Text) /\ Len(ps) = n
  BY <1>1, <1>3
<1>5. m.n = n /\ m.text = FlattenSeq([k \in 1 .. n |-> ps[k] \o IF k < n THEN SEP ELSE <<>>])
  BY DEF PackStrings, n
<1> HIDE DEF ps, m
<1>6. /\ Len(r) \in Nat /\ Len(r) <= n
      /\ \A k \in 1 .. n : IF k <= Len(r) THEN r[k] = ps[k] ELSE ps[k] = <<>>
  <2>1. CASE n = 0
    <3> DEFINE sx == [k \in 1 .. n |-> ps[k] \o IF k < n THEN SEP ELSE <<>>]
    <3>1. sx \in Seq(Text) /\ Len(sx) = 0
      BY <2>1
    <3> HIDE DEF sx
    <3>2. r = <<>>
      BY <1>5, <3>1, EmptyText DEF sx
    <3> QED BY <2>1, <3>2
  <2>2. CASE n # 0
    <3>1. ps # <<>>
      BY <1>1, <1>4, <2>2
    <3>2. m.text = Joined(ps, SEP)
      BY <1>4, <1>5 DEF Joined
    <3>3. Pieces(Joined(ps, SEP), SEP) = ps
      BY <1>3, <1>4, <3>1, JoinedPieces, Separators
    <3>4. PICK fr \in Seq(Text), p \in Text : ps = Append(fr, p) /\ Len(ps) = Len(fr) + 1
      BY <1>4, <3>1, LastOf
    <3>5. CutAs(m.text, SEP, fr, p)
      BY <3>2, <3>3, <3>4 DEF CutAs
    <3>6. r = IF p = <<>> THEN fr ELSE ps
      <4>1. SplitByWord(m.text, SEP) = IF p = <<>> THEN fr ELSE Append(fr, p)
        BY <3>5, SplitIs
      <4> QED BY <3>4, <4>1
    <3>7. Len(fr) = n - 1 /\ ps[n] = p /\ \A k \in 1 .. n - 1 : ps[k] = fr[k]
      BY <1>1, <1>4, <3>4
    <3> HIDE DEF r
    <3>8. CASE p = <<>>
      <4>1. r = fr
        BY <3>6, <3>8
      <4> QED BY <1>1, <2>2, <3>7, <3>8, <4>1
    <3>9. CASE p # <<>>
      <4>1. r = ps
        BY <3>6, <3>9
      <4> QED BY <1>1, <1>4, <4>1
    <3> QED BY <3>8, <3>9
  <2> QED BY <2>1, <2>2
<1>7. RecvStrings(m) = [k \in 1 .. n |-> NameOf(IF k <= Len(r) THEN r[k] ELSE <<>>)]
  BY <1>5, <1>6 DEF RecvStrings, StringsFit
<1> HIDE DEF r
<1>8. ASSUME NEW k \in 1 .. n PROVE NameOf(IF k <= Len(r) THEN r[k] ELSE <<>>) = l[k]
  <2>1. (IF k <= Len(r) THEN r[k] ELSE <<>>) = ps[k]
    BY <1>6
  <2> QED BY <1>3, <2>1, Zenon
<1> QED BY <1>2, <1>7, <1>8 DEF m

\* A list of triples arrives with its rows and columns, and with the weights
\* that std::to_string has printed, if these are numbers (num) or names without a
\* word of the separators.
THEOREM TriplesArrive ==
  ASSUME NEW num, NEW l \in Seq(Triple),
         \A k \in 1 .. Len(l) : Intact(num, l[k].row) /\ Intact(num, l[k].col)
  PROVE  RecvTriples(num, PackTriples(num, l)) = [k \in 1 .. Len(l) |-> Rounded(l[k])]
<1> DEFINE n == Len(l)
           ps == [k \in 1 .. n |-> LocalPack(num, l[k])]
           m == PackTriples(num, l)
           sx == [k \in 1 .. n |-> ps[k] \o IF k < n \/ n = 1 THEN SEP ELSE <<>>]
           r == SplitByWord(m.text, SEP)
<1>1. n \in Nat /\ \A k \in 1 .. n : l[k] \in Triple /\ Intact(num, l[k].row) /\ Intact(num, l[k].col)
  OBVIOUS
<1> HIDE DEF n
<1>2. \A k \in 1 .. n : /\ ps[k] \in Text /\ ps[k] # <<>> /\ Without(ps[k], SEP)
                        /\ HasParts(ps[k]) /\ LocalUnpack(num, ps[k]) = Rounded(l[k])
  BY <1>1, LocalPackIs
<1>3. ps \in Seq(Text) /\ Len(ps) = n
  BY <1>1, <1>2
<1>4. m.n = n /\ m.text = FlattenSeq(sx)
  BY DEF PackTriples, n
<1> HIDE DEF ps, m
<1>5. r = ps
  <2>1. CASE n = 0
    <3>1. sx \in Seq(Text) /\ Len(sx) = 0 /\ ps = <<>>
      BY <1>3, <2>1
    <3> HIDE DEF sx
    <3> QED BY <1>4, <3>1, EmptyText
  <2>2. CASE n = 1
    <3>1. sx = [k \in 1 .. Len(ps) |-> ps[k] \o SEP]
      BY <1>3, <2>2
    <3>2. m.text = Closed(ps, SEP)
      BY <1>4, <3>1 DEF Closed
    <3> DEFINE e == <<>>
    <3>6. e \in Text
      BY DEF Text
    <3>7. \A k \in 1 .. Len(ps) : Without(ps[k], SEP)
      BY <1>2, <1>3
    <3> HIDE DEF r, sx
    <3>3. Pieces(Closed(ps, SEP), SEP) = Append(ps, e)
      BY <1>3, <3>7, ClosedPieces, Separators
    <3> HIDE DEF e
    <3>4. CutAs(m.text, SEP, ps, e)
      BY <3>2, <3>3 DEF CutAs
    <3>5. r = IF e = <<>> THEN ps ELSE Append(ps, e)
      BY <1>3, <3>4, <3>6, SplitIs DEF r
    <3> QED BY <3>5 DEF e
  <2>3. CASE n # 0 /\ n # 1
    <3>1. sx = [k \in 1 .. Len(ps) |-> ps[k] \o IF k < Len(ps) THEN SEP ELSE <<>>]
      BY <1>3, <2>3
    <3>2. m.text = Joined(ps, SEP)
      BY <1>4, <3>1 DEF Joined
    <3>3. ps # <<>>
      BY <1>3, <2>3
    <3>4. Pieces(Joined(ps, SEP), SEP) = ps
      BY <1>2, <1>3, <3>3, JoinedPieces, Separators
    <3>5. PICK fr \in Seq(Text), p \in Text : ps = Append(fr, p) /\ Len(ps) = Len(fr) + 1
      BY <1>3, <3>3, LastOf
    <3>6. CutAs(m.text, SEP, fr, p)
      BY <3>2, <3>4, <3>5 DEF CutAs
    <3>7. r = IF p = <<>> THEN fr ELSE Append(fr, p)
      BY <3>6, SplitIs
    <3>8. n \in 1 .. n /\ ps[n] = p
      BY <1>1, <1>3, <2>3, <3>5
    <3> QED BY <1>2, <3>5, <3>7, <3>8
  <2> QED BY <2>1, <2>2, <2>3
<1>6. RecvTriples(num, m) = [k \in 1 .. n |-> LocalUnpack(num, r[k])]
  <2>1. Len(r) = m.n /\ \A k \in 1 .. m.n : HasParts(r[k])
    BY <1>2, <1>3, <1>4, <1>5
  <2> QED BY <1>4, <2>1 DEF RecvTriples, TriplesFit
<1> HIDE DEF r
<1> QED BY <1>2, <1>5, <1>6 DEF m, n

-----------------------------------------------------------------------------
(***************************************************************************)
(* The operators of Exchange.                                              *)
(***************************************************************************)
LEMMA ToSetAppend ==
  ASSUME NEW A, NEW s \in Seq(A), NEW x \in A PROVE ToSet(Append(s, x)) = ToSet(s) \cup {x}
<1> DEFINE n == Len(s)
           w == Append(s, x)
<1>1. /\ n \in Nat /\ DOMAIN s = 1 .. n /\ DOMAIN w = 1 .. n + 1 /\ w[n + 1] = x
      /\ \A k \in 1 .. n : w[k] = s[k]
  OBVIOUS
<1> HIDE DEF n, w
<1>2. \A k \in 1 .. n + 1 : k \in 1 .. n \/ k = n + 1
  BY <1>1
<1>3. n + 1 \in 1 .. n + 1 /\ \A k \in 1 .. n : k \in 1 .. n + 1
  BY <1>1
<1>4. ToSet(w) = ToSet(s) \cup {x}
  BY <1>1, <1>2, <1>3 DEF ToSet
<1> QED BY <1>4 DEF w

LEMMA AmongIs ==
  ASSUME NEW A, NEW s \in Seq(A), NEW S
  PROVE  Among(s, S) \in Seq(A \cap S) /\ ToSet(Among(s, S)) = ToSet(s) \cap S
<1> DEFINE m == Len(s)
           V == Seq(A \cap S)
           Up(f) == f = [n \in 0 .. m |-> IF n = 0 THEN <<>>
                           ELSE IF s[n] \in S THEN Append(f[n - 1], s[n]) ELSE f[n - 1]]
           G == [n \in 1 .. m |-> [v \in V |-> IF s[n] \in S THEN Append(v, s[n]) ELSE v]]
<1>1. m \in Nat /\ \A n \in 1 .. m : s[n] \in A
  OBVIOUS
<1>2. Among(s, S) = (CHOOSE f : Up(f))[m]
  BY DEF Among
<1> HIDE DEF m
<1>3. ASSUME NEW v \in V, NEW n \in 1 .. m
      PROVE  (IF s[n] \in S THEN Append(v, s[n]) ELSE v) \in V
  BY <1>1
<1>4. <<>> \in V
  OBVIOUS
<1>5. PICK f : Repeats(f, <<>>, G, m, V)
  <2> DEFINE b == <<>>
  <2>1. Steps(G, m, V)
    <3> HIDE DEF V
    <3> QED BY <1>3 DEF Steps
  <2>2. b \in V
    BY <1>4
  <2> HIDE DEF G, V, b
  <2>3. \E f : Repeats(f, b, G, m, V)
    BY <1>1, <2>1, <2>2, Recursion
  <2> QED BY <2>3 DEF b
<1> HIDE DEF V
<1>6. /\ f \in [0 .. m -> V] /\ f[0] = <<>>
      /\ \A n \in 1 .. m : f[n] = IF s[n] \in S THEN Append(f[n - 1], s[n]) ELSE f[n - 1]
  <2>1. f \in [0 .. m -> V] /\ f[0] = <<>> /\ \A n \in 1 .. m : f[n] = G[n][f[n - 1]]
    BY <1>5 DEF Repeats
  <2>2. ASSUME NEW n \in 1 .. m PROVE f[n - 1] \in V
    <3>1. n - 1 \in 0 .. m
      BY <1>1
    <3> QED BY <2>1, <3>1
  <2> QED BY <2>1, <2>2
<1>7. Up(f)
  <2>1. f = [n \in 0 .. m |-> f[n]]
    BY <1>6
  <2>2. ASSUME NEW n \in 0 .. m
        PROVE  f[n] = IF n = 0 THEN <<>>
                      ELSE IF s[n] \in S THEN Append(f[n - 1], s[n]) ELSE f[n - 1]
    <3>1. CASE n = 0
      BY <1>6, <3>1
    <3>2. CASE n # 0
      <4>1. n \in 1 .. m
        BY <1>1, <3>2
      <4> QED BY <1>6, <3>2, <4>1
    <3> QED BY <3>1, <3>2
  <2> QED BY <2>1, <2>2
<1>8. PICK g : Up(g) /\ Among(s, S) = g[m]
  <2> HIDE DEF Up
  <2>1. Up(CHOOSE h : Up(h))
    BY <1>7
  <2> QED BY <1>2, <2>1
<1>9. g[0] = <<>>
  <2>1. 0 \in 0 .. m
    BY <1>1
  <2> QED BY <1>8, <2>1
<1>10. ASSUME NEW n \in 1 .. m
       PROVE  g[n] = IF s[n] \in S THEN Append(g[n - 1], s[n]) ELSE g[n - 1]
  <2>1. n \in 0 .. m /\ n # 0
    BY <1>1
  <2> QED BY <1>8, <2>1
<1> DEFINE First(n) == {s[k] : k \in 1 .. n}
           T == {n \in Nat : n <= m => g[n] \in V /\ ToSet(g[n]) = First(n) \cap S}
<1>11. 0 \in T
  <2>1. ToSet(<<>>) = {} /\ First(0) = {}
    BY DEF ToSet
  <2> QED BY <1>4, <1>9, <2>1
<1>12. ASSUME NEW n \in Nat, n \in T PROVE n + 1 \in T
  <2> SUFFICES ASSUME n + 1 <= m PROVE g[n + 1] \in V /\ ToSet(g[n + 1]) = First(n + 1) \cap S
    OBVIOUS
  <2>1. n + 1 \in 1 .. m /\ (n + 1) - 1 = n /\ g[n] \in V /\ ToSet(g[n]) = First(n) \cap S
    BY <1>1, <1>12
  <2>2. g[n + 1] = IF s[n + 1] \in S THEN Append(g[n], s[n + 1]) ELSE g[n]
    BY <1>10, <2>1
  <2>3. First(n + 1) = First(n) \cup {s[n + 1]}
    <3>1. \A k \in 1 .. n + 1 : k \in 1 .. n \/ k = n + 1
      OBVIOUS
    <3>2. n + 1 \in 1 .. n + 1 /\ \A k \in 1 .. n : k \in 1 .. n + 1
      OBVIOUS
    <3> QED BY <3>1, <3>2
  <2>4. s[n + 1] \in S => ToSet(Append(g[n], s[n + 1])) = ToSet(g[n]) \cup {s[n + 1]}
    <3> SUFFICES ASSUME s[n + 1] \in S PROVE ToSet(Append(g[n], s[n + 1])) = ToSet(g[n]) \cup {s[n + 1]}
      OBVIOUS
    <3> DEFINE B == A \cap S
               v == g[n]
               x == s[n + 1]
    <3>1. v \in Seq(B) /\ x \in B
      BY <1>1, <2>1 DEF V
    <3> HIDE DEF B, v, x
    <3>2. ToSet(Append(v, x)) = ToSet(v) \cup {x}
      BY <3>1, ToSetAppend
    <3> QED BY <3>2 DEF v, x
  <2>5. CASE s[n + 1] \in S
    <3> HIDE DEF First
    <3> QED BY <1>3, <2>1, <2>2, <2>3, <2>4, <2>5
  <2>6. CASE s[n + 1] \notin S
    <3> HIDE DEF First
    <3> QED BY <1>3, <2>1, <2>2, <2>3, <2>6
  <2> QED BY <2>5, <2>6
<1> HIDE DEF T
<1>13. m \in T
  BY <1>1, <1>11, <1>12, CountingUp
<1>14. First(m) = ToSet(s)
  BY <1>1 DEF ToSet, m
<1> QED BY <1>1, <1>8, <1>13, <1>14 DEF T, V

LEMMA OneDimension ==
  ASSUME NEW x \in Nat \ {0}, NEW y \in Nat \ {0}, NEW a \in 0 .. x - 1, NEW b \in 0 .. y - 1
  PROVE  (a * y + b) \div y = a
<1> DEFINE q == (a * y + b) \div y
           r == (a * y + b) % y
           p == a * y
<1>1. p \in Nat
  BY Z3T(30)
<1>2. q \in Int /\ r \in 0 .. y - 1 /\ p + b = q * y + r
  <2> HIDE DEF p
  <2>1. p + b \in Nat
    BY <1>1
  <2> QED BY <2>1 DEF p
<1> HIDE DEF q, r
<1>3. ~ (q < a)
  <2> SUFFICES ASSUME q + 1 <= a PROVE FALSE
    BY <1>2
  <2>1. (q + 1) * y <= a * y
    BY <1>2, Z3T(30)
  <2>2. (q + 1) * y = q * y + y
    BY <1>2, Z3T(30)
  <2> DEFINE u == q * y
  <2>3. u \in Int
    BY <1>2
  <2> HIDE DEF u
  <2> QED BY <1>1, <1>2, <2>1, <2>2, <2>3 DEF u, p
<1>4. ~ (q > a)
  <2> SUFFICES ASSUME a + 1 <= q PROVE FALSE
    BY <1>2
  <2>1. (a + 1) * y <= q * y
    BY <1>2, Z3T(30)
  <2>2. (a + 1) * y = a * y + y
    BY <1>2, Z3T(30)
  <2> QED BY <1>1, <1>2, <2>1, <2>2 DEF p
<1> QED BY <1>2, <1>3, <1>4 DEF q

LEMMA GridSizes ==
  ASSUME world.np \in Nat \ {0}
  PROVE  Grid.x \in Nat \ {0} /\ Grid.y \in Nat \ {0}
<1> DEFINE n == world.np
           up == {d \in 2 .. n : d * d <= n /\ n % d = 0}
<1>1. ASSUME up # {} PROVE Max(up) \in 2 .. n
  <2>1. PICK d \in up : TRUE
    BY <1>1
  <2>2. up \subseteq 1 .. n /\ n \in Nat
    BY Z3T(30)
  <2>3. PICK e \in up : \A k \in up : k <= e
    <3> HIDE DEF up, n
    <3> QED BY <1>1, <2>2, GreatestUpTo
  <2>4. e \in up /\ \A k \in up : e >= k
    <3>1. \A k \in up : k \in 1 .. n
      BY <2>2
    <3> HIDE DEF up, n
    <3> QED BY <2>2, <2>3, <3>1
  <2>5. Max(up) \in up
    <3> HIDE DEF up
    <3> QED BY <2>4 DEF Max
  <2> QED BY <2>5
<1>2. ASSUME NEW x \in 2 .. n PROVE n \div x \in Nat \ {0}
  BY Z3T(30)
<1>3. npfact2d(n).x \in Nat \ {0} /\ npfact2d(n).y \in Nat \ {0}
  <2>1. CASE up = {}
    <3>1. npfact2d(n) = [x |-> n, y |-> 1]
      BY <2>1 DEF npfact2d
    <3> QED BY <3>1
  <2>2. CASE up # {}
    <3>1. npfact2d(n) = [x |-> Max(up), y |-> n \div Max(up)]
      BY <2>2 DEF npfact2d
    <3>2. Max(up) \in 2 .. n /\ Max(up) \in Nat \ {0}
      BY <1>1, <2>2
    <3> HIDE DEF up
    <3> QED BY <1>2, <3>1, <3>2
  <2> QED BY <2>1, <2>2
<1>4. Grid \in {npfact2d(n), npfactx(n), npfacty(n)}
  BY DEF Grid
<1> QED BY <1>3, <1>4 DEF npfactx, npfacty

\* The owner of an entry is in the row of the grid that its row's hash names.
LEMMA OwnerRow ==
  ASSUME world.np \in Nat \ {0}, NEW i \in Id, NEW j \in Id
  PROVE  Owner(i, j) \div Grid.y = Hash(i) % Grid.x
<1> DEFINE x == Grid.x
           y == Grid.y
           a == Hash(i) % x
           b == Hash(j) % y
<1>1. x \in Nat \ {0} /\ y \in Nat \ {0}
  BY GridSizes
<1>2. Hash(i) \in Nat /\ Hash(j) \in Nat
  BY ExchangeAssumption
<1> HIDE DEF x, y
<1>3. a \in 0 .. x - 1 /\ b \in 0 .. y - 1
  BY <1>1, <1>2
<1> HIDE DEF a, b
<1>4. (a * y + b) \div y = a
  BY <1>1, <1>3, OneDimension
<1> QED BY <1>4 DEF Owner, a, b, x, y

-----------------------------------------------------------------------------
(***************************************************************************)
(* Ordered lists the elements of a set.                                    *)
(***************************************************************************)
Key(a) == (a + IntLimit) % IdLimit

LEMMA Keys ==
  ASSUME NEW a \in Id, NEW b \in Id
  PROVE  /\ Key(a) \in Id /\ (Sooner(a, b) <=> Key(a) < Key(b))
         /\ Key(a) = Key(b) => a = b
<1> DEFINE I == IntLimit
           D == IdLimit
<1>1. I \in Nat /\ D \in Nat /\ I < D
  BY ExchangeAssumption, Limit
<1>2. ASSUME NEW c \in 0 .. D - 1
      PROVE  (c + I) % D = IF c + I < D THEN c + I ELSE c + I - D
  <2> HIDE DEF I, D
  <2> QED BY <1>1, Z3T(30)
<1>3. a \in 0 .. D - 1 /\ b \in 0 .. D - 1
  BY DEF Id
<1>4. /\ Key(a) = IF a + I < D THEN a + I ELSE a + I - D
      /\ Key(b) = IF b + I < D THEN b + I ELSE b + I - D
  BY <1>2, <1>3 DEF Key
<1>5. Sooner(a, b) <=> Key(a) < Key(b)
  BY DEF Sooner, Key
<1> HIDE DEF I
<1> QED BY <1>1, <1>3, <1>4, <1>5 DEF Id

KeyOf(S) == [x \in S |-> Key(x)]

LEMMA KeysRank ==
  ASSUME NEW S, S \subseteq Id
  PROVE  /\ Ranking(S, KeyOf(S))
         /\ \A x \in S : {y \in S : Sooner(y, x)} = Below(KeyOf(S), S, x)
<1>1. IsFiniteSet(S)
  <2>1. IsFiniteSet(Id)
    <3>1. 0 \in Int /\ IdLimit - 1 \in Int
      BY Limit
    <3> QED BY <3>1, FS_Interval DEF Id
  <2> QED BY <2>1, FS_Subset
<1>2. ASSUME NEW x \in S, NEW y \in S
      PROVE  /\ Key(x) \in Nat /\ (Key(x) = Key(y) => x = y)
             /\ Sooner(y, x) <=> KeyOf(S)[y] < KeyOf(S)[x]
  <2>1. Key(x) \in Id /\ (Key(x) = Key(y) => x = y)
    BY Keys
  <2>2. Sooner(y, x) <=> Key(y) < Key(x)
    BY Keys
  <2> QED BY <2>1, <2>2 DEF Id, KeyOf
<1>3. Ranking(S, KeyOf(S))
  BY <1>1, <1>2 DEF Ranking, KeyOf
<1> QED BY <1>2, <1>3 DEF Below

\* Ordered lists each element of the set at its place.
LEMMA OrderedLists ==
  ASSUME NEW S, S \subseteq Id
  PROVE  /\ Ordered(S) \in Seq(S)
         /\ \A x \in S : \E k \in 1 .. Len(Ordered(S)) : Ordered(S)[k] = x
<1> DEFINE n == Cardinality(S)
           o == Ordered(S)
           K == KeyOf(S)
<1>1. o = [k \in 1 .. n |-> CHOOSE x \in S : Cardinality({y \in S : Sooner(y, x)}) = k - 1]
  BY DEF Ordered
<1>2. Ranking(S, K) /\ \A x \in S : {y \in S : Sooner(y, x)} = Below(K, S, x)
  BY KeysRank
<1>3. n \in Nat
  <2>1. IsFiniteSet(S)
    BY <1>2 DEF Ranking
  <2> QED BY <2>1, FS_CardinalityType
<1> HIDE DEF n, o, K
<1>4. ASSUME NEW k \in 1 .. n PROVE o[k] \in S /\ Cardinality(Below(K, S, o[k])) = k - 1
  <2> DEFINE P(x) == Cardinality({y \in S : Sooner(y, x)}) = k - 1
  <2>1. \A x \in S : P(x) <=> Cardinality(Below(K, S, x)) = k - 1
    BY <1>2
  <2>2. \E x \in S : Cardinality(Below(K, S, x)) = k - 1
    BY <1>2, PlacesTaken DEF n
  <2>3. o[k] = CHOOSE x \in S : P(x)
    BY <1>1
  <2> HIDE DEF P
  <2>4. o[k] \in S /\ P(o[k])
    BY <2>1, <2>2, <2>3
  <2> QED BY <2>1, <2>4
<1>5. o \in Seq(S) /\ Len(o) = n
  <2>1. o \in [1 .. n -> S]
    BY <1>1, <1>4
  <2> QED BY <1>3, <2>1
<1>6. ASSUME NEW x \in S PROVE \E k \in 1 .. n : o[k] = x
  <2> DEFINE k == Cardinality(Below(K, S, x)) + 1
  <2>1. /\ Cardinality(Below(K, S, x)) \in Nat /\ Cardinality(Below(K, S, x)) < n
        /\ \A y \in S : Cardinality(Below(K, S, x)) = Cardinality(Below(K, S, y)) => x = y
    BY <1>2, BelowCounts DEF n
  <2>2. k \in 1 .. n /\ k - 1 = Cardinality(Below(K, S, x))
    BY <1>3, <2>1
  <2> HIDE DEF k
  <2>3. o[k] = x
    BY <1>4, <2>1, <2>2
  <2> QED BY <2>2, <2>3
<1> QED BY <1>5, <1>6 DEF o

LEMMA OrderedIn ==
  ASSUME NEW S, S \subseteq Id PROVE ToSet(Ordered(S)) \subseteq S
<1>1. Ordered(S) \in Seq(S)
  BY OrderedLists
<1>2. \A k \in DOMAIN Ordered(S) : Ordered(S)[k] \in S
  BY <1>1
<1> QED BY <1>2 DEF ToSet

-----------------------------------------------------------------------------
(***************************************************************************)
(* The invariant of Exchange.  Every rank has entries that it owns, and    *)
(* from index_mapping on its rows are the ordered union of the rows of its *)
(* row of the grid, whose ranks have all received their entries by then.   *)
(***************************************************************************)
DocIds ==
  {i \in Id : \E l \in 1 .. Len(doc) : \E k \in 1 .. Len(doc[l]) : doc[l][k].id = i}
DocField == [id : DocIds, size : 0 .. 2, ok : BOOLEAN, w : Int]
DocLine == Seq(DocField)
AnyEntry == [row : DocIds, col : DocIds, w : Int]
Entries(d) == {t \in AnyEntry : Owner(t.row, t.col) = d}

RowIds(r) == UNION {ToSet(Rows(s)) : s \in RowGroup(r)}

CaseInv ==
  /\ world.np \in Nat \ {0} /\ doc \in Seq(Seq(Field))
  /\ HasContents => np = world.np /\ Len(doc) = Cardinality(AllLines)

DataInv ==
  /\ linelst \in [Rank -> Seq(DocLine)]
  /\ DOMAIN slots = Rank /\ \A r, d \in Rank : slots[r][d] \in Seq(Entries(d))
  /\ DOMAIN stf = Rank /\ \A r \in Rank : stf[r] \in Seq(Entries(r))

PhaseInv ==
  /\ ph \in [Rank -> 0 .. 11] /\ DOMAIN rm = Rank
  /\ \A r \in Rank : Numbered /\ ph[r] >= 8 =>
       rm[r] = Ordered(RowIds(r)) /\ \A s \in RowGroup(r) : ph[s] >= 7

XInv == GoodIds /\ CaseInv /\ DataInv /\ PhaseInv

LEMMA PhaseNumbers ==
  ASSUME NEW r, ph[r] \in 0 .. 11
  PROVE  /\ At(r, "fixload") => ph[r] = 1
         /\ At(r, "loaded") => ph[r] = 2
         /\ At(r, "organize") => ph[r] = 3
         /\ At(r, "organized") => ph[r] = 4
         /\ At(r, "exchange") => ph[r] = 5
         /\ At(r, "exchanged") => ph[r] = 6
         /\ At(r, "rows") => ph[r] = 7
         /\ At(r, "cols") => ph[r] = 8
         /\ At(r, "mapped") => ph[r] = 9
         /\ At(r, "build") => ph[r] = 10
         /\ At(r, "done") => ph[r] = 11
         /\ Reached(r, "rows") => ph[r] >= 7
  BY DEF At, Reached, Phases

LEMMA XFrame ==
  ASSUME UNCHANGED <<world, doc>>
  PROVE  /\ Rank' = Rank /\ Numbered' = Numbered /\ DocLine' = DocLine /\ AnyEntry' = AnyEntry
         /\ \A d : Entries(d)' = Entries(d)
         /\ \A r : RowGroup(r)' = RowGroup(r)
<1>1. Rank' = Rank /\ Numbered' = Numbered /\ DocIds' = DocIds /\ Grid' = Grid
  BY DEF Rank, Numbered, DocIds, Id, Grid
<1>2. DocLine' = DocLine /\ AnyEntry' = AnyEntry
  BY <1>1 DEF DocLine, DocField, AnyEntry
<1>3. \A d : Entries(d)' = Entries(d)
  BY <1>1, <1>2 DEF Entries, Owner
<1>4. \A r : RowGroup(r)' = RowGroup(r)
  BY <1>1 DEF RowGroup
<1> QED BY <1>1, <1>2, <1>3, <1>4

\* A step that gives nobody a new row map.
LEMMA PhaseMoves ==
  ASSUME PhaseInv, UNCHANGED <<world, doc, stf>>, ph' \in [Rank -> 0 .. 11], DOMAIN rm' = Rank,
         \A r, s \in Rank : ph'[r] >= 8 => ph'[s] >= ph[s],
         \A r \in Rank : Numbered /\ ph'[r] >= 8 => ph[r] >= 8 /\ rm'[r] = rm[r]
  PROVE  PhaseInv'
<1>1. Rank' = Rank /\ Numbered' = Numbered /\ \A r : RowGroup(r)' = RowGroup(r)
  BY XFrame
<1>2. \A r : RowIds(r)' = RowIds(r)
  BY <1>1 DEF RowIds, Rows, Narrow
<1>3. \A r : Ordered(RowIds(r))' = Ordered(RowIds(r))
  BY <1>2
<1>4. ASSUME NEW r \in Rank, Numbered, ph'[r] >= 8
      PROVE  rm'[r] = Ordered(RowIds(r)) /\ \A s \in RowGroup(r) : ph'[s] >= 7
  <2>1. rm'[r] = rm[r] /\ rm[r] = Ordered(RowIds(r)) /\ \A s \in RowGroup(r) : ph[s] >= 7
    BY <1>4 DEF PhaseInv
  <2>2. ASSUME NEW s \in RowGroup(r) PROVE ph'[s] >= 7
    <3>1. s \in Rank
      BY DEF RowGroup
    <3>2. ph'[s] >= ph[s] /\ ph[s] \in Int /\ ph'[s] \in Int
      BY <1>4, <3>1 DEF PhaseInv
    <3> QED BY <2>1, <3>2
  <2> QED BY <2>1, <2>2
<1> QED BY <1>1, <1>3, <1>4 DEF PhaseInv

LEMMA DataStays ==
  ASSUME DataInv, UNCHANGED <<world, doc, linelst, slots, stf>> PROVE DataInv'
<1>1. /\ Rank' = Rank /\ DocLine' = DocLine /\ \A d : Entries(d)' = Entries(d)
  BY XFrame
<1> QED BY <1>1 DEF DataInv

\* One rank goes on and leaves the entries and the row maps alone.
LEMMA QuietStep ==
  ASSUME XInv, NEW r \in Rank, NEW k \in 1 .. 11, ph' = [ph EXCEPT ![r] = k], k >= ph[r],
         k >= 8 => ph[r] >= 8 \/ ~Numbered,
         UNCHANGED <<world, doc, linelst, slots, stf, rm>>
  PROVE  DataInv' /\ PhaseInv'
<1>1. ph \in [Rank -> 0 .. 11] /\ DOMAIN rm = Rank
  BY DEF XInv, PhaseInv
<1>2. /\ ph' \in [Rank -> 0 .. 11] /\ ph'[r] = k
      /\ \A s \in Rank : s # r => ph'[s] = ph[s]
  BY <1>1
<1>3. \A s \in Rank : ph'[s] >= ph[s]
  BY <1>1, <1>2
<1>4. \A s \in Rank : Numbered /\ ph'[s] >= 8 => ph[s] >= 8 /\ rm'[s] = rm[s]
  BY <1>2
<1>5. PhaseInv'
  BY <1>1, <1>2, <1>3, <1>4, PhaseMoves DEF XInv
<1> QED BY <1>5, DataStays DEF XInv

-----------------------------------------------------------------------------
(***************************************************************************)
(* What the ranks hold are lines and entries of the input.                 *)
(***************************************************************************)
LEMMA DocTyped ==
  ASSUME doc \in Seq(Seq(Field)), NEW l \in 1 .. Len(doc) PROVE doc[l] \in DocLine
<1> DEFINE x == doc[l]
<1>1. x \in Seq(Field)
  OBVIOUS
<1>2. ASSUME NEW k \in 1 .. Len(x) PROVE x[k] \in DocField
  <2>1. x[k] \in Field
    BY <1>1
  <2>2. /\ x[k].id \in Id /\ x[k].size \in 0 .. 2 /\ x[k].ok \in BOOLEAN /\ x[k].w \in Int
        /\ x[k] = [id |-> x[k].id, size |-> x[k].size, ok |-> x[k].ok, w |-> x[k].w]
    BY <2>1 DEF Field
  <2>3. x[k].id \in DocIds
    BY <2>2 DEF DocIds
  <2> HIDE DEF x
  <2> QED BY <2>2, <2>3 DEF DocField
<1> HIDE DEF x
<1>4. x \in Seq(DocField)
  BY <1>1, <1>2
<1> QED BY <1>4 DEF x, DocLine

LEMMA LinesFinite ==
  ASSUME InputInv, RangeInv PROVE IsFiniteSet(AllLines)
<1>1. NFiles \in Nat /\ Size \in Nat
  BY Distances DEF Size
<1>2. AllLines \subseteq (1 .. NFiles) \X (0 .. Size)
  <2> SUFFICES ASSUME NEW l \in AllLines PROVE l \in (1 .. NFiles) \X (0 .. Size)
    OBVIOUS
  <2>1. /\ l[1] \in 1 .. NFiles /\ l[2] \in Nat /\ l = <<l[1], l[2]>>
        /\ Global(l) \in Nat /\ displs[l[1]] <= Global(l) /\ Global(l) < displs[l[1] + 1]
    BY LineFacts DEF AllLines, LinesOf
  <2>2. displs \in [1 .. NFiles + 1 -> Nat] /\ \A i, j \in 1 .. NFiles + 1 : i <= j => displs[i] <= displs[j]
    BY Distances
  <2>3. l[1] \in 1 .. NFiles + 1 /\ l[1] + 1 \in 1 .. NFiles + 1 /\ NFiles + 1 \in 1 .. NFiles + 1
        /\ l[1] + 1 <= NFiles + 1
    BY <1>1, <2>1
  <2>4. displs[l[1] + 1] <= Size /\ displs[l[1]] \in Nat /\ displs[l[1] + 1] \in Nat
    BY <2>2, <2>3 DEF Size
  <2>5. l[2] <= Size
    BY <1>1, <2>1, <2>4 DEF Global
  <2>6. l[2] \in 0 .. Size
    BY <1>1, <2>1, <2>5
  <2> QED BY <2>1, <2>6
<1>3. IsFiniteSet((1 .. NFiles) \X (0 .. Size))
  <2>1. IsFiniteSet(1 .. NFiles) /\ IsFiniteSet(0 .. Size)
    BY <1>1, FS_Interval
  <2> QED BY <2>1, FS_Product
<1> QED BY <1>2, <1>3, FS_Subset

\* What the parser makes of a line of the files is a line of the input.
LEMMA ParsedLine ==
  ASSUME Inv, CaseInv, pc = "done", HasContents, NEW l, <<l[1], l[2]>> \in AllLines
  PROVE  \E i \in 1 .. Len(doc) : Parsed(l) = doc[i]
<1>0. InputInv /\ RangeInv
  BY DEF Inv, Opened
<1> DEFINE B == {x \in AllLines : Before(x, l)}
           y == <<l[1], l[2]>>
<1>1. IsFiniteSet(AllLines) /\ B \in SUBSET AllLines
  BY <1>0, LinesFinite
<1>2. IsFiniteSet(B) /\ Cardinality(B) <= Cardinality(AllLines)
      /\ (Cardinality(AllLines) = Cardinality(B) => AllLines = B)
  <2> HIDE DEF B
  <2> QED BY <1>1, FS_Subset
<1>3. y \notin B
  <2>1. y[1] = l[1] /\ y[2] = l[2]
    OBVIOUS
  <2>2. l[1] \in Int /\ l[2] \in Int
    <3>1. y \in AllLines
      OBVIOUS
    <3>2. y[1] \in 1 .. NFiles /\ y[2] \in Nat
      <4> HIDE DEF y
      <4> QED BY <1>0, <3>1, LineFacts
    <3>3. NFiles \in Nat
      BY <1>0, Distances
    <3> QED BY <2>1, <3>2, <3>3
  <2>3. ~ Before(y, l)
    BY <2>1, <2>2 DEF Before
  <2> QED BY <2>3
<1>4. Cardinality(B) \in Nat /\ Cardinality(AllLines) \in Nat
  BY <1>1, <1>2, FS_CardinalityType
<1>5. Cardinality(B) # Cardinality(AllLines)
  BY <1>2, <1>3
<1>6. Cardinality(B) + 1 \in 1 .. Len(doc)
  <2>1. Len(doc) = Cardinality(AllLines)
    BY DEF CaseInv
  <2> HIDE DEF B
  <2> QED BY <1>2, <1>4, <1>5, <2>1
<1>7. Parsed(l) = doc[Cardinality(B) + 1]
  BY DEF Parsed
<1> QED BY <1>6, <1>7

\* fixload: the lines of a rank are lines of the input.
LEMMA GivenTyped ==
  ASSUME Inv, CaseInv, pc = "done", HasContents, NEW r PROVE Given(r) \in Seq(DocLine)
<1> DEFINE S == {l \in ToSet(lines) : l[3] = r}
           mine == Among(lines, S)
           L == Nat \X Nat \X Nat
<1>1. InputInv /\ RangeInv /\ LinesInv
  BY DEF Inv, Opened
<1>2. lines \in Seq(L) /\ \A k \in DOMAIN lines : <<lines[k][1], lines[k][2]>> \in AllLines
  BY <1>1 DEF LinesInv
<1>3. mine \in Seq(L \cap S)
  <2> HIDE DEF S, L
  <2> QED BY <1>2, AmongIs
<1>4. ASSUME NEW l \in L \cap S PROVE <<l[1], l[2]>> \in AllLines
  BY <1>2 DEF ToSet
<1>5. ASSUME NEW l, <<l[1], l[2]>> \in AllLines PROVE Parsed(l) \in DocLine
  BY <1>5, ParsedLine, DocTyped DEF CaseInv
<1> DEFINE n == Len(mine)
<1>6. n \in Nat /\ \A k \in 1 .. n : mine[k] \in L \cap S
  <2> DEFINE A == L \cap S
  <2>1. mine \in Seq(A)
    BY <1>3
  <2> HIDE DEF A, mine
  <2>2. n \in Nat /\ \A k \in 1 .. n : mine[k] \in A
    BY <2>1
  <2> QED BY <2>2 DEF A
<1>7. Given(r) = [k \in 1 .. n |-> Parsed(mine[k])]
  BY DEF Given
<1> HIDE DEF n, mine, L, S
<1>8. \A k \in 1 .. n : Parsed(mine[k]) \in DocLine
  BY <1>4, <1>5, <1>6
<1> QED BY <1>6, <1>7, <1>8

\* lines_organize makes entries of the ids of the lines.
LEMMA TriplesTyped ==
  ASSUME NEW line \in DocLine, Supported(line) PROVE Triples(line) \in Seq(AnyEntry)
<1> DEFINE m == Len(line)
<1>1. m \in Nat /\ \A k \in 1 .. m : line[k].id \in DocIds /\ line[k].w \in Int
  <2>1. m \in Nat /\ \A k \in 1 .. m : line[k] \in DocField
    BY DEF DocLine
  <2> HIDE DEF m
  <2> QED BY <2>1 DEF DocField
<1>2. CASE Splits(line)
  <2>1. ASSUME NEW k \in 1 .. m - 1 PROVE Entry(line, line[k + 1]) \in AnyEntry
    <3>1. 1 \in 1 .. m /\ k + 1 \in 1 .. m
      BY <1>1
    <3>2. line[1].id \in DocIds /\ line[k + 1].id \in DocIds /\ line[k + 1].w \in Int
      BY <1>1, <3>1
    <3>3. (IF line[k + 1].size = 1 THEN One ELSE line[k + 1].w) \in Int
      BY <3>2 DEF One
    <3> QED BY <3>2, <3>3 DEF Entry, AnyEntry
  <2>2. Triples(line) = [k \in 1 .. m - 1 |-> Entry(line, line[k + 1])]
    BY <1>2 DEF Triples
  <2> HIDE DEF m
  <2>3. CASE m = 0
    <3>1. 1 .. m - 1 = 1 .. 0
      BY <2>3
    <3>2. Triples(line) \in [1 .. 0 -> AnyEntry]
      BY <2>1, <2>2, <3>1
    <3> QED BY <3>2
  <2>4. CASE m # 0
    <3>1. m - 1 \in Nat
      BY <1>1, <2>4
    <3> QED BY <2>1, <2>2, <3>1
  <2> QED BY <2>3, <2>4
<1>3. CASE ~Splits(line)
  <2>1. m = 3
    BY <1>3 DEF Supported
  <2>2. line[1].id \in DocIds /\ line[2].id \in DocIds /\ line[3].w \in Int
    BY <1>1, <2>1
  <2> DEFINE t == [row |-> line[1].id, col |-> line[2].id, w |-> line[3].w]
  <2>5. t \in AnyEntry
    BY <2>2 DEF AnyEntry
  <2>6. Triples(line) = <<t>>
    BY <1>3 DEF Triples
  <2> HIDE DEF t
  <2> QED BY <2>5, <2>6
<1> QED BY <1>2, <1>3

LEMMA OrganizedTyped ==
  ASSUME NEW ls \in Seq(DocLine), \A k \in 1 .. Len(ls) : Supported(ls[k])
  PROVE  Organized(ls) \in Seq(AnyEntry)
<1> DEFINE n == Len(ls)
           ss == [k \in 1 .. n |-> Triples(ls[k])]
<1>2. n \in Nat /\ \A k \in 1 .. n : ls[k] \in DocLine
  OBVIOUS
<1>3. \A k \in 1 .. n : Triples(ls[k]) \in Seq(AnyEntry)
  BY <1>2, TriplesTyped
<1>4. Organized(ls) = FlattenSeq(ss)
  BY DEF Organized
<1> HIDE DEF n
<1>5. ss \in Seq(Seq(AnyEntry))
  BY <1>2, <1>3
<1> HIDE DEF ss
<1> QED BY <1>4, <1>5, Flattened

LEMMA OwnedTyped ==
  ASSUME NEW d, NEW ts \in Seq(AnyEntry) PROVE OwnedBy(d, ts) \in Seq(Entries(d))
<1> DEFINE S == {t \in ToSet(ts) : Owner(t.row, t.col) = d}
<1>1. AnyEntry \cap S \subseteq Entries(d)
  BY DEF Entries
<1>2. OwnedBy(d, ts) = Among(ts, S)
  BY DEF OwnedBy
<1> HIDE DEF S
<1>3. OwnedBy(d, ts) \in Seq(AnyEntry \cap S)
  BY <1>2, AmongIs
<1> QED BY <1>1, <1>3

\* What GoodIds says of an id.
LEMMA GoodId ==
  ASSUME GoodIds, NEW i \in DocIds PROVE IF world.wide THEN i < IntLimit ELSE Plain(i)
  BY DEF GoodIds, DocIds

LEMMA GoodStays == ASSUME UNCHANGED <<world, doc>> PROVE GoodIds' = GoodIds
  BY DEF GoodIds, Plain

\* Entries arrive with their cells.
LEMMA EntriesArrive ==
  ASSUME GoodIds, NEW d, NEW ts \in Seq(Entries(d))
  PROVE  RecvTriples(world.wide, PackTriples(world.wide, ts)) = [k \in 1 .. Len(ts) |-> Rounded(ts[k])]
<1>1. ASSUME NEW t \in Entries(d)
      PROVE  t \in Triple /\ Intact(world.wide, t.row) /\ Intact(world.wide, t.col)
  <2>1. t \in AnyEntry
    BY DEF Entries
  <2>2. t.row \in DocIds /\ t.col \in DocIds
    BY <2>1 DEF AnyEntry
  <2>3. t \in Triple
    BY <2>1 DEF AnyEntry, Triple, DocIds
  <2> DEFINE i == t.row
             j == t.col
  <2>4. i \in DocIds /\ j \in DocIds
    BY <2>2
  <2> HIDE DEF i, j
  <2>5. Intact(world.wide, i) /\ Intact(world.wide, j)
    BY <2>4, GoodId DEF Intact
  <2> QED BY <2>3, <2>5 DEF i, j
<1>2. ts \in Seq(Triple)
  <2>1. Entries(d) \subseteq Triple
    BY <1>1
  <2> QED BY <2>1
<1>3. \A k \in 1 .. Len(ts) : ts[k] \in Entries(d)
  OBVIOUS
<1>4. \A k \in 1 .. Len(ts) : Intact(world.wide, ts[k].row) /\ Intact(world.wide, ts[k].col)
  BY <1>1, <1>3
<1> QED BY <1>2, <1>4, TriplesArrive

\* Also over the wire.
LEMMA CarriedTyped ==
  ASSUME GoodIds, NEW d, NEW s, NEW r, NEW ts \in Seq(Entries(d)) PROVE Carried(s, r, ts) \in Seq(Entries(d))
<1>1. CASE s = r
  BY <1>1 DEF Carried
<1>2. CASE s # r
  <2> DEFINE n == Len(ts)
  <2>1. n \in Nat /\ \A k \in 1 .. n : ts[k] \in Entries(d)
    OBVIOUS
  <2>4. Carried(s, r, ts) = [k \in 1 .. n |-> Rounded(ts[k])]
    BY <1>2, EntriesArrive DEF Carried
  <2>5. ASSUME NEW t \in Entries(d) PROVE Rounded(t) \in Entries(d)
    <3>1. t.row \in DocIds /\ t.col \in DocIds /\ t.w \in Int /\ Owner(t.row, t.col) = d
      BY DEF Entries, AnyEntry
    <3>2. Printed(t.w) \in Int
      BY <3>1 DEF Printed
    <3> DEFINE u == [row |-> t.row, col |-> t.col, w |-> Printed(t.w)]
    <3>3. u \in AnyEntry /\ u.row = t.row /\ u.col = t.col
      BY <3>1, <3>2 DEF AnyEntry
    <3>4. Rounded(t) = u
      BY DEF Rounded
    <3> HIDE DEF u
    <3> QED BY <3>1, <3>3, <3>4 DEF Entries
  <2> HIDE DEF n
  <2> QED BY <2>1, <2>4, <2>5
<1> QED BY <1>1, <1>2

-----------------------------------------------------------------------------
(***************************************************************************)
(* Every step of a rank keeps the invariant.                               *)
(***************************************************************************)
LEMMA FixLoadStep ==
  ASSUME XInv, NEW r \in Rank, NEW ls \in Seq(DocLine), FixLoad(r, ls) PROVE DataInv' /\ PhaseInv'
<1>1. ph \in [Rank -> 0 .. 11] /\ DOMAIN rm = Rank /\ ph[r] = 1
  BY PhaseNumbers DEF XInv, PhaseInv, FixLoad
<1>2. UNCHANGED <<world, doc, slots, stf, rm>> /\ ph' = [ph EXCEPT ![r] = 2]
  BY <1>1 DEF FixLoad, Advance
<1>3. PhaseInv'
  <2>1. /\ ph' \in [Rank -> 0 .. 11] /\ ph'[r] = 2
        /\ \A s \in Rank : s # r => ph'[s] = ph[s]
    BY <1>1, <1>2
  <2>2. \A s \in Rank : ph'[s] >= ph[s]
    BY <1>1, <2>1
  <2>3. \A s \in Rank : Numbered /\ ph'[s] >= 8 => ph[s] >= 8 /\ rm'[s] = rm[s]
    BY <1>2, <2>1
  <2> QED BY <1>1, <1>2, <2>1, <2>2, <2>3, PhaseMoves DEF XInv
<1>4. DataInv'
  <2>1. Rank' = Rank /\ DocLine' = DocLine /\ \A d : Entries(d)' = Entries(d)
    BY <1>2, XFrame
  <2>2. linelst' = [linelst EXCEPT ![r] = ls] /\ linelst \in [Rank -> Seq(DocLine)]
    BY DEF FixLoad, XInv, DataInv
  <2>3. linelst' \in [Rank -> Seq(DocLine)]
    BY <2>2
  <2> QED BY <1>2, <2>1, <2>3 DEF XInv, DataInv
<1> QED BY <1>3, <1>4

LEMMA LinesOrganizeStep ==
  ASSUME XInv, NEW r \in Rank, LinesOrganize(r) PROVE DataInv' /\ PhaseInv'
<1>1. ph \in [Rank -> 0 .. 11] /\ DOMAIN rm = Rank /\ ph[r] = 3
  BY PhaseNumbers DEF XInv, PhaseInv, LinesOrganize
<1>2. UNCHANGED <<world, doc, stf, rm>> /\ ph' = [ph EXCEPT ![r] = 4]
  BY <1>1 DEF LinesOrganize, Advance
<1>3. PhaseInv'
  <2>1. /\ ph' \in [Rank -> 0 .. 11] /\ ph'[r] = 4
        /\ \A s \in Rank : s # r => ph'[s] = ph[s]
    BY <1>1, <1>2
  <2>2. \A s \in Rank : ph'[s] >= ph[s]
    BY <1>1, <2>1
  <2>3. \A s \in Rank : Numbered /\ ph'[s] >= 8 => ph[s] >= 8 /\ rm'[s] = rm[s]
    BY <1>2, <2>1
  <2> QED BY <1>1, <1>2, <2>1, <2>2, <2>3, PhaseMoves DEF XInv
<1>4. DataInv'
  <2>1. Rank' = Rank /\ DocLine' = DocLine /\ \A d : Entries(d)' = Entries(d)
    BY <1>2, XFrame
  <2>2. linelst' = [linelst EXCEPT ![r] = <<>>] /\ linelst \in [Rank -> Seq(DocLine)]
    BY DEF LinesOrganize, XInv, DataInv
  <2>3. linelst' \in [Rank -> Seq(DocLine)]
    <3>1. <<>> \in Seq(DocLine)
      OBVIOUS
    <3> QED BY <2>2, <3>1
  <2>4. Organized(linelst[r]) \in Seq(AnyEntry)
    <3>1. linelst[r] \in Seq(DocLine) /\ \A k \in 1 .. Len(linelst[r]) : Supported(linelst[r][k])
      BY <2>2 DEF LinesOrganize
    <3> QED BY <3>1, OrganizedTyped
  <2>5. DOMAIN slots = Rank /\ \A s, d \in Rank : slots[s][d] \in Seq(Entries(d))
    BY DEF XInv, DataInv
  <2>6. slots' = [slots EXCEPT ![r] = [d \in Rank |-> OwnedBy(d, Organized(linelst[r]))]]
    BY DEF LinesOrganize
  <2>7. ASSUME NEW d \in Rank PROVE OwnedBy(d, Organized(linelst[r])) \in Seq(Entries(d))
    BY <2>4, OwnedTyped
  <2>8. DOMAIN slots' = Rank /\ \A s, d \in Rank : slots'[s][d] \in Seq(Entries(d))
    BY <2>5, <2>6, <2>7
  <2> QED BY <1>2, <2>1, <2>3, <2>8 DEF XInv, DataInv
<1> QED BY <1>3, <1>4

LEMMA BuildDenseStep ==
  ASSUME XInv, NEW r \in Rank, BuildDense(r) PROVE DataInv' /\ PhaseInv'
<1>1. ph \in [Rank -> 0 .. 11] /\ DOMAIN rm = Rank /\ ~Numbered
  BY DEF XInv, PhaseInv, BuildDense, Numbered
<1>2. UNCHANGED <<world, doc, linelst, slots, stf>> /\ ph' = [ph EXCEPT ![r] = 11] /\ DOMAIN rm' = DOMAIN rm
  BY DEF BuildDense, Phases
<1>3. ph' \in [Rank -> 0 .. 11] /\ \A s \in Rank : ph'[s] >= ph[s]
  BY <1>1, <1>2
<1>4. PhaseInv'
  BY <1>1, <1>2, <1>3, PhaseMoves DEF XInv
<1> QED BY <1>2, <1>4, DataStays DEF XInv

LEMMA CrashStep ==
  ASSUME XInv, Crash PROVE DataInv' /\ PhaseInv'
<1>1. DOMAIN rm = Rank
  BY DEF XInv, PhaseInv
<1>2. UNCHANGED <<world, doc, linelst, slots, stf, rm>> /\ ph' = [s \in Rank |-> 0]
  BY DEF Crash
<1>3. ph' \in [Rank -> 0 .. 11] /\ \A s \in Rank : ~ (ph'[s] >= 8)
  BY <1>2
<1>4. PhaseInv'
  BY <1>1, <1>2, <1>3, PhaseMoves DEF XInv
<1> QED BY <1>2, <1>4, DataStays DEF XInv

LEMMA ExchangeSlotsStep ==
  ASSUME XInv, NEW r \in Rank, ExchangeSlots(r) PROVE DataInv' /\ PhaseInv'
<1>1. ph \in [Rank -> 0 .. 11] /\ DOMAIN rm = Rank /\ ph[r] = 5
  BY PhaseNumbers DEF XInv, PhaseInv, ExchangeSlots
<1>2. UNCHANGED <<world, doc, linelst, slots, rm>> /\ ph' = [ph EXCEPT ![r] = 6]
  BY <1>1 DEF ExchangeSlots, Advance
<1>3. /\ Rank' = Rank /\ Numbered' = Numbered /\ DocLine' = DocLine
      /\ \A d : Entries(d)' = Entries(d) /\ \A s : RowGroup(s)' = RowGroup(s)
  BY <1>2, XFrame
<1> DEFINE n == world.np
           ss == [k \in 1 .. n |-> Carried(Sender(r, k), r, slots[Sender(r, k)][r])]
<1>4. n \in Nat \ {0} /\ r \in 0 .. n - 1
  BY DEF XInv, CaseInv, Rank
<1>5. ASSUME NEW k \in 1 .. n PROVE Sender(r, k) \in Rank
  <2>1. 2 * r + n - (k - 1) \in Nat
    <3> HIDE DEF n
    <3> QED BY <1>4
  <2>2. (2 * r + n - (k - 1)) % n \in 0 .. n - 1
    <3> HIDE DEF n
    <3> QED BY <1>4, <2>1
  <2> QED BY <2>2 DEF Rank, Sender
<1>6. ASSUME NEW k \in 1 .. n PROVE Carried(Sender(r, k), r, slots[Sender(r, k)][r]) \in Seq(Entries(r))
  <2>1. slots[Sender(r, k)][r] \in Seq(Entries(r))
    BY <1>5 DEF XInv, DataInv
  <2> QED BY <2>1, CarriedTyped DEF XInv
<1>7. stf' = [stf EXCEPT ![r] = FlattenSeq(ss)]
  BY DEF ExchangeSlots
<1>8. ss \in Seq(Seq(Entries(r)))
  <2> HIDE DEF n
  <2> QED BY <1>4, <1>6
<1> HIDE DEF ss, n
<1>9. FlattenSeq(ss) \in Seq(Entries(r))
  BY <1>8, Flattened
<1>10. DOMAIN stf = Rank /\ \A s \in Rank : stf[s] \in Seq(Entries(s))
  BY DEF XInv, DataInv
<1>11. /\ DOMAIN stf' = Rank /\ \A s \in Rank : stf'[s] \in Seq(Entries(s))
       /\ \A s \in Rank : s # r => stf'[s] = stf[s]
  BY <1>7, <1>9, <1>10
<1>12. DataInv'
  BY <1>2, <1>3, <1>11 DEF XInv, DataInv
<1>13. /\ ph' \in [Rank -> 0 .. 11] /\ ph'[r] = 6
       /\ \A s \in Rank : s # r => ph'[s] = ph[s]
  BY <1>1, <1>2
<1>14. ASSUME NEW q \in Rank, Numbered, ph'[q] >= 8
       PROVE  rm'[q] = Ordered(RowIds(q))' /\ \A s \in RowGroup(q) : ph'[s] >= 7
  <2>1. q # r /\ ph[q] >= 8
    BY <1>13, <1>14
  <2>2. rm[q] = Ordered(RowIds(q)) /\ \A s \in RowGroup(q) : ph[s] >= 7
    BY <1>14, <2>1 DEF XInv, PhaseInv
  <2>3. ASSUME NEW s \in RowGroup(q) PROVE s \in Rank /\ s # r
    BY <1>1, <2>2 DEF RowGroup
  <2>4. ASSUME NEW s \in RowGroup(q) PROVE Rows(s)' = Rows(s)
    BY <1>2, <1>11, <2>3 DEF Rows, Narrow
  <2>5. RowIds(q)' = RowIds(q)
    BY <1>3, <2>4 DEF RowIds
  <2> QED BY <1>2, <1>13, <2>2, <2>3, <2>5
<1>15. PhaseInv'
  BY <1>1, <1>2, <1>3, <1>13, <1>14 DEF PhaseInv
<1> QED BY <1>12, <1>15

\* An id that an int holds comes back from the lists of index_mapping.
LEMMA NarrowIs ==
  ASSUME GoodIds, NEW i \in DocIds PROVE Narrow(i) = i
<1>1. CASE ~world.wide
  BY <1>1 DEF Narrow
<1>2. CASE world.wide
  <2>1. i \in Id /\ IdLimit \in Nat /\ i < IntLimit /\ IntLimit \in Nat \ {0}
    BY <1>2, GoodId, ExchangeAssumption, Limit DEF DocIds
  <2>2. i \in 0 .. IntLimit - 1
    BY <2>1 DEF Id
  <2>3. (i + IntLimit) % (2 * IntLimit) = i + IntLimit
    BY <2>1, <2>2, Z3T(30)
  <2> QED BY <1>2, <2>1, <2>2, <2>3 DEF Narrow
<1> QED BY <1>1, <1>2

LEMMA IdListsTyped ==
  ASSUME XInv, NEW s \in Rank PROVE Rows(s) \in Seq(DocIds) /\ Cols(s) \in Seq(DocIds)
<1> DEFINE n == Len(stf[s])
<1>1. n \in Nat /\ \A k \in 1 .. n : stf[s][k] \in Entries(s)
  BY DEF XInv, DataInv
<1>2. ASSUME NEW k \in 1 .. n
      PROVE  Narrow(stf[s][k].row) \in DocIds /\ Narrow(stf[s][k].col) \in DocIds
  <2> DEFINE t == stf[s][k]
             i == t.row
             j == t.col
  <2>1. t \in Entries(s)
    BY <1>1
  <2> HIDE DEF t
  <2>2. i \in DocIds /\ j \in DocIds
    BY <2>1 DEF Entries, AnyEntry
  <2> HIDE DEF i, j
  <2>3. Narrow(i) = i /\ Narrow(j) = j
    BY <2>2, NarrowIs DEF XInv
  <2>4. Narrow(i) \in DocIds /\ Narrow(j) \in DocIds
    BY <2>2, <2>3
  <2> QED BY <2>4 DEF i, j, t
<1>3. Rows(s) = [k \in 1 .. n |-> Narrow(stf[s][k].row)] /\ Cols(s) = [k \in 1 .. n |-> Narrow(stf[s][k].col)]
  BY DEF Rows, Cols
<1> HIDE DEF n
<1> QED BY <1>1, <1>2, <1>3

LEMMA ListArrives ==
  ASSUME XInv, NEW s, NEW r, NEW c \in Seq(DocIds) PROVE CarriedIds(s, r, c) = c
<1>1. CASE s = r \/ world.wide
  BY <1>1 DEF CarriedIds
<1>2. CASE ~(s = r \/ world.wide)
  <2>1. \A i \in DocIds : i \in Id /\ Plain(i)
    BY <1>2, GoodId DEF XInv, DocIds
  <2>2. c \in Seq(Id) /\ \A k \in 1 .. Len(c) : c[k] \in DocIds
    BY <2>1
  <2>3. RecvStrings(PackStrings(c)) = c
    BY <2>1, <2>2, StringsArrive
  <2> QED BY <1>2, <2>3 DEF CarriedIds
<1> QED BY <1>1, <1>2

\* The union that bcastring makes is the union of what the ranks have.
LEMMA UnionArrives ==
  ASSUME XInv, NEW r \in Rank PROVE NewRows(r) = RowIds(r)
<1>1. ASSUME NEW s \in RowGroup(r) PROVE CarriedIds(s, r, Rows(s)) = Rows(s)
  <2> DEFINE c == Rows(s)
  <2>1. c \in Seq(DocIds)
    BY IdListsTyped DEF RowGroup
  <2> HIDE DEF c
  <2>2. CarriedIds(s, r, c) = c
    BY <2>1, ListArrives
  <2> QED BY <2>2 DEF c
<1> QED BY <1>1 DEF NewRows, RowIds

LEMMA MapRowsStep ==
  ASSUME XInv, NEW r \in Rank, MapRows(r) PROVE DataInv' /\ PhaseInv'
<1>1. ph \in [Rank -> 0 .. 11] /\ DOMAIN rm = Rank /\ ph[r] = 7
  BY PhaseNumbers DEF XInv, PhaseInv, MapRows
<1>2. /\ UNCHANGED <<world, doc, linelst, slots, stf>> /\ ph' = [ph EXCEPT ![r] = 8]
      /\ rm' = [rm EXCEPT ![r] = Ordered(NewRows(r))]
  BY <1>1 DEF MapRows, Advance
<1>3. Rank' = Rank /\ Numbered' = Numbered /\ \A s : RowGroup(s)' = RowGroup(s)
  BY <1>2, XFrame
<1>4. /\ ph' \in [Rank -> 0 .. 11] /\ ph'[r] = 8
      /\ \A s \in Rank : s # r => ph'[s] = ph[s]
  BY <1>1, <1>2
<1>5. \A q : RowIds(q)' = RowIds(q)
  <2>1. \A s : Rows(s)' = Rows(s)
    BY <1>2 DEF Rows, Narrow
  <2> QED BY <1>3, <2>1 DEF RowIds
<1>6. ASSUME NEW s \in RowGroup(r) PROVE ph[s] >= 7
  <2>1. s \in Rank /\ Reached(s, "rows")
    BY DEF MapRows, RowGroup
  <2> QED BY <1>1, <2>1, PhaseNumbers
<1>7. rm'[r] = Ordered(RowIds(r)) /\ DOMAIN rm' = Rank /\ \A s \in Rank : s # r => rm'[s] = rm[s]
  <2>1. NewRows(r) = RowIds(r)
    BY UnionArrives
  <2> QED BY <1>1, <1>2, <2>1
<1>8. ASSUME NEW q \in Rank, Numbered, ph'[q] >= 8
      PROVE  rm'[q] = Ordered(RowIds(q)) /\ \A s \in RowGroup(q) : ph'[s] >= 7
  <2>1. rm'[q] = Ordered(RowIds(q)) /\ \A s \in RowGroup(q) : ph[s] >= 7
    <3>1. CASE q = r
      BY <1>6, <1>7, <3>1
    <3>2. CASE q # r
      <4>1. ph[q] >= 8
        BY <1>4, <1>8, <3>2
      <4> QED BY <1>7, <1>8, <3>2, <4>1 DEF XInv, PhaseInv
    <3> QED BY <3>1, <3>2
  <2>2. \A s \in RowGroup(q) : s \in Rank
    BY DEF RowGroup
  <2> QED BY <1>4, <2>1, <2>2
<1>9. PhaseInv'
  <2>1. \A q : Ordered(RowIds(q))' = Ordered(RowIds(q))
    BY <1>5
  <2> QED BY <1>3, <1>4, <1>7, <1>8, <2>1 DEF PhaseInv
<1> QED BY <1>2, <1>9, DataStays DEF XInv

LEMMA RankStepKeeps ==
  ASSUME XInv, NEW r \in Rank, NEW ls \in Seq(DocLine), RankStep(r, ls) PROVE DataInv' /\ PhaseInv'
<1>1. ph \in [Rank -> 0 .. 11] /\ ph[r] \in 0 .. 11
  BY DEF XInv, PhaseInv
<1>2. CASE Barrier(r)
  <2>1. ph[r] \in {2, 4, 6}
    BY <1>1, <1>2, PhaseNumbers DEF Barrier, Barriers
  <2>2. /\ UNCHANGED <<world, doc, linelst, slots, stf, rm>>
        /\ ph' = [ph EXCEPT ![r] = ph[r] + 1]
    BY <1>2 DEF Barrier, Advance
  <2>3. ph[r] + 1 \in 1 .. 11 /\ ph[r] + 1 >= ph[r] /\ ~ (ph[r] + 1 >= 8)
    BY <2>1
  <2> QED BY <2>2, <2>3, QuietStep
<1>3. CASE Mapped(r)
  <2>1. ph[r] = 9
    BY <1>1, <1>3, PhaseNumbers DEF Mapped
  <2> DEFINE k == 10
  <2>2. UNCHANGED <<world, doc, linelst, slots, stf, rm>> /\ ph' = [ph EXCEPT ![r] = k]
    BY <1>3, <2>1 DEF Mapped, Advance
  <2>3. k \in 1 .. 11 /\ k >= ph[r] /\ (ph[r] >= 8 \/ ~Numbered)
    BY <2>1
  <2> HIDE DEF k
  <2> QED BY <2>2, <2>3, QuietStep
<1>4. CASE Build(r)
  <2>1. ph[r] = 10
    BY <1>1, <1>4, PhaseNumbers DEF Build
  <2> DEFINE k == 11
  <2>2. UNCHANGED <<world, doc, linelst, slots, stf, rm>> /\ ph' = [ph EXCEPT ![r] = k]
    BY <1>4, <2>1 DEF Build, Advance
  <2>3. k \in 1 .. 11 /\ k >= ph[r] /\ (ph[r] >= 8 \/ ~Numbered)
    BY <2>1
  <2> HIDE DEF k
  <2> QED BY <2>2, <2>3, QuietStep
<1>5. CASE MapCols(r)
  <2>1. ph[r] = 8
    BY <1>1, <1>5, PhaseNumbers DEF MapCols
  <2> DEFINE k == 9
  <2>2. UNCHANGED <<world, doc, linelst, slots, stf, rm>> /\ ph' = [ph EXCEPT ![r] = k]
    BY <1>5, <2>1 DEF MapCols, Advance
  <2>3. k \in 1 .. 11 /\ k >= ph[r] /\ (ph[r] >= 8 \/ ~Numbered)
    BY <2>1
  <2> HIDE DEF k
  <2> QED BY <2>2, <2>3, QuietStep
<1>6. CASE SkipMapping(r)
  <2>1. ph[r] = 7 /\ ~Numbered
    BY <1>1, <1>6, PhaseNumbers DEF SkipMapping, Numbered
  <2> DEFINE k == 10
  <2>2. UNCHANGED <<world, doc, linelst, slots, stf, rm>> /\ ph' = [ph EXCEPT ![r] = k]
    BY <1>6, <2>1 DEF SkipMapping
  <2>3. k \in 1 .. 11 /\ k >= ph[r] /\ (ph[r] >= 8 \/ ~Numbered)
    BY <2>1
  <2> HIDE DEF k
  <2> QED BY <2>2, <2>3, QuietStep
<1> QED BY <1>2, <1>3, <1>4, <1>5, <1>6, FixLoadStep, LinesOrganizeStep, BuildDenseStep,
           CrashStep, ExchangeSlotsStep, MapRowsStep DEF RankStep, OrganizeFails, RecvFails

LEMMA XInit == LoadInit /\ GoodIds => XInv
<1> SUFFICES ASSUME LoadInit, GoodIds PROVE XInv OBVIOUS
<1>1. CaseInv
  <2>1. CASE world = LinesOnly /\ doc = <<>>
    <3>1. world.np = 1
      BY <2>1 DEF LinesOnly
    <3>2. doc \in Seq(Seq(Field)) /\ ~HasContents
      BY <2>1 DEF HasContents
    <3> QED BY <3>1, <3>2 DEF CaseInv
  <2>2. CASE \E c \in Cases : world = c.world /\ doc = c.doc /\ namelst = c.files /\ np = c.world.np
    BY <2>2, LoadingAssumption DEF CaseInv, AllLines
  <2> QED BY <2>1, <2>2 DEF LoadInit
<1> DEFINE e == <<>>
<1>2. /\ ph = [r \in Rank |-> 1] /\ linelst = [r \in Rank |-> e] /\ stf = [r \in Rank |-> e]
      /\ rm = [r \in Rank |-> e] /\ slots = [r \in Rank |-> [d \in Rank |-> e]]
  BY DEF LoadInit, ExchangeInit
<1>3. e \in Seq(DocLine) /\ \A d : e \in Seq(Entries(d))
  OBVIOUS
<1> HIDE DEF e
<1>4. DataInv
  BY <1>2, <1>3 DEF DataInv
<1>5. PhaseInv
  BY <1>2 DEF PhaseInv
<1> QED BY <1>1, <1>4, <1>5 DEF XInv

LEMMA InputStays == [LoadNext]_<<vars, xvars>> => UNCHANGED <<world, doc>>
<1> SUFFICES ASSUME [LoadNext]_<<vars, xvars>> PROVE UNCHANGED <<world, doc>> OBVIOUS
<1>1. CASE UNCHANGED xvars
  BY <1>1 DEF xvars
<1>2. ASSUME NEW r, NEW ls, RankStep(r, ls) PROVE UNCHANGED <<world, doc>>
  BY <1>2 DEF RankStep, FixLoad, Barrier, LinesOrganize, OrganizeFails, RecvFails, Crash,
     BuildDense, ExchangeSlots, Mapped, Build, MapRows, MapCols, SkipMapping
<1>3. CASE \E r \in Rank : RankStep(r, Given(r))
  <2>1. PICK r \in Rank : RankStep(r, Given(r))
    BY <1>3
  <2> DEFINE ls == Given(r)
  <2>2. RankStep(r, ls)
    BY <2>1
  <2> HIDE DEF ls
  <2> QED BY <1>2, <2>2
<1> QED BY <1>1, <1>3 DEF LoadNext

\* What holds while the lines become blocks (lines_organize, exchange and
\* index_mapping), whatever the input with ids that int lists and messages can
\* hold, and however the ranks are interleaved:
\* every rank has entries of the input that it owns, and from the end of its
\* index_mapping on its row map is the ordered union over its row of the grid.
THEOREM ExchangeCorrect == Load => [](GoodIds => XInv)
<1>1. (GoodIds => XInv) /\ Inv /\ [LoadNext]_<<vars, xvars>> => (GoodIds => XInv)'
  <2> SUFFICES ASSUME GoodIds => XInv, GoodIds', Inv, [LoadNext]_<<vars, xvars>> PROVE XInv'
    OBVIOUS
  <2>0. GoodIds' = GoodIds
    BY InputStays, GoodStays
  <2>4. XInv
    BY <2>0
  <2>1. CASE UNCHANGED xvars /\ UNCHANGED <<namelst, np>>
    <3>1. UNCHANGED <<world, doc, linelst, slots, stf, rm, ph, namelst, np>>
      BY <2>1 DEF xvars
    <3>2. CaseInv'
      BY <2>4, <3>1 DEF XInv, CaseInv, HasContents, AllLines
    <3>3. Rank' = Rank /\ ph \in [Rank -> 0 .. 11] /\ DOMAIN rm = Rank
      BY <2>4, <3>1, XFrame DEF XInv, PhaseInv
    <3>4. PhaseInv'
      BY <2>4, <3>1, <3>3, PhaseMoves DEF XInv
    <3> QED BY <2>4, <3>1, <3>2, <3>4, DataStays DEF XInv
  <2>2. CASE pc = "done" /\ HasContents /\ (\E r \in Rank : RankStep(r, Given(r))) /\ UNCHANGED vars
    <3>1. PICK r \in Rank : RankStep(r, Given(r))
      BY <2>2
    <3>2. Given(r) \in Seq(DocLine)
      BY <2>2, <2>4, GivenTyped DEF XInv
    <3>3. DataInv' /\ PhaseInv'
      <4> DEFINE ls == Given(r)
      <4>1. ls \in Seq(DocLine) /\ RankStep(r, ls)
        BY <3>1, <3>2
      <4> HIDE DEF ls
      <4> QED BY <2>4, <4>1, RankStepKeeps
    <3>4. UNCHANGED <<world, doc, namelst, np>>
      BY <2>2, InputStays DEF vars
    <3>5. CaseInv'
      BY <2>4, <3>4 DEF XInv, CaseInv, HasContents, AllLines
    <3> QED BY <3>3, <3>5 DEF XInv
  <2>3. Cut => UNCHANGED <<namelst, np>>
    BY DEF Cut, FilesPartition, StartBlock, ReadWholeFile, ReadLastFile, EndBlock, inputs
  <2> QED BY <2>1, <2>2, <2>3 DEF LoadNext, vars
<1> QED BY <1>1, XInit, LoadingCorrect, PTL DEF Load

\* index_mapping numbers the rows alike on all ranks of a row of the process
\* grid, also while some of them are still in it, and never numbers a row in
\* two rows of the grid: for every number of ranks, pattern, hash and input
\* whose numbers an int holds, or whose names have no word of the separators.
THEOREM RowsNumberedAlike == Load => []RowsAgree
<1>1. (GoodIds => XInv) => RowsAgree
  <2> SUFFICES ASSUME XInv, NEW r \in Rank, NEW s \in Rank,
                      Numbered, At(r, "done"), At(s, "done")
               PROVE  IF s \in RowGroup(r) THEN rm[r] = rm[s]
                      ELSE ToSet(rm[r]) \cap ToSet(rm[s]) = {}
    BY DEF RowsAgree
  <2>1. ph[r] = 11 /\ ph[s] = 11
    BY PhaseNumbers DEF XInv, PhaseInv
  <2>2. rm[r] = Ordered(RowIds(r)) /\ rm[s] = Ordered(RowIds(s))
    BY <2>1 DEF XInv, PhaseInv
  <2>3. CASE s \in RowGroup(r)
    <3>1. RowGroup(s) = RowGroup(r)
      BY <2>3 DEF RowGroup
    <3>2. RowIds(s) = RowIds(r)
      BY <3>1 DEF RowIds
    <3> QED BY <2>2, <2>3, <3>2
  <2>4. CASE s \notin RowGroup(r)
    <3>1. ASSUME NEW q \in Rank
          PROVE  RowIds(q) \subseteq {i \in Id : Hash(i) % Grid.x = q \div Grid.y}
      <4> SUFFICES ASSUME NEW p \in RowGroup(q), NEW v \in ToSet(Rows(p))
                   PROVE  v \in Id /\ Hash(v) % Grid.x = q \div Grid.y
        BY DEF RowIds
      <4>0. p \in Rank /\ p \div Grid.y = q \div Grid.y
        BY DEF RowGroup
      <4>1. stf[p] \in Seq(Entries(p))
        BY <4>0 DEF XInv, DataInv
      <4>2. PICK k \in 1 .. Len(stf[p]) : v = Narrow(stf[p][k].row)
        BY DEF ToSet, Rows
      <4> DEFINE t == stf[p][k]
      <4>3. t \in Entries(p)
        BY <4>1
      <4>4. v = Narrow(t.row)
        BY <4>2
      <4> HIDE DEF t
      <4>5. t.row \in DocIds /\ t.col \in DocIds /\ Owner(t.row, t.col) = p
        BY <4>3 DEF Entries, AnyEntry
      <4>6. t.row \in Id /\ t.col \in Id
        BY <4>5 DEF DocIds
      <4>7. v = t.row
        <5> DEFINE i == t.row
        <5>1. i \in DocIds /\ v = Narrow(i)
          BY <4>4, <4>5
        <5> HIDE DEF i
        <5> QED BY <5>1, NarrowIs DEF i, XInv
      <4>8. Owner(t.row, t.col) \div Grid.y = Hash(t.row) % Grid.x
        <5> DEFINE i == t.row
                   j == t.col
        <5>1. i \in Id /\ j \in Id
          BY <4>6
        <5> HIDE DEF i, j
        <5>2. Owner(i, j) \div Grid.y = Hash(i) % Grid.x
          BY <5>1, OwnerRow DEF XInv, CaseInv
        <5> QED BY <5>2 DEF i, j
      <4> QED BY <4>0, <4>5, <4>6, <4>7, <4>8
    <3>2. s \div Grid.y # r \div Grid.y
      BY <2>4 DEF RowGroup
    <3>3. ToSet(rm[r]) \subseteq RowIds(r) /\ ToSet(rm[s]) \subseteq RowIds(s)
      <4>1. RowIds(r) \subseteq Id /\ RowIds(s) \subseteq Id
        BY <3>1
      <4> QED BY <2>2, <4>1, OrderedIn
    <3> QED BY <2>4, <3>1, <3>2, <3>3
  <2> QED BY <2>3, <2>4
<1> QED BY <1>1, ExchangeCorrect, PTL

-----------------------------------------------------------------------------
(***************************************************************************)
(* The cells of lists of entries.                                          *)
(***************************************************************************)
LEMMA CellsAre ==
  ASSUME NEW A, NEW ts \in Seq(A) PROVE Cells(ts) = {<<t.row, t.col>> : t \in ToSet(ts)}
<1>1. DOMAIN ts = 1 .. Len(ts)
  OBVIOUS
<1> QED BY <1>1 DEF Cells, ToSet

LEMMA ToSetConcat ==
  ASSUME NEW A, NEW s \in Seq(A), NEW x \in Seq(A) PROVE ToSet(s \o x) = ToSet(s) \cup ToSet(x)
<1> DEFINE n == Len(s)
           m == Len(x)
           w == s \o x
<1>1. /\ n \in Nat /\ m \in Nat /\ DOMAIN s = 1 .. n /\ DOMAIN x = 1 .. m /\ DOMAIN w = 1 .. n + m
      /\ \A k \in 1 .. n + m : w[k] = IF k <= n THEN s[k] ELSE x[k - n]
  OBVIOUS
<1> HIDE DEF n, m, w
<1>2. ASSUME NEW k \in 1 .. n + m PROVE w[k] \in ToSet(s) \cup ToSet(x)
  <2>1. CASE k <= n
    <3>1. k \in 1 .. n /\ w[k] = s[k]
      BY <1>1, <2>1
    <3> QED BY <1>1, <3>1 DEF ToSet
  <2>2. CASE ~ (k <= n)
    <3>1. k - n \in 1 .. m /\ w[k] = x[k - n]
      BY <1>1, <2>2
    <3> QED BY <1>1, <3>1 DEF ToSet
  <2> QED BY <2>1, <2>2
<1>3. ASSUME NEW k \in 1 .. n PROVE s[k] \in ToSet(w)
  <2>1. k \in 1 .. n + m /\ w[k] = s[k]
    BY <1>1
  <2> QED BY <1>1, <2>1 DEF ToSet
<1>4. ASSUME NEW k \in 1 .. m PROVE x[k] \in ToSet(w)
  <2>1. k + n \in 1 .. n + m /\ ~ (k + n <= n) /\ (k + n) - n = k
    BY <1>1
  <2>2. w[k + n] = x[k]
    BY <1>1, <2>1
  <2> QED BY <1>1, <2>1, <2>2 DEF ToSet
<1>5. ToSet(w) = ToSet(s) \cup ToSet(x)
  <2>1. ToSet(w) \subseteq ToSet(s) \cup ToSet(x)
    BY <1>1, <1>2 DEF ToSet
  <2>2. ToSet(s) \subseteq ToSet(w)
    BY <1>1, <1>3 DEF ToSet
  <2>3. ToSet(x) \subseteq ToSet(w)
    BY <1>1, <1>4 DEF ToSet
  <2> QED BY <2>1, <2>2, <2>3
<1> QED BY <1>5 DEF w

\* The elements of a flattened sequence.
Members(ss) == UNION {ToSet(ss[k]) : k \in 1 .. Len(ss)}

LEMMA FlattenMembers ==
  ASSUME NEW A, NEW ss \in Seq(Seq(A)) PROVE ToSet(FlattenSeq(ss)) = Members(ss)
<1> DEFINE T == {n \in Nat : \A s \in Seq(Seq(A)) : Len(s) = n => ToSet(FlattenSeq(s)) = Members(s)}
<1>1. 0 \in T
  <2> SUFFICES ASSUME NEW s \in Seq(Seq(A)), Len(s) = 0 PROVE ToSet(FlattenSeq(s)) = Members(s)
    OBVIOUS
  <2>1. FlattenSeq(s) = <<>>
    BY Flattened
  <2>2. ToSet(<<>>) = {} /\ Members(s) = {}
    BY DEF ToSet, Members
  <2> QED BY <2>1, <2>2
<1>2. ASSUME NEW n \in Nat, n \in T PROVE n + 1 \in T
  <2> SUFFICES ASSUME NEW s \in Seq(Seq(A)), Len(s) = n + 1 PROVE ToSet(FlattenSeq(s)) = Members(s)
    OBVIOUS
  <2>1. PICK fr \in Seq(Seq(A)), x \in Seq(A) : s = Append(fr, x) /\ Len(s) = Len(fr) + 1
    <3>1. s # <<>>
      OBVIOUS
    <3> DEFINE B == Seq(A)
    <3>2. s \in Seq(B)
      OBVIOUS
    <3> HIDE DEF B
    <3>3. \E fr \in Seq(B), x \in B : s = Append(fr, x) /\ Len(s) = Len(fr) + 1
      BY <3>1, <3>2, LastOf
    <3> QED BY <3>3 DEF B
  <2>2. Len(fr) = n /\ s[n + 1] = x /\ \A k \in 1 .. n : s[k] = fr[k]
    BY <2>1
  <2>3. ToSet(FlattenSeq(fr)) = Members(fr)
    BY <1>2, <2>2
  <2>4. FlattenSeq(s) = FlattenSeq(fr) \o x /\ FlattenSeq(fr) \in Seq(A)
    BY <2>1, Flattened
  <2>5. ToSet(FlattenSeq(s)) = Members(fr) \cup ToSet(x)
    <3> DEFINE f == FlattenSeq(fr)
    <3>1. f \in Seq(A) /\ FlattenSeq(s) = f \o x /\ ToSet(f) = Members(fr)
      BY <2>3, <2>4
    <3> HIDE DEF f
    <3> QED BY <3>1, ToSetConcat
  <2>6. Members(s) = Members(fr) \cup ToSet(x)
    <3>1. \A k \in 1 .. n + 1 : k \in 1 .. n \/ k = n + 1
      OBVIOUS
    <3>2. n + 1 \in 1 .. n + 1 /\ \A k \in 1 .. n : k \in 1 .. n + 1
      OBVIOUS
    <3>3. Members(s) = UNION {ToSet(s[k]) : k \in 1 .. n + 1} /\ Members(fr) = UNION {ToSet(fr[k]) : k \in 1 .. n}
      BY <2>2 DEF Members
    <3>4. Members(s) \subseteq Members(fr) \cup ToSet(x)
      BY <2>2, <3>1, <3>3
    <3>5. Members(fr) \subseteq Members(s) /\ ToSet(x) \subseteq Members(s)
      BY <2>2, <3>2, <3>3
    <3> QED BY <3>4, <3>5
  <2> QED BY <2>5, <2>6
<1> HIDE DEF T
<1>3. Len(ss) \in T
  <2>1. Len(ss) \in Nat
    OBVIOUS
  <2> QED BY <1>1, <1>2, <2>1, CountingUp
<1> QED BY <1>3 DEF T

LEMMA CellsFlatten ==
  ASSUME NEW A, NEW ss \in Seq(Seq(A))
  PROVE  Cells(FlattenSeq(ss)) = UNION {Cells(ss[k]) : k \in 1 .. Len(ss)}
<1>1. FlattenSeq(ss) \in Seq(A) /\ ToSet(FlattenSeq(ss)) = Members(ss)
  BY Flattened, FlattenMembers
<1>2. Cells(FlattenSeq(ss)) = {<<t.row, t.col>> : t \in Members(ss)}
  BY <1>1, CellsAre
<1>3. ASSUME NEW k \in 1 .. Len(ss) PROVE Cells(ss[k]) = {<<t.row, t.col>> : t \in ToSet(ss[k])}
  <2>1. ss[k] \in Seq(A)
    OBVIOUS
  <2> QED BY <2>1, CellsAre
<1> QED BY <1>2, <1>3 DEF Members

LEMMA CellsOwned ==
  ASSUME NEW d, NEW ts \in Seq(AnyEntry)
  PROVE  Cells(OwnedBy(d, ts)) = {c \in Cells(ts) : Owner(c[1], c[2]) = d}
<1> DEFINE S == {t \in ToSet(ts) : Owner(t.row, t.col) = d}
           o == OwnedBy(d, ts)
<1>1. o = Among(ts, S)
  BY DEF OwnedBy
<1>2. o \in Seq(Entries(d))
  BY OwnedTyped
<1>3. ToSet(o) = ToSet(ts) \cap S
  <2> HIDE DEF S, o
  <2> QED BY <1>1, AmongIs
<1> HIDE DEF o
<1>4. Cells(o) = {<<t.row, t.col>> : t \in S}
  <2>1. ToSet(o) = S
    BY <1>3
  <2> HIDE DEF S
  <2> QED BY <1>2, <2>1, CellsAre
<1>5. Cells(ts) = {<<t.row, t.col>> : t \in ToSet(ts)}
  BY CellsAre
<1>6. \A i, j : <<i, j>>[1] = i /\ <<i, j>>[2] = j
  OBVIOUS
<1>7. Cells(o) = {c \in Cells(ts) : Owner(c[1], c[2]) = d}
  BY <1>4, <1>5, <1>6
<1> QED BY <1>7 DEF o

LEMMA CellsCarried ==
  ASSUME GoodIds, NEW d, NEW s, NEW r, NEW ts \in Seq(Entries(d)) PROVE Cells(Carried(s, r, ts)) = Cells(ts)
<1>1. CASE s = r
  BY <1>1 DEF Carried
<1>2. CASE s # r
  <2> DEFINE n == Len(ts)
             u == Carried(s, r, ts)
  <2>1. n \in Nat
    OBVIOUS
  <2>3. u = [k \in 1 .. n |-> Rounded(ts[k])]
    BY <1>2, EntriesArrive DEF Carried
  <2>4. Len(u) = n /\ \A k \in 1 .. n : u[k].row = ts[k].row /\ u[k].col = ts[k].col
    <3> HIDE DEF n, u
    <3> QED BY <2>1, <2>3 DEF Rounded
  <2> HIDE DEF u
  <2>5. Cells(u) = Cells(ts)
    BY <2>4 DEF Cells
  <2> QED BY <2>5 DEF u
<1> QED BY <1>1, <1>2

\* The ring brings the slot of every rank.
LEMMA EverySender ==
  ASSUME NEW n \in Nat \ {0}, NEW r \in 0 .. n - 1, NEW s \in 0 .. n - 1
  PROVE  \E k \in 1 .. n : (2 * r + n - (k - 1)) % n = s
<1>1. s % n = s /\ (s + n) % n = s /\ (s + 2 * n) % n = s
  BY Z3T(30)
<1>2. CASE 2 * r - s < 0
  <2> DEFINE k == 2 * r - s + n + 1
  <2>1. k \in 1 .. n /\ 2 * r + n - (k - 1) = s
    BY <1>2
  <2> QED BY <1>1, <2>1
<1>3. CASE 2 * r - s >= 0 /\ 2 * r - s < n
  <2> DEFINE k == 2 * r - s + 1
  <2>1. k \in 1 .. n /\ 2 * r + n - (k - 1) = s + n
    BY <1>3
  <2> QED BY <1>1, <2>1
<1>4. CASE 2 * r - s >= n
  <2> DEFINE k == 2 * r - s - n + 1
  <2>1. k \in 1 .. n /\ 2 * r + n - (k - 1) = s + 2 * n
    BY <1>4
  <2> QED BY <1>1, <2>1
<1> QED BY <1>2, <1>3, <1>4

\* The number that index_mapping gives to an id leads back to it.
LEMMA IndexIs ==
  ASSUME NEW S, S \subseteq Id, NEW x \in S
  PROVE  Ordered(S)[IndexOf(Ordered(S), x) + 1] = x
<1> DEFINE o == Ordered(S)
           k == CHOOSE k \in 1 .. Len(o) : o[k] = x
<1>1. \E j \in 1 .. Len(o) : o[j] = x
  BY OrderedLists
<1>2. Len(o) \in Nat
  <2>1. o \in Seq(S)
    BY OrderedLists
  <2> HIDE DEF o
  <2> QED BY <2>1
<1> HIDE DEF o
<1>3. k \in 1 .. Len(o) /\ o[k] = x
  BY <1>1
<1>4. IndexOf(o, x) = k - 1
  BY <1>1 DEF IndexOf
<1> HIDE DEF k
<1>5. IndexOf(o, x) + 1 = k
  BY <1>2, <1>3, <1>4
<1> QED BY <1>3, <1>5 DEF o

LEMMA NarrowTyped ==
  ASSUME NEW i \in Id PROVE Narrow(i) \in Id
<1> DEFINE I == IntLimit
           D == IdLimit
           x == ((i + I) % (2 * I)) - I
<1>1. I \in Nat \ {0} /\ D \in Nat /\ I < D /\ i \in 0 .. D - 1
  BY ExchangeAssumption, Limit DEF Id
<1>2. x \in - I .. I - 1
  <2>1. i + I \in Nat /\ 2 * I \in Nat \ {0}
    BY <1>1
  <2>2. (i + I) % (2 * I) \in 0 .. 2 * I - 1
    <3> HIDE DEF I, D
    <3> QED BY <2>1
  <2> QED BY <1>1, <2>2
<1>3. Narrow(i) = IF ~world.wide THEN i ELSE IF x < 0 THEN D + x ELSE x
  BY DEF Narrow
<1> HIDE DEF x, I
<1> QED BY <1>1, <1>2, <1>3 DEF Id

-----------------------------------------------------------------------------
(***************************************************************************)
(* The cells of the lines that the ranks load are the cells of the input.  *)
(***************************************************************************)
CellsOfLines(ls) == UNION {Cells(Triples(ls[k])) : k \in 1 .. Len(ls)}
AllSupported(ls) == \A k \in 1 .. Len(ls) : Supported(ls[k])

LEMMA OrganizedCells ==
  ASSUME NEW ls \in Seq(DocLine), AllSupported(ls) PROVE Cells(Organized(ls)) = CellsOfLines(ls)
<1> DEFINE n == Len(ls)
           ss == [k \in 1 .. n |-> Triples(ls[k])]
<1>1. n \in Nat /\ \A k \in 1 .. n : ls[k] \in DocLine
  OBVIOUS
<1>2. \A k \in 1 .. n : Triples(ls[k]) \in Seq(AnyEntry)
  BY <1>1, TriplesTyped DEF AllSupported
<1>3. Organized(ls) = FlattenSeq(ss) /\ CellsOfLines(ls) = UNION {Cells(Triples(ls[k])) : k \in 1 .. n}
  BY DEF Organized, CellsOfLines
<1> HIDE DEF n
<1>4. ss \in Seq(Seq(AnyEntry)) /\ Len(ss) = n /\ \A k \in 1 .. n : ss[k] = Triples(ls[k])
  BY <1>1, <1>2
<1> HIDE DEF ss
<1>5. Cells(Organized(ls)) = UNION {Cells(ss[k]) : k \in 1 .. n}
  BY <1>3, <1>4, CellsFlatten
<1> QED BY <1>3, <1>4, <1>5

\* The lines of a rank, by the places at which they were loaded.
LEMMA GivenIs ==
  ASSUME Inv, CaseInv, pc = "done", HasContents, NEW r
  PROVE  /\ \A k \in 1 .. Len(Given(r)) : \E i \in 1 .. Len(doc) : Given(r)[k] = doc[i]
         /\ \A j \in DOMAIN lines : lines[j][3] = r =>
              \E k \in 1 .. Len(Given(r)) : Given(r)[k] = Parsed(lines[j])
<1> DEFINE S == {l \in ToSet(lines) : l[3] = r}
           mine == Among(lines, S)
           L == Nat \X Nat \X Nat
           n == Len(mine)
<1>1. LinesInv
  BY DEF Inv, Opened
<1>2. lines \in Seq(L) /\ \A k \in DOMAIN lines : <<lines[k][1], lines[k][2]>> \in AllLines
  BY <1>1 DEF LinesInv
<1>3. mine \in Seq(L \cap S) /\ ToSet(mine) = ToSet(lines) \cap S
  <2> HIDE DEF S, L
  <2> QED BY <1>2, AmongIs
<1>4. ASSUME NEW l \in ToSet(lines) \cap S PROVE <<l[1], l[2]>> \in AllLines
  BY <1>2 DEF ToSet
<1>5. n \in Nat /\ DOMAIN mine = 1 .. n
  <2> DEFINE A == L \cap S
  <2>1. mine \in Seq(A)
    BY <1>3
  <2> HIDE DEF A, mine
  <2> QED BY <2>1
<1>6. \A k \in 1 .. n : mine[k] \in ToSet(lines) \cap S
  <2> HIDE DEF mine, S
  <2> QED BY <1>3, <1>5 DEF ToSet
<1>7. Given(r) = [k \in 1 .. n |-> Parsed(mine[k])]
  BY DEF Given
<1>8. ASSUME NEW j \in DOMAIN lines, lines[j][3] = r PROVE \E k \in 1 .. n : mine[k] = lines[j]
  <2>1. lines[j] \in ToSet(mine)
    <3>1. lines[j] \in ToSet(lines) /\ lines[j] \in S
      BY <1>8 DEF ToSet
    <3> HIDE DEF mine, S
    <3> QED BY <1>3, <3>1
  <2> HIDE DEF mine
  <2> QED BY <1>5, <2>1 DEF ToSet
<1> HIDE DEF n, mine, L, S
<1>9. Len(Given(r)) = n
  BY <1>5, <1>7
<1>10. ASSUME NEW k \in 1 .. n PROVE \E i \in 1 .. Len(doc) : Given(r)[k] = doc[i]
  <2> DEFINE l == mine[k]
  <2>1. <<l[1], l[2]>> \in AllLines /\ Given(r)[k] = Parsed(l)
    BY <1>4, <1>6, <1>7
  <2> HIDE DEF l
  <2> QED BY <2>1, ParsedLine
<1>11. ASSUME NEW j \in DOMAIN lines, lines[j][3] = r PROVE \E k \in 1 .. n : Given(r)[k] = Parsed(lines[j])
  BY <1>7, <1>8, <1>11
<1> QED BY <1>9, <1>10, <1>11

GlobalOf == [l \in AllLines |-> Global(l)]

LEMMA LinesRank ==
  ASSUME InputInv, RangeInv
  PROVE  /\ Ranking(AllLines, GlobalOf)
         /\ \A x \in AllLines : {y \in AllLines : Before(y, x)} = Below(GlobalOf, AllLines, x)
<1>1. IsFiniteSet(AllLines)
  BY LinesFinite
<1>2. ASSUME NEW x \in AllLines, NEW y \in AllLines
      PROVE  /\ GlobalOf[x] \in Nat /\ (GlobalOf[x] = GlobalOf[y] => x = y)
             /\ Before(y, x) <=> GlobalOf[y] < GlobalOf[x]
  <2>1. GlobalOf[x] = Global(x) /\ GlobalOf[y] = Global(y)
    BY DEF GlobalOf
  <2>2. Global(x) \in Nat /\ (Global(x) = Global(y) => x = y) /\ (Before(y, x) <=> Global(y) < Global(x))
    BY GlobalOrders
  <2> QED BY <2>1, <2>2
<1>3. GlobalOf \in [AllLines -> Nat]
  BY <1>2 DEF GlobalOf
<1>4. Ranking(AllLines, GlobalOf)
  BY <1>1, <1>2, <1>3 DEF Ranking
<1> QED BY <1>2, <1>4 DEF Below

\* Every line of the input is among the lines of some rank.
LEMMA DocGiven ==
  ASSUME Inv, RankedInv, CaseInv, pc = "done", HasContents, LoadsEveryLine, NoBlankLine,
         NEW i \in 1 .. Len(doc)
  PROVE  \E s \in Rank : \E k \in 1 .. Len(Given(s)) : Given(s)[k] = doc[i]
<1>1. InputInv /\ RangeInv
  BY DEF Inv, Opened
<1>2. np = world.np /\ Len(doc) = Cardinality(AllLines)
  BY DEF CaseInv
<1>3. PICK x \in AllLines : Cardinality(Below(GlobalOf, AllLines, x)) = i - 1
  <2>1. Ranking(AllLines, GlobalOf) /\ i \in 1 .. Cardinality(AllLines)
    BY <1>1, <1>2, LinesRank
  <2> QED BY <2>1, PlacesTaken
<1>4. PICK j \in DOMAIN lines : <<lines[j][1], lines[j][2]>> = x
  BY DEF LoadsEveryLine
<1> DEFINE l == lines[j]
           s == l[3]
<1>5. x[1] = l[1] /\ x[2] = l[2]
  BY <1>4
<1>6. Parsed(l) = doc[i]
  <2> DEFINE B == {y \in AllLines : Before(y, l)}
             C == {y \in AllLines : Before(y, x)}
  <2>1. B = C
    <3> HIDE DEF l
    <3> QED BY <1>5 DEF Before
  <2>2. C = Below(GlobalOf, AllLines, x)
    BY <1>1, LinesRank
  <2>3. Parsed(l) = doc[Cardinality(B) + 1]
    BY DEF Parsed
  <2> HIDE DEF B, C, l
  <2>4. Cardinality(B) + 1 = i
    <3>1. Cardinality(B) = i - 1 /\ i \in Int
      BY <1>2, <1>3, <2>1, <2>2
    <3> QED BY <3>1
  <2> QED BY <2>3, <2>4
<1>7. s \in Rank
  BY <1>2 DEF RankedInv, Rank
<1>8. \E k \in 1 .. Len(Given(s)) : Given(s)[k] = Parsed(l)
  <2> HIDE DEF s
  <2>1. lines[j][3] = s
    BY DEF s
  <2> QED BY <2>1, GivenIs
<1> HIDE DEF s
<1> QED BY <1>6, <1>7, <1>8

GivenCells == UNION {CellsOfLines(Given(s)) : s \in Rank}

\* What the ranks have loaded is the input.
LEMMA GivenCovers ==
  ASSUME Inv, RankedInv, CaseInv, pc = "done", HasContents, LoadsEveryLine, NoBlankLine,
         \A s \in Rank : AllSupported(Given(s))
  PROVE  Cells(Organized(doc)) = GivenCells
<1>1. ASSUME NEW i \in 1 .. Len(doc)
      PROVE  \E s \in Rank : \E k \in 1 .. Len(Given(s)) : Given(s)[k] = doc[i]
  BY DocGiven
<1>2. ASSUME NEW s \in Rank, NEW k \in 1 .. Len(Given(s)) PROVE \E i \in 1 .. Len(doc) : Given(s)[k] = doc[i]
  BY GivenIs
<1>3. doc \in Seq(DocLine)
  <2>1. doc \in Seq(Seq(Field)) /\ \A i \in 1 .. Len(doc) : doc[i] \in DocLine
    BY DocTyped DEF CaseInv
  <2>2. \A i \in 1 .. Len(doc) : doc[i] \in DocLine
    BY <2>1
  <2>3. Len(doc) \in Nat /\ doc = [i \in 1 .. Len(doc) |-> doc[i]]
    BY <2>1
  <2> QED BY <2>2, <2>3
<1>4. AllSupported(doc)
  BY <1>1 DEF AllSupported
<1>5. Cells(Organized(doc)) = CellsOfLines(doc)
  BY <1>3, <1>4, OrganizedCells
<1>6. CellsOfLines(doc) \subseteq GivenCells
  <2> SUFFICES ASSUME NEW i \in 1 .. Len(doc), NEW c \in Cells(Triples(doc[i])) PROVE c \in GivenCells
    BY DEF CellsOfLines
  <2>0. PICK s \in Rank : \E k \in 1 .. Len(Given(s)) : Given(s)[k] = doc[i]
    BY <1>1
  <2>1. PICK k \in 1 .. Len(Given(s)) : Given(s)[k] = doc[i]
    BY <2>0
  <2>2. c \in CellsOfLines(Given(s))
    BY <2>1 DEF CellsOfLines
  <2> QED BY <2>2 DEF GivenCells
<1>7. GivenCells \subseteq CellsOfLines(doc)
  <2> SUFFICES ASSUME NEW s \in Rank, NEW k \in 1 .. Len(Given(s)), NEW c \in Cells(Triples(Given(s)[k]))
               PROVE  c \in CellsOfLines(doc)
    BY DEF CellsOfLines, GivenCells
  <2>1. PICK i \in 1 .. Len(doc) : Given(s)[k] = doc[i]
    BY <1>2
  <2> QED BY <2>1 DEF CellsOfLines
<1> QED BY <1>5, <1>6, <1>7

-----------------------------------------------------------------------------
(***************************************************************************)
(* What a rank holds in each phase: its lines, then its slots with the     *)
(* cells of its lines, then the cells that it owns of the lines of all     *)
(* ranks, under their ids and then under their numbers.                    *)
(***************************************************************************)
Sparse == world.product # "dense"
Owned(C, d) == {c \in C : Owner(c[1], c[2]) = d}

Renumbered(ts, rows, cols) ==
  [k \in 1 .. Len(ts) |->
     [row |-> IndexOf(rows, ts[k].row), col |-> IndexOf(cols, ts[k].col), w |-> ts[k].w]]

OneEach(bs, ts) ==
  /\ {<<b.row, b.col>> : b \in bs} = Cells(ts)
  /\ \A a, b \in bs : a.row = b.row /\ a.col = b.col => a = b

HeldLines(r) == ph[r] \in 2 .. 3 => linelst[r] = Given(r)
HeldSlots(r) == Sparse /\ ph[r] >= 4 =>
  AllSupported(Given(r)) /\ \A d \in Rank : Cells(slots[r][d]) = Owned(CellsOfLines(Given(r)), d)
HeldEntries(r) == Sparse /\ ph[r] >= 6 =>
  (\A s \in Rank : AllSupported(Given(s))) /\ Cells(stf[r]) = Owned(GivenCells, r)
HeldNumbers(r) == Numbered /\ ph[r] >= 9 =>
  /\ mapped[r] = Renumbered(stf[r], rm[r], cm[r])
  /\ \E S \in SUBSET Id : ToSet(Cols(r)) \subseteq S /\ cm[r] = Ordered(S)
HeldNames(r) == Sparse /\ ~Numbered =>
  ph[r] \notin {8, 9} /\ (ph[r] >= 10 => mapped[r] = stf[r])
HeldBlock(r) == Sparse /\ ph[r] = 11 => OneEach(built[r], mapped[r])

Held(r) ==
  HeldLines(r) /\ HeldSlots(r) /\ HeldEntries(r) /\ HeldNumbers(r) /\ HeldNames(r) /\ HeldBlock(r)

ExactInv ==
  /\ DOMAIN cm = Rank /\ DOMAIN mapped = Rank /\ DOMAIN built = Rank
  /\ pc # "done" \/ ~HasContents => \A r \in Rank : ph[r] = 1
  /\ \A r \in Rank : Held(r)

\* The lines of the ranks are settled when the files are loaded.
LEMMA GivenStays ==
  ASSUME UNCHANGED <<vars, world, doc>>
  PROVE  /\ Rank' = Rank /\ Sparse' = Sparse /\ Numbered' = Numbered
         /\ \A s : Given(s)' = Given(s)
         /\ \A ls : AllSupported(ls)' = AllSupported(ls)
         /\ \A ls : CellsOfLines(ls)' = CellsOfLines(ls)
         /\ \A C, d : Owned(C, d)' = Owned(C, d)
         /\ GivenCells' = GivenCells
<1>1. Rank' = Rank /\ Sparse' = Sparse /\ Numbered' = Numbered
  BY DEF Rank, Sparse, Numbered
<1>2. lines' = lines /\ namelst' = namelst /\ doc' = doc
  BY DEF vars
<1>3. AllLines' = AllLines
  BY <1>2 DEF AllLines
<1>4. \A l : Parsed(l)' = Parsed(l)
  BY <1>2, <1>3 DEF Parsed, Before
<1>5. \A s : Given(s)' = Given(s)
  BY <1>2, <1>4 DEF Given
<1>6. \A ls : AllSupported(ls)' = AllSupported(ls)
  BY DEF AllSupported, Supported, Splits
<1>7. \A ls : CellsOfLines(ls)' = CellsOfLines(ls)
  BY DEF CellsOfLines, Triples, Entry, Splits
<1>8. \A C, d : Owned(C, d)' = Owned(C, d)
  BY DEF Owned, Owner, Grid
<1>9. GivenCells' = GivenCells
  BY <1>1, <1>5, <1>7 DEF GivenCells
<1> QED BY <1>1, <1>5, <1>6, <1>7, <1>8, <1>9

LEMMA LinesStay ==
  ASSUME UNCHANGED <<vars, world, doc>>, NEW q, HeldLines(q),
         ph'[q] \in 2 .. 3 => ph[q] \in 2 .. 3 /\ linelst'[q] = linelst[q]
  PROVE  HeldLines(q)'
  BY GivenStays DEF HeldLines

LEMMA SlotsStay ==
  ASSUME UNCHANGED <<vars, world, doc>>, NEW q, HeldSlots(q),
         Sparse /\ ph'[q] >= 4 => ph[q] >= 4 /\ slots'[q] = slots[q]
  PROVE  HeldSlots(q)'
<1>1. Sparse' = Sparse /\ Rank' = Rank
  BY GivenStays
<1>2. AllSupported(Given(q))' = AllSupported(Given(q))
  BY GivenStays DEF AllSupported, Supported, Splits
<1>3. \A d : Owned(CellsOfLines(Given(q)), d)' = Owned(CellsOfLines(Given(q)), d)
  BY GivenStays
<1> QED BY <1>1, <1>2, <1>3 DEF HeldSlots

LEMMA EntriesStay ==
  ASSUME UNCHANGED <<vars, world, doc>>, NEW q, HeldEntries(q),
         Sparse /\ ph'[q] >= 6 => ph[q] >= 6 /\ stf'[q] = stf[q]
  PROVE  HeldEntries(q)'
<1>1. Sparse' = Sparse /\ Rank' = Rank
  BY GivenStays
<1>2. \A s : AllSupported(Given(s))' = AllSupported(Given(s))
  BY GivenStays
<1>3. Owned(GivenCells, q)' = Owned(GivenCells, q)
  BY GivenStays
<1> QED BY <1>1, <1>2, <1>3 DEF HeldEntries

LEMMA NumbersStay ==
  ASSUME UNCHANGED <<vars, world, doc>>, NEW q, HeldNumbers(q),
         Numbered /\ ph'[q] >= 9 =>
           ph[q] >= 9 /\ stf'[q] = stf[q] /\ rm'[q] = rm[q] /\ cm'[q] = cm[q] /\ mapped'[q] = mapped[q]
  PROVE  HeldNumbers(q)'
<1>1. Numbered' = Numbered /\ Id' = Id
  BY GivenStays DEF Id
<1>2. stf'[q] = stf[q] => Cols(q)' = Cols(q)
  BY DEF Cols, Narrow
<1> QED BY <1>1, <1>2 DEF HeldNumbers

LEMMA NamesStay ==
  ASSUME UNCHANGED <<vars, world, doc>>, NEW q, HeldNames(q),
         Sparse /\ ~Numbered =>
           /\ ph'[q] \notin {8, 9}
           /\ ph'[q] >= 10 => ph[q] >= 10 /\ stf'[q] = stf[q] /\ mapped'[q] = mapped[q]
  PROVE  HeldNames(q)'
  BY GivenStays DEF HeldNames

LEMMA BlockStays ==
  ASSUME UNCHANGED <<vars, world, doc>>, NEW q, HeldBlock(q),
         Sparse /\ ph'[q] = 11 => ph[q] = 11 /\ built'[q] = built[q] /\ mapped'[q] = mapped[q]
  PROVE  HeldBlock(q)'
  BY GivenStays DEF HeldBlock

\* A rank that the step does not move, or that an exception ends.
LEMMA HeldStays ==
  ASSUME UNCHANGED <<vars, world, doc>>, NEW q, Held(q), ph'[q] \in {0, ph[q]}, ph[q] \in 0 .. 11,
         linelst'[q] = linelst[q], slots'[q] = slots[q], stf'[q] = stf[q], rm'[q] = rm[q],
         cm'[q] = cm[q], mapped'[q] = mapped[q], built'[q] = built[q]
  PROVE  Held(q)'
<1>1. HeldLines(q)'
  BY LinesStay DEF Held
<1>2. HeldSlots(q)'
  BY SlotsStay DEF Held
<1>3. HeldEntries(q)'
  BY EntriesStay DEF Held
<1>4. HeldNumbers(q)'
  BY NumbersStay DEF Held
<1>5. HeldNames(q)'
  <2>1. HeldNames(q)
    BY DEF Held
  <2>2. Sparse /\ ~Numbered => ph'[q] \notin {8, 9}
    BY <2>1 DEF HeldNames
  <2> QED BY <2>1, <2>2, NamesStay
<1>6. HeldBlock(q)'
  BY BlockStays DEF Held
<1> QED BY <1>1, <1>2, <1>3, <1>4, <1>5, <1>6 DEF Held

\* A step changes nothing of another rank, except that an exception ends it.
LEMMA OthersStay ==
  ASSUME XInv, ExactInv, NEW r \in Rank, NEW ls, RankStep(r, ls), UNCHANGED vars
  PROVE  /\ UNCHANGED <<vars, world, doc>>
         /\ DOMAIN cm' = Rank /\ DOMAIN mapped' = Rank /\ DOMAIN built' = Rank
         /\ \A q \in Rank : q # r => Held(q)'
<1>1. UNCHANGED <<vars, world, doc>>
  BY DEF RankStep, FixLoad, Barrier, LinesOrganize, OrganizeFails, RecvFails, Crash,
     BuildDense, ExchangeSlots, Mapped, Build, MapRows, MapCols, SkipMapping
<1>2. DOMAIN cm' = Rank /\ DOMAIN mapped' = Rank /\ DOMAIN built' = Rank
  BY DEF RankStep, FixLoad, Barrier, LinesOrganize, OrganizeFails, RecvFails, Crash,
     BuildDense, ExchangeSlots, Mapped, Build, MapRows, MapCols, SkipMapping, ExactInv
<1>3. ASSUME NEW q \in Rank, q # r
      PROVE  /\ linelst'[q] = linelst[q] /\ slots'[q] = slots[q] /\ stf'[q] = stf[q] /\ rm'[q] = rm[q]
             /\ cm'[q] = cm[q] /\ mapped'[q] = mapped[q] /\ built'[q] = built[q]
             /\ ph'[q] \in {0, ph[q]} /\ ph[q] \in 0 .. 11
  <2>1. /\ DOMAIN linelst = Rank /\ DOMAIN slots = Rank /\ DOMAIN stf = Rank /\ DOMAIN rm = Rank
        /\ DOMAIN cm = Rank /\ DOMAIN mapped = Rank /\ DOMAIN built = Rank /\ ph \in [Rank -> 0 .. 11]
    BY DEF XInv, DataInv, PhaseInv, ExactInv
  <2> QED BY <1>3, <2>1 DEF RankStep, FixLoad, Barrier, LinesOrganize, OrganizeFails, RecvFails, Crash, Advance,
     BuildDense, ExchangeSlots, Mapped, Build, MapRows, MapCols, SkipMapping
<1>4. ASSUME NEW q \in Rank, q # r PROVE Held(q)'
  <2>1. Held(q)
    BY DEF ExactInv
  <2> QED BY <1>1, <1>3, <1>4, <2>1, HeldStays
<1> QED BY <1>1, <1>2, <1>4

\* The acting rank, action by action.
LEMMA FixLoadHeld ==
  ASSUME XInv, UNCHANGED <<vars, world, doc>>, NEW r \in Rank, Held(r), FixLoad(r, Given(r)) PROVE Held(r)'
<1>1. ph \in [Rank -> 0 .. 11] /\ DOMAIN linelst = Rank /\ ph[r] = 1
  BY PhaseNumbers DEF XInv, PhaseInv, DataInv, FixLoad
<1>2. ph'[r] = 2 /\ linelst'[r] = Given(r)
  BY <1>1 DEF FixLoad, Advance
<1>3. HeldLines(r)'
  BY <1>2, GivenStays DEF HeldLines
<1>4. HeldSlots(r)' /\ HeldEntries(r)' /\ HeldNumbers(r)' /\ HeldNames(r)' /\ HeldBlock(r)'
  BY <1>2 DEF HeldSlots, HeldEntries, HeldNumbers, HeldNames, HeldBlock
<1> QED BY <1>3, <1>4 DEF Held

\* A rank that goes on with what it has, short of index_mapping's end.
LEMMA BarrierHeld ==
  ASSUME XInv, UNCHANGED <<vars, world, doc>>, NEW r \in Rank, Held(r), Barrier(r) PROVE Held(r)'
<1>1. ph \in [Rank -> 0 .. 11] /\ ph[r] \in {2, 4, 6}
  BY PhaseNumbers DEF XInv, PhaseInv, Barrier, Barriers
<1>2. ph'[r] = ph[r] + 1 /\ UNCHANGED <<linelst, slots, stf, rm, cm, mapped, built>>
  BY <1>1 DEF Barrier, Advance
<1>3. ph'[r] \in {3, 5, 7}
  BY <1>1, <1>2
<1>4. HeldLines(r)'
  <2>1. ph'[r] \in 2 .. 3 => ph[r] \in 2 .. 3
    BY <1>1, <1>2
  <2> QED BY <1>2, <2>1, LinesStay DEF Held
<1>5. HeldSlots(r)'
  <2>1. ph'[r] >= 4 => ph[r] >= 4
    BY <1>1, <1>2
  <2> QED BY <1>2, <2>1, SlotsStay DEF Held
<1>6. HeldEntries(r)'
  <2>1. ph'[r] >= 6 => ph[r] >= 6
    BY <1>1, <1>2
  <2> QED BY <1>2, <2>1, EntriesStay DEF Held
<1>7. HeldNumbers(r)' /\ HeldNames(r)' /\ HeldBlock(r)'
  BY <1>3 DEF HeldNumbers, HeldNames, HeldBlock
<1> QED BY <1>4, <1>5, <1>6, <1>7 DEF Held

LEMMA LinesOrganizeHeld ==
  ASSUME Inv, XInv, pc = "done", HasContents, UNCHANGED <<vars, world, doc>>,
         NEW r \in Rank, Held(r), LinesOrganize(r)
  PROVE  Held(r)'
<1>1. ph \in [Rank -> 0 .. 11] /\ ph[r] = 3 /\ DOMAIN slots = Rank
  BY PhaseNumbers DEF XInv, PhaseInv, DataInv, LinesOrganize
<1>2. ph'[r] = 4
  BY <1>1 DEF LinesOrganize, Advance
<1>3. linelst[r] = Given(r)
  BY <1>1 DEF Held, HeldLines
<1> DEFINE ls == Given(r)
<1>4. ls \in Seq(DocLine)
  BY GivenTyped DEF XInv
<1>5. AllSupported(ls)
  BY <1>3 DEF AllSupported, LinesOrganize
<1>6. \A d \in Rank : slots'[r][d] = OwnedBy(d, Organized(ls))
  BY <1>1, <1>3 DEF LinesOrganize
<1> HIDE DEF ls
<1>7. Organized(ls) \in Seq(AnyEntry) /\ Cells(Organized(ls)) = CellsOfLines(ls)
  BY <1>4, <1>5, OrganizedTyped, OrganizedCells DEF AllSupported
<1>8. \A d \in Rank : Cells(slots'[r][d]) = Owned(CellsOfLines(ls), d)
  BY <1>6, <1>7, CellsOwned DEF Owned
<1>9. HeldSlots(r)'
  <2>1. Rank' = Rank /\ Given(r)' = ls /\ AllSupported(ls)' = AllSupported(ls)
    BY GivenStays DEF ls
  <2>2. AllSupported(Given(r))'
    BY <1>5, <2>1, GivenStays
  <2>3. \A d : Owned(CellsOfLines(Given(r)), d)' = Owned(CellsOfLines(ls), d)
    BY <2>1, GivenStays
  <2> QED BY <1>8, <2>1, <2>2, <2>3 DEF HeldSlots
<1>10. HeldLines(r)' /\ HeldEntries(r)' /\ HeldNumbers(r)' /\ HeldNames(r)' /\ HeldBlock(r)'
  BY <1>2 DEF HeldLines, HeldEntries, HeldNumbers, HeldNames, HeldBlock
<1> QED BY <1>9, <1>10 DEF Held

LEMMA CrashHeld ==
  ASSUME XInv, UNCHANGED <<vars, world, doc>>, NEW r \in Rank, Held(r), Crash PROVE Held(r)'
<1>1. ph[r] \in 0 .. 11 /\ ph'[r] = 0
  BY DEF XInv, PhaseInv, Crash
<1>2. UNCHANGED <<linelst, slots, stf, rm, cm, mapped, built>>
  BY DEF Crash
<1> QED BY <1>1, <1>2, HeldStays

LEMMA DenseHeld ==
  ASSUME XInv, UNCHANGED <<vars, world, doc>>, NEW r \in Rank, BuildDense(r) PROVE Held(r)'
<1>1. ph \in [Rank -> 0 .. 11] /\ ph' = [ph EXCEPT ![r] = 11]
  BY DEF XInv, PhaseInv, BuildDense, Phases
<1>2. ph'[r] = 11 /\ ~Sparse' /\ ~Numbered'
  BY <1>1, GivenStays DEF BuildDense, Sparse, Numbered
<1> QED BY <1>2 DEF Held, HeldLines, HeldSlots, HeldEntries, HeldNumbers, HeldNames, HeldBlock

LEMMA ExchangeSlotsHeld ==
  ASSUME XInv, ExactInv, UNCHANGED <<vars, world, doc>>, NEW r \in Rank, ExchangeSlots(r)
  PROVE  Held(r)'
<1>0. Held(r)
  BY DEF ExactInv
<1>1. ph \in [Rank -> 0 .. 11] /\ ph[r] = 5 /\ DOMAIN stf = Rank
  BY PhaseNumbers DEF XInv, PhaseInv, DataInv, ExchangeSlots
<1>2. ph'[r] = 6 /\ UNCHANGED <<linelst, slots, rm, cm, mapped, built>>
  BY <1>1 DEF ExchangeSlots, Advance
<1>3. ASSUME NEW s \in Rank PROVE ph[s] >= 5
  <2>1. Reached(s, "exchange") /\ ph[s] \in 0 .. 11
    BY <1>1 DEF ExchangeSlots
  <2> QED BY <2>1 DEF Reached, Phases
<1> DEFINE n == world.np
           ss == [k \in 1 .. n |-> Carried(Sender(r, k), r, slots[Sender(r, k)][r])]
           L(s) == CellsOfLines(Given(s))
<1>4. n \in Nat \ {0} /\ r \in 0 .. n - 1 /\ Rank = 0 .. n - 1
  BY DEF XInv, CaseInv, Rank
<1>5. ASSUME NEW k \in 1 .. n PROVE Sender(r, k) \in Rank
  <2>1. 2 * r + n - (k - 1) \in Nat
    <3> HIDE DEF n
    <3> QED BY <1>4
  <2>2. (2 * r + n - (k - 1)) % n \in 0 .. n - 1
    <3> HIDE DEF n
    <3> QED BY <1>4, <2>1
  <2> QED BY <1>4, <2>2 DEF Sender
<1>6. ASSUME NEW s \in Rank PROVE \E k \in 1 .. n : Sender(r, k) = s
  <2>1. \E k \in 1 .. n : (2 * r + n - (k - 1)) % n = s
    <3> HIDE DEF n
    <3> QED BY <1>4, EverySender
  <2> QED BY <2>1 DEF Sender
<1>7. stf'[r] = FlattenSeq(ss)
  BY <1>1 DEF ExchangeSlots
<1> HIDE DEF n
<1>8. ASSUME NEW s \in Rank
      PROVE  slots[s][r] \in Seq(Entries(r)) /\ Carried(s, r, slots[s][r]) \in Seq(Entries(r))
  <2>1. slots[s][r] \in Seq(Entries(r))
    BY DEF XInv, DataInv
  <2> QED BY <2>1, CarriedTyped DEF XInv
<1>9. ss \in Seq(Seq(Entries(r))) /\ Len(ss) = n /\ \A k \in 1 .. n : ss[k] = Carried(Sender(r, k), r, slots[Sender(r, k)][r])
  BY <1>4, <1>5, <1>8
<1> HIDE DEF ss
<1>10. Cells(stf'[r]) = UNION {Cells(ss[k]) : k \in 1 .. n}
  BY <1>7, <1>9, CellsFlatten
<1>11. ASSUME Sparse
       PROVE  (\A s \in Rank : AllSupported(Given(s))) /\ Cells(stf'[r]) = Owned(GivenCells, r)
  <2>1. ASSUME NEW s \in Rank
        PROVE  AllSupported(Given(s)) /\ Cells(Carried(s, r, slots[s][r])) = Owned(L(s), r)
    <3>1. Held(s) /\ ph[s] >= 4
      BY <1>1, <1>3 DEF ExactInv
    <3>2. AllSupported(Given(s)) /\ Cells(slots[s][r]) = Owned(L(s), r)
      BY <1>11, <3>1 DEF Held, HeldSlots
    <3>3. Cells(Carried(s, r, slots[s][r])) = Cells(slots[s][r])
      BY <1>8, CellsCarried DEF XInv
    <3> QED BY <3>2, <3>3
  <2>2. ASSUME NEW k \in 1 .. n PROVE Cells(ss[k]) = Owned(L(Sender(r, k)), r)
    BY <1>5, <1>9, <2>1
  <2>3. GivenCells = UNION {L(s) : s \in Rank}
    BY DEF GivenCells
  <2> HIDE DEF L
  <2>4. UNION {Cells(ss[k]) : k \in 1 .. n} = Owned(GivenCells, r)
    BY <1>5, <1>6, <2>2, <2>3 DEF Owned
  <2> QED BY <1>10, <2>1, <2>4
<1>12. HeldEntries(r)'
  <2>1. Rank' = Rank /\ Sparse' = Sparse /\ Owned(GivenCells, r)' = Owned(GivenCells, r)
    BY GivenStays
  <2>2. \A s : AllSupported(Given(s))' = AllSupported(Given(s))
    BY GivenStays
  <2> QED BY <1>11, <2>1, <2>2 DEF HeldEntries
<1>13. HeldSlots(r)'
  BY <1>0, <1>1, <1>2, SlotsStay DEF Held
<1>14. HeldLines(r)' /\ HeldNumbers(r)' /\ HeldNames(r)' /\ HeldBlock(r)'
  BY <1>2 DEF HeldLines, HeldNumbers, HeldNames, HeldBlock
<1> QED BY <1>12, <1>13, <1>14 DEF Held

LEMMA MapRowsHeld ==
  ASSUME XInv, UNCHANGED <<vars, world, doc>>, NEW r \in Rank, Held(r), Numbered, MapRows(r) PROVE Held(r)'
<1>1. ph \in [Rank -> 0 .. 11] /\ ph[r] = 7
  BY PhaseNumbers DEF XInv, PhaseInv, MapRows
<1>2. ph'[r] = 8 /\ UNCHANGED <<linelst, slots, stf, cm, mapped, built>>
  BY <1>1 DEF MapRows, Advance
<1>3. HeldSlots(r)' /\ HeldEntries(r)'
  BY <1>1, <1>2, SlotsStay, EntriesStay DEF Held
<1>4. Numbered'
  BY GivenStays
<1> QED BY <1>2, <1>3, <1>4 DEF Held, HeldLines, HeldNumbers, HeldNames, HeldBlock

LEMMA NewColsAre ==
  ASSUME XInv, NEW r \in Rank PROVE NewCols(r) \subseteq Id /\ ToSet(Cols(r)) \subseteq NewCols(r)
<1>1. ASSUME NEW s \in ColGroup(r) PROVE CarriedIds(s, r, Cols(s)) = Cols(s) /\ ToSet(Cols(s)) \subseteq Id
  <2> DEFINE c == Cols(s)
  <2>1. c \in Seq(DocIds)
    BY IdListsTyped DEF ColGroup
  <2> HIDE DEF c
  <2>2. CarriedIds(s, r, c) = c
    BY <2>1, ListArrives
  <2>3. \A k \in DOMAIN c : c[k] \in DocIds
    BY <2>1
  <2>4. ToSet(c) \subseteq Id
    BY <2>3 DEF ToSet, DocIds
  <2> QED BY <2>2, <2>4 DEF c
<1>2. r \in ColGroup(r)
  BY DEF ColGroup
<1>3. NewCols(r) = UNION {ToSet(Cols(s)) : s \in ColGroup(r)}
  BY <1>1 DEF NewCols
<1> QED BY <1>1, <1>2, <1>3

LEMMA MapColsHeld ==
  ASSUME XInv, ExactInv, UNCHANGED <<vars, world, doc>>, NEW r \in Rank, MapCols(r) PROVE Held(r)'
<1>0. Held(r) /\ DOMAIN cm = Rank /\ DOMAIN mapped = Rank
  BY DEF ExactInv
<1>1. ph \in [Rank -> 0 .. 11] /\ ph[r] = 8
  BY PhaseNumbers DEF XInv, PhaseInv, MapCols
<1>2. ph'[r] = 9 /\ UNCHANGED <<linelst, slots, stf, rm, built>>
  BY <1>1 DEF MapCols, Advance
<1>3. cm'[r] = Ordered(NewCols(r)) /\ mapped'[r] = Renumbered(stf[r], rm[r], cm'[r])
  BY <1>0 DEF MapCols, Renumbered
<1>4. HeldSlots(r)' /\ HeldEntries(r)'
  BY <1>0, <1>1, <1>2, SlotsStay, EntriesStay DEF Held
<1>5. HeldNumbers(r)'
  <2>1. Cols(r)' = Cols(r) /\ Id' = Id
    BY <1>2 DEF Cols, Narrow, Id
  <2>2. NewCols(r) \in SUBSET Id /\ ToSet(Cols(r)) \subseteq NewCols(r)
    BY NewColsAre
  <2> DEFINE S == NewCols(r)
  <2>3. S \in SUBSET Id /\ ToSet(Cols(r)') \subseteq S /\ cm'[r] = Ordered(S)
    BY <1>3, <2>1, <2>2
  <2> HIDE DEF S
  <2>4. \E T \in SUBSET Id : ToSet(Cols(r)') \subseteq T /\ cm'[r] = Ordered(T)
    BY <2>3
  <2> QED BY <1>2, <1>3, <2>1, <2>4 DEF HeldNumbers
<1>6. HeldNames(r)'
  <2>1. ~ (Sparse /\ ~Numbered)
    BY <1>0, <1>1 DEF Held, HeldNames
  <2> QED BY <2>1, GivenStays DEF HeldNames
<1> QED BY <1>2, <1>4, <1>5, <1>6 DEF Held, HeldLines, HeldBlock

LEMMA SkipMappingHeld ==
  ASSUME XInv, ExactInv, UNCHANGED <<vars, world, doc>>, NEW r \in Rank, SkipMapping(r) PROVE Held(r)'
<1>0. Held(r) /\ DOMAIN mapped = Rank
  BY DEF ExactInv
<1>1. ph \in [Rank -> 0 .. 11] /\ ph[r] = 7 /\ ~Numbered
  BY PhaseNumbers DEF XInv, PhaseInv, SkipMapping, Numbered
<1>2. ph'[r] = 10 /\ UNCHANGED <<linelst, slots, stf, rm, cm, built>> /\ mapped'[r] = stf[r]
  BY <1>0, <1>1 DEF SkipMapping
<1>3. HeldSlots(r)' /\ HeldEntries(r)'
  BY <1>0, <1>1, <1>2, SlotsStay, EntriesStay DEF Held
<1>4. ~Numbered'
  BY <1>1, GivenStays
<1> QED BY <1>2, <1>3, <1>4 DEF Held, HeldLines, HeldNumbers, HeldNames, HeldBlock

LEMMA MappedHeld ==
  ASSUME XInv, UNCHANGED <<vars, world, doc>>, NEW r \in Rank, Held(r), Mapped(r) PROVE Held(r)'
<1>1. ph \in [Rank -> 0 .. 11] /\ ph[r] = 9
  BY PhaseNumbers DEF XInv, PhaseInv, Mapped
<1>2. ph'[r] = 10 /\ UNCHANGED <<linelst, slots, stf, rm, cm, mapped, built>>
  BY <1>1 DEF Mapped, Advance
<1>3. HeldSlots(r)' /\ HeldEntries(r)' /\ HeldNumbers(r)'
  BY <1>1, <1>2, SlotsStay, EntriesStay, NumbersStay DEF Held
<1>4. HeldNames(r)'
  <2>1. ~ (Sparse /\ ~Numbered)
    BY <1>1 DEF Held, HeldNames
  <2> QED BY <2>1, GivenStays DEF HeldNames
<1> QED BY <1>2, <1>3, <1>4 DEF Held, HeldLines, HeldBlock

LEMMA BuildHeld ==
  ASSUME XInv, ExactInv, UNCHANGED <<vars, world, doc>>, NEW r \in Rank, Build(r) PROVE Held(r)'
<1>0. Held(r) /\ DOMAIN built = Rank
  BY DEF ExactInv
<1>1. ph \in [Rank -> 0 .. 11] /\ ph[r] = 10
  BY PhaseNumbers DEF XInv, PhaseInv, Build
<1>2. ph'[r] = 11 /\ UNCHANGED <<linelst, slots, stf, rm, cm, mapped>>
  BY <1>1 DEF Build, Advance
<1>3. HeldSlots(r)' /\ HeldEntries(r)' /\ HeldNumbers(r)'
  BY <1>0, <1>1, <1>2, SlotsStay, EntriesStay, NumbersStay DEF Held
<1>4. HeldNames(r)'
  <2>1. HeldNames(r)
    BY <1>0 DEF Held
  <2> QED BY <1>1, <1>2, <2>1, NamesStay
<1>5. OneEach(built'[r], mapped'[r])
  <2> DEFINE ts == mapped[r]
             W(c) == LET f == Weights(ts, c[1], c[2]) IN IF KeepsLast THEN f[Max(DOMAIN f)] ELSE SumOver(f)
             bs == {[row |-> c[1], col |-> c[2], w |-> W(c)] : c \in Cells(ts)}
  <2>1. built'[r] = bs
    BY <1>0 DEF Build
  <2> HIDE DEF W
  <2>2. \A c \in Cells(ts) : c = <<c[1], c[2]>>
    BY DEF Cells
  <2>3. \A c : LET b == [row |-> c[1], col |-> c[2], w |-> W(c)] IN b.row = c[1] /\ b.col = c[2]
    OBVIOUS
  <2>4. {<<b.row, b.col>> : b \in bs} = Cells(ts)
    <3> HIDE DEF ts
    <3>1. ASSUME NEW b \in bs PROVE <<b.row, b.col>> \in Cells(ts)
      <4>1. PICK c \in Cells(ts) : b = [row |-> c[1], col |-> c[2], w |-> W(c)]
        OBVIOUS
      <4>2. b.row = c[1] /\ b.col = c[2]
        BY <4>1
      <4> QED BY <2>2, <4>2
    <3>2. ASSUME NEW c \in Cells(ts) PROVE \E b \in bs : c = <<b.row, b.col>>
      <4> DEFINE b == [row |-> c[1], col |-> c[2], w |-> W(c)]
      <4>1. b \in bs /\ b.row = c[1] /\ b.col = c[2]
        OBVIOUS
      <4> HIDE DEF b
      <4> QED BY <2>2, <4>1
    <3> HIDE DEF bs
    <3> QED BY <3>1, <3>2
  <2>5. ASSUME NEW a \in bs, NEW b \in bs, a.row = b.row, a.col = b.col PROVE a = b
    <3>1. PICK c \in Cells(ts) : a = [row |-> c[1], col |-> c[2], w |-> W(c)]
      OBVIOUS
    <3>2. PICK d \in Cells(ts) : b = [row |-> d[1], col |-> d[2], w |-> W(d)]
      OBVIOUS
    <3>3. c[1] = d[1] /\ c[2] = d[2]
      BY <2>5, <3>1, <3>2
    <3>4. c = d
      BY <2>2, <3>3
    <3> QED BY <3>1, <3>2, <3>4
  <2> HIDE DEF bs
  <2> QED BY <1>2, <2>1, <2>4, <2>5 DEF OneEach
<1>6. HeldBlock(r)'
  BY <1>5 DEF HeldBlock
<1> QED BY <1>2, <1>3, <1>4, <1>6 DEF Held, HeldLines

LEMMA ActorHeld ==
  ASSUME Inv, XInv, ExactInv, pc = "done", HasContents, UNCHANGED <<vars, world, doc>>,
         NEW r \in Rank, RankStep(r, Given(r))
  PROVE  Held(r)'
<1>1. Held(r)
  BY DEF ExactInv
<1> QED BY <1>1, FixLoadHeld, BarrierHeld, LinesOrganizeHeld, CrashHeld, DenseHeld, ExchangeSlotsHeld,
           MapRowsHeld, MapColsHeld, SkipMappingHeld, MappedHeld, BuildHeld
           DEF RankStep, OrganizeFails, RecvFails

\* A rank that has not begun holds nothing.
LEMMA NothingHeld ==
  ASSUME NEW r, ph[r] = 1 PROVE Held(r)
  BY DEF Held, HeldLines, HeldSlots, HeldEntries, HeldNumbers, HeldNames, HeldBlock

\* What a rank holds on its way from lines to its block (fixload, lines_organize,
\* exchange, index_mapping and the constructors), in every interleaving of the
\* ranks: no cell of a line is lost or repeated on the way to the rank that owns it.
THEOREM HoldsItsPart == Load => [](GoodIds => ExactInv)
<1>1. LoadInit => ExactInv
  <2> SUFFICES ASSUME LoadInit PROVE ExactInv OBVIOUS
  <2>1. /\ ph = [r \in Rank |-> 1] /\ DOMAIN cm = Rank /\ DOMAIN mapped = Rank /\ DOMAIN built = Rank
    BY DEF LoadInit, ExchangeInit
  <2>2. \A r \in Rank : ph[r] = 1
    BY <2>1
  <2> QED BY <2>1, <2>2, NothingHeld DEF ExactInv
<1>2. Inv /\ XInv /\ ExactInv /\ [LoadNext]_<<vars, xvars>> => ExactInv'
  <2> SUFFICES ASSUME Inv, XInv, ExactInv, [LoadNext]_<<vars, xvars>> PROVE ExactInv'
    OBVIOUS
  <2>1. CASE Cut /\ UNCHANGED xvars
    <3>1. pc # "done"
      BY <2>1 DEF Cut, FilesPartition, StartBlock, ReadWholeFile, ReadLastFile, EndBlock
    <3>2. UNCHANGED <<world, ph, cm, mapped, built>> /\ Rank' = Rank
      BY <2>1 DEF xvars, Rank
    <3>3. \A r \in Rank : ph'[r] = 1
      BY <3>1, <3>2 DEF ExactInv
    <3>4. ASSUME NEW r \in Rank PROVE Held(r)'
      <4>1. ph'[r] = 1
        BY <3>3
      <4> QED BY <4>1 DEF Held, HeldLines, HeldSlots, HeldEntries, HeldNumbers, HeldNames, HeldBlock
    <3> QED BY <3>2, <3>3, <3>4 DEF ExactInv
  <2>2. CASE pc = "done" /\ HasContents /\ (\E r \in Rank : RankStep(r, Given(r))) /\ UNCHANGED vars
    <3>1. PICK r \in Rank : RankStep(r, Given(r))
      BY <2>2
    <3>2. /\ UNCHANGED <<vars, world, doc>>
          /\ DOMAIN cm' = Rank /\ DOMAIN mapped' = Rank /\ DOMAIN built' = Rank
          /\ \A q \in Rank : q # r => Held(q)'
      <4> DEFINE ls == Given(r)
      <4>1. RankStep(r, ls)
        BY <3>1
      <4> HIDE DEF ls
      <4> QED BY <2>2, <4>1, OthersStay
    <3>3. Held(r)'
      BY <2>2, <3>1, <3>2, ActorHeld
    <3>4. \A q \in Rank : Held(q)'
      BY <3>2, <3>3
    <3>5. Rank' = Rank /\ pc' = "done" /\ HasContents'
      BY <2>2, <3>2 DEF Rank, vars, HasContents
    <3> QED BY <3>2, <3>4, <3>5 DEF ExactInv
  <2>3. CASE UNCHANGED <<vars, xvars>>
    <3>1. UNCHANGED <<vars, world, doc>> /\ UNCHANGED <<ph, linelst, slots, stf, rm, cm, mapped, built>>
      BY <2>3 DEF xvars
    <3>2. Rank' = Rank /\ pc' = pc /\ HasContents' = HasContents
      BY <3>1 DEF Rank, vars, HasContents
    <3>3. ASSUME NEW q \in Rank PROVE Held(q)'
      <4>1. Held(q) /\ ph[q] \in 0 .. 11 /\ ph'[q] \in {0, ph[q]}
        BY <3>1 DEF ExactInv, XInv, PhaseInv
      <4> QED BY <3>1, <4>1, HeldStays
    <3> QED BY <3>1, <3>2, <3>3 DEF ExactInv
  <2> QED BY <2>1, <2>2, <2>3 DEF LoadNext
<1>3. Inv /\ (GoodIds => XInv) /\ (GoodIds => ExactInv) /\ [LoadNext]_<<vars, xvars>>
        => (GoodIds => ExactInv)'
  <2>1. [LoadNext]_<<vars, xvars>> => GoodIds' = GoodIds
    BY InputStays, GoodStays
  <2> QED BY <1>2, <2>1
<1> QED BY <1>1, <1>3, LoadingCorrect, ExchangeCorrect, PTL DEF Load

\* index_mapping is undone by the maps that it returns.
LEMMA NumbersLeadBack ==
  ASSUME XInv, ExactInv, NEW r \in Rank, Numbered, ph[r] = 11, NEW k \in 1 .. Len(stf[r])
  PROVE  /\ mapped[r][k].row = IndexOf(rm[r], stf[r][k].row)
         /\ mapped[r][k].col = IndexOf(cm[r], stf[r][k].col)
         /\ RowName(r, mapped[r][k].row) = stf[r][k].row
         /\ ColName(r, mapped[r][k].col) = stf[r][k].col
<1>1. stf[r] \in Seq(Entries(r))
  BY DEF XInv, DataInv
<1> DEFINE t == stf[r][k]
           i == t.row
           j == t.col
<1>2. i \in DocIds /\ j \in DocIds
  <2>1. t \in Entries(r)
    BY <1>1
  <2> HIDE DEF t
  <2> QED BY <2>1 DEF Entries, AnyEntry
<1>3. HeldNumbers(r)
  BY DEF ExactInv, Held
<1>4. PICK S \in SUBSET Id : ToSet(Cols(r)) \subseteq S /\ cm[r] = Ordered(S)
  BY <1>3 DEF HeldNumbers
<1>5. mapped[r] = Renumbered(stf[r], rm[r], cm[r])
  BY <1>3 DEF HeldNumbers
<1>6. mapped[r][k].row = IndexOf(rm[r], i) /\ mapped[r][k].col = IndexOf(cm[r], j)
  BY <1>5 DEF Renumbered
<1>7. rm[r] = Ordered(RowIds(r))
  BY DEF XInv, PhaseInv
<1>8. Narrow(i) \in ToSet(Rows(r)) /\ Narrow(j) \in ToSet(Cols(r))
  <2>1. DOMAIN Rows(r) = 1 .. Len(stf[r]) /\ DOMAIN Cols(r) = 1 .. Len(stf[r])
    BY DEF Rows, Cols
  <2>2. Rows(r)[k] = Narrow(i) /\ Cols(r)[k] = Narrow(j)
    BY DEF Rows, Cols
  <2> QED BY <2>1, <2>2 DEF ToSet
<1> HIDE DEF i, j, t
<1>9. i \in ToSet(Rows(r)) /\ j \in ToSet(Cols(r))
  BY <1>2, <1>8, NarrowIs DEF XInv
<1>10. i \in RowIds(r) /\ RowIds(r) \subseteq Id
  <2>1. r \in RowGroup(r)
    BY DEF RowGroup
  <2>2. ASSUME NEW s \in RowGroup(r) PROVE ToSet(Rows(s)) \subseteq Id
    <3>1. s \in Rank
      BY DEF RowGroup
    <3>2. stf[s] \in Seq(Entries(s))
      BY <3>1 DEF XInv, DataInv
    <3>3. ASSUME NEW m \in 1 .. Len(stf[s]) PROVE Narrow(stf[s][m].row) \in Id
      <4> DEFINE u == stf[s][m]
                 v == u.row
      <4>1. u \in Entries(s)
        BY <3>2
      <4> HIDE DEF u
      <4>2. v \in Id
        BY <4>1 DEF Entries, AnyEntry, DocIds
      <4> HIDE DEF v
      <4>3. Narrow(v) \in Id
        BY <4>2, NarrowTyped
      <4> QED BY <4>3 DEF v, u
    <3> QED BY <3>3 DEF ToSet, Rows
  <2> QED BY <1>9, <2>1, <2>2 DEF RowIds
<1>11. RowName(r, IndexOf(rm[r], i)) = i
  <2>1. Ordered(RowIds(r))[IndexOf(Ordered(RowIds(r)), i) + 1] = i
    BY <1>10, IndexIs
  <2> QED BY <1>7, <2>1 DEF RowName
<1>12. ColName(r, IndexOf(cm[r], j)) = j
  <2>1. Ordered(S)[IndexOf(Ordered(S), j) + 1] = j
    BY <1>4, <1>9, IndexIs
  <2> QED BY <1>4, <2>1 DEF ColName
<1> QED BY <1>6, <1>11, <1>12 DEF i, j, t

\* From the files to the blocks: however the lines fall to the ranks and however
\* the ranks are interleaved, the block that a rank ends with has exactly the
\* cells of the input that the hash grid gives to it, each once, under the names
\* of row_map and col_map.  For all files without an empty line, all numbers of
\* ranks, patterns, products and hashes, and all ids that CellsAtOwners supposes:
\* numbers that an int holds, or names without a word of the separators.
THEOREM EveryCellArrives == Load => []CellsAtOwners
<1>1. Inv /\ (GoodIds => XInv) /\ (GoodIds => ExactInv) /\ RankedInv /\ LoadsEveryLine => CellsAtOwners
  <2> SUFFICES ASSUME Inv, XInv, ExactInv, RankedInv, LoadsEveryLine,
                      pc = "done", HasContents, NoBlankLine, Sparse, NEW r \in Rank, At(r, "done")
               PROVE  CellsOf(r)
    BY DEF CellsAtOwners, Sparse
  <2>1. ph[r] = 11 /\ Held(r)
    BY PhaseNumbers DEF XInv, PhaseInv, ExactInv
  <2>2. (\A s \in Rank : AllSupported(Given(s))) /\ Cells(stf[r]) = Owned(GivenCells, r)
    BY <2>1 DEF Held, HeldEntries
  <2>3. Cells(stf[r]) = {c \in Cells(Organized(doc)) : Owner(c[1], c[2]) = r}
    <3>1. Cells(Organized(doc)) = GivenCells
      BY <2>2, GivenCovers DEF XInv
    <3> QED BY <2>2, <3>1 DEF Owned
  <2>4. OneEach(built[r], mapped[r])
    BY <2>1 DEF Held, HeldBlock
  <2> DEFINE bs == built[r]
  <2>5. NamedCells(r) = Cells(stf[r]) /\ \A a, b \in bs : NameOfCell(r, a) = NameOfCell(r, b) => a = b
    <3>1. CASE ~Numbered
      <4>1. mapped[r] = stf[r]
        BY <2>1, <3>1 DEF Held, HeldNames
      <4>2. \A b : NameOfCell(r, b) = <<b.row, b.col>>
        BY <3>1 DEF NameOfCell, RowName, ColName
      <4>3. NamedCells(r) = Cells(stf[r])
        BY <2>4, <4>1, <4>2 DEF NamedCells, OneEach
      <4>4. ASSUME NEW a \in bs, NEW b \in bs, NameOfCell(r, a) = NameOfCell(r, b) PROVE a = b
        <5>1. <<a.row, a.col>> = <<b.row, b.col>>
          BY <4>2, <4>4
        <5>2. a.row = b.row /\ a.col = b.col
          BY <5>1
        <5> QED BY <2>4, <5>2 DEF OneEach
      <4> QED BY <4>3, <4>4
    <3>2. CASE Numbered
      <4> DEFINE n == Len(stf[r])
                 i(k) == stf[r][k].row
                 j(k) == stf[r][k].col
                 x(k) == mapped[r][k].row
                 y(k) == mapped[r][k].col
      <4>1. ASSUME NEW k \in 1 .. n
            PROVE  /\ x(k) = IndexOf(rm[r], i(k)) /\ y(k) = IndexOf(cm[r], j(k))
                   /\ RowName(r, x(k)) = i(k) /\ ColName(r, y(k)) = j(k)
        BY <2>1, <3>2, NumbersLeadBack
      <4>2. Cells(stf[r]) = {<<i(k), j(k)>> : k \in 1 .. n}
        BY DEF Cells
      <4>3. Cells(mapped[r]) = {<<x(k), y(k)>> : k \in 1 .. n}
        <5>1. mapped[r] = Renumbered(stf[r], rm[r], cm[r])
          BY <2>1, <3>2 DEF Held, HeldNumbers
        <5>2. n \in Nat
          <6>1. stf[r] \in Seq(Entries(r))
            BY DEF XInv, DataInv
          <6> QED BY <6>1
        <5>3. Len(mapped[r]) = n
          <6> HIDE DEF n
          <6>1. mapped[r] = [k \in 1 .. n |-> [row |-> IndexOf(rm[r], stf[r][k].row),
                                 col |-> IndexOf(cm[r], stf[r][k].col), w |-> stf[r][k].w]]
            BY <5>1 DEF Renumbered, n
          <6> QED BY <5>2, <6>1
        <5> QED BY <5>3 DEF Cells
      <4> HIDE DEF i, j, x, y, n
      <4>4. ASSUME NEW b \in bs
            PROVE  \E k \in 1 .. n : b.row = x(k) /\ b.col = y(k) /\ NameOfCell(r, b) = <<i(k), j(k)>>
        <5>1. <<b.row, b.col>> \in Cells(mapped[r])
          BY <2>4 DEF OneEach
        <5>2. PICK k \in 1 .. n : b.row = x(k) /\ b.col = y(k)
          BY <4>3, <5>1
        <5>3. NameOfCell(r, b) = <<i(k), j(k)>>
          BY <4>1, <5>2 DEF NameOfCell
        <5> QED BY <5>2, <5>3
      <4>5. ASSUME NEW k \in 1 .. n PROVE \E b \in bs : NameOfCell(r, b) = <<i(k), j(k)>>
        <5>1. <<x(k), y(k)>> \in {<<b.row, b.col>> : b \in bs}
          BY <2>4, <4>3 DEF OneEach
        <5>2. PICK b \in bs : b.row = x(k) /\ b.col = y(k)
          BY <5>1
        <5>3. NameOfCell(r, b) = <<i(k), j(k)>>
          BY <4>1, <5>2 DEF NameOfCell
        <5> QED BY <5>3
      <4>6. NamedCells(r) = Cells(stf[r])
        <5>1. NamedCells(r) = {NameOfCell(r, b) : b \in bs}
          BY DEF NamedCells
        <5> HIDE DEF bs
        <5> QED BY <4>2, <4>4, <4>5, <5>1
      <4>7. ASSUME NEW a \in bs, NEW b \in bs, NameOfCell(r, a) = NameOfCell(r, b) PROVE a = b
        <5>1. PICK k \in 1 .. n : a.row = x(k) /\ a.col = y(k) /\ NameOfCell(r, a) = <<i(k), j(k)>>
          BY <4>4
        <5>2. PICK m \in 1 .. n : b.row = x(m) /\ b.col = y(m) /\ NameOfCell(r, b) = <<i(m), j(m)>>
          BY <4>4
        <5>3. i(k) = i(m) /\ j(k) = j(m)
          <6>1. <<i(k), j(k)>> = <<i(m), j(m)>>
            BY <4>7, <5>1, <5>2
          <6> QED BY <6>1
        <5>4. x(k) = x(m) /\ y(k) = y(m)
          BY <4>1, <5>3
        <5>5. a.row = b.row /\ a.col = b.col
          BY <5>1, <5>2, <5>4
        <5> QED BY <2>4, <5>5 DEF OneEach
      <4> QED BY <4>6, <4>7
    <3> QED BY <3>1, <3>2
  <2> QED BY <2>3, <2>5 DEF CellsOf
<1> QED BY <1>1, LoadingCorrect, ExchangeCorrect, HoldsItsPart, LinesAreRanked, EveryLineIsLoaded, PTL
=============================================================================
