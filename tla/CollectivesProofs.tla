-------------------------- MODULE CollectivesProofs --------------------------
(***************************************************************************)
(* TLAPS proofs about Collectives: for any number of ranks and any program *)
(* of ring operations, barriers and a treereduce, the messages are taken   *)
(* for what they are, although all of them carry the same tag and nothing  *)
(* keeps a fast rank from starting the next call, and every call delivers. *)
(***************************************************************************)
EXTENDS Collectives, FiniteSetTheorems, SequenceTheorems, TLAPS

\* The model has one data buffer per rank, the argument of one treereduce: a
\* program reduces at most once.
OneReduce ==
  \A p \in Calls : \A b, c \in DOMAIN p : p[b] = "treereduce" /\ p[c] = "treereduce" => b = c

(***************************************************************************)
(* The turns: k is the turn in which s sends to d and d receives from s.   *)
(***************************************************************************)
Turn(s, d) == (s + N - d) % N

LEMMA Mod ==
  \A x \in 0 .. N - 1 : x % N = x /\ (x + N) % N = x /\ (x + 2 * N) % N = x
  BY NAssumption

LEMMA Turns ==
  ASSUME NEW s \in Rank, NEW d \in Rank, s # d
  PROVE  /\ Turn(s, d) \in 1 .. N - 1
         /\ \A k \in 1 .. N - 1 : /\ (s + N - k) % N = d <=> k = Turn(s, d)
                                  /\ (d + k) % N = s <=> k = Turn(s, d)
<1>0. N \in Nat \ {0} /\ s \in 0 .. N - 1 /\ d \in 0 .. N - 1
  BY NAssumption DEF Rank
<1>1. Turn(s, d) = IF s >= d THEN s - d ELSE s + N - d
  <2>1. CASE s >= d
    <3>1. s - d \in 0 .. N - 1 /\ s + N - d = (s - d) + N
      BY <1>0, <2>1
    <3> QED BY <2>1, <3>1, Mod DEF Turn
  <2>2. CASE ~(s >= d)
    <3>1. s + N - d \in 0 .. N - 1
      BY <1>0, <2>2
    <3> QED BY <2>2, <3>1, Mod DEF Turn
  <2> QED BY <2>1, <2>2
<1>2. ASSUME NEW k \in 1 .. N - 1
      PROVE  /\ (s + N - k) % N = (IF s >= k THEN s - k ELSE s + N - k)
             /\ (d + k) % N = (IF d + k < N THEN d + k ELSE d + k - N)
  <2>1. CASE s >= k
    <3>1. s - k \in 0 .. N - 1 /\ s + N - k = (s - k) + N
      BY <1>0, <2>1
    <3>2. (s + N - k) % N = s - k
      BY <3>1, Mod
    <3>3. CASE d + k < N
      <4>1. d + k \in 0 .. N - 1
        BY <1>0, <3>3
      <4> QED BY <2>1, <3>2, <3>3, <4>1, Mod
    <3>4. CASE ~(d + k < N)
      <4>1. d + k - N \in 0 .. N - 1 /\ d + k = (d + k - N) + N
        BY <1>0, <3>4
      <4> QED BY <2>1, <3>2, <3>4, <4>1, Mod
    <3> QED BY <3>3, <3>4
  <2>2. CASE ~(s >= k)
    <3>1. s + N - k \in 0 .. N - 1
      BY <1>0, <2>2
    <3>2. (s + N - k) % N = s + N - k
      BY <3>1, Mod
    <3>3. CASE d + k < N
      <4>1. d + k \in 0 .. N - 1
        BY <1>0, <3>3
      <4> QED BY <2>2, <3>2, <3>3, <4>1, Mod
    <3>4. CASE ~(d + k < N)
      <4>1. d + k - N \in 0 .. N - 1 /\ d + k = (d + k - N) + N
        BY <1>0, <3>4
      <4> QED BY <2>2, <3>2, <3>4, <4>1, Mod
    <3> QED BY <3>3, <3>4
  <2> QED BY <2>1, <2>2
<1>3. Turn(s, d) \in 1 .. N - 1
  BY <1>0, <1>1
<1>4. ASSUME NEW k \in 1 .. N - 1
      PROVE  /\ (s + N - k) % N = d <=> k = Turn(s, d)
             /\ (d + k) % N = s <=> k = Turn(s, d)
  <2> DEFINE a == (s + N - k) % N
             b == (d + k) % N
             t == Turn(s, d)
  <2>1. /\ a = (IF s >= k THEN s - k ELSE s + N - k)
        /\ b = (IF d + k < N THEN d + k ELSE d + k - N)
        /\ t = (IF s >= d THEN s - d ELSE s + N - d)
    BY <1>1, <1>2
  <2> HIDE DEF a, b, t
  <2>2. (a = d <=> k = t) /\ (b = s <=> k = t)
    BY <1>0, <2>1
  <2> QED BY <2>2 DEF a, b, t
<1> QED BY <1>3, <1>4

LEMMA Neighbours ==
  ASSUME NEW r \in Rank, NEW k \in 1 .. N - 1
  PROVE  /\ (r + N - k) % N \in Rank \ {r} /\ (r + k) % N \in Rank \ {r}
         /\ Turn(r, (r + N - k) % N) = k /\ Turn((r + k) % N, r) = k
<1>0. N \in Nat \ {0} /\ r \in 0 .. N - 1
  BY NAssumption DEF Rank
<1>1. (r + N - k) % N \in Rank \ {r}
  <2>1. CASE r >= k
    <3>1. r - k \in 0 .. N - 1 /\ r + N - k = (r - k) + N
      BY <1>0, <2>1
    <3>2. (r + N - k) % N = r - k
      BY <3>1, Mod
    <3> QED BY <1>0, <3>1, <3>2 DEF Rank
  <2>2. CASE ~(r >= k)
    <3>1. r + N - k \in 0 .. N - 1
      BY <1>0, <2>2
    <3>2. (r + N - k) % N = r + N - k
      BY <3>1, Mod
    <3> QED BY <1>0, <3>1, <3>2 DEF Rank
  <2> QED BY <2>1, <2>2
<1>2. (r + k) % N \in Rank \ {r}
  <2>1. CASE r + k < N
    <3>1. r + k \in 0 .. N - 1
      BY <1>0, <2>1
    <3>2. (r + k) % N = r + k
      BY <3>1, Mod
    <3> QED BY <1>0, <3>1, <3>2 DEF Rank
  <2>2. CASE ~(r + k < N)
    <3>1. r + k - N \in 0 .. N - 1 /\ r + k = (r + k - N) + N
      BY <1>0, <2>2
    <3>2. (r + k) % N = r + k - N
      BY <3>1, Mod
    <3> QED BY <1>0, <3>1, <3>2 DEF Rank
  <2> QED BY <2>1, <2>2
<1>3. Turn(r, (r + N - k) % N) = k
  BY <1>1, Turns
<1>4. Turn((r + k) % N, r) = k
  BY <1>2, Turns
<1> QED BY <1>1, <1>2, <1>3, <1>4

(***************************************************************************)
(* The tree: a node s = (2m + 1) * e sends to the node 2m * e, where e is  *)
(* the depth at which s is odd, a power of two.  The powers of two are the *)
(* numbers that every set has that has 1 and with x also 2 * x.            *)
(***************************************************************************)
Pow == {e \in Nat \ {0} : \A S \in SUBSET Nat : 1 \in S /\ (\A x \in S : 2 * x \in S) => e \in S}

LEMMA Cancel ==
  ASSUME NEW e \in Nat \ {0}, NEW x \in Nat, NEW y \in Nat, x * e = y * e
  PROVE  x = y
<1>1. ASSUME NEW a \in Nat, NEW b \in Nat, a < b PROVE a * e < b * e
  <2>1. PICK k \in Nat \ {0} : b = a + k
    <3>1. b - a \in Nat \ {0} /\ b = a + (b - a)
      BY <1>1
    <3> QED BY <3>1
  <2>2. b * e = a * e + k * e /\ a * e \in Nat
    BY <2>1
  <2>3. k * e >= 1
    BY <2>1
  <2> QED BY <2>2, <2>3
<1>2. x * e \in Nat /\ y * e \in Nat
  OBVIOUS
<1>3. CASE x < y
  BY <1>1, <1>2, <1>3
<1>4. CASE y < x
  BY <1>1, <1>2, <1>4
<1> QED BY <1>3, <1>4

LEMMA PowOne == 1 \in Pow
  BY DEF Pow

LEMMA PowDouble ==
  ASSUME NEW e \in Pow PROVE 2 * e \in Pow /\ e \in Nat \ {0}
<1>1. e \in Nat \ {0} /\ 2 * e \in Nat \ {0}
  BY DEF Pow
<1>2. ASSUME NEW S \in SUBSET Nat, 1 \in S, \A x \in S : 2 * x \in S PROVE 2 * e \in S
  <2>1. e \in S
    BY <1>2 DEF Pow
  <2> QED BY <1>2, <2>1
<1> QED BY <1>1, <1>2 DEF Pow

\* Induction over the powers of two.
LEMMA PowInduction ==
  ASSUME NEW S \in SUBSET Pow, 1 \in S, \A x \in S : 2 * x \in S
  PROVE  S = Pow
<1>1. S \in SUBSET Nat
  BY PowDouble
<1> QED BY <1>1 DEF Pow

LEMMA PowHalf ==
  ASSUME NEW e \in Pow PROVE e = 1 \/ \E p \in Pow : e = 2 * p
<1> DEFINE S == {x \in Pow : x = 1 \/ \E p \in Pow : x = 2 * p}
<1>1. S \in SUBSET Pow /\ 1 \in S
  BY PowOne
<1>2. \A x \in S : 2 * x \in S
  BY PowDouble
<1>3. S = Pow
  <2> HIDE DEF S
  <2> QED BY <1>1, <1>2, PowInduction
<1> QED BY <1>3

\* Of two powers of two one is a multiple of the other.
LEMMA PowMultiple ==
  ASSUME NEW D \in Pow, NEW e \in Pow
  PROVE  \E p \in Pow : e = p * D \/ D = p * e
<1> DEFINE S == {x \in Pow : \E p \in Pow : x = p * D \/ D = p * x}
<1>1. S \in SUBSET Pow /\ 1 \in S
  <2>1. D \in Nat
    BY PowDouble
  <2>2. D = D * 1
    BY <2>1
  <2> QED BY <2>2, PowOne
<1>2. ASSUME NEW x \in S PROVE 2 * x \in S
  <2>1. PICK p \in Pow : x = p * D \/ D = p * x
    OBVIOUS
  <2>2. x \in Pow /\ 2 * x \in Pow /\ 2 * p \in Pow /\ x \in Nat /\ p \in Nat /\ D \in Nat
    BY PowDouble
  <2>3. CASE x = p * D
    <3>1. 2 * x = (2 * p) * D
      BY <2>2, <2>3
    <3> QED BY <2>2, <3>1
  <2>4. CASE D = p * x
    <3>1. CASE p = 1
      <4>1. 2 * x = 2 * D
        BY <2>2, <2>4, <3>1
      <4>2. 2 * 1 \in Pow
        BY PowOne, PowDouble
      <4>3. 2 \in Pow
        BY <4>2
      <4> QED BY <2>2, <4>1, <4>3
    <3>2. ASSUME NEW q \in Pow, p = 2 * q PROVE 2 * x \in S
      <4>1. q \in Nat
        BY PowDouble
      <4>2. D = q * (2 * x)
        BY <2>2, <2>4, <3>2, <4>1
      <4> QED BY <2>2, <4>2
    <3> QED BY <3>1, <3>2, PowHalf
  <2> QED BY <2>1, <2>3, <2>4
<1>3. S = Pow
  <2> HIDE DEF S
  <2> QED BY <1>1, <1>2, PowInduction
<1> QED BY <1>3

LEMMA PowLess ==
  ASSUME NEW D \in Pow, NEW e \in Pow, D < e
  PROVE  \E p \in Pow : e = (2 * p) * D
<1>0. D \in Nat \ {0} /\ e \in Nat \ {0}
  BY PowDouble
<1>1. PICK p \in Pow : e = p * D \/ D = p * e
  BY PowMultiple
<1>2. p \in Nat \ {0}
  BY PowDouble
<1>3. e = p * D /\ p # 1
  <2>1. CASE D = p * e
    <3>1. p * e >= e
      <4>1. p - 1 \in Nat /\ p = (p - 1) + 1
        BY <1>2
      <4>2. p * e = (p - 1) * e + e /\ (p - 1) * e \in Nat
        BY <1>0, <4>1
      <4> QED BY <1>0, <4>2
    <3> QED BY <1>0, <2>1, <3>1
  <2>2. CASE e = p * D
    BY <1>0, <2>2
  <2> QED BY <1>1, <2>1, <2>2
<1>4. PICK q \in Pow : p = 2 * q
  BY <1>3, PowHalf
<1> QED BY <1>3, <1>4

LEMMA PowNext ==
  ASSUME NEW D \in Pow, NEW e \in Pow, D < e
  PROVE  2 * D <= e
<1>1. PICK p \in Pow : e = (2 * p) * D
  BY PowLess
<1>2. p - 1 \in Nat /\ D \in Nat /\ p \in Nat /\ p = (p - 1) + 1
  BY PowDouble
<1>3. e = 2 * ((p - 1) * D) + 2 * D /\ (p - 1) * D \in Nat
  BY <1>1, <1>2
<1> QED BY <1>2, <1>3

\* The depth at which a node is odd is the only one.
LEMMA OddOnce ==
  ASSUME NEW D \in Pow, NEW e \in Pow, NEW a \in Nat, NEW b \in Nat,
         a * D = b * e, a % 2 # 0, b % 2 # 0
  PROVE  D = e
<1>0. D \in Nat \ {0} /\ e \in Nat \ {0}
  BY PowDouble
<1>1. ASSUME NEW x \in Pow, NEW y \in Pow, NEW k \in Nat, NEW l \in Nat, x < y, k * x = l * y
      PROVE  k % 2 = 0
  <2>1. PICK p \in Pow : y = (2 * p) * x
    BY <1>1, PowLess
  <2>2. p \in Nat /\ x \in Nat \ {0}
    BY PowDouble
  <2>3. k * x = (2 * (l * p)) * x /\ l * p \in Nat
    <3>1. l * ((2 * p) * x) = (2 * (l * p)) * x
      BY <2>2
    <3> QED BY <1>1, <2>1, <2>2, <3>1
  <2>4. k = 2 * (l * p)
    <3>1. 2 * (l * p) \in Nat
      BY <2>3
    <3> QED BY <2>2, <2>3, <3>1, Cancel
  <2> QED BY <2>3, <2>4
<1>2. CASE D < e
  BY <1>1, <1>2
<1>3. CASE e < D
  BY <1>1, <1>3
<1> QED BY <1>0, <1>2, <1>3

Sends(s, d) == \E e \in Pow, m \in Nat : s = (2 * m + 1) * e /\ d = 2 * m * e

\* The channels that treereduce uses: up the tree, and from rank 0 to Root.
Edge(s, d) == Sends(s, d) \/ (s = 0 /\ d = Root /\ Root # 0)

(***************************************************************************)
(* The invariant.  A channel carries two messages for each call of the     *)
(* program that uses it.  Posted and Taken count those that the two ranks  *)
(* have put there and taken out, from the call and the turn or the depth   *)
(* each is in.                                                             *)
(***************************************************************************)
Carries(c, s, d) == prog[c] \in RingOps \/ (prog[c] = "treereduce" /\ Edge(s, d))
CallsOn(n, s, d) == {c \in 1 .. n - 1 : Carries(c, s, d)}
Before(n, s, d)  == Cardinality(CallsOn(n, s, d))

Turning == {"isend", "size", "data", "wait"}
Merging == {"tree", "treedata", "func"}
Rooting == {"rootsize", "rootdata", "rootout"}
InRing(r) == pc[r] \in Turning \/ (pc[r] = "return" /\ Op(r) \in RingOps)

\* r has sent its data up, or has the result: it is out of the loop.
Left(r) == pc[r] \in Rooting \cup {"result"} \/ (pc[r] = "return" /\ Op(r) = "treereduce")

PostedNow(s, d) ==
  IF InRing(s)
  THEN IF i[s] > Turn(s, d) \/ (i[s] = Turn(s, d) /\ pc[s] # "isend") THEN 2 ELSE 0
  ELSE IF Left(s) /\ Edge(s, d) THEN 2 ELSE 0

RingTaken(s, d) ==
  IF i[d] < Turn(s, d) THEN 0
  ELSE IF i[d] > Turn(s, d) \/ pc[d] = "wait" THEN 2
  ELSE IF pc[d] = "data" THEN 1 ELSE 0

\* s # 0 is a child of d in the tree.
ChildTaken(s, d) ==
  IF Left(d) \/ tree[d].depth > s - d THEN 2
  ELSE IF tree[d].depth < s - d \/ pc[d] = "tree" THEN 0
  ELSE IF pc[d] = "treedata" THEN 1 ELSE 2

RootTaken(d) ==
  IF pc[d] \in {"rootout", "return"} THEN 2 ELSE IF pc[d] = "rootdata" THEN 1 ELSE 0

TakenNow(s, d) ==
  IF InRing(d) THEN RingTaken(s, d)
  ELSE IF ~Edge(s, d) \/ ~(pc[d] \in Merging \/ Left(d)) THEN 0
  ELSE IF s = 0 THEN RootTaken(d) ELSE ChildTaken(s, d)

Posted(s, d) == 2 * Before(at[s], s, d) + PostedNow(s, d)
Taken(s, d)  == 2 * Before(at[d], s, d) + TakenNow(s, d)

\* The data of the ranks from a up to b.
Run(a, b) == [j \in 1 .. b - a |-> <<a + j - 1, N>>]
Cut(x)    == IF x < N THEN x ELSE N

\* What call c sends from s to d: in a tree, what the ranks below s had.
Load(c, s, d) ==
  IF prog[c] # "treereduce" THEN Outgoing(prog[c], s, d)
  ELSE IF s = 0 THEN Run(0, N) ELSE Run(s, Cut(2 * s - d))

SizeMsg(c, s, d) == Message("size", Load(c, s, d), FALSE)
DataMsg(c, s, d) == Message("data", Load(c, s, d), prog[c] = "treereduce")

\* What is in the channel are the messages that were posted and not yet taken,
\* each with the contents that its call gave to it.
PairInv(s, d) ==
  LET ch == chan[<<s, d>>] IN
  /\ Len(ch) = Posted(s, d) - Taken(s, d)
  /\ \A j \in 1 .. Len(ch), c \in DOMAIN prog : Carries(c, s, d) =>
       /\ Taken(s, d) + j = 2 * Before(c, s, d) + 1 => ch[j] = SizeMsg(c, s, d)
       /\ Taken(s, d) + j = 2 * Before(c, s, d) + 2 => ch[j] = DataMsg(c, s, d)

ChanInv == \A s, d \in Rank : s # d => PairInv(s, d)

\* A buffer that is still to be read is not written: its rank is through with it.
Through(r) ==
  \E c \in DOMAIN prog : prog[c] = "treereduce" /\ (c < at[r] \/ (c = at[r] /\ Left(r)))

RefInv ==
  \A s, d \in Rank : \A j \in 1 .. Len(chan[<<s, d>>]) :
    chan[<<s, d>>][j].byref => Through(s) /\ chan[<<s, d>>][j].val = data[s]

\* The messages that rank r has taken, and from whom.
Sender(r) ==
  IF pc[r] \in Merging THEN r + tree[r].depth ELSE IF pc[r] \in Rooting THEN 0 ELSE From(r)

Held(r) ==
  /\ pc[r] \in {"data", "wait", "treedata", "func", "rootdata", "rootout"} =>
       size[r] = SizeMsg(at[r], Sender(r), r)
  /\ pc[r] \in {"wait", "func", "rootout"} => tmpr[r] = DataMsg(at[r], Sender(r), r)

SlotAt(r, k) == IF Op(r) = "alltoall" THEN (r + N - k) % N ELSE k

\* The turns that are through have filled their slots, and only these.
Filled(r) ==
  InRing(r) => \A k \in Rank :
    out[r][SlotAt(r, k)] = IF k < i[r] THEN Outgoing(Op(r), (r + k) % N, r) ELSE <<>>

\* The node of r is one of num at its depth, and has the data of the ranks below it.
NodeOk(r) ==
  LET t == tree[r] IN
  /\ t.depth \in Pow /\ r = t.rk * t.depth /\ t.rk < t.num
  /\ (t.num - 1) * t.depth < N /\ N <= t.num * t.depth
  /\ data[r] = Run(r, Cut(r + t.depth))

Grown(r) ==
  /\ pc[r] \in Merging => NodeOk(r)
  /\ pc[r] \in {"treedata", "func"} => tree[r].rk % 2 = 0 /\ tree[r].rk # tree[r].num - 1
  /\ pc[r] = "result" => r # 0
  /\ pc[r] \in Rooting => r = Root /\ Root # 0
  /\ r = Root /\ pc[r] = "return" /\ Op(r) = "treereduce" => out[r][0] = Run(0, N)
  /\ \A c \in DOMAIN prog :
       prog[c] = "treereduce" /\ (c > at[r] \/ (c = at[r] /\ pc[r] = "call")) => data[r] = Run(r, r + 1)

AnyMsg == [kind : {"size", "data"}, n : Nat, val : Seq(Item), byref : BOOLEAN]
Places == Turning \cup Merging \cup Rooting \cup {"call", "return", "barrier", "result"}

Typed ==
  /\ prog \in Seq(RingOps \cup {"treereduce", "synchronize"})
  /\ \A b, c \in DOMAIN prog : prog[b] = "treereduce" /\ prog[c] = "treereduce" => b = c
  /\ sbuf \in [Rank -> [Rank -> Seq(Item)]]
  /\ at \in [Rank -> Nat \ {0}] /\ i \in [Rank -> Nat]
  /\ pc \in [Rank -> Places]
  /\ chan \in [Rank \X Rank -> Seq(AnyMsg)]
  /\ DOMAIN size = Rank /\ DOMAIN tmpr = Rank
  /\ out \in [Rank -> [Rank -> Seq(Item)]]
  /\ data \in [Rank -> Seq(Item)]
  /\ tree \in [Rank -> [rk : Nat, num : Nat, depth : Nat]]

Placed(r) ==
  /\ pc[r] # "call" => at[r] <= Len(prog)
  /\ pc[r] \in Turning => Op(r) \in RingOps /\ i[r] \in 1 .. N - 1
  /\ pc[r] \in Merging \cup Rooting \cup {"result"} => Op(r) = "treereduce"
  /\ pc[r] = "barrier" => Op(r) = "synchronize"
  /\ pc[r] = "return" /\ Op(r) \in RingOps => i[r] = N

RankInv(r) == Placed(r) /\ Held(r) /\ Filled(r) /\ Grown(r)

Inv == Typed /\ ChanInv /\ RefInv /\ \A r \in Rank : RankInv(r)

LEMMA SendsFrom ==
  ASSUME NEW s \in Nat, NEW d \in Nat, Sends(s, d)
  PROVE  /\ s - d \in Pow /\ d < s
         /\ \E m \in Nat : s = (2 * m + 1) * (s - d) /\ d = (2 * m) * (s - d)
<1>1. PICK e \in Pow, m \in Nat : s = (2 * m + 1) * e /\ d = 2 * m * e
  BY DEF Sends
<1>2. e \in Nat \ {0}
  BY PowDouble
<1>3. (2 * m + 1) * e = 2 * m * e + e /\ 2 * m * e \in Nat
  BY <1>2
<1>4. s - d = e
  BY <1>1, <1>2, <1>3
<1>5. d < s
  BY <1>1, <1>2, <1>3
<1> QED BY <1>1, <1>4, <1>5

\* An odd node sends to the node before it and to no other.
LEMMA OddSends ==
  ASSUME NEW r \in Nat, NEW k \in Nat, NEW D \in Pow, r = k * D, k % 2 # 0
  PROVE  /\ (k - 1) * D = r - D /\ r - D \in Nat /\ r # 0
         /\ \A d \in Nat : Sends(r, d) <=> d = r - D
<1>0. D \in Nat \ {0}
  BY PowDouble
<1>1. PICK m \in Nat : k = 2 * m + 1
  <2>1. k \div 2 \in Nat /\ k = 2 * (k \div 2) + 1
    OBVIOUS
  <2> QED BY <2>1
<1>2. /\ r = (2 * m + 1) * D /\ (2 * m + 1) * D = 2 * m * D + D /\ 2 * m * D \in Nat
      /\ k - 1 = 2 * m
  BY <1>0, <1>1
<1>3. (k - 1) * D = r - D /\ r - D \in Nat /\ r # 0
  BY <1>0, <1>2
<1>4. Sends(r, r - D)
  BY <1>2, <1>3 DEF Sends
<1>5. ASSUME NEW d \in Nat, Sends(r, d) PROVE d = r - D
  <2>1. r - d \in Pow /\ d < r /\ \E n \in Nat : r = (2 * n + 1) * (r - d)
    BY <1>5, SendsFrom
  <2>2. PICK n \in Nat : r = (2 * n + 1) * (r - d)
    BY <2>1
  <2>3. (2 * n + 1) % 2 # 0 /\ 2 * n + 1 \in Nat
    OBVIOUS
  <2>4. D = r - d
    BY <2>1, <2>2, <2>3, OddOnce
  <2> QED BY <2>1, <2>4
<1> QED BY <1>3, <1>4, <1>5

\* The node after an even one sends to it.
LEMMA EvenReceives ==
  ASSUME NEW r \in Nat, NEW k \in Nat, NEW D \in Pow, r = k * D, k % 2 = 0
  PROVE  (k + 1) * D = r + D /\ Sends(r + D, r) /\ D \in Nat \ {0}
<1>0. D \in Nat \ {0}
  BY PowDouble
<1>1. PICK m \in Nat : k = 2 * m
  <2>1. k \div 2 \in Nat /\ k = 2 * (k \div 2)
    OBVIOUS
  <2> QED BY <2>1
<1>2. (k + 1) * D = r + D /\ r + D = (2 * m + 1) * D /\ r = 2 * m * D
  BY <1>0, <1>1
<1> QED BY <1>0, <1>2 DEF Sends

\* An odd node has heard all nodes that send to it.
LEMMA OddHasAll ==
  ASSUME NEW r \in Nat, NEW k \in Nat, NEW D \in Pow, r = k * D, k % 2 # 0,
         NEW s \in Nat, Sends(s, r)
  PROVE  D > s - r
<1>1. s - r \in Pow /\ r < s /\ \E m \in Nat : r = (2 * m) * (s - r)
  BY SendsFrom
<1>2. PICK m \in Nat : r = (2 * m) * (s - r)
  BY <1>1
<1>3. D \in Nat \ {0} /\ s - r \in Nat \ {0}
  BY <1>1, PowDouble
<1>4. CASE D = s - r
  <2>1. k = 2 * m
    <3>1. k * D = (2 * m) * D /\ 2 * m \in Nat
      BY <1>2, <1>4
    <3> QED BY <1>3, <3>1, Cancel
  <2> QED BY <2>1
<1>5. CASE D < s - r
  <2>1. PICK p \in Pow : s - r = (2 * p) * D
    BY <1>1, <1>5, PowLess
  <2>2. p \in Nat
    BY PowDouble
  <2>3. (2 * m) * ((2 * p) * D) = (2 * (2 * m * p)) * D /\ 2 * m * p \in Nat /\ 2 * (2 * m * p) \in Nat
    BY <1>3, <2>2
  <2>4. k = 2 * (2 * m * p)
    <3>1. k * D = (2 * (2 * m * p)) * D
      BY <1>2, <2>1, <2>3
    <3> QED BY <1>3, <2>3, <3>1, Cancel
  <2> QED BY <2>3, <2>4
<1> QED BY <1>3, <1>4, <1>5

-----------------------------------------------------------------------------
(***************************************************************************)
(* Counting the calls of the program that use a channel.                   *)
(***************************************************************************)
LEMMA CallsFinite ==
  ASSUME NEW n \in Nat, NEW s, NEW d
  PROVE  IsFiniteSet(CallsOn(n, s, d)) /\ Before(n, s, d) \in Nat
<1>1. IsFiniteSet(1 .. n - 1)
  BY FS_Interval
<1> QED BY <1>1, FS_Subset, FS_CardinalityType DEF CallsOn, Before

LEMMA CallsNext ==
  ASSUME NEW n \in Nat \ {0}, NEW s, NEW d
  PROVE  Before(n + 1, s, d) = Before(n, s, d) + (IF Carries(n, s, d) THEN 1 ELSE 0)
<1>1. n \notin CallsOn(n, s, d)
  BY DEF CallsOn
<1>2. CallsOn(n + 1, s, d) = CallsOn(n, s, d) \cup (IF Carries(n, s, d) THEN {n} ELSE {})
  <2>1. \A c : c \in 1 .. (n + 1) - 1 <=> c \in 1 .. n - 1 \/ c = n
    OBVIOUS
  <2> QED BY <2>1 DEF CallsOn
<1>3. IsFiniteSet(CallsOn(n, s, d)) /\ Before(n, s, d) \in Nat
  BY CallsFinite
<1>4. CASE Carries(n, s, d)
  BY <1>1, <1>2, <1>3, <1>4, FS_AddElement DEF Before
<1>5. CASE ~Carries(n, s, d)
  <2>1. CallsOn(n + 1, s, d) = CallsOn(n, s, d)
    BY <1>2, <1>5
  <2> QED BY <1>3, <1>5, <2>1 DEF Before
<1> QED BY <1>4, <1>5

\* A call is told by how many come before it on the channel.
LEMMA CallsTell ==
  ASSUME NEW b \in Nat \ {0}, NEW c \in Nat \ {0}, NEW s, NEW d,
         Carries(b, s, d), Carries(c, s, d), Before(b, s, d) = Before(c, s, d)
  PROVE  b = c
<1>1. ASSUME NEW x \in Nat \ {0}, NEW y \in Nat \ {0}, Carries(x, s, d), x < y
      PROVE  Before(x, s, d) < Before(y, s, d)
  <2>1. CallsOn(x + 1, s, d) \subseteq CallsOn(y, s, d)
    BY <1>1 DEF CallsOn
  <2>2. /\ IsFiniteSet(CallsOn(y, s, d))
        /\ Before(y, s, d) \in Nat /\ Before(x, s, d) \in Nat
    BY CallsFinite
  <2>3. Before(x + 1, s, d) <= Before(y, s, d)
    BY <2>1, <2>2, FS_Subset DEF Before
  <2>4. Before(x + 1, s, d) = Before(x, s, d) + 1
    BY <1>1, CallsNext
  <2> QED BY <2>2, <2>3, <2>4
<1>2. Before(b, s, d) \in Nat /\ Before(c, s, d) \in Nat
  BY CallsFinite
<1>3. CASE b < c
  BY <1>1, <1>2, <1>3
<1>4. CASE c < b
  BY <1>1, <1>2, <1>4
<1> QED BY <1>3, <1>4

LEMMA CallsStay ==
  ASSUME UNCHANGED <<prog, sbuf>>
  PROVE  \A c, s, d : /\ Carries(c, s, d)' = Carries(c, s, d) /\ Before(c, s, d)' = Before(c, s, d)
                      /\ Load(c, s, d)' = Load(c, s, d)
                      /\ SizeMsg(c, s, d)' = SizeMsg(c, s, d) /\ DataMsg(c, s, d)' = DataMsg(c, s, d)
<1>1. ASSUME NEW c, NEW s, NEW d
      PROVE  Carries(c, s, d)' = Carries(c, s, d) /\ Before(c, s, d)' = Before(c, s, d)
  BY DEF Carries, Before, CallsOn
<1>2. ASSUME NEW c, NEW s, NEW d PROVE Load(c, s, d)' = Load(c, s, d)
  BY DEF Load, Outgoing
<1>3. ASSUME NEW c, NEW s, NEW d
      PROVE  SizeMsg(c, s, d)' = SizeMsg(c, s, d) /\ DataMsg(c, s, d)' = DataMsg(c, s, d)
  BY <1>2 DEF SizeMsg, DataMsg
<1> QED BY <1>1, <1>2, <1>3

LEMMA CountTypes ==
  ASSUME Typed, NEW s \in Rank, NEW d \in Rank
  PROVE  /\ Before(at[s], s, d) \in Nat /\ Before(at[d], s, d) \in Nat
         /\ Posted(s, d) \in Nat /\ Taken(s, d) \in Nat
<1>1. Before(at[s], s, d) \in Nat /\ Before(at[d], s, d) \in Nat
  BY CallsFinite DEF Typed
<1>2. PostedNow(s, d) \in {0, 2}
  BY DEF PostedNow
<1>3. TakenNow(s, d) \in {0, 1, 2}
  BY DEF TakenNow, RingTaken, ChildTaken, RootTaken
<1> QED BY <1>1, <1>2, <1>3 DEF Posted, Taken

-----------------------------------------------------------------------------
(***************************************************************************)
(* What a step of rank r leaves alone.                                     *)
(***************************************************************************)
Only(r) ==
  /\ UNCHANGED <<prog, sbuf>>
  /\ \A v \in Rank : v # r =>
       /\ at'[v] = at[v] /\ pc'[v] = pc[v] /\ i'[v] = i[v] /\ tree'[v] = tree[v]
       /\ size'[v] = size[v] /\ tmpr'[v] = tmpr[v] /\ out'[v] = out[v] /\ data'[v] = data[v]

LEMMA StepIsOnly ==
  ASSUME Typed, NEW r \in Rank, RankStep(r) PROVE Only(r)
<1>1. /\ DOMAIN at = Rank /\ DOMAIN pc = Rank /\ DOMAIN i = Rank /\ DOMAIN tree = Rank
      /\ DOMAIN size = Rank /\ DOMAIN tmpr = Rank /\ DOMAIN out = Rank /\ DOMAIN data = Rank
  BY DEF Typed
<1>2. CASE EnterRing(r) \/ RingIsend(r) \/ RingWait(r)
  BY <1>1, <1>2 DEF EnterRing, RingIsend, RingWait, Go, Only
<1>3. CASE RingRecvSize(r) \/ RingRecvData(r) \/ TreeRecvSize(r) \/ TreeRecvData(r)
             \/ RootRecvSize(r) \/ RootRecvData(r)
  BY <1>1, <1>3 DEF RingRecvSize, RingRecvData, TreeRecvSize, TreeRecvData, RootRecvSize,
                    RootRecvData, RecvSize, RecvData, Go, Only
<1>4. CASE EnterTree(r) \/ TreeSend(r) \/ TreeAlone(r) \/ TreeFunc(r)
  BY <1>1, <1>4 DEF EnterTree, TreeSend, TreeAlone, TreeFunc, Go, Only
<1>5. CASE TreeResult(r) \/ RootOut(r)
  BY <1>1, <1>5 DEF TreeResult, RootOut, Go, Only
<1>6. CASE EnterBarrier(r) \/ LeaveBarrier(r) \/ Return(r)
  BY <1>1, <1>6 DEF EnterBarrier, LeaveBarrier, Return, Go, Only
<1> QED BY <1>2, <1>3, <1>4, <1>5, <1>6 DEF RankStep

LEMMA Elsewhere ==
  ASSUME NEW r \in Rank, Only(r)
  PROVE  \A s, d \in Rank : /\ s # r => Posted(s, d)' = Posted(s, d)
                            /\ d # r => Taken(s, d)' = Taken(s, d)
<1>1. \A c, s, d : Before(c, s, d)' = Before(c, s, d)
  BY CallsStay DEF Only
<1>2. ASSUME NEW v \in Rank, v # r PROVE InRing(v)' = InRing(v) /\ Left(v)' = Left(v)
  BY <1>2 DEF InRing, Left, Op, Only
<1>3. ASSUME NEW s \in Rank, NEW d \in Rank, s # r PROVE Posted(s, d)' = Posted(s, d)
  BY <1>1, <1>2, <1>3 DEF Posted, PostedNow, Only
<1>4. ASSUME NEW s \in Rank, NEW d \in Rank, d # r PROVE Taken(s, d)' = Taken(s, d)
  BY <1>1, <1>2, <1>4 DEF Taken, TakenNow, RingTaken, ChildTaken, RootTaken, Only
<1> QED BY <1>3, <1>4

LEMMA OthersKept ==
  ASSUME NEW r \in Rank, Only(r), NEW v \in Rank, v # r, RankInv(v)
  PROVE  RankInv(v)'
<1>1. /\ at'[v] = at[v] /\ pc'[v] = pc[v] /\ i'[v] = i[v] /\ tree'[v] = tree[v]
      /\ size'[v] = size[v] /\ tmpr'[v] = tmpr[v] /\ out'[v] = out[v] /\ data'[v] = data[v]
      /\ UNCHANGED <<prog, sbuf>>
  BY DEF Only
<1>2. /\ Op(v)' = Op(v) /\ From(v)' = From(v) /\ InRing(v)' = InRing(v) /\ Sender(v)' = Sender(v)
  BY <1>1 DEF Op, From, InRing, Sender
<1>3. \A k : SlotAt(v, k)' = SlotAt(v, k) /\ Outgoing(Op(v), k, v)' = Outgoing(Op(v), k, v)
  BY <1>1, <1>2 DEF SlotAt, Outgoing
<1>4. /\ SizeMsg(at[v], Sender(v), v)' = SizeMsg(at[v], Sender(v), v)
      /\ DataMsg(at[v], Sender(v), v)' = DataMsg(at[v], Sender(v), v)
  BY <1>1, <1>2 DEF SizeMsg, DataMsg, Load, Outgoing
<1>5. Placed(v)'
  BY <1>1, <1>2 DEF RankInv, Placed
<1>6. Held(v)'
  BY <1>1, <1>4 DEF RankInv, Held
<1>7. Filled(v)'
  BY <1>1, <1>2, <1>3 DEF RankInv, Filled
<1>8. NodeOk(v)' = NodeOk(v)
  BY <1>1 DEF NodeOk
<1>9. Grown(v)'
  BY <1>1, <1>2, <1>8 DEF RankInv, Grown
<1> QED BY <1>5, <1>6, <1>7, <1>9 DEF RankInv

LEMMA ThroughStays ==
  ASSUME Typed, NEW r \in Rank, Only(r),
         \/ at'[r] = at[r] /\ (Left(r) => Left(r)')
         \/ at'[r] = at[r] + 1
  PROVE  \A s \in Rank : Through(s) => Through(s)'
<1> SUFFICES ASSUME NEW s \in Rank, Through(s) PROVE Through(s)'
  OBVIOUS
<1>1. PICK c \in DOMAIN prog : prog[c] = "treereduce" /\ (c < at[s] \/ (c = at[s] /\ Left(s)))
  BY DEF Through
<1>2. c \in Nat /\ at[s] \in Nat
  <2>1. DOMAIN prog = 1 .. Len(prog) /\ Len(prog) \in Nat /\ at[s] \in Nat
    BY DEF Typed
  <2> QED BY <2>1
<1>3. CASE s # r
  <2>1. at'[s] = at[s] /\ Left(s)' = Left(s) /\ prog' = prog
    BY <1>3 DEF Only, Left, Op
  <2> QED BY <1>1, <2>1 DEF Through
<1>4. CASE s = r
  <2>1. prog' = prog
    BY DEF Only
  <2>2. c < at'[r] \/ (c = at'[r] /\ Left(r)')
    BY <1>1, <1>2, <1>4
  <2> QED BY <1>1, <1>4, <2>1, <2>2 DEF Through
<1> QED BY <1>3, <1>4

-----------------------------------------------------------------------------
(***************************************************************************)
(* The channels: a step posts two messages, takes one, or leaves them.     *)
(***************************************************************************)
LEMMA PairKept ==
  ASSUME NEW s \in Rank, NEW d \in Rank, PairInv(s, d), UNCHANGED <<prog, sbuf>>,
         chan'[<<s, d>>] = chan[<<s, d>>], Posted(s, d)' = Posted(s, d), Taken(s, d)' = Taken(s, d)
  PROVE  PairInv(s, d)'
  BY CallsStay DEF PairInv

\* A message is taken out of a channel.
LEMMA MessageTaken ==
  ASSUME Typed, NEW s \in Rank, NEW d \in Rank, PairInv(s, d), UNCHANGED <<prog, sbuf>>,
         chan[<<s, d>>] # <<>>, chan'[<<s, d>>] = Tail(chan[<<s, d>>]),
         Posted(s, d)' = Posted(s, d), Taken(s, d)' = Taken(s, d) + 1
  PROVE  PairInv(s, d)'
<1> DEFINE ch == chan[<<s, d>>]
           cn == chan'[<<s, d>>]
           t == Taken(s, d)
<1>1. t \in Nat /\ Posted(s, d) \in Nat
  BY CountTypes
<1>2. ch \in Seq(AnyMsg) /\ ch # <<>> /\ cn = Tail(ch)
  BY DEF Typed
<1>3. Len(ch) \in Nat \ {0} /\ Len(cn) = Len(ch) - 1 /\ \A j \in 1 .. Len(cn) : cn[j] = ch[j + 1]
  <2> HIDE DEF ch, cn
  <2> QED BY <1>2
<1>4. ASSUME NEW c \in DOMAIN prog, Carries(c, s, d), NEW j \in 1 .. Len(cn)
      PROVE  /\ t + 1 + j = 2 * Before(c, s, d) + 1 => cn[j] = SizeMsg(c, s, d)
             /\ t + 1 + j = 2 * Before(c, s, d) + 2 => cn[j] = DataMsg(c, s, d)
  <2> HIDE DEF ch, cn, t
  <2>1. j + 1 \in 1 .. Len(ch) /\ t + (j + 1) = t + 1 + j /\ cn[j] = ch[j + 1]
    BY <1>1, <1>3
  <2>2. /\ t + (j + 1) = 2 * Before(c, s, d) + 1 => ch[j + 1] = SizeMsg(c, s, d)
        /\ t + (j + 1) = 2 * Before(c, s, d) + 2 => ch[j + 1] = DataMsg(c, s, d)
    BY <1>4, <2>1 DEF PairInv, ch, t
  <2> QED BY <2>1, <2>2
<1>5. Len(cn) = Posted(s, d)' - Taken(s, d)'
  BY <1>1, <1>3 DEF PairInv
<1> QED BY <1>4, <1>5, CallsStay DEF PairInv

LEMMA TwoAppended ==
  ASSUME NEW A, NEW a \in Seq(A), NEW b \in Seq(A), Len(b) = 2
  PROVE  /\ Len(a \o b) = Len(a) + 2
         /\ \A j \in 1 .. Len(a) : (a \o b)[j] = a[j]
         /\ (a \o b)[Len(a) + 1] = b[1] /\ (a \o b)[Len(a) + 2] = b[2]
<1> DEFINE ab == a \o b
<1>1. /\ Len(a) \in Nat /\ Len(ab) = Len(a) + 2
      /\ \A j \in 1 .. Len(a) + 2 : ab[j] = IF j <= Len(a) THEN a[j] ELSE b[j - Len(a)]
  <2>1. /\ Len(ab) = Len(a) + Len(b)
        /\ \A j \in 1 .. Len(a) + Len(b) : ab[j] = IF j <= Len(a) THEN a[j] ELSE b[j - Len(a)]
    BY ConcatProperties, Zenon
  <2> HIDE DEF ab
  <2>2. Len(a) \in Nat
    OBVIOUS
  <2> QED BY <2>1, <2>2
<1> HIDE DEF ab
<1>2. Len(a) + 1 - Len(a) = 1 /\ Len(a) + 2 - Len(a) = 2
  BY <1>1
<1>3. /\ \A j \in 1 .. Len(a) : ab[j] = a[j]
      /\ ab[Len(a) + 1] = b[1] /\ ab[Len(a) + 2] = b[2]
  BY <1>1, <1>2
<1> QED BY <1>1, <1>3 DEF ab

LEMMA FramesTyped ==
  ASSUME NEW v \in Seq(Item), NEW b \in BOOLEAN
  PROVE  /\ Frames(v, b) \in Seq(AnyMsg) /\ Len(Frames(v, b)) = 2
         /\ Frames(v, b)[1] = Message("size", v, FALSE) /\ Frames(v, b)[2] = Message("data", v, b)
<1>1. Message("size", v, FALSE) \in AnyMsg /\ Message("data", v, b) \in AnyMsg
  BY DEF Message, AnyMsg
<1>2. \A x, y \in AnyMsg : <<x, y>> \in Seq(AnyMsg)
  OBVIOUS
<1>3. Frames(v, b) \in Seq(AnyMsg)
  BY <1>1, <1>2, Zenon DEF Frames
<1> QED BY <1>3 DEF Frames

\* A call posts its two messages.
LEMMA MessagesPosted ==
  ASSUME Typed, NEW s \in Rank, NEW d \in Rank, PairInv(s, d), UNCHANGED <<prog, sbuf>>,
         at[s] <= Len(prog), Carries(at[s], s, d), Load(at[s], s, d) \in Seq(Item),
         chan'[<<s, d>>] = chan[<<s, d>>] \o Frames(Load(at[s], s, d), prog[at[s]] = "treereduce"),
         PostedNow(s, d) = 0, Posted(s, d)' = Posted(s, d) + 2, Taken(s, d)' = Taken(s, d)
  PROVE  PairInv(s, d)'
<1> DEFINE fr == Frames(Load(at[s], s, d), prog[at[s]] = "treereduce")
           ch == chan[<<s, d>>]
           cn == chan'[<<s, d>>]
           t == Taken(s, d)
           n == Before(at[s], s, d)
<1>1. n \in Nat /\ t \in Nat /\ at[s] \in Nat \ {0} /\ ch \in Seq(AnyMsg)
  BY CountTypes DEF Typed
<1>2. Posted(s, d) = 2 * n /\ Posted(s, d)' = 2 * n + 2
  BY <1>1 DEF Posted
<1>3. Len(ch) = 2 * n - t
  BY <1>2 DEF PairInv
<1>4. /\ cn = ch \o fr /\ fr \in Seq(AnyMsg) /\ Len(fr) = 2
      /\ fr[1] = SizeMsg(at[s], s, d) /\ fr[2] = DataMsg(at[s], s, d)
  <2>1. (prog[at[s]] = "treereduce") \in BOOLEAN
    OBVIOUS
  <2> QED BY <2>1, FramesTyped DEF SizeMsg, DataMsg
<1>5. /\ Len(cn) = Len(ch) + 2
      /\ \A j \in 1 .. Len(ch) : cn[j] = ch[j]
      /\ cn[Len(ch) + 1] = SizeMsg(at[s], s, d) /\ cn[Len(ch) + 2] = DataMsg(at[s], s, d)
  <2> HIDE DEF fr, ch, cn
  <2>1. /\ Len(cn) = Len(ch) + 2
        /\ \A j \in 1 .. Len(ch) : cn[j] = ch[j]
        /\ cn[Len(ch) + 1] = fr[1] /\ cn[Len(ch) + 2] = fr[2]
    BY <1>1, <1>4, TwoAppended
  <2> QED BY <1>4, <2>1
<1>6. ASSUME NEW c \in DOMAIN prog, Carries(c, s, d), NEW j \in 1 .. Len(cn)
      PROVE  /\ t + j = 2 * Before(c, s, d) + 1 => cn[j] = SizeMsg(c, s, d)
             /\ t + j = 2 * Before(c, s, d) + 2 => cn[j] = DataMsg(c, s, d)
  <2>1. c \in Nat \ {0} /\ Before(c, s, d) \in Nat
    <3>1. DOMAIN prog = 1 .. Len(prog) /\ Len(prog) \in Nat
      BY DEF Typed
    <3>2. c \in Nat \ {0}
      BY <3>1
    <3> QED BY <3>2, CallsFinite
  <2>2. CASE j \in 1 .. Len(ch)
    BY <1>5, <1>6, <2>2 DEF PairInv
  <2>3. CASE j \notin 1 .. Len(ch)
    <3>1. Len(ch) \in Nat
      BY <1>1
    <3>2. Before(c, s, d) = n => c = at[s]
      BY <1>1, <1>6, <2>1, CallsTell
    <3> HIDE DEF n, t, cn, ch
    <3>3. j = Len(ch) + 1 \/ j = Len(ch) + 2
      BY <1>5, <2>3, <3>1
    <3>4. CASE j = Len(ch) + 1
      <4>1. t + j = 2 * n + 1
        BY <1>1, <1>3, <3>1, <3>4
      <4>2. /\ t + j = 2 * Before(c, s, d) + 1 => Before(c, s, d) = n
            /\ t + j # 2 * Before(c, s, d) + 2
        <5> DEFINE m == Before(c, s, d)
        <5>1. m \in Nat /\ n \in Nat
          BY <1>1, <2>1
        <5> HIDE DEF m
        <5>2. (2 * n + 1 = 2 * m + 1 => m = n) /\ 2 * n + 1 # 2 * m + 2
          BY <5>1
        <5> QED BY <4>1, <5>2 DEF m
      <4> QED BY <1>5, <3>2, <3>4, <4>2
    <3>5. CASE j = Len(ch) + 2
      <4>1. t + j = 2 * n + 2
        BY <1>1, <1>3, <3>1, <3>5
      <4>2. /\ t + j = 2 * Before(c, s, d) + 2 => Before(c, s, d) = n
            /\ t + j # 2 * Before(c, s, d) + 1
        BY <1>1, <2>1, <4>1
      <4> QED BY <1>5, <3>2, <3>5, <4>2
    <3> QED BY <3>3, <3>4, <3>5
  <2> QED BY <2>2, <2>3
<1>7. Len(cn) = Posted(s, d)' - Taken(s, d)'
  <2>1. Taken(s, d)' = t
    OBVIOUS
  <2> HIDE DEF n, t, cn, ch
  <2> QED BY <1>1, <1>2, <1>3, <1>5, <2>1
<1>8. \A j \in 1 .. Len(cn), c \in DOMAIN prog' : Carries(c, s, d)' =>
        /\ Taken(s, d)' + j = 2 * Before(c, s, d)' + 1 => cn[j] = SizeMsg(c, s, d)'
        /\ Taken(s, d)' + j = 2 * Before(c, s, d)' + 2 => cn[j] = DataMsg(c, s, d)'
  <2> HIDE DEF cn, t
  <2>1. /\ prog' = prog /\ Taken(s, d)' = t
        /\ \A c : /\ Carries(c, s, d)' <=> Carries(c, s, d)
                 /\ Before(c, s, d)' = Before(c, s, d)
                 /\ SizeMsg(c, s, d)' = SizeMsg(c, s, d) /\ DataMsg(c, s, d)' = DataMsg(c, s, d)
    BY CallsStay DEF t
  <2>2. ASSUME NEW j \in 1 .. Len(cn), NEW c \in DOMAIN prog', Carries(c, s, d)'
        PROVE  /\ t + j = 2 * Before(c, s, d) + 1 => cn[j] = SizeMsg(c, s, d)
               /\ t + j = 2 * Before(c, s, d) + 2 => cn[j] = DataMsg(c, s, d)
    BY <1>6, <2>1, <2>2
  <2> QED BY <2>1, <2>2
<1> QED BY <1>7, <1>8, Zenon DEF PairInv

LEMMA QuietChan ==
  ASSUME ChanInv, NEW r \in Rank, Only(r), UNCHANGED chan,
         \A d \in Rank \ {r} : Posted(r, d)' = Posted(r, d) /\ Taken(d, r)' = Taken(d, r)
  PROVE  ChanInv'
<1> SUFFICES ASSUME NEW s \in Rank, NEW d \in Rank, s # d PROVE PairInv(s, d)'
  BY DEF ChanInv
<1>1. Posted(s, d)' = Posted(s, d) /\ Taken(s, d)' = Taken(s, d)
  BY Elsewhere
<1> QED BY <1>1, PairKept DEF ChanInv, Only

LEMMA TakeChan ==
  ASSUME Typed, ChanInv, NEW r \in Rank, Only(r), NEW v \in Rank \ {r},
         chan[<<v, r>>] # <<>>, chan' = [chan EXCEPT ![<<v, r>>] = Tail(@)],
         \A d \in Rank \ {r} : Posted(r, d)' = Posted(r, d),
         \A s \in Rank \ {r, v} : Taken(s, r)' = Taken(s, r),
         Taken(v, r)' = Taken(v, r) + 1
  PROVE  ChanInv' /\ chan' \in [Rank \X Rank -> Seq(AnyMsg)]
<1>1. chan \in [Rank \X Rank -> Seq(AnyMsg)]
  BY DEF Typed
<1>2. Tail(chan[<<v, r>>]) \in Seq(AnyMsg)
  <2> DEFINE ch == chan[<<v, r>>]
  <2>1. ch \in Seq(AnyMsg) /\ ch # <<>>
    BY <1>1
  <2> HIDE DEF ch
  <2>2. Tail(ch) \in Seq(AnyMsg)
    BY <2>1
  <2> QED BY <2>2 DEF ch
<1>3. chan' \in [Rank \X Rank -> Seq(AnyMsg)]
  BY <1>1, <1>2
<1>4. ASSUME NEW s \in Rank, NEW d \in Rank, s # d PROVE PairInv(s, d)'
  <2>1. Posted(s, d)' = Posted(s, d) /\ PairInv(s, d) /\ UNCHANGED <<prog, sbuf>>
    BY <1>4, Elsewhere DEF ChanInv, Only
  <2>2. CASE s = v /\ d = r
    <3>1. chan'[<<s, d>>] = Tail(chan[<<s, d>>])
      BY <1>1, <2>2
    <3> QED BY <2>1, <2>2, <3>1, MessageTaken
  <2>3. CASE ~(s = v /\ d = r)
    <3>1. chan'[<<s, d>>] = chan[<<s, d>>]
      BY <1>1, <2>3
    <3>2. Taken(s, d)' = Taken(s, d)
      BY <1>4, <2>3, Elsewhere
    <3> QED BY <2>1, <3>1, <3>2, PairKept
  <2> QED BY <2>2, <2>3
<1> QED BY <1>3, <1>4 DEF ChanInv

LEMMA PostChan ==
  ASSUME Typed, ChanInv, NEW r \in Rank, Only(r), NEW v \in Rank \ {r},
         at[r] <= Len(prog), Carries(at[r], r, v), Load(at[r], r, v) \in Seq(Item),
         chan' = [chan EXCEPT ![<<r, v>>] =
                    @ \o Frames(Load(at[r], r, v), prog[at[r]] = "treereduce")],
         PostedNow(r, v) = 0, Posted(r, v)' = Posted(r, v) + 2,
         \A d \in Rank \ {r, v} : Posted(r, d)' = Posted(r, d),
         \A s \in Rank \ {r} : Taken(s, r)' = Taken(s, r)
  PROVE  ChanInv' /\ chan' \in [Rank \X Rank -> Seq(AnyMsg)]
<1> DEFINE fr == Frames(Load(at[r], r, v), prog[at[r]] = "treereduce")
<1>1. chan \in [Rank \X Rank -> Seq(AnyMsg)]
  BY DEF Typed
<1>2. chan' \in [Rank \X Rank -> Seq(AnyMsg)]
  <2>1. (prog[at[r]] = "treereduce") \in BOOLEAN
    OBVIOUS
  <2>2. fr \in Seq(AnyMsg)
    BY <2>1, FramesTyped
  <2>3. chan' = [chan EXCEPT ![<<r, v>>] = @ \o fr]
    OBVIOUS
  <2> HIDE DEF fr
  <2>4. chan[<<r, v>>] \o fr \in Seq(AnyMsg)
    <3>1. chan[<<r, v>>] \in Seq(AnyMsg)
      BY <1>1
    <3> QED BY <2>2, <3>1
  <2> QED BY <1>1, <2>3, <2>4
<1>3. ASSUME NEW s \in Rank, NEW d \in Rank, s # d PROVE PairInv(s, d)'
  <2>1. Taken(s, d)' = Taken(s, d) /\ PairInv(s, d) /\ UNCHANGED <<prog, sbuf>>
    BY <1>3, Elsewhere DEF ChanInv, Only
  <2>2. CASE s = r /\ d = v
    <3>1. chan'[<<s, d>>] = chan[<<s, d>>] \o Frames(Load(at[s], s, d), prog[at[s]] = "treereduce")
      BY <1>1, <2>2
    <3> QED BY <2>1, <2>2, <3>1, MessagesPosted
  <2>3. CASE ~(s = r /\ d = v)
    <3>1. chan'[<<s, d>>] = chan[<<s, d>>]
      BY <1>1, <2>3
    <3>2. Posted(s, d)' = Posted(s, d)
      BY <1>3, <2>3, Elsewhere
    <3> QED BY <2>1, <3>1, <3>2, PairKept
  <2> QED BY <2>2, <2>3
<1> QED BY <1>2, <1>3 DEF ChanInv

\* The next message of a channel is one of the receiver's own call.
LEMMA NextMessage ==
  ASSUME Typed, NEW s \in Rank, NEW r \in Rank, PairInv(s, r), chan[<<s, r>>] # <<>>,
         at[r] <= Len(prog), Carries(at[r], s, r)
  PROVE  /\ TakenNow(s, r) = 0 => Head(chan[<<s, r>>]) = SizeMsg(at[r], s, r)
         /\ TakenNow(s, r) = 1 => Head(chan[<<s, r>>]) = DataMsg(at[r], s, r)
<1> DEFINE ch == chan[<<s, r>>]
<1>1. ch \in Seq(AnyMsg) /\ ch # <<>> /\ at[r] \in Nat \ {0}
  BY DEF Typed
<1>2. 1 \in 1 .. Len(ch) /\ Head(ch) = ch[1]
  <2> HIDE DEF ch
  <2> QED BY <1>1
<1>3. at[r] \in DOMAIN prog
  <2>1. DOMAIN prog = 1 .. Len(prog) /\ Len(prog) \in Nat
    BY DEF Typed
  <2> QED BY <1>1, <2>1
<1>4. Before(at[r], s, r) \in Nat
  BY CountTypes
<1>5. /\ Taken(s, r) + 1 = 2 * Before(at[r], s, r) + 1 => ch[1] = SizeMsg(at[r], s, r)
      /\ Taken(s, r) + 1 = 2 * Before(at[r], s, r) + 2 => ch[1] = DataMsg(at[r], s, r)
  BY <1>2, <1>3 DEF PairInv
<1>6. /\ TakenNow(s, r) = 0 => Taken(s, r) + 1 = 2 * Before(at[r], s, r) + 1
      /\ TakenNow(s, r) = 1 => Taken(s, r) + 1 = 2 * Before(at[r], s, r) + 2
  BY <1>4 DEF Taken
<1> QED BY <1>2, <1>5, <1>6

\* The buffers that are still to be read.
LEMMA RefQuiet ==
  ASSUME RefInv, UNCHANGED chan,
         \A s \in Rank : Through(s) => Through(s)' /\ data'[s] = data[s]
  PROVE  RefInv'
  BY DEF RefInv

LEMMA RefTaken ==
  ASSUME Typed, RefInv, NEW v \in Rank, NEW r \in Rank,
         chan[<<v, r>>] # <<>>, chan' = [chan EXCEPT ![<<v, r>>] = Tail(@)], UNCHANGED data,
         \A s \in Rank : Through(s) => Through(s)'
  PROVE  RefInv'
<1> SUFFICES ASSUME NEW s \in Rank, NEW d \in Rank, NEW j \in 1 .. Len(chan'[<<s, d>>]),
                    chan'[<<s, d>>][j].byref
             PROVE  Through(s)' /\ chan'[<<s, d>>][j].val = data'[s]
  BY DEF RefInv
<1>1. chan[<<s, d>>] \in Seq(AnyMsg)
  BY DEF Typed
<1>2. chan \in [Rank \X Rank -> Seq(AnyMsg)]
  BY DEF Typed
<1>3. CASE <<s, d>> = <<v, r>>
  <2> DEFINE ch == chan[<<s, d>>]
             cn == chan'[<<s, d>>]
  <2>1. cn = Tail(ch) /\ ch \in Seq(AnyMsg) /\ ch # <<>> /\ j \in 1 .. Len(cn)
    BY <1>1, <1>2, <1>3
  <2>2. j + 1 \in 1 .. Len(ch) /\ cn[j] = ch[j + 1]
    <3> HIDE DEF ch, cn
    <3> QED BY <2>1
  <2> QED BY <2>2 DEF RefInv
<1>4. CASE <<s, d>> # <<v, r>>
  <2>1. chan'[<<s, d>>] = chan[<<s, d>>]
    BY <1>2, <1>4
  <2> QED BY <2>1 DEF RefInv
<1> QED BY <1>3, <1>4

LEMMA RefPosted ==
  ASSUME Typed, RefInv, NEW r \in Rank, NEW v \in Rank, NEW val \in Seq(Item), NEW b \in BOOLEAN,
         chan' = [chan EXCEPT ![<<r, v>>] = @ \o Frames(val, b)], UNCHANGED data,
         b => val = data[r] /\ Through(r)',
         \A s \in Rank : Through(s) => Through(s)'
  PROVE  RefInv'
<1> SUFFICES ASSUME NEW s \in Rank, NEW d \in Rank, NEW j \in 1 .. Len(chan'[<<s, d>>]),
                    chan'[<<s, d>>][j].byref
             PROVE  Through(s)' /\ chan'[<<s, d>>][j].val = data'[s]
  BY DEF RefInv
<1>1. chan \in [Rank \X Rank -> Seq(AnyMsg)]
  BY DEF Typed
<1>2. CASE <<s, d>> = <<r, v>>
  <2> DEFINE ch == chan[<<s, d>>]
             cn == chan'[<<s, d>>]
             fr == Frames(val, b)
  <2>1. cn = ch \o fr /\ ch \in Seq(AnyMsg) /\ j \in 1 .. Len(cn)
    BY <1>1, <1>2
  <2>2. /\ fr \in Seq(AnyMsg) /\ Len(fr) = 2
        /\ fr[1] = Message("size", val, FALSE) /\ fr[2] = Message("data", val, b)
    BY FramesTyped
  <2>3. ~fr[1].byref /\ (fr[2].byref => b) /\ fr[2].val = val
    BY <2>2 DEF Message
  <2>4. /\ Len(cn) = Len(ch) + 2 /\ \A k \in 1 .. Len(ch) : cn[k] = ch[k]
        /\ cn[Len(ch) + 1] = fr[1] /\ cn[Len(ch) + 2] = fr[2] /\ Len(ch) \in Nat
    <3> HIDE DEF ch, cn, fr
    <3>1. Len(ch) \in Nat
      BY <2>1
    <3>2. /\ Len(cn) = Len(ch) + 2 /\ \A k \in 1 .. Len(ch) : cn[k] = ch[k]
          /\ cn[Len(ch) + 1] = fr[1] /\ cn[Len(ch) + 2] = fr[2]
      <4>1. cn = ch \o fr /\ ch \in Seq(AnyMsg) /\ fr \in Seq(AnyMsg) /\ Len(fr) = 2
        BY <2>1, <2>2
      <4> QED BY <4>1, TwoAppended
    <3> QED BY <3>1, <3>2
  <2>5. j \in 1 .. Len(ch) \/ j = Len(ch) + 1 \/ j = Len(ch) + 2
    <3> HIDE DEF ch, cn, fr
    <3> QED BY <2>1, <2>4
  <2>6. CASE j \in 1 .. Len(ch)
    <3>1. chan'[<<s, d>>][j] = chan[<<s, d>>][j]
      BY <2>4, <2>6
    <3>2. Through(s) /\ chan[<<s, d>>][j].val = data[s]
      BY <2>6, <3>1 DEF RefInv
    <3> QED BY <3>1, <3>2
  <2>7. CASE j = Len(ch) + 1
    BY <2>3, <2>4, <2>7
  <2>8. CASE j = Len(ch) + 2
    <3>1. cn[j] = fr[2] /\ cn[j].byref
      BY <2>4, <2>8
    <3>2. b /\ chan'[<<s, d>>][j].val = val
      BY <2>3, <3>1
    <3>3. s = r
      BY <1>2
    <3>4. val = data[r] /\ Through(r)'
      BY <3>2
    <3>5. data' = data
      OBVIOUS
    <3> QED BY <3>2, <3>3, <3>4, <3>5, Zenon
  <2> QED BY <2>5, <2>6, <2>7, <2>8
<1>3. CASE <<s, d>> # <<r, v>>
  <2>1. chan'[<<s, d>>] = chan[<<s, d>>]
    BY <1>1, <1>3
  <2>2. j \in 1 .. Len(chan[<<s, d>>]) /\ chan[<<s, d>>][j].byref
    BY <2>1
  <2>3. Through(s) /\ chan[<<s, d>>][j].val = data[s]
    BY <2>2 DEF RefInv
  <2> QED BY <2>1, <2>3
<1> QED BY <1>2, <1>3

LEMMA Combine ==
  ASSUME Inv, NEW r \in Rank, Only(r), Typed', ChanInv', RefInv', RankInv(r)'
  PROVE  Inv'
<1>1. \A v \in Rank : RankInv(v)'
  BY OthersKept DEF Inv
<1> QED BY <1>1 DEF Inv

LEMMA RunTyped ==
  ASSUME NEW a \in Nat, NEW b \in Nat, a <= b
  PROVE  /\ Run(a, b) \in Seq(Item) /\ Len(Run(a, b)) = b - a
         /\ \A j \in 1 .. b - a : Run(a, b)[j] = <<a + j - 1, N>>
<1>1. b - a \in Nat /\ N \in Nat
  BY NAssumption
<1>2. \A j \in 1 .. b - a : <<a + j - 1, N>> \in Item
  BY <1>1 DEF Item
<1>3. Run(a, b) \in [1 .. b - a -> Item]
  BY <1>2 DEF Run
<1>4. Run(a, b) \in Seq(Item)
  BY <1>1, <1>3
<1>5. DOMAIN Run(a, b) = 1 .. b - a
  BY DEF Run
<1>6. Len(Run(a, b)) = b - a
  BY <1>1, <1>4, <1>5
<1> QED BY <1>4, <1>6 DEF Run

LEMMA RunJoined ==
  ASSUME NEW a \in Nat, NEW b \in Nat, NEW c \in Nat, a <= b, b <= c
  PROVE  Run(a, b) \o Run(b, c) = Run(a, c)
<1> DEFINE x == Run(a, b)
           y == Run(b, c)
           z == Run(a, c)
           xy == x \o y
<1>1. /\ x \in Seq(Item) /\ Len(x) = b - a /\ \A j \in 1 .. b - a : x[j] = <<a + j - 1, N>>
      /\ y \in Seq(Item) /\ Len(y) = c - b /\ \A j \in 1 .. c - b : y[j] = <<b + j - 1, N>>
      /\ z \in Seq(Item) /\ Len(z) = c - a /\ \A j \in 1 .. c - a : z[j] = <<a + j - 1, N>>
  <2>1. a <= c
    OBVIOUS
  <2> QED BY <2>1, RunTyped, Zenon
<1> HIDE DEF x, y, z
<1>2. /\ Len(xy) = Len(x) + Len(y)
      /\ \A j \in 1 .. Len(x) + Len(y) : xy[j] = IF j <= Len(x) THEN x[j] ELSE y[j - Len(x)]
  BY <1>1, ConcatProperties, Zenon
<1>3. xy \in Seq(Item)
  BY <1>1
<1> HIDE DEF xy
<1>4. Len(xy) = Len(z)
  BY <1>1, <1>2
<1>5. ASSUME NEW j \in 1 .. Len(z) PROVE xy[j] = z[j]
  <2>1. CASE j <= b - a
    <3>1. j \in 1 .. b - a /\ j \in 1 .. Len(x) + Len(y) /\ j <= Len(x) /\ j \in 1 .. c - a
      BY <1>1, <1>5, <2>1
    <3>2. xy[j] = x[j]
      BY <1>2, <3>1
    <3> QED BY <1>1, <3>1, <3>2
  <2>2. CASE ~(j <= b - a)
    <3>1. j - (b - a) \in 1 .. c - b /\ b + (j - (b - a)) - 1 = a + j - 1
      BY <1>1, <1>5, <2>2
    <3>2. xy[j] = y[j - (b - a)]
      BY <1>1, <1>2, <2>2
    <3>3. y[j - (b - a)] = <<b + (j - (b - a)) - 1, N>> /\ z[j] = <<a + j - 1, N>>
      BY <1>1, <1>5, <3>1
    <3> QED BY <3>1, <3>2, <3>3
  <2> QED BY <2>1, <2>2
<1>6. xy = z
  BY <1>1, <1>3, <1>4, <1>5, SeqEqual
<1> QED BY <1>6 DEF xy, x, y, z

LEMMA RunOne ==
  ASSUME NEW r \in Nat PROVE << <<r, N>> >> = Run(r, r + 1)
<1> DEFINE k == r + 1
           z == Run(r, k)
           o == << <<r, N>> >>
<1>0. k - r = 1 /\ r + 1 - 1 = r /\ k \in Nat /\ r <= k /\ N \in Nat
  BY NAssumption
<1>1. z \in Seq(Item) /\ Len(z) = 1 /\ z[1] = <<r, N>>
  <2> HIDE DEF k
  <2>1. z \in Seq(Item) /\ Len(z) = k - r /\ \A j \in 1 .. k - r : z[j] = <<r + j - 1, N>>
    BY <1>0, RunTyped
  <2> HIDE DEF z
  <2>2. Len(z) = 1 /\ \A j \in 1 .. 1 : z[j] = <<r + j - 1, N>>
    BY <1>0, <2>1
  <2>3. z[1] = <<r + 1 - 1, N>>
    BY <2>2
  <2> QED BY <1>0, <2>1, <2>2, <2>3
<1>2. o \in Seq(Item) /\ Len(o) = 1 /\ o[1] = <<r, N>>
  BY <1>0 DEF Item
<1>3. o = z
  <2> HIDE DEF k, z, o
  <2>1. \A j \in 1 .. Len(o) : o[j] = z[j]
    BY <1>1, <1>2
  <2> QED BY <1>1, <1>2, <2>1, SeqEqual
<1> QED BY <1>3

LEMMA InitInv ==
  ASSUME OneReduce, Init PROVE Inv
<1>1. /\ prog \in Calls /\ sbuf \in Inputs
      /\ at = [r \in Rank |-> 1] /\ pc = [r \in Rank |-> "call"] /\ i = [r \in Rank |-> 1]
      /\ out = [r \in Rank |-> Blank] /\ chan = [p \in Rank \X Rank |-> <<>>]
      /\ DOMAIN size = Rank /\ DOMAIN tmpr = Rank
      /\ data = [r \in Rank |-> << <<r, N>> >>]
      /\ tree = [r \in Rank |-> [rk |-> r, num |-> N, depth |-> 1]]
  BY DEF Init
<1>2. Rank \subseteq Nat /\ N \in Nat
  BY NAssumption DEF Rank
<1>3. data \in [Rank -> Seq(Item)] /\ \A r \in Rank : data[r] = Run(r, r + 1)
  <2>1. ASSUME NEW r \in Rank PROVE << <<r, N>> >> \in Seq(Item) /\ << <<r, N>> >> = Run(r, r + 1)
    BY <1>2, RunOne DEF Item
  <2> QED BY <1>1, <2>1
<1>4. Typed
  <2>1. prog \in Seq(RingOps \cup {"treereduce", "synchronize"}) /\ sbuf \in [Rank -> [Rank -> Seq(Item)]]
    BY <1>1, CallsAssumption, InputsAssumption
  <2>2. \A b, c \in DOMAIN prog : prog[b] = "treereduce" /\ prog[c] = "treereduce" => b = c
    BY <1>1 DEF OneReduce
  <2>3. tree \in [Rank -> [rk : Nat, num : Nat, depth : Nat]]
    BY <1>1, <1>2
  <2>4. pc \in [Rank -> Places] /\ at \in [Rank -> Nat \ {0}] /\ i \in [Rank -> Nat]
    BY <1>1 DEF Places
  <2>5. out \in [Rank -> [Rank -> Seq(Item)]] /\ chan \in [Rank \X Rank -> Seq(AnyMsg)]
    BY <1>1 DEF Blank
  <2> QED BY <1>1, <1>3, <2>1, <2>2, <2>3, <2>4, <2>5 DEF Typed
<1>5. ASSUME NEW r \in Rank PROVE RankInv(r)
  BY <1>1, <1>3 DEF RankInv, Placed, Held, Filled, Grown, InRing, Turning, Merging, Rooting
<1>6. ASSUME NEW s \in Rank, NEW d \in Rank, s # d PROVE PairInv(s, d)
  <2>1. ~InRing(s) /\ ~Left(s) /\ ~InRing(d) /\ ~Left(d) /\ pc[d] \notin Merging
    BY <1>1 DEF InRing, Left, Turning, Merging, Rooting
  <2>2. Posted(s, d) = 2 * Before(1, s, d) /\ Taken(s, d) = 2 * Before(1, s, d)
    BY <1>1, <2>1, CallsFinite DEF Posted, Taken, PostedNow, TakenNow
  <2>3. chan[<<s, d>>] = <<>> /\ Before(1, s, d) \in Nat
    BY <1>1, CallsFinite
  <2> QED BY <2>2, <2>3 DEF PairInv
<1>7. RefInv
  BY <1>1 DEF RefInv
<1> QED BY <1>4, <1>5, <1>6, <1>7 DEF Inv, ChanInv

-----------------------------------------------------------------------------
(***************************************************************************)
(* The steps of a ring operation.                                          *)
(***************************************************************************)
LEMMA SlotsDiffer ==
  ASSUME NEW r \in Rank, NEW k \in Rank, NEW l \in Rank, SlotAt(r, k) = SlotAt(r, l)
  PROVE  k = l
<1>0. N \in Nat \ {0} /\ r \in 0 .. N - 1 /\ k \in 0 .. N - 1 /\ l \in 0 .. N - 1
  BY NAssumption DEF Rank
<1>1. ASSUME NEW x \in 0 .. N - 1 PROVE (r + N - x) % N = IF r >= x THEN r - x ELSE r + N - x
  <2>1. CASE r >= x
    <3>1. r - x \in 0 .. N - 1 /\ r + N - x = (r - x) + N
      BY <1>0, <2>1
    <3> QED BY <2>1, <3>1, Mod
  <2>2. CASE ~(r >= x)
    <3>1. r + N - x \in 0 .. N - 1
      BY <1>0, <2>2
    <3> QED BY <2>2, <3>1, Mod
  <2> QED BY <2>1, <2>2
<1>2. CASE Op(r) = "alltoall"
  <2>1. (r + N - k) % N = (r + N - l) % N
    BY <1>2 DEF SlotAt
  <2>2. (IF r >= k THEN r - k ELSE r + N - k) = (IF r >= l THEN r - l ELSE r + N - l)
    BY <1>0, <1>1, <2>1
  <2> QED BY <1>0, <2>2
<1>3. CASE Op(r) # "alltoall"
  BY <1>3 DEF SlotAt
<1> QED BY <1>2, <1>3

LEMMA SlotsFit ==
  ASSUME NEW r \in Rank, NEW k \in Rank
  PROVE  SlotAt(r, k) \in Rank /\ (r + k) % N \in Rank /\ (k = 0 => (r + k) % N = r)
<1>0. N \in Nat \ {0} /\ r \in 0 .. N - 1 /\ k \in 0 .. N - 1
  BY NAssumption DEF Rank
<1>1. CASE k = 0
  <2>1. (r + N - k) % N = r /\ (r + k) % N = r
    BY <1>0, <1>1, Mod
  <2> QED BY <1>1, <2>1 DEF SlotAt
<1>2. CASE k # 0
  <2>1. k \in 1 .. N - 1
    BY <1>0, <1>2
  <2> QED BY <1>2, <2>1, Neighbours DEF SlotAt
<1> QED BY <1>1, <1>2

LEMMA GrownKept ==
  ASSUME NEW r \in Rank, Grown(r), UNCHANGED <<prog, data>>, at'[r] = at[r],
         pc'[r] \in Turning \cup {"return", "barrier"}, Op(r) # "treereduce"
  PROVE  Grown(r)'
<1>1. Op(r)' = Op(r)
  BY DEF Op
<1>2. pc'[r] \notin Merging /\ pc'[r] \notin Rooting /\ pc'[r] # "result" /\ pc'[r] # "call"
        /\ pc'[r] \notin {"treedata", "func"}
  BY DEF Turning, Merging, Rooting
<1> QED BY <1>1, <1>2 DEF Grown

LEMMA EnterRingStep ==
  ASSUME Inv, NEW r \in Rank, EnterRing(r), Only(r) PROVE Inv'
<1>1. Typed /\ ChanInv /\ RefInv /\ RankInv(r)
  BY DEF Inv
<1>2. /\ pc[r] = "call" /\ at[r] <= Len(prog) /\ Op(r) \in RingOps
      /\ out' = [out EXCEPT ![r] =
           [Blank EXCEPT ![IF Op(r) = "alltoall" THEN r ELSE 0] = sbuf[r][r]]]
      /\ i' = [i EXCEPT ![r] = 1]
      /\ pc' = [pc EXCEPT ![r] = IF N = 1 THEN "return" ELSE "isend"]
      /\ UNCHANGED <<prog, sbuf, at, size, tmpr, data, tree, chan>>
  BY DEF EnterRing, Go
<1>3. N \in Nat \ {0} /\ 0 \in Rank /\ r \in 0 .. N - 1
  BY NAssumption DEF Rank
<1>4. /\ i'[r] = 1 /\ pc'[r] = (IF N = 1 THEN "return" ELSE "isend") /\ at'[r] = at[r]
      /\ out'[r] = [Blank EXCEPT ![IF Op(r) = "alltoall" THEN r ELSE 0] = sbuf[r][r]]
      /\ Op(r)' = Op(r)
  BY <1>1, <1>2 DEF Typed, Op
<1>5. InRing(r)' /\ ~InRing(r) /\ ~Left(r) /\ pc[r] \notin Merging
  BY <1>2, <1>4 DEF InRing, Left, Turning, Merging, Rooting
<1>6. Typed'
  <2>1. [Blank EXCEPT ![IF Op(r) = "alltoall" THEN r ELSE 0] = sbuf[r][r]] \in [Rank -> Seq(Item)]
    <3>1. Blank \in [Rank -> Seq(Item)] /\ sbuf[r][r] \in Seq(Item)
      BY <1>1 DEF Typed, Blank
    <3>2. (IF Op(r) = "alltoall" THEN r ELSE 0) \in Rank
      BY <1>3
    <3> QED BY <3>1, <3>2
  <2>2. out' \in [Rank -> [Rank -> Seq(Item)]]
    BY <1>1, <1>2, <2>1 DEF Typed
  <2>3. pc' \in [Rank -> Places] /\ i' \in [Rank -> Nat]
    BY <1>1, <1>2 DEF Typed, Places, Turning
  <2> QED BY <1>1, <1>2, <2>2, <2>3 DEF Typed
<1>7. ChanInv'
  <2>1. ASSUME NEW d \in Rank \ {r} PROVE Posted(r, d)' = Posted(r, d) /\ Taken(d, r)' = Taken(d, r)
    <3>1. Turn(r, d) \in 1 .. N - 1 /\ Turn(d, r) \in 1 .. N - 1
      BY Turns
    <3>2. N # 1
      BY <3>1, <1>3
    <3>3. PostedNow(r, d) = 0 /\ PostedNow(r, d)' = 0
      BY <1>4, <1>5, <3>1, <3>2 DEF PostedNow
    <3>4. TakenNow(d, r) = 0 /\ TakenNow(d, r)' = 0
      BY <1>4, <1>5, <3>1, <3>2 DEF TakenNow, RingTaken
    <3> QED BY <1>2, <3>3, <3>4, CallsStay DEF Posted, Taken
  <2> QED BY <1>1, <1>2, <2>1, QuietChan
<1>8. RefInv'
  <2>1. \A s \in Rank : Through(s) => Through(s)'
    BY <1>1, <1>4, <1>5, ThroughStays
  <2> QED BY <1>1, <1>2, <2>1, RefQuiet
<1>9. RankInv(r)'
  <2>1. Placed(r)'
    BY <1>2, <1>3, <1>4 DEF Placed, Turning, Merging, Rooting
  <2>2. Held(r)'
    BY <1>4 DEF Held
  <2>3. Filled(r)'
    <3> SUFFICES ASSUME NEW k \in Rank
                 PROVE  out'[r][SlotAt(r, k)]
                          = IF k < 1 THEN Outgoing(Op(r), (r + k) % N, r) ELSE <<>>
      BY <1>2, <1>4 DEF Filled, SlotAt, Outgoing, Op
    <3>1. SlotAt(r, k) \in Rank /\ (k = 0 => (r + k) % N = r)
      BY SlotsFit
    <3>2. SlotAt(r, 0) = IF Op(r) = "alltoall" THEN r ELSE 0
      BY <1>3, Mod DEF SlotAt
    <3>3. CASE k = 0
      <4>1. out'[r][SlotAt(r, k)] = sbuf[r][r]
        BY <1>3, <1>4, <3>1, <3>2, <3>3 DEF Blank
      <4> QED BY <3>1, <3>3, <4>1 DEF Outgoing
    <3>4. CASE k # 0
      <4>1. SlotAt(r, k) # SlotAt(r, 0)
        BY <1>3, <3>4, SlotsDiffer
      <4>2. out'[r][SlotAt(r, k)] = <<>>
        BY <1>4, <3>1, <3>2, <4>1 DEF Blank
      <4>3. ~(k < 1)
        BY <1>3, <3>4 DEF Rank
      <4> QED BY <4>2, <4>3
    <3> QED BY <3>3, <3>4
  <2>4. Grown(r)'
    BY <1>1, <1>2, <1>4, GrownKept DEF RankInv, RingOps, Turning
  <2> QED BY <2>1, <2>2, <2>3, <2>4 DEF RankInv
<1> QED BY <1>6, <1>7, <1>8, <1>9, Combine

LEMMA RingIsendStep ==
  ASSUME Inv, NEW r \in Rank, RingIsend(r), Only(r) PROVE Inv'
<1>1. Typed /\ ChanInv /\ RefInv /\ RankInv(r)
  BY DEF Inv
<1>2. /\ pc[r] = "isend"
      /\ chan' = [chan EXCEPT ![<<r, To(r)>>] = @ \o Frames(Outgoing(Op(r), r, To(r)), FALSE)]
      /\ pc' = [pc EXCEPT ![r] = "size"]
      /\ UNCHANGED <<prog, sbuf, at, i, size, tmpr, out, data, tree>>
  BY DEF RingIsend, Post, Go
<1>3. /\ N \in Nat \ {0} /\ i[r] \in 1 .. N - 1 /\ Op(r) \in RingOps
      /\ at[r] \in Nat \ {0} /\ at[r] <= Len(prog)
  BY <1>1, <1>2, NAssumption DEF Typed, RankInv, Placed, Turning
<1>4. pc'[r] = "size" /\ at'[r] = at[r] /\ i'[r] = i[r] /\ Op(r)' = Op(r)
  BY <1>1, <1>2 DEF Typed, Op
<1>5. PICK v \in Rank \ {r} : v = To(r) /\ Turn(r, v) = i[r]
  <2>1. To(r) \in Rank \ {r} /\ Turn(r, To(r)) = i[r]
    BY <1>3, Neighbours DEF To
  <2> QED BY <2>1
<1>6. InRing(r) /\ InRing(r)' /\ ~Left(r)
  BY <1>2, <1>4 DEF InRing, Left, Turning, Rooting
<1>7. /\ Op(r) # "treereduce" /\ Carries(at[r], r, v)
      /\ Load(at[r], r, v) = Outgoing(Op(r), r, v)
      /\ Load(at[r], r, v) \in Seq(Item)
  <2>1. Op(r) # "treereduce" /\ Carries(at[r], r, v)
    BY <1>3 DEF RingOps, Carries, Op
  <2>2. Load(at[r], r, v) = Outgoing(Op(r), r, v)
    BY <2>1 DEF Load, Op
  <2>3. Outgoing(Op(r), r, v) \in Seq(Item)
    BY <1>1, <1>5 DEF Typed, Outgoing
  <2> QED BY <2>1, <2>2, <2>3
<1>8. \A s \in Rank : Through(s) => Through(s)'
  BY <1>1, <1>4, <1>6, ThroughStays
<1>9. ChanInv' /\ chan' \in [Rank \X Rank -> Seq(AnyMsg)]
  <2>1. ASSUME NEW d \in Rank \ {r}
        PROVE  /\ Turn(r, d) \in 1 .. N - 1 /\ Taken(d, r)' = Taken(d, r)
               /\ d # v => Posted(r, d)' = Posted(r, d)
    <3>1. Turn(r, d) \in 1 .. N - 1 /\ (d # v => i[r] # Turn(r, d))
      BY <1>3, <1>5, Turns DEF To
    <3>2. TakenNow(d, r)' = TakenNow(d, r)
      BY <1>2, <1>4, <1>6 DEF TakenNow, RingTaken
    <3>3. d # v => PostedNow(r, d)' = PostedNow(r, d)
      BY <1>2, <1>4, <1>6, <3>1 DEF PostedNow
    <3> QED BY <1>2, <3>1, <3>2, <3>3, CallsStay DEF Posted, Taken
  <2>2. PostedNow(r, v) = 0 /\ PostedNow(r, v)' = 2
    BY <1>2, <1>3, <1>4, <1>5, <1>6 DEF PostedNow
  <2>3. Posted(r, v)' = Posted(r, v) + 2
    <3>1. Before(at[r], r, v) \in Nat
      BY <1>1, CountTypes
    <3>2. Before(at[r], r, v)' = Before(at[r], r, v)
      BY <1>2, CallsStay
    <3> QED BY <2>2, <3>1, <3>2 DEF Posted
  <2>4. chan' = [chan EXCEPT ![<<r, v>>] =
                   @ \o Frames(Load(at[r], r, v), prog[at[r]] = "treereduce")]
    <3>1. (prog[at[r]] = "treereduce") = FALSE
      BY <1>7 DEF Op
    <3> QED BY <1>2, <1>5, <1>7, <3>1
  <2> QED BY <1>1, <1>3, <1>7, <2>1, <2>2, <2>3, <2>4, PostChan
<1>10. RefInv'
  <2>1. Outgoing(Op(r), r, v) \in Seq(Item) /\ FALSE \in BOOLEAN
    BY <1>7
  <2> QED BY <1>1, <1>2, <1>5, <1>8, <2>1, RefPosted
<1>11. Typed'
  <2>1. pc' \in [Rank -> Places]
    BY <1>1, <1>2 DEF Typed, Places, Turning
  <2> QED BY <1>1, <1>2, <1>9, <2>1 DEF Typed
<1>12. RankInv(r)'
  <2>1. Placed(r)'
    BY <1>1, <1>2, <1>4 DEF RankInv, Placed, Turning, Merging, Rooting
  <2>2. Held(r)'
    BY <1>4 DEF Held
  <2>3. Filled(r)'
    BY <1>1, <1>2, <1>4, <1>6 DEF RankInv, Filled, SlotAt, Outgoing
  <2>4. Grown(r)'
    BY <1>1, <1>2, <1>4, <1>7, GrownKept DEF RankInv, Turning
  <2> QED BY <2>1, <2>2, <2>3, <2>4 DEF RankInv
<1> QED BY <1>9, <1>10, <1>11, <1>12, Combine

-----------------------------------------------------------------------------
(***************************************************************************)
(* recv of a container, in any of the collectives.                         *)
(***************************************************************************)
LEMMA Received ==
  ASSUME Inv, NEW r \in Rank, NEW v \in Rank \ {r}, Only(r),
         chan[<<v, r>>] # <<>>, chan' = [chan EXCEPT ![<<v, r>>] = Tail(@)],
         UNCHANGED <<prog, sbuf, at, data>>,
         TakenNow(v, r)' = TakenNow(v, r) + 1,
         \A s \in Rank \ {r, v} : TakenNow(s, r)' = TakenNow(s, r),
         \A d \in Rank \ {r} : PostedNow(r, d)' = PostedNow(r, d),
         Left(r) => Left(r)'
  PROVE  ChanInv' /\ RefInv' /\ chan' \in [Rank \X Rank -> Seq(AnyMsg)]
<1>1. Typed /\ ChanInv /\ RefInv
  BY DEF Inv
<1>2. \A c, s, d : Before(c, s, d)' = Before(c, s, d)
  BY CallsStay
<1>3. \A d \in Rank \ {r} : Posted(r, d)' = Posted(r, d)
  BY <1>2 DEF Posted
<1>4. \A s \in Rank \ {r, v} : Taken(s, r)' = Taken(s, r)
  BY <1>2 DEF Taken
<1>5. Taken(v, r)' = Taken(v, r) + 1
  <2>1. Before(at[r], v, r) \in Nat /\ TakenNow(v, r) \in {0, 1, 2}
    BY <1>1, CountTypes DEF TakenNow, RingTaken, ChildTaken, RootTaken
  <2> QED BY <1>2, <2>1 DEF Taken
<1>6. ChanInv' /\ chan' \in [Rank \X Rank -> Seq(AnyMsg)]
  BY <1>1, <1>3, <1>4, <1>5, TakeChan
<1>7. \A s \in Rank : Through(s) => Through(s)'
  BY <1>1, ThroughStays
<1>8. RefInv'
  BY <1>1, <1>7, RefTaken
<1> QED BY <1>6, <1>8

LEMMA SizeReceived ==
  ASSUME Inv, NEW r \in Rank, NEW v \in Rank \ {r}, Only(r), NEW next \in Places,
         RecvSize(r, v, next), at[r] <= Len(prog), Carries(at[r], v, r),
         TakenNow(v, r) = 0, TakenNow(v, r)' = 1,
         \A s \in Rank \ {r, v} : TakenNow(s, r)' = TakenNow(s, r),
         \A d \in Rank \ {r} : PostedNow(r, d)' = PostedNow(r, d),
         Left(r) => Left(r)'
  PROVE  Typed' /\ ChanInv' /\ RefInv' /\ size'[r] = SizeMsg(at[r], v, r)
<1>1. Typed /\ PairInv(v, r)
  BY DEF Inv, ChanInv
<1>2. /\ chan[<<v, r>>] # <<>> /\ chan' = [chan EXCEPT ![<<v, r>>] = Tail(@)]
      /\ size' = [size EXCEPT ![r] = Head(chan[<<v, r>>])]
      /\ pc' = [pc EXCEPT ![r] = next]
      /\ UNCHANGED <<prog, sbuf, at, i, tmpr, out, data, tree>>
  BY DEF RecvSize, Go
<1>3. ChanInv' /\ RefInv' /\ chan' \in [Rank \X Rank -> Seq(AnyMsg)]
  <2>1. TakenNow(v, r)' = TakenNow(v, r) + 1
    OBVIOUS
  <2> QED BY <1>2, <2>1, Received
<1>4. Head(chan[<<v, r>>]) = SizeMsg(at[r], v, r)
  BY <1>1, <1>2, NextMessage
<1>5. DOMAIN size' = Rank /\ size'[r] = SizeMsg(at[r], v, r) /\ pc' \in [Rank -> Places]
  BY <1>1, <1>2, <1>4 DEF Typed
<1> QED BY <1>1, <1>2, <1>3, <1>5 DEF Typed

LEMMA DataReceived ==
  ASSUME Inv, NEW r \in Rank, NEW v \in Rank \ {r}, Only(r), NEW next \in Places,
         RecvData(r, v, next), at[r] <= Len(prog), Carries(at[r], v, r),
         TakenNow(v, r) = 1, TakenNow(v, r)' = 2,
         \A s \in Rank \ {r, v} : TakenNow(s, r)' = TakenNow(s, r),
         \A d \in Rank \ {r} : PostedNow(r, d)' = PostedNow(r, d),
         Left(r) => Left(r)'
  PROVE  Typed' /\ ChanInv' /\ RefInv' /\ tmpr'[r] = DataMsg(at[r], v, r)
<1>1. Typed /\ PairInv(v, r) /\ RefInv
  BY DEF Inv, ChanInv
<1>2. /\ chan[<<v, r>>] # <<>> /\ chan' = [chan EXCEPT ![<<v, r>>] = Tail(@)]
      /\ tmpr' = [tmpr EXCEPT ![r] = Contents(v, Head(chan[<<v, r>>]))]
      /\ pc' = [pc EXCEPT ![r] = next]
      /\ UNCHANGED <<prog, sbuf, at, i, size, out, data, tree>>
  BY DEF RecvData, Go
<1>3. ChanInv' /\ RefInv' /\ chan' \in [Rank \X Rank -> Seq(AnyMsg)]
  <2>1. TakenNow(v, r)' = TakenNow(v, r) + 1
    OBVIOUS
  <2> QED BY <1>2, <2>1, Received
<1> DEFINE m == Head(chan[<<v, r>>])
<1>4. m = DataMsg(at[r], v, r)
  BY <1>1, <1>2, NextMessage
<1>5. m.byref => m.val = data[v]
  <2> DEFINE ch == chan[<<v, r>>]
  <2>1. ch \in Seq(AnyMsg) /\ ch # <<>>
    BY <1>1, <1>2 DEF Typed
  <2>2. 1 \in 1 .. Len(ch) /\ Head(ch) = ch[1]
    <3> HIDE DEF ch
    <3> QED BY <2>1
  <2>3. ch[1].byref => ch[1].val = data[v]
    BY <1>1, <2>2 DEF RefInv
  <2> QED BY <2>2, <2>3
<1>6. Contents(v, m) = m
  <2>1. m = [kind |-> m.kind, n |-> m.n, val |-> m.val, byref |-> m.byref]
    BY <1>4 DEF DataMsg, Message
  <2> HIDE DEF m
  <2>2. [m EXCEPT !.val = m.val] = m
    BY <2>1
  <2> QED BY <1>5, <2>2 DEF Contents
<1>7. DOMAIN tmpr' = Rank /\ tmpr'[r] = DataMsg(at[r], v, r) /\ pc' \in [Rank -> Places]
  BY <1>1, <1>2, <1>4, <1>6 DEF Typed
<1> QED BY <1>1, <1>2, <1>3, <1>7 DEF Typed

LEMMA RingReceiveStep ==
  ASSUME Inv, NEW r \in Rank, RingRecvSize(r) \/ RingRecvData(r), Only(r) PROVE Inv'
<1>1. Typed /\ ChanInv /\ RankInv(r)
  BY DEF Inv
<1>2. /\ pc[r] \in {"size", "data"}
      /\ pc' = [pc EXCEPT ![r] = IF pc[r] = "size" THEN "data" ELSE "wait"]
      /\ UNCHANGED <<prog, sbuf, at, i, out, data, tree>>
  <2>1. CASE RingRecvSize(r)
    BY <2>1 DEF RingRecvSize, RecvSize, Go
  <2>2. CASE RingRecvData(r)
    BY <2>2 DEF RingRecvData, RecvData, Go
  <2> QED BY <2>1, <2>2
<1>3. /\ N \in Nat \ {0} /\ i[r] \in 1 .. N - 1 /\ Op(r) \in RingOps /\ at[r] <= Len(prog)
  BY <1>1, <1>2, NAssumption DEF RankInv, Placed, Turning
<1>4. /\ pc'[r] = (IF pc[r] = "size" THEN "data" ELSE "wait")
      /\ at'[r] = at[r] /\ i'[r] = i[r] /\ Op(r)' = Op(r) /\ From(r)' = From(r)
  BY <1>1, <1>2 DEF Typed, Op, From
<1>5. PICK v \in Rank \ {r} : v = From(r) /\ Turn(v, r) = i[r]
  <2>1. From(r) \in Rank \ {r} /\ Turn(From(r), r) = i[r]
    BY <1>3, Neighbours DEF From
  <2> QED BY <2>1
<1>6. InRing(r) /\ InRing(r)' /\ ~Left(r) /\ Carries(at[r], v, r)
  BY <1>2, <1>3, <1>4 DEF InRing, Left, Turning, Rooting, Carries, Op
<1>7. \A d \in Rank \ {r} : PostedNow(r, d)' = PostedNow(r, d)
  BY <1>2, <1>4, <1>6 DEF PostedNow
<1>8. ASSUME NEW s \in Rank \ {r, v} PROVE TakenNow(s, r)' = TakenNow(s, r)
  <2>1. i[r] # Turn(s, r) /\ Turn(s, r) \in 1 .. N - 1
    BY <1>3, <1>5, Turns DEF From
  <2> QED BY <1>3, <1>4, <1>6, <2>1 DEF TakenNow, RingTaken
<1>9. /\ TakenNow(v, r) = (IF pc[r] = "size" THEN 0 ELSE 1)
      /\ TakenNow(v, r)' = (IF pc[r] = "size" THEN 1 ELSE 2)
  BY <1>2, <1>3, <1>4, <1>5, <1>6 DEF TakenNow, RingTaken
<1>10. /\ Typed' /\ ChanInv' /\ RefInv' /\ size'[r] = SizeMsg(at[r], v, r)
       /\ pc[r] = "data" => tmpr'[r] = DataMsg(at[r], v, r)
  <2>1. CASE RingRecvSize(r)
    <3>1. pc[r] = "size" /\ RecvSize(r, v, "data") /\ "data" \in Places
      BY <1>5, <2>1 DEF RingRecvSize, Places, Turning
    <3>2. TakenNow(v, r) = 0 /\ TakenNow(v, r)' = 1
      BY <1>9, <3>1
    <3> QED BY <1>3, <1>6, <1>7, <1>8, <3>1, <3>2, SizeReceived
  <2>2. CASE RingRecvData(r)
    <3>1. pc[r] = "data" /\ RecvData(r, v, "wait") /\ "wait" \in Places
      BY <1>5, <2>2 DEF RingRecvData, Places, Turning
    <3>2. TakenNow(v, r) = 1 /\ TakenNow(v, r)' = 2
      BY <1>9, <3>1
    <3>3. Typed' /\ ChanInv' /\ RefInv' /\ tmpr'[r] = DataMsg(at[r], v, r)
      BY <1>3, <1>6, <1>7, <1>8, <3>1, <3>2, DataReceived
    <3>4. size'[r] = SizeMsg(at[r], v, r)
      BY <1>1, <1>5, <3>1 DEF RecvData, RankInv, Held, Sender, Merging, Rooting
    <3> QED BY <3>3, <3>4
  <2> QED BY <2>1, <2>2
<1>11. RankInv(r)'
  <2>1. Placed(r)'
    BY <1>1, <1>2, <1>4 DEF RankInv, Placed, Turning, Merging, Rooting
  <2>2. Sender(r)' = v
    BY <1>2, <1>4, <1>5 DEF Sender, Merging, Rooting
  <2>3. /\ SizeMsg(at[r], Sender(r), r)' = SizeMsg(at[r], v, r)
        /\ DataMsg(at[r], Sender(r), r)' = DataMsg(at[r], v, r)
    BY <1>2, <2>2, CallsStay DEF SizeMsg, DataMsg, Load, Outgoing
  <2>4. Held(r)'
    BY <1>2, <1>4, <1>10, <2>3 DEF Held
  <2>5. Filled(r)'
    BY <1>1, <1>2, <1>4, <1>6 DEF RankInv, Filled, SlotAt, Outgoing
  <2>6. Grown(r)'
    BY <1>1, <1>2, <1>3, <1>4, GrownKept DEF RankInv, Turning, RingOps
  <2> QED BY <2>1, <2>4, <2>5, <2>6 DEF RankInv
<1> QED BY <1>10, <1>11, Combine

\* The end of a turn: its container goes into its slot.
LEMMA RingWaitStep ==
  ASSUME Inv, NEW r \in Rank, RingWait(r), Only(r) PROVE Inv'
<1>1. Typed /\ ChanInv /\ RefInv /\ RankInv(r)
  BY DEF Inv
<1>2. /\ pc[r] = "wait"
      /\ out' = [out EXCEPT ![r][Slot(r)] = @ \o tmpr[r].val]
      /\ i' = [i EXCEPT ![r] = @ + 1]
      /\ pc' = [pc EXCEPT ![r] = IF i[r] + 1 < N THEN "isend" ELSE "return"]
      /\ UNCHANGED <<prog, sbuf, at, size, tmpr, data, tree, chan>>
  BY DEF RingWait, Go
<1>3. /\ N \in Nat \ {0} /\ i[r] \in 1 .. N - 1 /\ i[r] \in Rank /\ Op(r) \in RingOps
      /\ at[r] \in Nat \ {0} /\ at[r] <= Len(prog)
  BY <1>1, <1>2, NAssumption DEF Typed, RankInv, Placed, Turning, Rank
<1>4. /\ i'[r] = i[r] + 1 /\ pc'[r] = (IF i[r] + 1 < N THEN "isend" ELSE "return")
      /\ at'[r] = at[r] /\ Op(r)' = Op(r)
  BY <1>1, <1>2 DEF Typed, Op
<1>5. Slot(r) = SlotAt(r, i[r]) /\ Slot(r) \in Rank
  BY <1>3, SlotsFit DEF Slot, SlotAt, To
<1>6. InRing(r) /\ InRing(r)' /\ ~Left(r)
  BY <1>2, <1>3, <1>4 DEF InRing, Left, Turning, Rooting
<1> DEFINE val == Outgoing(Op(r), From(r), r)
<1>7. tmpr[r].val = val /\ val \in Seq(Item) /\ From(r) = (r + i[r]) % N
  <2>1. tmpr[r] = DataMsg(at[r], From(r), r)
    BY <1>1, <1>2 DEF RankInv, Held, Sender, Merging, Rooting
  <2>2. From(r) \in Rank
    BY <1>3, Neighbours DEF From
  <2>3. Load(at[r], From(r), r) = val
    BY <1>3 DEF Load, Op, RingOps
  <2>4. val \in Seq(Item)
    BY <1>1, <2>2 DEF Typed, Outgoing
  <2> QED BY <2>1, <2>3, <2>4 DEF DataMsg, Message, From
<1>8. out[r][Slot(r)] = <<>>
  BY <1>1, <1>3, <1>5, <1>6 DEF RankInv, Filled
<1>9. /\ out'[r][Slot(r)] = val
      /\ \A k \in Rank : k # Slot(r) => out'[r][k] = out[r][k]
      /\ out' \in [Rank -> [Rank -> Seq(Item)]]
  <2> HIDE DEF val
  <2>1. <<>> \o val = val
    BY <1>7
  <2>2. out' = [out EXCEPT ![r][Slot(r)] = val]
    BY <1>2, <1>7, <1>8, <2>1
  <2> QED BY <1>1, <1>5, <1>7, <2>2 DEF Typed
<1>10. Typed'
  <2>1. i' \in [Rank -> Nat]
    <3>1. i \in [Rank -> Nat]
      BY <1>1 DEF Typed
    <3>2. i[r] + 1 \in Nat
      BY <3>1
    <3> QED BY <1>2, <3>1, <3>2
  <2>2. pc' \in [Rank -> Places]
    BY <1>1, <1>2 DEF Typed, Places, Turning
  <2> QED BY <1>1, <1>2, <1>9, <2>1, <2>2 DEF Typed
<1>11. ChanInv'
  <2>1. ASSUME NEW d \in Rank \ {r} PROVE Posted(r, d)' = Posted(r, d) /\ Taken(d, r)' = Taken(d, r)
    <3>1. Turn(r, d) \in 1 .. N - 1 /\ Turn(d, r) \in 1 .. N - 1
      BY Turns
    <3>2. PostedNow(r, d)' = PostedNow(r, d)
      BY <1>2, <1>3, <1>4, <1>6, <3>1 DEF PostedNow
    <3>3. TakenNow(d, r)' = TakenNow(d, r)
      BY <1>2, <1>3, <1>4, <1>6, <3>1 DEF TakenNow, RingTaken
    <3> QED BY <1>2, <3>2, <3>3, CallsStay DEF Posted, Taken
  <2> QED BY <1>1, <1>2, <2>1, QuietChan
<1>12. RefInv'
  <2>1. \A s \in Rank : Through(s) => Through(s)'
    BY <1>1, <1>4, <1>6, ThroughStays
  <2> QED BY <1>1, <1>2, <2>1, RefQuiet
<1>13. RankInv(r)'
  <2>1. Placed(r)'
    BY <1>2, <1>3, <1>4 DEF Placed, Turning, Merging, Rooting
  <2>2. Held(r)'
    BY <1>4 DEF Held
  <2>3. Filled(r)'
    <3> SUFFICES ASSUME NEW k \in Rank
                 PROVE  out'[r][SlotAt(r, k)]
                          = IF k < i[r] + 1 THEN Outgoing(Op(r), (r + k) % N, r) ELSE <<>>
      BY <1>2, <1>4 DEF Filled, SlotAt, Outgoing, Op
    <3>1. SlotAt(r, k) \in Rank
      BY SlotsFit
    <3>2. CASE k = i[r]
      BY <1>3, <1>5, <1>7, <1>9, <3>2
    <3>3. CASE k # i[r]
      <4>1. SlotAt(r, k) # Slot(r)
        BY <1>3, <1>5, <3>3, SlotsDiffer
      <4>2. out'[r][SlotAt(r, k)] = out[r][SlotAt(r, k)]
        BY <1>9, <3>1, <4>1
      <4>3. out[r][SlotAt(r, k)] = IF k < i[r] THEN Outgoing(Op(r), (r + k) % N, r) ELSE <<>>
        BY <1>1, <1>6 DEF RankInv, Filled
      <4>4. k < i[r] + 1 <=> k < i[r]
        BY <1>3, <3>3 DEF Rank
      <4> QED BY <4>2, <4>3, <4>4
    <3> QED BY <3>2, <3>3
  <2>4. Grown(r)'
    BY <1>1, <1>2, <1>3, <1>4, GrownKept DEF RankInv, Turning, RingOps
  <2> QED BY <2>1, <2>2, <2>3, <2>4 DEF RankInv
<1> QED BY <1>10, <1>11, <1>12, <1>13, Combine

-----------------------------------------------------------------------------
(***************************************************************************)
(* Barriers and the way back to the caller.                                *)
(***************************************************************************)
LEMMA BarrierStep ==
  ASSUME Inv, NEW r \in Rank, EnterBarrier(r) \/ LeaveBarrier(r), Only(r) PROVE Inv'
<1>1. Typed /\ ChanInv /\ RefInv /\ RankInv(r)
  BY DEF Inv
<1>2. /\ pc[r] \in {"call", "barrier"} /\ at[r] <= Len(prog) /\ Op(r) = "synchronize"
      /\ pc' = [pc EXCEPT ![r] = IF pc[r] = "call" THEN "barrier" ELSE "return"]
      /\ UNCHANGED <<prog, sbuf, at, i, size, tmpr, out, data, tree, chan>>
  <2>1. CASE EnterBarrier(r)
    BY <2>1 DEF EnterBarrier, Go
  <2>2. CASE LeaveBarrier(r)
    BY <1>1, <2>2 DEF LeaveBarrier, Go, RankInv, Placed
  <2> QED BY <2>1, <2>2
<1>3. /\ pc'[r] = (IF pc[r] = "call" THEN "barrier" ELSE "return")
      /\ at'[r] = at[r] /\ Op(r)' = Op(r)
  BY <1>1, <1>2 DEF Typed, Op
<1>4. /\ ~InRing(r) /\ ~InRing(r)' /\ ~Left(r) /\ ~Left(r)'
      /\ pc[r] \notin Merging /\ pc'[r] \notin Merging
  BY <1>2, <1>3 DEF InRing, Left, Turning, Merging, Rooting, RingOps
<1>5. Typed'
  <2>1. pc' \in [Rank -> Places]
    BY <1>1, <1>2 DEF Typed, Places
  <2> QED BY <1>1, <1>2, <2>1 DEF Typed
<1>6. ChanInv'
  <2>1. ASSUME NEW d \in Rank \ {r} PROVE Posted(r, d)' = Posted(r, d) /\ Taken(d, r)' = Taken(d, r)
    <3>1. PostedNow(r, d)' = PostedNow(r, d) /\ TakenNow(d, r)' = TakenNow(d, r)
      BY <1>4 DEF PostedNow, TakenNow
    <3> QED BY <1>2, <3>1, CallsStay DEF Posted, Taken
  <2> QED BY <1>1, <1>2, <2>1, QuietChan
<1>7. RefInv'
  <2>1. \A s \in Rank : Through(s) => Through(s)'
    BY <1>1, <1>3, <1>4, ThroughStays
  <2> QED BY <1>1, <1>2, <2>1, RefQuiet
<1>8. RankInv(r)'
  <2>1. Placed(r)' /\ Held(r)' /\ Filled(r)'
    BY <1>2, <1>3, <1>4 DEF Placed, Held, Filled, Turning, Merging, Rooting, RingOps
  <2>2. Grown(r)'
    BY <1>1, <1>2, <1>3, GrownKept DEF RankInv
  <2> QED BY <2>1, <2>2 DEF RankInv
<1> QED BY <1>5, <1>6, <1>7, <1>8, Combine

LEMMA ReturnStep ==
  ASSUME Inv, NEW r \in Rank, Return(r), Only(r) PROVE Inv'
<1>1. Typed /\ ChanInv /\ RefInv /\ RankInv(r)
  BY DEF Inv
<1>2. /\ pc[r] = "return"
      /\ at' = [at EXCEPT ![r] = @ + 1]
      /\ pc' = [pc EXCEPT ![r] = "call"]
      /\ UNCHANGED <<prog, sbuf, i, size, tmpr, out, data, tree, chan>>
  BY DEF Return, Go
<1>3. /\ pc'[r] = "call" /\ at'[r] = at[r] + 1 /\ at[r] \in Nat \ {0}
  BY <1>1, <1>2 DEF Typed
<1>4. ~InRing(r)' /\ ~Left(r)' /\ pc'[r] \notin Merging
  BY <1>3 DEF InRing, Left, Turning, Merging, Rooting
<1>5. Typed'
  <2>1. at' \in [Rank -> Nat \ {0}] /\ pc' \in [Rank -> Places]
    BY <1>1, <1>2, <1>3 DEF Typed, Places
  <2> QED BY <1>1, <1>2, <2>1 DEF Typed
<1>6. ChanInv'
  <2>1. ASSUME NEW d \in Rank \ {r} PROVE Posted(r, d)' = Posted(r, d) /\ Taken(d, r)' = Taken(d, r)
    <3>1. Turn(r, d) \in 1 .. N - 1 /\ Turn(d, r) \in 1 .. N - 1 /\ N \in Nat
      BY Turns, NAssumption
    <3>2. /\ PostedNow(r, d) = (IF Carries(at[r], r, d) THEN 2 ELSE 0)
          /\ TakenNow(d, r) = (IF Carries(at[r], d, r) THEN 2 ELSE 0)
      <4>1. CASE Op(r) \in RingOps
        <5>1. InRing(r) /\ i[r] = N /\ Carries(at[r], r, d) /\ Carries(at[r], d, r)
          BY <1>1, <1>2, <4>1 DEF InRing, RankInv, Placed, Carries, Op
        <5> QED BY <1>2, <3>1, <5>1 DEF PostedNow, TakenNow, RingTaken
      <4>2. CASE Op(r) \notin RingOps
        <5>1. ~InRing(r) /\ pc[r] \notin Merging /\ (Left(r) <=> Op(r) = "treereduce")
          BY <1>2, <4>2 DEF InRing, Turning, Merging, Left, Rooting
        <5>2. /\ Carries(at[r], r, d) <=> Left(r) /\ Edge(r, d)
              /\ Carries(at[r], d, r) <=> Left(r) /\ Edge(d, r)
          BY <4>2, <5>1 DEF Carries, Op
        <5>3. PostedNow(r, d) = (IF Carries(at[r], r, d) THEN 2 ELSE 0)
          BY <5>1, <5>2 DEF PostedNow
        <5>4. TakenNow(d, r) = (IF Carries(at[r], d, r) THEN 2 ELSE 0)
          BY <1>2, <5>1, <5>2 DEF TakenNow, ChildTaken, RootTaken
        <5> QED BY <5>3, <5>4
      <4> QED BY <4>1, <4>2
    <3>3. PostedNow(r, d)' = 0 /\ TakenNow(d, r)' = 0
      BY <1>4 DEF PostedNow, TakenNow
    <3>4. /\ Before(at[r], r, d)' = Before(at[r] + 1, r, d)
          /\ Before(at[r], d, r)' = Before(at[r] + 1, d, r)
      BY <1>2, <1>3 DEF Before, CallsOn, Carries
    <3>5. /\ Before(at[r] + 1, r, d) = Before(at[r], r, d) + (IF Carries(at[r], r, d) THEN 1 ELSE 0)
          /\ Before(at[r] + 1, d, r) = Before(at[r], d, r) + (IF Carries(at[r], d, r) THEN 1 ELSE 0)
      BY <1>3, CallsNext
    <3>6. Before(at[r], r, d) \in Nat /\ Before(at[r], d, r) \in Nat
      BY <1>1, CountTypes
    <3> QED BY <3>2, <3>3, <3>4, <3>5, <3>6 DEF Posted, Taken
  <2> QED BY <1>1, <1>2, <2>1, QuietChan
<1>7. RefInv'
  <2>1. \A s \in Rank : Through(s) => Through(s)'
    BY <1>1, <1>3, ThroughStays
  <2> QED BY <1>1, <1>2, <2>1, RefQuiet
<1>8. RankInv(r)'
  <2>1. Placed(r)' /\ Held(r)' /\ Filled(r)'
    BY <1>3, <1>4 DEF Placed, Held, Filled, Turning, Merging, Rooting
  <2>2. ASSUME NEW c \in DOMAIN prog, prog[c] = "treereduce", c > at[r] + 1 \/ c = at[r] + 1
        PROVE  data[r] = Run(r, r + 1)
    <3>1. c > at[r]
      <4>1. DOMAIN prog = 1 .. Len(prog) /\ Len(prog) \in Nat
        BY <1>1 DEF Typed
      <4> QED BY <1>3, <2>2, <4>1
    <3> QED BY <1>1, <2>2, <3>1 DEF RankInv, Grown
  <2>3. Grown(r)'
    BY <1>2, <1>3, <2>2 DEF Grown, Merging, Rooting
  <2> QED BY <2>1, <2>3 DEF RankInv
<1> QED BY <1>5, <1>6, <1>7, <1>8, Combine

-----------------------------------------------------------------------------
(***************************************************************************)
(* The steps of treereduce.                                                *)
(***************************************************************************)
\* A rank in its treereduce is in no ring, and in its only treereduce.
LEMMA InTree ==
  ASSUME Inv, NEW r \in Rank, pc[r] \in Merging \cup Rooting \cup {"result"}
  PROVE  /\ Op(r) = "treereduce" /\ at[r] <= Len(prog) /\ at[r] \in DOMAIN prog /\ ~InRing(r)
         /\ pc[r] # "return" /\ pc[r] # "call"
         /\ \A v \in Rank : Edge(v, r) => Carries(at[r], v, r)
         /\ \A v \in Rank : Edge(r, v) => Carries(at[r], r, v)
         /\ \A c \in DOMAIN prog : prog[c] = "treereduce" => c = at[r]
<1>1. Typed /\ Placed(r)
  BY DEF Inv, RankInv
<1>2. pc[r] # "return" /\ pc[r] # "call" /\ pc[r] \notin Turning
  BY DEF Merging, Rooting, Turning
<1>3. Op(r) = "treereduce" /\ at[r] <= Len(prog)
  BY <1>1, <1>2 DEF Placed
<1>4. at[r] \in DOMAIN prog
  <2>1. DOMAIN prog = 1 .. Len(prog) /\ Len(prog) \in Nat /\ at[r] \in Nat \ {0}
    BY <1>1 DEF Typed
  <2> QED BY <1>3, <2>1
<1>5. \A c \in DOMAIN prog : prog[c] = "treereduce" => c = at[r]
  BY <1>1, <1>3, <1>4 DEF Typed, Op
<1> QED BY <1>2, <1>3, <1>4, <1>5 DEF InRing, Carries, Op

LEMMA Ranks ==
  /\ N \in Nat \ {0} /\ 0 \in Rank /\ Root \in Rank
  /\ \A r : r \in Rank <=> r \in Nat /\ r < N
  BY NAssumption, RootAssumption DEF Rank

LEMMA EdgeKinds ==
  ASSUME NEW s \in Rank, NEW d \in Rank
  PROVE  /\ s = 0 => (Edge(s, d) <=> d = Root /\ Root # 0)
         /\ s # 0 => (Edge(s, d) <=> Sends(s, d))
<1>1. s \in Nat /\ d \in Nat
  BY Ranks
<1>2. s = 0 => ~Sends(s, d)
  BY <1>1, SendsFrom
<1> QED BY <1>2 DEF Edge

\* What TakenNow says of a rank in the loop of treereduce.
LEMMA EnterTreeStep ==
  ASSUME Inv, NEW r \in Rank, EnterTree(r), Only(r) PROVE Inv'
<1>1. Typed /\ ChanInv /\ RefInv /\ RankInv(r)
  BY DEF Inv
<1>2. /\ pc[r] = "call" /\ at[r] <= Len(prog) /\ Op(r) = "treereduce"
      /\ out' = [out EXCEPT ![r] = Blank]
      /\ tree' = [tree EXCEPT ![r] = [rk |-> r, num |-> N, depth |-> 1]]
      /\ pc' = [pc EXCEPT ![r] = "tree"]
      /\ UNCHANGED <<prog, sbuf, at, i, size, tmpr, data, chan>>
  BY DEF EnterTree, Go
<1>3. /\ pc'[r] = "tree" /\ at'[r] = at[r] /\ Op(r)' = Op(r)
      /\ tree'[r] = [rk |-> r, num |-> N, depth |-> 1]
  BY <1>1, <1>2 DEF Typed, Op
<1>4. /\ ~InRing(r) /\ ~InRing(r)' /\ ~Left(r) /\ ~Left(r)'
      /\ pc[r] \notin Merging /\ pc'[r] \in Merging
  BY <1>2, <1>3 DEF InRing, Left, Turning, Merging, Rooting
<1>5. N \in Nat \ {0} /\ r \in Nat /\ r < N
  BY Ranks
<1>6. Typed'
  <2>1. pc' \in [Rank -> Places]
    BY <1>1, <1>2 DEF Typed, Places, Merging
  <2>2. out' \in [Rank -> [Rank -> Seq(Item)]]
    BY <1>1, <1>2 DEF Typed, Blank
  <2>3. tree' \in [Rank -> [rk : Nat, num : Nat, depth : Nat]]
    BY <1>1, <1>2, <1>5 DEF Typed
  <2> QED BY <1>1, <1>2, <2>1, <2>2, <2>3 DEF Typed
<1>7. ChanInv'
  <2>1. ASSUME NEW d \in Rank \ {r} PROVE Posted(r, d)' = Posted(r, d) /\ Taken(d, r)' = Taken(d, r)
    <3>1. PostedNow(r, d) = 0 /\ PostedNow(r, d)' = 0 /\ TakenNow(d, r) = 0
      BY <1>4 DEF PostedNow, TakenNow
    <3>2. TakenNow(d, r)' = 0
      <4>1. CASE d # 0 /\ Edge(d, r)
        <5>1. d - r \in Nat \ {0}
          BY <1>5, <4>1, Ranks, EdgeKinds, SendsFrom, PowDouble
        <5>2. ChildTaken(d, r)' = 0
          BY <1>3, <1>4, <5>1 DEF ChildTaken
        <5> QED BY <1>3, <1>4, <4>1, <5>2 DEF TakenNow
      <4>2. CASE ~(d # 0 /\ Edge(d, r))
        BY <1>3, <1>4, <4>2 DEF TakenNow, RootTaken
      <4> QED BY <4>1, <4>2
    <3> QED BY <1>2, <3>1, <3>2, CallsStay DEF Posted, Taken
  <2> QED BY <1>1, <1>2, <2>1, QuietChan
<1>8. RefInv'
  <2>1. \A s \in Rank : Through(s) => Through(s)'
    BY <1>1, <1>3, <1>4, ThroughStays
  <2> QED BY <1>1, <1>2, <2>1, RefQuiet
<1>9. data[r] = Run(r, Cut(r + 1))
  <2>1. at[r] \in DOMAIN prog
    <3>1. DOMAIN prog = 1 .. Len(prog) /\ Len(prog) \in Nat /\ at[r] \in Nat \ {0}
      BY <1>1 DEF Typed
    <3> QED BY <1>2, <3>1
  <2>2. data[r] = Run(r, r + 1)
    BY <1>1, <1>2, <2>1 DEF RankInv, Grown, Op
  <2>3. Cut(r + 1) = r + 1
    BY <1>5 DEF Cut
  <2> QED BY <2>2, <2>3
<1>10. RankInv(r)'
  <2>1. Placed(r)' /\ Held(r)' /\ Filled(r)'
    BY <1>2, <1>3, <1>4 DEF Placed, Held, Filled, Turning, Merging, Rooting
  <2>2. NodeOk(r)'
    BY <1>2, <1>3, <1>5, <1>9, PowOne DEF NodeOk
  <2>3. Grown(r)'
    <3>1. \A c \in DOMAIN prog : prog[c] = "treereduce" => ~(c > at[r])
      <4>1. DOMAIN prog = 1 .. Len(prog) /\ Len(prog) \in Nat /\ at[r] \in Nat \ {0}
        BY <1>1 DEF Typed
      <4>2. at[r] \in DOMAIN prog /\ prog[at[r]] = "treereduce"
        BY <1>2, <4>1 DEF Op
      <4>3. \A c \in DOMAIN prog : prog[c] = "treereduce" => c = at[r]
        BY <1>1, <4>2 DEF Typed
      <4> QED BY <4>1, <4>3
    <3> QED BY <1>2, <1>3, <2>2, <3>1 DEF Grown, Merging, Rooting
  <2> QED BY <2>1, <2>3 DEF RankInv
<1> QED BY <1>6, <1>7, <1>8, <1>10, Combine

\* One level up: of n nodes at depth D there are half as many, rounded up, at 2 * D.
LEMMA UpFits ==
  ASSUME NEW k \in Nat, NEW n \in Nat, NEW D \in Nat \ {0}, k % 2 = 0, k < n,
         (n - 1) * D < N, N <= n * D
  PROVE  /\ k \div 2 \in Nat /\ (n \div 2) + (n % 2) \in Nat /\ k \div 2 < (n \div 2) + (n % 2)
         /\ k * D = (k \div 2) * (2 * D)
         /\ (((n \div 2) + (n % 2)) - 1) * (2 * D) < N /\ N <= ((n \div 2) + (n % 2)) * (2 * D)
<1> DEFINE h == k \div 2
           u == (n \div 2) + (n % 2)
<1>0. N \in Nat
  BY NAssumption
<1>1. k = 2 * h /\ h \in Nat /\ u \in Nat /\ (n = 2 * u \/ n = 2 * u - 1)
  OBVIOUS
<1> HIDE DEF h, u
<1>2. h < u /\ k * D = h * (2 * D)
  BY <1>1
<1>3. (u - 1) * (2 * D) < N /\ N <= u * (2 * D)
  <2>1. (n - 1) * D \in Int /\ n * D \in Int
    OBVIOUS
  <2>2. CASE n = 2 * u
    <3>1. (u - 1) * (2 * D) = (n - 1) * D - D /\ u * (2 * D) = n * D
      BY <1>1, <2>2
    <3> QED BY <1>0, <1>1, <2>1, <3>1
  <2>3. CASE n = 2 * u - 1
    <3>1. (u - 1) * (2 * D) = (n - 1) * D /\ u * (2 * D) = n * D + D
      BY <1>1, <2>3
    <3> QED BY <1>0, <1>1, <2>1, <3>1
  <2> QED BY <1>1, <2>2, <2>3
<1> QED BY <1>1, <1>2, <1>3 DEF h, u

\* The node of r, its depth and the node that it waits for.
LEMMA NodeFacts ==
  ASSUME Inv, NEW r \in Rank, pc[r] \in Merging
  PROVE  /\ tree[r].rk \in Nat /\ tree[r].num \in Nat
         /\ tree[r].depth \in Pow /\ tree[r].depth \in Nat \ {0}
         /\ r = tree[r].rk * tree[r].depth /\ tree[r].rk < tree[r].num
         /\ (tree[r].num - 1) * tree[r].depth < N /\ N <= tree[r].num * tree[r].depth
         /\ data[r] = Run(r, Cut(r + tree[r].depth))
<1>1. Typed /\ NodeOk(r)
  BY DEF Inv, RankInv, Grown
<1>2. tree[r] \in [rk : Nat, num : Nat, depth : Nat]
  BY <1>1 DEF Typed
<1> QED BY <1>1, <1>2, PowDouble DEF NodeOk

LEMMA TreeNeighbour ==
  ASSUME Inv, NEW r \in Rank, pc[r] \in Merging,
         tree[r].rk % 2 = 0, tree[r].rk # tree[r].num - 1
  PROVE  /\ r + tree[r].depth \in Rank /\ r + tree[r].depth # r /\ r + tree[r].depth # 0
         /\ Place(Node(r) + 1, r) = r + tree[r].depth
         /\ Sends(r + tree[r].depth, r) /\ Edge(r + tree[r].depth, r)
<1> DEFINE k == tree[r].rk
           n == tree[r].num
           D == tree[r].depth
<1>1. /\ k \in Nat /\ n \in Nat /\ D \in Pow /\ D \in Nat \ {0} /\ r = k * D /\ k < n
      /\ (n - 1) * D < N
  BY NodeFacts
<1>2. r \in Nat /\ N \in Nat
  BY Ranks
<1> HIDE DEF k, n, D
<1>3. (k + 1) * D = r + D /\ Sends(r + D, r)
  BY <1>1, <1>2, EvenReceives DEF k
<1>4. r + D < N
  <2>1. PICK m \in Nat : n - 1 = (k + 1) + m
    <3>1. (n - 1) - (k + 1) \in Nat /\ n - 1 = (k + 1) + ((n - 1) - (k + 1))
      BY <1>1 DEF k, n
    <3> QED BY <3>1
  <2>2. (n - 1) * D = (k + 1) * D + m * D /\ m * D \in Nat
    BY <1>1, <2>1
  <2> QED BY <1>1, <1>2, <1>3, <2>2
<1>5. r + D \in Rank /\ r + D # r /\ r + D # 0
  BY <1>1, <1>2, <1>4, Ranks
<1>6. Edge(r + D, r)
  BY <1>3 DEF Edge
<1> QED BY <1>3, <1>5, <1>6 DEF k, D, Place, Node

\* Going up one level changes no count.
LEMMA UpTakesNothing ==
  ASSUME Inv, NEW r \in Rank, pc[r] \in {"tree", "func"}, ~Left(r), ~Left(r)',
         pc'[r] = "tree", tree'[r].depth = 2 * tree[r].depth,
         NEW s \in Rank \ {r}, s # 0, Sends(s, r),
         pc[r] = "tree" => s - r # tree[r].depth
  PROVE  ChildTaken(s, r)' = ChildTaken(s, r)
<1> DEFINE D == tree[r].depth
<1>1. D \in Pow /\ D \in Nat \ {0}
  BY NodeFacts DEF Merging
<1>2. s \in Nat /\ r \in Nat
  BY Ranks
<1>3. s - r \in Pow /\ s - r \in Nat \ {0}
  BY <1>2, SendsFrom, PowDouble
<1>4. /\ D < s - r => ~(2 * D > s - r)
      /\ D >= s - r => 2 * D > s - r
  <2> HIDE DEF D
  <2>1. D < s - r => 2 * D <= s - r
    BY <1>1, <1>3, PowNext
  <2> QED BY <1>1, <1>3, <2>1
<1>5. CASE D < s - r
  BY <1>1, <1>3, <1>4, <1>5 DEF ChildTaken
<1>6. CASE D > s - r
  BY <1>1, <1>3, <1>4, <1>6 DEF ChildTaken
<1>7. CASE D = s - r
  <2>1. pc[r] = "func"
    BY <1>7
  <2> QED BY <1>1, <1>3, <1>4, <1>7, <2>1 DEF ChildTaken
<1> QED BY <1>1, <1>3, <1>5, <1>6, <1>7

\* Both steps up: alone, or after func has merged what the neighbour had.
LEMMA UpStep ==
  ASSUME Inv, NEW r \in Rank, Only(r), pc[r] \in {"tree", "func"}, pc'[r] = "tree",
         pc' \in [Rank -> Places], tree' = [tree EXCEPT ![r] = Up(r)],
         tree[r].rk % 2 = 0, pc[r] = "tree" => tree[r].rk = tree[r].num - 1,
         data' \in [Rank -> Seq(Item)], data'[r] = Run(r, Cut(r + 2 * tree[r].depth)),
         UNCHANGED <<prog, sbuf, at, i, size, tmpr, out, chan>>
  PROVE  Inv'
<1> DEFINE k == tree[r].rk
           n == tree[r].num
           D == tree[r].depth
<1>1. Typed /\ ChanInv /\ RefInv /\ RankInv(r)
  BY DEF Inv
<1>2. pc[r] \in Merging /\ pc'[r] \in Merging
  BY DEF Merging
<1>3. /\ k \in Nat /\ n \in Nat /\ D \in Pow /\ D \in Nat \ {0} /\ r = k * D /\ k < n
      /\ (n - 1) * D < N /\ N <= n * D
  BY <1>2, NodeFacts
<1>4. /\ Op(r) = "treereduce" /\ at[r] <= Len(prog) /\ at[r] \in DOMAIN prog /\ ~InRing(r)
      /\ \A c \in DOMAIN prog : prog[c] = "treereduce" => c = at[r]
  BY <1>2, InTree
<1>5. at'[r] = at[r] /\ Op(r)' = Op(r) /\ ~InRing(r)' /\ ~Left(r) /\ ~Left(r)'
  BY DEF Op, InRing, Left, Turning, Rooting
<1>6. tree'[r] = [rk |-> k \div 2, num |-> (n \div 2) + (n % 2), depth |-> 2 * D]
  BY <1>1 DEF Typed, Up, Node
<1>7. /\ k \div 2 \in Nat /\ (n \div 2) + (n % 2) \in Nat /\ k \div 2 < (n \div 2) + (n % 2)
      /\ k * D = (k \div 2) * (2 * D)
      /\ (((n \div 2) + (n % 2)) - 1) * (2 * D) < N /\ N <= ((n \div 2) + (n % 2)) * (2 * D)
  <2> HIDE DEF k, n, D
  <2>1. k % 2 = 0
    BY DEF k
  <2> QED BY <1>3, <2>1, UpFits
<1>8. 2 * D \in Pow /\ 2 * D \in Nat
  BY <1>3, PowDouble
<1>9. Typed'
  <2>1. tree' \in [Rank -> [rk : Nat, num : Nat, depth : Nat]]
    <3>1. [rk |-> k \div 2, num |-> (n \div 2) + (n % 2), depth |-> 2 * D]
            \in [rk : Nat, num : Nat, depth : Nat]
      <4> HIDE DEF k, n, D
      <4> QED BY <1>7, <1>8
    <3> QED BY <1>1, <1>6, <3>1 DEF Typed
  <2> QED BY <1>1, <2>1 DEF Typed
<1>10. ChanInv'
  <2>1. ASSUME NEW d \in Rank \ {r} PROVE Posted(r, d)' = Posted(r, d) /\ Taken(d, r)' = Taken(d, r)
    <3>1. PostedNow(r, d) = 0 /\ PostedNow(r, d)' = 0
      BY <1>4, <1>5 DEF PostedNow
    <3>2. TakenNow(d, r)' = TakenNow(d, r)
      <4>1. CASE d # 0 /\ Edge(d, r)
        <5>1. Sends(d, r)
          BY <4>1, EdgeKinds
        <5>2. pc[r] = "tree" => d - r # D
          <6> SUFFICES ASSUME pc[r] = "tree", d - r = D PROVE FALSE
            OBVIOUS
          <6>1. n = k + 1
            <7>1. k = n - 1
              OBVIOUS
            <7> HIDE DEF k, n
            <7> QED BY <1>3, <7>1
          <6>2. d \in Nat /\ r \in Nat /\ d < N /\ N \in Nat
            BY Ranks
          <6> HIDE DEF k, n, D
          <6>3. n * D = r + D
            BY <1>3, <6>1
          <6>4. N <= r + D /\ d = r + D
            BY <1>3, <6>2, <6>3
          <6> QED BY <1>3, <6>2, <6>4
        <5>3. tree'[r].depth = 2 * tree[r].depth
          BY <1>6
        <5>4. ChildTaken(d, r)' = ChildTaken(d, r)
          BY <1>5, <4>1, <5>1, <5>2, <5>3, UpTakesNothing
        <5> QED BY <1>2, <1>4, <1>5, <4>1, <5>4 DEF TakenNow
      <4>2. CASE ~(d # 0 /\ Edge(d, r))
        BY <1>2, <1>4, <1>5, <4>2 DEF TakenNow, RootTaken
      <4> QED BY <4>1, <4>2
    <3> QED BY <3>1, <3>2, CallsStay DEF Posted, Taken
  <2> QED BY <1>1, <2>1, QuietChan
<1>11. RefInv'
  <2>1. \A s \in Rank : Through(s) => Through(s)'
    BY <1>1, <1>5, ThroughStays
  <2>2. ~Through(r)
    <3>1. at[r] \in Nat
      BY <1>1 DEF Typed
    <3> QED BY <1>4, <1>5, <3>1 DEF Through
  <2>3. \A s \in Rank : Through(s) => data'[s] = data[s]
    BY <2>2 DEF Only
  <2> QED BY <1>1, <2>1, <2>3, RefQuiet
<1>12. RankInv(r)'
  <2>1. Placed(r)' /\ Held(r)' /\ Filled(r)'
    BY <1>4, <1>5 DEF Placed, Held, Filled, Turning, Merging, Rooting
  <2>2. NodeOk(r)'
    <3>1. /\ tree'[r].depth = 2 * D /\ tree'[r].rk = k \div 2
          /\ tree'[r].num = (n \div 2) + (n % 2)
      BY <1>6
    <3>2. r = (k \div 2) * (2 * D)
      BY <1>3, <1>7
    <3>3. data'[r] = Run(r, Cut(r + 2 * D))
      OBVIOUS
    <3> HIDE DEF k, n, D
    <3> QED BY <1>7, <1>8, <3>1, <3>2, <3>3 DEF NodeOk
  <2>3. Grown(r)'
    <3>1. \A c \in DOMAIN prog : prog[c] = "treereduce" => ~(c > at[r])
      <4>1. at[r] \in Nat
        BY <1>1 DEF Typed
      <4> QED BY <1>4, <4>1
    <3> QED BY <1>5, <2>2, <3>1 DEF Grown, Merging, Rooting
  <2> QED BY <2>1, <2>3 DEF RankInv
<1> QED BY <1>9, <1>10, <1>11, <1>12, Combine

LEMMA TreeAloneStep ==
  ASSUME Inv, NEW r \in Rank, TreeAlone(r), Only(r) PROVE Inv'
<1> DEFINE n == tree[r].num
           D == tree[r].depth
<1>1. /\ pc[r] = "tree" /\ tree[r].rk % 2 = 0 /\ tree[r].rk = n - 1
      /\ tree' = [tree EXCEPT ![r] = Up(r)]
      /\ UNCHANGED <<prog, sbuf, at, pc, i, size, tmpr, out, data, chan>>
  BY DEF TreeAlone, Node
<1>2. Typed /\ pc[r] \in Merging
  BY <1>1 DEF Inv, Merging
<1>3. /\ D \in Nat \ {0} /\ n \in Nat /\ r = tree[r].rk * D /\ tree[r].rk \in Nat
      /\ N <= n * D /\ data[r] = Run(r, Cut(r + D))
  BY <1>2, NodeFacts
<1>4. r \in Nat /\ N \in Nat
  BY Ranks
<1>5. N <= r + D
  <2>1. n = tree[r].rk + 1
    BY <1>1, <1>3
  <2>2. n * D = r + D
    BY <1>3, <2>1
  <2> QED BY <1>3, <2>2
<1>6. Cut(r + D) = N /\ Cut(r + 2 * D) = N
  <2> HIDE DEF D
  <2> QED BY <1>3, <1>4, <1>5 DEF Cut
<1>7. data' \in [Rank -> Seq(Item)] /\ pc' \in [Rank -> Places] /\ pc'[r] = "tree"
  BY <1>1, <1>2 DEF Typed
<1>8. data'[r] = Run(r, Cut(r + 2 * D))
  BY <1>1, <1>3, <1>6
<1> QED BY <1>1, <1>7, <1>8, UpStep

LEMMA TreeFuncStep ==
  ASSUME Inv, NEW r \in Rank, TreeFunc(r), Only(r) PROVE Inv'
<1> DEFINE D == tree[r].depth
           s == r + D
<1>1. /\ pc[r] = "func"
      /\ data' = [data EXCEPT ![r] = @ \o tmpr[r].val]
      /\ tree' = [tree EXCEPT ![r] = Up(r)]
      /\ pc' = [pc EXCEPT ![r] = "tree"]
      /\ UNCHANGED <<prog, sbuf, at, i, size, tmpr, out, chan>>
  BY DEF TreeFunc, Go
<1>2. Typed /\ RankInv(r) /\ pc[r] \in Merging
  BY <1>1 DEF Inv, Merging
<1>3. tree[r].rk % 2 = 0 /\ tree[r].rk # tree[r].num - 1
  BY <1>1, <1>2 DEF RankInv, Grown
<1>4. D \in Nat \ {0} /\ data[r] = Run(r, Cut(s)) /\ Op(r) = "treereduce"
  BY <1>2, NodeFacts, InTree
<1>5. s \in Rank /\ s # 0 /\ r \in Nat /\ s \in Nat /\ s < N /\ N \in Nat
  BY <1>2, <1>3, TreeNeighbour, Ranks
<1>6. tmpr[r].val = Run(s, Cut(r + 2 * D))
  <2>1. tmpr[r] = DataMsg(at[r], s, r)
    BY <1>1, <1>2 DEF RankInv, Held, Sender
  <2>2. 2 * s - r = r + 2 * D
    BY <1>4, <1>5
  <2>3. Load(at[r], s, r) = Run(s, Cut(r + 2 * D))
    BY <1>4, <1>5, <2>2 DEF Load, Op
  <2> QED BY <2>1, <2>3 DEF DataMsg, Message
<1>7. /\ data[r] = Run(r, s) /\ r <= s /\ s <= Cut(r + 2 * D) /\ Cut(r + 2 * D) \in Nat
  <2>1. Cut(s) = s
    BY <1>5 DEF Cut
  <2> HIDE DEF D
  <2>2. r + 2 * D \in Nat /\ s <= r + 2 * D /\ r <= s
    BY <1>4, <1>5
  <2> QED BY <1>4, <1>5, <2>1, <2>2 DEF Cut
<1>8. data[r] \o tmpr[r].val = Run(r, Cut(r + 2 * D))
  <2> DEFINE e == Cut(r + 2 * D)
  <2>1. r \in Nat /\ s \in Nat /\ e \in Nat /\ r <= s /\ s <= e
    BY <1>5, <1>7
  <2>2. data[r] = Run(r, s) /\ tmpr[r].val = Run(s, e)
    BY <1>6, <1>7
  <2> HIDE DEF s, e
  <2>3. Run(r, s) \o Run(s, e) = Run(r, e)
    BY <2>1, RunJoined
  <2> QED BY <2>2, <2>3 DEF e
<1>9. data'[r] = Run(r, Cut(r + 2 * D)) /\ data' \in [Rank -> Seq(Item)]
  <2>1. Run(r, Cut(r + 2 * D)) \in Seq(Item)
    <3>1. r <= Cut(r + 2 * D)
      <4> HIDE DEF s, D
      <4> QED BY <1>5, <1>7
    <3> QED BY <1>5, <1>7, <3>1, RunTyped
  <2>2. data' = [data EXCEPT ![r] = Run(r, Cut(r + 2 * D))]
    BY <1>1, <1>8
  <2> QED BY <1>2, <2>1, <2>2 DEF Typed
<1>10. pc' \in [Rank -> Places] /\ pc'[r] = "tree"
  BY <1>1, <1>2 DEF Typed, Places, Merging
<1> QED BY <1>1, <1>3, <1>9, <1>10, UpStep

LEMMA TreeSendStep ==
  ASSUME Inv, NEW r \in Rank, TreeSend(r), Only(r) PROVE Inv'
<1> DEFINE D == tree[r].depth
<1>1. Typed /\ ChanInv /\ RefInv /\ RankInv(r)
  BY DEF Inv
<1>2. /\ pc[r] = "tree" /\ tree[r].rk % 2 # 0
      /\ chan' = [chan EXCEPT ![<<r, Place(Node(r) - 1, r)>>] = @ \o Frames(data[r], TRUE)]
      /\ pc' = [pc EXCEPT ![r] = "result"]
      /\ UNCHANGED <<prog, sbuf, at, i, size, tmpr, out, data, tree>>
  BY DEF TreeSend, Post, Go, Node
<1>3. pc[r] \in Merging /\ ~Left(r)
  BY <1>2 DEF Merging, Left, Rooting
<1>4. /\ Op(r) = "treereduce" /\ at[r] <= Len(prog) /\ at[r] \in DOMAIN prog /\ ~InRing(r)
      /\ \A v \in Rank : Edge(r, v) => Carries(at[r], r, v)
  BY <1>3, InTree
<1>5. /\ tree[r].rk \in Nat /\ D \in Pow /\ D \in Nat \ {0} /\ r = tree[r].rk * D
      /\ data[r] = Run(r, Cut(r + D)) /\ data[r] \in Seq(Item)
  BY <1>1, <1>3, NodeFacts DEF Typed
<1>6. r \in Nat /\ N \in Nat /\ r < N
  BY Ranks
<1>7. /\ Place(Node(r) - 1, r) = r - D /\ r - D \in Nat /\ r # 0
      /\ \A d \in Nat : Sends(r, d) <=> d = r - D
  <2>1. /\ (tree[r].rk - 1) * D = r - D /\ r - D \in Nat /\ r # 0
        /\ \A d \in Nat : Sends(r, d) <=> d = r - D
    <3> DEFINE k == tree[r].rk
    <3>1. k \in Nat /\ D \in Pow /\ r = k * D /\ k % 2 # 0
      BY <1>2, <1>5
    <3> HIDE DEF k, D
    <3> QED BY <1>6, <3>1, OddSends DEF k
  <2> QED BY <2>1 DEF Place, Node
<1>8. PICK v \in Rank \ {r} : v = r - D
  <2>1. r - D \in Rank \ {r}
    <3> HIDE DEF D
    <3> QED BY <1>5, <1>6, <1>7, Ranks
  <2> QED BY <2>1
<1>9. \A d \in Rank : Edge(r, d) <=> d = v
  BY <1>7, <1>8, EdgeKinds, Ranks
<1>10. pc'[r] = "result" /\ at'[r] = at[r] /\ Op(r)' = Op(r) /\ ~InRing(r)' /\ Left(r)' /\ UNCHANGED tree
  BY <1>1, <1>2 DEF Typed, Op, InRing, Left, Turning
<1>11. Load(at[r], r, v) = data[r]
  <2>1. 2 * r - v = r + D
    BY <1>5, <1>6, <1>8
  <2> QED BY <1>4, <1>5, <1>7, <2>1 DEF Load, Op
<1>12. \A s \in Rank : Through(s) => Through(s)'
  BY <1>1, <1>3, <1>10, ThroughStays
<1>13. ChanInv' /\ chan' \in [Rank \X Rank -> Seq(AnyMsg)]
  <2>1. \A d \in Rank : PostedNow(r, d) = 0 /\ PostedNow(r, d)' = (IF d = v THEN 2 ELSE 0)
    BY <1>3, <1>4, <1>9, <1>10 DEF PostedNow
  <2>2. \A c, s, d : Before(c, s, d)' = Before(c, s, d)
    BY <1>2, CallsStay
  <2>3. \A d \in Rank \ {r, v} : Posted(r, d)' = Posted(r, d)
    BY <1>10, <2>1, <2>2 DEF Posted
  <2>4. Posted(r, v)' = Posted(r, v) + 2
    <3>1. Before(at[r], r, v) \in Nat
      BY <1>1, CountTypes
    <3> QED BY <1>10, <2>1, <2>2, <3>1 DEF Posted
  <2>5. ASSUME NEW s \in Rank \ {r} PROVE Taken(s, r)' = Taken(s, r)
    <3>1. TakenNow(s, r)' = TakenNow(s, r)
      <4>1. CASE s # 0 /\ Edge(s, r)
        <5>1. D > s - r
          BY <1>2, <1>5, <1>6, <4>1, EdgeKinds, OddHasAll, Ranks
        <5>2. ChildTaken(s, r) = 2 /\ ChildTaken(s, r)' = 2
          BY <1>10, <5>1 DEF ChildTaken
        <5> QED BY <1>3, <1>4, <1>10, <4>1, <5>2 DEF TakenNow
      <4>2. CASE ~(s # 0 /\ Edge(s, r))
        BY <1>2, <1>4, <1>10, <4>2 DEF TakenNow, RootTaken
      <4> QED BY <4>1, <4>2
    <3> QED BY <1>10, <2>2, <3>1 DEF Taken
  <2>6. chan' = [chan EXCEPT ![<<r, v>>] =
                   @ \o Frames(Load(at[r], r, v), prog[at[r]] = "treereduce")]
    <3>1. (prog[at[r]] = "treereduce") = TRUE
      BY <1>4 DEF Op
    <3> QED BY <1>2, <1>7, <1>8, <1>11, <3>1
  <2>7. Carries(at[r], r, v) /\ Load(at[r], r, v) \in Seq(Item) /\ PostedNow(r, v) = 0
    BY <1>4, <1>5, <1>9, <1>11, <2>1
  <2> QED BY <1>1, <1>4, <2>3, <2>4, <2>5, <2>6, <2>7, PostChan
<1>14. RefInv'
  <2>1. Through(r)'
    BY <1>2, <1>4, <1>10 DEF Through, Op
  <2>2. chan' = [chan EXCEPT ![<<r, v>>] = @ \o Frames(data[r], TRUE)] /\ TRUE \in BOOLEAN
    BY <1>2, <1>7, <1>8
  <2> QED BY <1>1, <1>2, <1>5, <1>12, <2>1, <2>2, RefPosted
<1>15. Typed'
  <2>1. pc' \in [Rank -> Places]
    BY <1>1, <1>2 DEF Typed, Places
  <2> QED BY <1>1, <1>2, <1>13, <2>1 DEF Typed
<1>16. RankInv(r)'
  <2>1. Placed(r)' /\ Held(r)' /\ Filled(r)'
    BY <1>2, <1>4, <1>10 DEF Placed, Held, Filled, Turning, Merging, Rooting
  <2>2. Grown(r)'
    BY <1>1, <1>2, <1>7, <1>10 DEF RankInv, Grown, Merging, Rooting
  <2> QED BY <2>1, <2>2 DEF RankInv
<1> QED BY <1>13, <1>14, <1>15, <1>16, Combine

LEMMA TreeReceiveStep ==
  ASSUME Inv, NEW r \in Rank, TreeRecvSize(r) \/ TreeRecvData(r), Only(r) PROVE Inv'
<1> DEFINE D == tree[r].depth
<1>1. Typed /\ ChanInv /\ RankInv(r)
  BY DEF Inv
<1>2. /\ pc[r] \in {"tree", "treedata"} /\ tree[r].rk % 2 = 0 /\ tree[r].rk # tree[r].num - 1
      /\ pc' = [pc EXCEPT ![r] = IF pc[r] = "tree" THEN "treedata" ELSE "func"]
      /\ UNCHANGED <<prog, sbuf, at, i, out, data, tree>>
  <2>1. CASE TreeRecvSize(r)
    BY <2>1 DEF TreeRecvSize, RecvSize, Go, Node
  <2>2. CASE TreeRecvData(r)
    BY <1>1, <2>2 DEF TreeRecvData, RecvData, Go, RankInv, Grown
  <2> QED BY <2>1, <2>2
<1>3. pc[r] \in Merging
  BY <1>2 DEF Merging
<1>4. /\ Op(r) = "treereduce" /\ at[r] <= Len(prog) /\ ~InRing(r)
      /\ \A v \in Rank : Edge(v, r) => Carries(at[r], v, r)
  BY <1>3, InTree
<1>5. D \in Nat \ {0} /\ r \in Nat
  BY <1>3, NodeFacts, Ranks
<1>6. PICK v \in Rank \ {r} : v = r + D /\ v # 0 /\ v = Place(Node(r) + 1, r) /\ Edge(v, r)
  <2>1. /\ r + D \in Rank \ {r} /\ r + D # 0 /\ r + D = Place(Node(r) + 1, r) /\ Edge(r + D, r)
    BY <1>2, <1>3, TreeNeighbour
  <2> QED BY <2>1
<1>7. /\ pc'[r] = (IF pc[r] = "tree" THEN "treedata" ELSE "func") /\ pc'[r] \in Merging
      /\ at'[r] = at[r] /\ Op(r)' = Op(r) /\ tree'[r] = tree[r]
      /\ ~InRing(r)' /\ ~Left(r) /\ ~Left(r)'
  BY <1>1, <1>2 DEF Typed, Op, InRing, Left, Turning, Merging, Rooting
<1>8. \A d \in Rank \ {r} : PostedNow(r, d)' = PostedNow(r, d)
  BY <1>4, <1>7 DEF PostedNow
<1>9. ASSUME NEW s \in Rank \ {r, v} PROVE TakenNow(s, r)' = TakenNow(s, r)
  <2>1. CASE s # 0 /\ Edge(s, r)
    <3>1. s - r # D /\ s - r \in Nat
      <4>1. s \in Nat /\ r < s
        BY <1>5, <2>1, EdgeKinds, SendsFrom, Ranks
      <4> QED BY <1>5, <1>6, <4>1
    <3>2. ChildTaken(s, r)' = ChildTaken(s, r)
      BY <1>5, <1>7, <3>1 DEF ChildTaken
    <3> QED BY <1>3, <1>4, <1>7, <2>1, <3>2 DEF TakenNow
  <2>2. CASE ~(s # 0 /\ Edge(s, r))
    BY <1>3, <1>4, <1>7, <2>2 DEF TakenNow, RootTaken, Merging
  <2> QED BY <2>1, <2>2
<1>10. /\ TakenNow(v, r) = (IF pc[r] = "tree" THEN 0 ELSE 1)
       /\ TakenNow(v, r)' = (IF pc[r] = "tree" THEN 1 ELSE 2)
  <2>1. v - r = D
    BY <1>5, <1>6
  <2>2. /\ ChildTaken(v, r) = (IF pc[r] = "tree" THEN 0 ELSE 1)
        /\ ChildTaken(v, r)' = (IF pc[r] = "tree" THEN 1 ELSE 2)
    BY <1>2, <1>5, <1>7, <2>1 DEF ChildTaken
  <2> QED BY <1>3, <1>4, <1>6, <1>7, <2>2 DEF TakenNow
<1>11. /\ Typed' /\ ChanInv' /\ RefInv' /\ size'[r] = SizeMsg(at[r], v, r)
       /\ pc[r] = "treedata" => tmpr'[r] = DataMsg(at[r], v, r)
  <2>1. CASE TreeRecvSize(r)
    <3>1. pc[r] = "tree" /\ RecvSize(r, v, "treedata") /\ "treedata" \in Places
      BY <1>6, <2>1 DEF TreeRecvSize, Places, Merging
    <3>2. TakenNow(v, r) = 0 /\ TakenNow(v, r)' = 1
      BY <1>10, <3>1
    <3> QED BY <1>4, <1>6, <1>7, <1>8, <1>9, <3>1, <3>2, SizeReceived
  <2>2. CASE TreeRecvData(r)
    <3>1. pc[r] = "treedata" /\ RecvData(r, v, "func") /\ "func" \in Places
      BY <1>6, <2>2 DEF TreeRecvData, Places, Merging
    <3>2. TakenNow(v, r) = 1 /\ TakenNow(v, r)' = 2
      BY <1>10, <3>1
    <3>3. Typed' /\ ChanInv' /\ RefInv' /\ tmpr'[r] = DataMsg(at[r], v, r)
      BY <1>4, <1>6, <1>7, <1>8, <1>9, <3>1, <3>2, DataReceived
    <3>4. size'[r] = SizeMsg(at[r], v, r)
      BY <1>1, <1>3, <1>6, <3>1 DEF RecvData, RankInv, Held, Sender
    <3> QED BY <3>3, <3>4
  <2> QED BY <2>1, <2>2
<1>12. RankInv(r)'
  <2>1. Placed(r)' /\ Filled(r)'
    BY <1>2, <1>4, <1>7 DEF Placed, Filled, Turning, Merging, Rooting
  <2>2. Sender(r)' = v
    BY <1>6, <1>7 DEF Sender
  <2>3. /\ SizeMsg(at[r], Sender(r), r)' = SizeMsg(at[r], v, r)
        /\ DataMsg(at[r], Sender(r), r)' = DataMsg(at[r], v, r)
    BY <1>2, <2>2, CallsStay DEF SizeMsg, DataMsg, Load, Outgoing
  <2>4. Held(r)'
    BY <1>2, <1>7, <1>11, <2>3 DEF Held
  <2>5. NodeOk(r)'
    BY <1>1, <1>2, <1>3, <1>7 DEF RankInv, Grown, NodeOk
  <2>6. Grown(r)'
    BY <1>1, <1>2, <1>7, <2>5 DEF RankInv, Grown, Merging, Rooting
  <2> QED BY <2>1, <2>4, <2>6 DEF RankInv
<1> QED BY <1>11, <1>12, Combine

(***************************************************************************)
(* The result.  A rank that has sent its data goes on; rank 0 has the data *)
(* of all, and sends it to Root.                                           *)
(***************************************************************************)
LEMMA ResultGoesOn ==
  ASSUME Inv, NEW r \in Rank, TreeResult(r), pc[r] = "result", Only(r) PROVE Inv'
<1>1. Typed /\ ChanInv /\ RefInv /\ RankInv(r)
  BY DEF Inv
<1>2. r # 0
  BY <1>1 DEF RankInv, Grown
<1>3. /\ pc' = [pc EXCEPT ![r] = IF r = Root /\ Root # 0 THEN "rootsize" ELSE "return"]
      /\ UNCHANGED <<prog, sbuf, at, i, size, tmpr, out, data, tree, chan>>
  BY <1>2 DEF TreeResult, Go
<1>4. Op(r) = "treereduce" /\ at[r] <= Len(prog) /\ at[r] \in DOMAIN prog /\ ~InRing(r)
  BY InTree
<1>5. /\ pc'[r] = (IF r = Root THEN "rootsize" ELSE "return") /\ at'[r] = at[r] /\ Op(r)' = Op(r)
  BY <1>1, <1>2, <1>3 DEF Typed, Op
<1>6. ~InRing(r)' /\ Left(r) /\ Left(r)'
  BY <1>4, <1>5 DEF InRing, Left, Turning, Rooting, RingOps
<1>7. Typed'
  <2>1. pc' \in [Rank -> Places]
    BY <1>1, <1>3 DEF Typed, Places, Rooting
  <2> QED BY <1>1, <1>3, <2>1 DEF Typed
<1>8. ChanInv'
  <2>1. ASSUME NEW d \in Rank \ {r} PROVE Posted(r, d)' = Posted(r, d) /\ Taken(d, r)' = Taken(d, r)
    <3>1. PostedNow(r, d)' = PostedNow(r, d)
      BY <1>4, <1>6 DEF PostedNow
    <3>2. TakenNow(d, r)' = TakenNow(d, r)
      <4>1. CASE d = 0
        <5>1. Edge(d, r) => r = Root
          BY <4>1, EdgeKinds
        <5>2. Edge(d, r) => RootTaken(r)' = 0 /\ RootTaken(r) = 0
          BY <1>5, <5>1 DEF RootTaken
        <5> QED BY <1>4, <1>6, <4>1, <5>2 DEF TakenNow
      <4>2. CASE d # 0
        <5>1. ChildTaken(d, r) = 2 /\ ChildTaken(d, r)' = 2
          BY <1>6 DEF ChildTaken
        <5> QED BY <1>4, <1>6, <4>2, <5>1 DEF TakenNow
      <4> QED BY <4>1, <4>2
    <3> QED BY <1>3, <3>1, <3>2, CallsStay DEF Posted, Taken
  <2> QED BY <1>1, <1>3, <2>1, QuietChan
<1>9. RefInv'
  <2>1. \A s \in Rank : Through(s) => Through(s)'
    BY <1>1, <1>5, <1>6, ThroughStays
  <2> QED BY <1>1, <1>3, <2>1, RefQuiet
<1>10. RankInv(r)'
  <2>1. Placed(r)' /\ Held(r)' /\ Filled(r)'
    BY <1>3, <1>4, <1>5, <1>6 DEF Placed, Held, Filled, Turning, Merging, Rooting, RingOps
  <2>2. Grown(r)'
    BY <1>1, <1>2, <1>3, <1>5 DEF RankInv, Grown, Merging, Rooting
  <2> QED BY <2>1, <2>2 DEF RankInv
<1> QED BY <1>7, <1>8, <1>9, <1>10, Combine

\* The node that is alone at its depth is rank 0, and has the data of all.
LEMMA LastNode ==
  ASSUME Inv, NEW r \in Rank, pc[r] = "tree", tree[r].num = 1
  PROVE  r = 0 /\ tree[r].depth \in Nat /\ N <= tree[r].depth /\ data[r] = Run(0, N)
<1> DEFINE D == tree[r].depth
<1>1. /\ tree[r].rk \in Nat /\ D \in Nat /\ r = tree[r].rk * D /\ tree[r].rk < 1 /\ N <= 1 * D
      /\ data[r] = Run(r, Cut(r + D))
  BY NodeFacts DEF Merging
<1>2. tree[r].rk = 0
  BY <1>1
<1>3. r = 0 /\ N <= D /\ N \in Nat
  BY <1>1, <1>2, Ranks
<1>4. Cut(r + D) = N
  <2> HIDE DEF D
  <2> QED BY <1>1, <1>3 DEF Cut
<1> QED BY <1>1, <1>3, <1>4

LEMMA ResultStep ==
  ASSUME Inv, NEW r \in Rank, TreeResult(r), pc[r] = "tree", Only(r) PROVE Inv'
<1>1. Typed /\ ChanInv /\ RefInv /\ RankInv(r)
  BY DEF Inv
<1>2. tree[r].num = 1 /\ pc[r] \in Merging
  BY DEF TreeResult, Merging
<1>3. r = 0 /\ tree[r].depth \in Nat /\ N <= tree[r].depth /\ data[r] = Run(0, N)
  BY <1>2, LastNode
<1>4. /\ out' = [out EXCEPT ![r][0] = data[r]]
      /\ pc' = [pc EXCEPT ![r] = "return"]
      /\ UNCHANGED <<prog, sbuf, at, i, size, tmpr, data, tree>>
      /\ Root # 0 => chan' = [chan EXCEPT ![<<r, Root>>] = @ \o Frames(data[r], TRUE)]
      /\ Root = 0 => UNCHANGED chan
  BY <1>3 DEF TreeResult, Go, Post
<1>5. Op(r) = "treereduce" /\ at[r] <= Len(prog) /\ at[r] \in DOMAIN prog /\ ~InRing(r)
  BY <1>2, InTree
<1>6. /\ pc'[r] = "return" /\ at'[r] = at[r] /\ Op(r)' = Op(r)
      /\ ~InRing(r)' /\ ~Left(r) /\ Left(r)'
  BY <1>1, <1>2, <1>4, <1>5 DEF Typed, Op, InRing, Left, Turning, Merging, Rooting, RingOps
<1>7. \A s \in Rank : Through(s) => Through(s)'
  BY <1>1, <1>6, ThroughStays
<1>8. \A d \in Rank : Edge(r, d) <=> d = Root /\ Root # 0
  BY <1>3, EdgeKinds
<1>9. \A c, s, d : Before(c, s, d)' = Before(c, s, d)
  BY <1>4, CallsStay
<1>10. \A d \in Rank : /\ PostedNow(r, d) = 0
                       /\ PostedNow(r, d)' = (IF d = Root /\ Root # 0 THEN 2 ELSE 0)
  BY <1>5, <1>6, <1>8 DEF PostedNow
<1>11. ASSUME NEW s \in Rank \ {r} PROVE Taken(s, r)' = Taken(s, r)
  <2>1. s # 0 /\ tree[r].depth > s - r
    <3>1. s \in Nat /\ s < N /\ N \in Nat
      BY Ranks
    <3> QED BY <1>3, <3>1
  <2>2. ChildTaken(s, r) = 2 /\ ChildTaken(s, r)' = 2
    BY <1>4, <1>6, <2>1 DEF ChildTaken
  <2>3. TakenNow(s, r)' = TakenNow(s, r)
    BY <1>2, <1>5, <1>6, <2>1, <2>2 DEF TakenNow
  <2> QED BY <1>6, <1>9, <2>3 DEF Taken
<1>12. data[r] \in Seq(Item) /\ data[r] = Run(0, N) /\ 0 \in Rank
  BY <1>1, <1>3, Ranks DEF Typed
<1>13. ChanInv' /\ RefInv' /\ chan' \in [Rank \X Rank -> Seq(AnyMsg)]
  <2>1. CASE Root = 0
    <3>1. \A d \in Rank \ {r} : Posted(r, d)' = Posted(r, d)
      BY <1>6, <1>9, <1>10, <2>1 DEF Posted
    <3>2. ChanInv'
      BY <1>1, <1>4, <1>11, <2>1, <3>1, QuietChan
    <3>3. RefInv'
      BY <1>1, <1>4, <1>7, <2>1, RefQuiet
    <3> QED BY <1>1, <1>4, <2>1, <3>2, <3>3 DEF Typed
  <2>2. CASE Root # 0
    <3>1. PICK v \in Rank \ {r} : v = Root
      BY <1>3, <2>2, Ranks
    <3>2. Load(at[r], r, v) = data[r]
      BY <1>3, <1>5 DEF Load, Op
    <3>3. \A d \in Rank \ {r, v} : Posted(r, d)' = Posted(r, d)
      BY <1>6, <1>9, <1>10, <3>1 DEF Posted
    <3>4. Posted(r, v)' = Posted(r, v) + 2
      <4>1. Before(at[r], r, v) \in Nat
        BY <1>1, CountTypes
      <4> QED BY <1>6, <1>9, <1>10, <2>2, <3>1, <4>1 DEF Posted
    <3>5. chan' = [chan EXCEPT ![<<r, v>>] =
                     @ \o Frames(Load(at[r], r, v), prog[at[r]] = "treereduce")]
      <4>1. (prog[at[r]] = "treereduce") = TRUE
        BY <1>5 DEF Op
      <4> QED BY <1>4, <2>2, <3>1, <3>2, <4>1
    <3>6. Carries(at[r], r, v) /\ Load(at[r], r, v) \in Seq(Item) /\ PostedNow(r, v) = 0
      BY <1>2, <1>8, <1>10, <1>12, <2>2, <3>1, <3>2, InTree
    <3>7. ChanInv' /\ chan' \in [Rank \X Rank -> Seq(AnyMsg)]
      BY <1>1, <1>5, <1>11, <3>3, <3>4, <3>5, <3>6, PostChan
    <3>8. Through(r)'
      BY <1>4, <1>5, <1>6 DEF Through, Op
    <3>9. chan' = [chan EXCEPT ![<<r, v>>] = @ \o Frames(data[r], TRUE)] /\ TRUE \in BOOLEAN
      BY <1>4, <2>2, <3>1
    <3>10. RefInv'
      BY <1>1, <1>4, <1>7, <1>12, <3>8, <3>9, RefPosted
    <3> QED BY <3>7, <3>10
  <2> QED BY <2>1, <2>2
<1>14. out' \in [Rank -> [Rank -> Seq(Item)]] /\ out'[r][0] = Run(0, N)
  BY <1>1, <1>4, <1>12 DEF Typed
<1>15. Typed'
  <2>1. pc' \in [Rank -> Places]
    BY <1>1, <1>4 DEF Typed, Places
  <2> QED BY <1>1, <1>4, <1>13, <1>14, <2>1 DEF Typed
<1>16. RankInv(r)'
  <2>1. Placed(r)' /\ Held(r)' /\ Filled(r)'
    BY <1>4, <1>5, <1>6 DEF Placed, Held, Filled, Turning, Merging, Rooting, RingOps
  <2>2. Grown(r)'
    BY <1>1, <1>4, <1>6, <1>14 DEF RankInv, Grown, Merging, Rooting
  <2> QED BY <2>1, <2>2 DEF RankInv
<1> QED BY <1>13, <1>15, <1>16, Combine

LEMMA RootReceiveStep ==
  ASSUME Inv, NEW r \in Rank, RootRecvSize(r) \/ RootRecvData(r), Only(r) PROVE Inv'
<1>1. Typed /\ ChanInv /\ RankInv(r)
  BY DEF Inv
<1>2. /\ pc[r] \in {"rootsize", "rootdata"}
      /\ pc' = [pc EXCEPT ![r] = IF pc[r] = "rootsize" THEN "rootdata" ELSE "rootout"]
      /\ UNCHANGED <<prog, sbuf, at, i, out, data, tree>>
  <2>1. CASE RootRecvSize(r)
    BY <2>1 DEF RootRecvSize, RecvSize, Go
  <2>2. CASE RootRecvData(r)
    BY <2>2 DEF RootRecvData, RecvData, Go
  <2> QED BY <2>1, <2>2
<1>3. pc[r] \in Rooting /\ pc[r] \notin Merging
  BY <1>2 DEF Rooting, Merging
<1>4. r = Root /\ Root # 0
  BY <1>1, <1>3 DEF RankInv, Grown
<1>5. /\ Op(r) = "treereduce" /\ at[r] <= Len(prog) /\ ~InRing(r)
      /\ \A v \in Rank : Edge(v, r) => Carries(at[r], v, r)
  BY <1>3, InTree
<1>6. PICK v \in Rank \ {r} : v = 0 /\ Edge(v, r)
  BY <1>4, EdgeKinds, Ranks
<1>7. /\ pc'[r] = (IF pc[r] = "rootsize" THEN "rootdata" ELSE "rootout") /\ pc'[r] \in Rooting
      /\ at'[r] = at[r] /\ Op(r)' = Op(r) /\ tree'[r] = tree[r]
      /\ ~InRing(r)' /\ Left(r) /\ Left(r)'
  BY <1>1, <1>2 DEF Typed, Op, InRing, Left, Turning, Rooting
<1>8. \A d \in Rank \ {r} : PostedNow(r, d)' = PostedNow(r, d)
  BY <1>5, <1>7 DEF PostedNow
<1>9. ASSUME NEW s \in Rank \ {r, v} PROVE TakenNow(s, r)' = TakenNow(s, r)
  <2>1. ChildTaken(s, r) = 2 /\ ChildTaken(s, r)' = 2 /\ s # 0
    BY <1>6, <1>7 DEF ChildTaken
  <2> QED BY <1>5, <1>7, <2>1 DEF TakenNow
<1>10. /\ TakenNow(v, r) = (IF pc[r] = "rootsize" THEN 0 ELSE 1)
       /\ TakenNow(v, r)' = (IF pc[r] = "rootsize" THEN 1 ELSE 2)
  <2>1. /\ RootTaken(r) = (IF pc[r] = "rootsize" THEN 0 ELSE 1)
        /\ RootTaken(r)' = (IF pc[r] = "rootsize" THEN 1 ELSE 2)
    BY <1>2, <1>7 DEF RootTaken
  <2> QED BY <1>5, <1>6, <1>7, <2>1 DEF TakenNow
<1>11. /\ Typed' /\ ChanInv' /\ RefInv' /\ size'[r] = SizeMsg(at[r], v, r)
       /\ pc[r] = "rootdata" => tmpr'[r] = DataMsg(at[r], v, r)
  <2>1. CASE RootRecvSize(r)
    <3>1. pc[r] = "rootsize" /\ RecvSize(r, v, "rootdata") /\ "rootdata" \in Places
      BY <1>6, <2>1 DEF RootRecvSize, Places, Rooting
    <3>2. TakenNow(v, r) = 0 /\ TakenNow(v, r)' = 1
      BY <1>10, <3>1
    <3> QED BY <1>5, <1>6, <1>7, <1>8, <1>9, <3>1, <3>2, SizeReceived
  <2>2. CASE RootRecvData(r)
    <3>1. pc[r] = "rootdata" /\ RecvData(r, v, "rootout") /\ "rootout" \in Places
      BY <1>6, <2>2 DEF RootRecvData, Places, Rooting
    <3>2. TakenNow(v, r) = 1 /\ TakenNow(v, r)' = 2
      BY <1>10, <3>1
    <3>3. Typed' /\ ChanInv' /\ RefInv' /\ tmpr'[r] = DataMsg(at[r], v, r)
      BY <1>5, <1>6, <1>7, <1>8, <1>9, <3>1, <3>2, DataReceived
    <3>4. size'[r] = SizeMsg(at[r], v, r)
      BY <1>1, <1>3, <1>6, <3>1 DEF RecvData, RankInv, Held, Sender
    <3> QED BY <3>3, <3>4
  <2> QED BY <2>1, <2>2
<1>12. RankInv(r)'
  <2>1. Placed(r)' /\ Filled(r)'
    BY <1>2, <1>5, <1>7 DEF Placed, Filled, Turning, Merging, Rooting
  <2>2. Sender(r)' = v
    BY <1>6, <1>7 DEF Sender, Merging, Rooting
  <2>3. /\ SizeMsg(at[r], Sender(r), r)' = SizeMsg(at[r], v, r)
        /\ DataMsg(at[r], Sender(r), r)' = DataMsg(at[r], v, r)
    BY <1>2, <2>2, CallsStay DEF SizeMsg, DataMsg, Load, Outgoing
  <2>4. Held(r)'
    BY <1>2, <1>7, <1>11, <2>3 DEF Held
  <2>5. Grown(r)'
    BY <1>1, <1>2, <1>4, <1>7 DEF RankInv, Grown, Merging, Rooting
  <2> QED BY <2>1, <2>4, <2>5 DEF RankInv
<1> QED BY <1>11, <1>12, Combine

LEMMA RootOutStep ==
  ASSUME Inv, NEW r \in Rank, RootOut(r), Only(r) PROVE Inv'
<1>1. Typed /\ ChanInv /\ RefInv /\ RankInv(r)
  BY DEF Inv
<1>2. /\ pc[r] = "rootout" /\ pc[r] \in Rooting /\ pc[r] \notin Merging
      /\ out' = [out EXCEPT ![r][0] = tmpr[r].val]
      /\ pc' = [pc EXCEPT ![r] = "return"]
      /\ UNCHANGED <<prog, sbuf, at, i, size, tmpr, data, tree, chan>>
  BY DEF RootOut, Go, Rooting, Merging
<1>3. Op(r) = "treereduce" /\ at[r] <= Len(prog) /\ at[r] \in DOMAIN prog /\ ~InRing(r)
  BY <1>2, InTree
<1>4. /\ pc'[r] = "return" /\ at'[r] = at[r] /\ Op(r)' = Op(r)
      /\ ~InRing(r)' /\ Left(r) /\ Left(r)'
  BY <1>1, <1>2, <1>3 DEF Typed, Op, InRing, Left, Turning, Rooting, RingOps
<1>5. tmpr[r].val = Run(0, N) /\ Run(0, N) \in Seq(Item) /\ 0 \in Rank
  <2>1. tmpr[r] = DataMsg(at[r], 0, r)
    BY <1>1, <1>2 DEF RankInv, Held, Sender
  <2>2. Load(at[r], 0, r) = Run(0, N)
    BY <1>3 DEF Load, Op
  <2>3. 0 <= N /\ N \in Nat
    BY Ranks
  <2> QED BY <2>1, <2>2, <2>3, RunTyped, Ranks DEF DataMsg, Message
<1>6. Typed' /\ out'[r][0] = Run(0, N)
  <2>1. pc' \in [Rank -> Places]
    BY <1>1, <1>2 DEF Typed, Places
  <2>2. out' \in [Rank -> [Rank -> Seq(Item)]] /\ out'[r][0] = Run(0, N)
    BY <1>1, <1>2, <1>5 DEF Typed
  <2> QED BY <1>1, <1>2, <2>1, <2>2 DEF Typed
<1>7. ChanInv'
  <2>1. ASSUME NEW d \in Rank \ {r} PROVE Posted(r, d)' = Posted(r, d) /\ Taken(d, r)' = Taken(d, r)
    <3>1. PostedNow(r, d)' = PostedNow(r, d)
      BY <1>3, <1>4 DEF PostedNow
    <3>2. RootTaken(r)' = RootTaken(r) /\ ChildTaken(d, r)' = ChildTaken(d, r)
      BY <1>2, <1>4 DEF RootTaken, ChildTaken
    <3>3. TakenNow(d, r)' = TakenNow(d, r)
      BY <1>3, <1>4, <3>2 DEF TakenNow
    <3> QED BY <1>2, <3>1, <3>3, CallsStay DEF Posted, Taken
  <2> QED BY <1>1, <1>2, <2>1, QuietChan
<1>8. RefInv'
  <2>1. \A s \in Rank : Through(s) => Through(s)'
    BY <1>1, <1>4, ThroughStays
  <2> QED BY <1>1, <1>2, <2>1, RefQuiet
<1>9. RankInv(r)'
  <2>1. Placed(r)' /\ Held(r)' /\ Filled(r)'
    BY <1>2, <1>3, <1>4 DEF Placed, Held, Filled, Turning, Merging, Rooting, RingOps
  <2>2. Grown(r)'
    BY <1>1, <1>2, <1>4, <1>6 DEF RankInv, Grown, Merging, Rooting
  <2> QED BY <2>1, <2>2 DEF RankInv
<1> QED BY <1>6, <1>7, <1>8, <1>9, Combine

(***************************************************************************)
(* Every step, and what follows.                                           *)
(***************************************************************************)
LEMMA StutterInv ==
  ASSUME Inv, UNCHANGED vars PROVE Inv'
<1>1. UNCHANGED <<prog, sbuf, at, pc, i, size, tmpr, out, data, tree, chan>>
  BY DEF vars
<1>2. Typed' = Typed
  BY <1>1 DEF Typed
<1>3. /\ \A c, s, d : Before(c, s, d)' = Before(c, s, d) /\ Carries(c, s, d)' = Carries(c, s, d)
      /\ \A c, s, d : SizeMsg(c, s, d)' = SizeMsg(c, s, d) /\ DataMsg(c, s, d)' = DataMsg(c, s, d)
  BY <1>1, CallsStay
<1>4. ASSUME NEW r \in Rank
      PROVE  InRing(r)' = InRing(r) /\ Left(r)' = Left(r) /\ Op(r)' = Op(r) /\ Sender(r)' = Sender(r)
  BY <1>1 DEF InRing, Left, Op, Sender, From
<1>5. ASSUME NEW s \in Rank, NEW d \in Rank
      PROVE  Posted(s, d)' = Posted(s, d) /\ Taken(s, d)' = Taken(s, d)
  BY <1>1, <1>3, <1>4 DEF Posted, Taken, PostedNow, TakenNow, RingTaken, ChildTaken, RootTaken
<1>6. ChanInv'
  BY <1>1, <1>5, PairKept DEF Inv, ChanInv
<1>7. RefInv'
  <2>1. \A s \in Rank : Through(s)' = Through(s)
    BY <1>1, <1>4 DEF Through
  <2> QED BY <1>1, <2>1, RefQuiet DEF Inv
<1>8. ASSUME NEW r \in Rank PROVE RankInv(r)'
  <2>1. Placed(r)' = Placed(r)
    BY <1>1, <1>4 DEF Placed
  <2>2. Held(r)' = Held(r)
    BY <1>1, <1>3, <1>4 DEF Held
  <2>3. Filled(r)' = Filled(r)
    BY <1>1, <1>4 DEF Filled, SlotAt, Outgoing
  <2>4. Grown(r)' = Grown(r)
    BY <1>1, <1>4 DEF Grown, NodeOk
  <2> QED BY <2>1, <2>2, <2>3, <2>4 DEF Inv, RankInv
<1> QED BY <1>2, <1>6, <1>7, <1>8 DEF Inv

LEMMA StepInv ==
  ASSUME Inv, [Next]_vars PROVE Inv'
<1>1. CASE UNCHANGED vars
  BY <1>1, StutterInv
<1>2. ASSUME NEW r \in Rank, RankStep(r) PROVE Inv'
  <2>1. Only(r)
    BY <1>2, StepIsOnly DEF Inv
  <2>2. CASE EnterRing(r) \/ RingIsend(r) \/ RingRecvSize(r) \/ RingRecvData(r) \/ RingWait(r)
    BY <2>1, <2>2, EnterRingStep, RingIsendStep, RingReceiveStep, RingWaitStep
  <2>3. CASE EnterTree(r) \/ TreeSend(r) \/ TreeAlone(r)
    BY <2>1, <2>3, EnterTreeStep, TreeSendStep, TreeAloneStep
  <2>4. CASE TreeRecvSize(r) \/ TreeRecvData(r) \/ TreeFunc(r)
    BY <2>1, <2>4, TreeReceiveStep, TreeFuncStep
  <2>5. CASE TreeResult(r)
    <3>1. pc[r] = "result" \/ pc[r] = "tree"
      BY <2>5 DEF TreeResult
    <3> QED BY <2>1, <2>5, <3>1, ResultGoesOn, ResultStep
  <2>6. CASE RootRecvSize(r) \/ RootRecvData(r) \/ RootOut(r)
    BY <2>1, <2>6, RootReceiveStep, RootOutStep
  <2>7. CASE EnterBarrier(r) \/ LeaveBarrier(r) \/ Return(r)
    BY <2>1, <2>7, BarrierStep, ReturnStep
  <2> QED BY <1>2, <2>2, <2>3, <2>4, <2>5, <2>6, <2>7 DEF RankStep
<1> QED BY <1>1, <1>2 DEF Next

\* The channels hold what the calls of both sides account for (isend, recv,
\* sendrecv and treereduce of comm.hpp), for every number of ranks, every program
\* of ring operations, barriers and a treereduce, every Root and any containers,
\* whether or not MPI buffers.
THEOREM CollectivesCorrect ==
  ASSUME OneReduce PROVE Spec => []Inv
<1>1. Init => Inv
  BY InitInv
<1>2. Inv /\ [Next]_vars => Inv'
  BY StepInv
<1> QED BY <1>1, <1>2, PTL DEF Spec

\* bcastring, alltoall and alltoallring hand to every rank what each rank had
\* for it, in its slot: no message of another call or of another turn is taken
\* for it, although nothing keeps a fast rank from being calls ahead.
THEOREM RingsDeliver ==
  ASSUME OneReduce PROVE Spec => []RingDelivers
<1>1. Inv => RingDelivers
  <2> SUFFICES ASSUME Inv, NEW r \in Rank, pc[r] = "return"
               PROVE  /\ Op(r) \in {"bcastring", "alltoallring"} =>
                           \A k \in Rank : out[r][k] = Outgoing(Op(r), (r + k) % N, r)
                      /\ Op(r) = "alltoall" =>
                           \A s \in Rank : out[r][(2 * r + N - s) % N] = sbuf[s][r]
    BY DEF RingDelivers
  <2>0. N \in Nat \ {0} /\ r \in 0 .. N - 1
    BY NAssumption DEF Rank
  <2>1. ASSUME Op(r) \in RingOps, NEW k \in Rank
        PROVE  out[r][SlotAt(r, k)] = Outgoing(Op(r), (r + k) % N, r)
    <3>1. i[r] = N /\ InRing(r) /\ Filled(r)
      BY <2>1 DEF Inv, RankInv, Placed, InRing
    <3>2. k < N
      BY <2>0 DEF Rank
    <3> QED BY <3>1, <3>2 DEF Filled
  <2>2. CASE Op(r) \in {"bcastring", "alltoallring"}
    BY <2>1, <2>2 DEF SlotAt, RingOps
  <2>3. CASE Op(r) = "alltoall"
    <3> SUFFICES ASSUME NEW s \in Rank PROVE out[r][(2 * r + N - s) % N] = sbuf[s][r]
      BY <2>3
    <3>1. PICK k \in Rank : (r + k) % N = s /\ (2 * r + N - s) % N = (r + N - k) % N
      <4>1. s \in 0 .. N - 1
        BY DEF Rank
      <4>2. CASE s >= r
        <5>1. s - r \in Rank /\ r + (s - r) = s /\ 2 * r + N - s = r + N - (s - r)
          BY <2>0, <4>1, <4>2 DEF Rank
        <5> QED BY <4>1, <5>1, Mod
      <4>3. CASE ~(s >= r)
        <5>1. s + N - r \in Rank /\ r + (s + N - r) = s + N
          BY <2>0, <4>1, <4>3 DEF Rank
        <5>2. /\ r + N - (s + N - r) = 2 * r - s /\ 2 * r + N - s = (2 * r - s) + N
              /\ 2 * r - s \in 0 .. 2 * N - 1
          BY <2>0, <4>1, <4>3
        <5>3. ((2 * r - s) + N) % N = (2 * r - s) % N
          <6>1. CASE 2 * r - s < N
            <7>1. 2 * r - s \in 0 .. N - 1
              BY <2>0, <5>2, <6>1
            <7> QED BY <7>1, Mod
          <6>2. CASE ~(2 * r - s < N)
            <7>1. /\ 2 * r - s - N \in 0 .. N - 1 /\ 2 * r - s = (2 * r - s - N) + N
                  /\ (2 * r - s) + N = (2 * r - s - N) + 2 * N
              BY <2>0, <4>1, <5>2, <6>2
            <7>2. ((2 * r - s - N) + N) % N = 2 * r - s - N
                    /\ ((2 * r - s - N) + 2 * N) % N = 2 * r - s - N
              BY <7>1, Mod
            <7> QED BY <7>1, <7>2
          <6> QED BY <6>1, <6>2
        <5>4. (r + (s + N - r)) % N = s
          BY <4>1, <5>1, Mod
        <5> QED BY <5>1, <5>2, <5>3, <5>4
      <4> QED BY <4>2, <4>3
    <3>2. out[r][SlotAt(r, k)] = Outgoing(Op(r), (r + k) % N, r)
      BY <2>1, <2>3 DEF RingOps
    <3> QED BY <2>3, <3>1, <3>2 DEF SlotAt, Outgoing
  <2> QED BY <2>2, <2>3
<1> QED BY <1>1, CollectivesCorrect, PTL

\* recv of a container always takes a size for the size, and as many elements
\* follow: in the turns of a ring, up the tree of treereduce and at its Root.
THEOREM CollectivesFramed ==
  ASSUME OneReduce PROVE Spec => []Framing
<1>1. Inv => Framing
  <2> SUFFICES ASSUME Inv, NEW r \in Rank
               PROVE  /\ pc[r] \in {"data", "treedata", "rootdata"} => size[r].kind = "size"
                      /\ pc[r] \in {"wait", "func", "rootout"} =>
                           tmpr[r].kind = "data" /\ Len(tmpr[r].val) = size[r].n
    BY DEF Framing
  <2>1. Held(r)
    BY DEF Inv, RankInv
  <2> QED BY <2>1 DEF Held, SizeMsg, DataMsg, Message
<1> QED BY <1>1, CollectivesCorrect, PTL

\* treereduce of comm.hpp gives to its Root the data of every rank exactly once,
\* for every number of ranks, also one that is no power of two, although an odd
\* node leaves its buffer to MPI without a wait and goes on to the next call.
THEOREM ReduceTotal ==
  ASSUME OneReduce PROVE Spec => []TreeReduceTotal
<1>1. Inv => TreeReduceTotal
  <2> SUFFICES ASSUME Inv, pc[Root] = "return", Op(Root) = "treereduce"
               PROVE  /\ Len(out[Root][0]) = N
                      /\ ToSet(out[Root][0]) = {<<r, N>> : r \in Rank}
    BY DEF TreeReduceTotal
  <2>1. Root \in Rank /\ N \in Nat /\ 0 <= N
    BY Ranks
  <2>2. out[Root][0] = Run(0, N)
    BY <2>1 DEF Inv, RankInv, Grown
  <2> DEFINE s == Run(0, N)
  <2>3. s \in Seq(Item) /\ Len(s) = N /\ \A j \in 1 .. N : s[j] = <<0 + j - 1, N>>
    <3>1. N - 0 = N
      BY <2>1
    <3> QED BY <2>1, <3>1, RunTyped
  <2>4. DOMAIN s = 1 .. N /\ \A j \in 1 .. N : s[j] = <<j - 1, N>>
    <3> HIDE DEF s
    <3> QED BY <2>1, <2>3
  <2>5. ToSet(s) = {s[j] : j \in DOMAIN s}
    BY DEF ToSet
  <2>6. \A r \in Rank : r + 1 \in 1 .. N /\ (r + 1) - 1 = r
    BY <2>1, Ranks
  <2>7. \A j \in 1 .. N : j - 1 \in Rank
    BY <2>1, Ranks
  <2>8. {s[j] : j \in DOMAIN s} = {<<r, N>> : r \in Rank}
    <3> HIDE DEF s
    <3>1. ASSUME NEW j \in DOMAIN s PROVE s[j] \in {<<r, N>> : r \in Rank}
      BY <2>4, <2>7
    <3>2. ASSUME NEW r \in Rank PROVE <<r, N>> \in {s[j] : j \in DOMAIN s}
      <4>1. r + 1 \in DOMAIN s /\ s[r + 1] = <<r, N>>
        BY <2>4, <2>6
      <4> QED BY <4>1
    <3> QED BY <3>1, <3>2
  <2> QED BY <2>2, <2>3, <2>5, <2>8
<1> QED BY <1>1, CollectivesCorrect, PTL
=============================================================================
