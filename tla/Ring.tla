-------------------------------- MODULE Ring ---------------------------------
(***************************************************************************)
(* The consistent-hash ring that decides which parameter server holds a    *)
(* key: class ring (include/ring.hpp) and ring_bsearch                     *)
(* (include/utils.hpp).  Every server owns `replicas' points of the ring,  *)
(* the hashes of "name:i"; a key belongs to the server of the first point  *)
(* at or after the key's hash, around the ring.                            *)
(*                                                                         *)
(* The hash function is chosen once and for all in Init, collisions        *)
(* included; a key is its hash.  Indices of srv_hashring count from 0, as  *)
(* in the code, and are size_t: they wrap at SizeLimit.                    *)
(***************************************************************************)
EXTENDS Integers, Sequences, FiniteSets

CONSTANTS
  Names,          \* the servers there may be
  DefaultName,    \* T(), what operator[] of the map inserts
  replicas,
  HashLimit,      \* hashes are 0 .. HashLimit - 1
  HashFuncs,      \* the hash functions considered
  SizeLimit       \* 2^64 for size_t

Hashes == 0 .. (HashLimit - 1)
Points == Names \X (0 .. (replicas - 1))

ASSUME RingAssumption ==
  /\ IsFiniteSet(Names) /\ DefaultName \in Names
  /\ replicas \in Nat \ {0} /\ HashLimit \in Nat \ {0}
  /\ HashFuncs \subseteq [Points -> Hashes]
  /\ SizeLimit \in Nat /\ SizeLimit > 1 + Cardinality(Points)

VARIABLES
  hfunc,             \* the hash of each point
  servers,           \* the servers added and not removed
  srv_hashring,      \* the sorted hashes, a function from 0 .. size - 1
  srv_hashring_dct,  \* the server of each hash
  pc, key, s, e, m,  \* a get_server in progress
  server             \* what the last get_server returned

ringVars   == <<hfunc, servers, srv_hashring, srv_hashring_dct>>
searchVars == <<pc, key, s, e, m, server>>
vars       == <<ringVars, searchVars>>

Init ==
  /\ hfunc \in HashFuncs
  /\ servers = {} /\ srv_hashring = <<>> /\ srv_hashring_dct = <<>>
  /\ pc = "idle" /\ key = 0 /\ s = 0 /\ e = 0 /\ m = 0
  /\ server = DefaultName

size == Cardinality(DOMAIN srv_hashring)

-----------------------------------------------------------------------------
(***************************************************************************)
(* add_server and remove_server.                                           *)
(***************************************************************************)

\* std::sort of the numbers f[i], whatever the indices i: the i-th is the least
\* one with more than i numbers up to it.
Sort(f) ==
  LET UpTo(h) == Cardinality({i \in DOMAIN f : f[i] <= h})
      Vals    == {f[i] : i \in DOMAIN f}
  IN  [i \in 0 .. (Cardinality(DOMAIN f) - 1) |->
         CHOOSE h \in Vals : /\ UpTo(h) > i
                             /\ \A g \in Vals : UpTo(g) > i => h <= g]

PointsOf(n) == {p \in Points : p[1] = n}
HashesOf(n) == {hfunc[p] : p \in PointsOf(n)}

\* push_back of the hashes of n, behind those that are there.
WithPoints(n) ==
  [i \in 0 .. (size + replicas - 1) |->
     IF i < size THEN srv_hashring[i] ELSE hfunc[<<n, i - size>>]]

\* Mutant: the ring is not sorted again.
AddServerUnsorted(n) ==
  /\ pc = "idle" /\ n \notin servers
  /\ servers' = servers \cup {n}
  /\ srv_hashring_dct' = [h \in DOMAIN srv_hashring_dct \cup HashesOf(n) |->
       IF h \in HashesOf(n) THEN n ELSE srv_hashring_dct[h]]
  /\ srv_hashring' = WithPoints(n)
  /\ UNCHANGED <<hfunc, searchVars>>

\* The program adds the servers of its list of names, which has no duplicates.
AddServer(n) ==
  /\ pc = "idle" /\ n \notin servers
  /\ servers' = servers \cup {n}
  /\ srv_hashring_dct' = [h \in DOMAIN srv_hashring_dct \cup HashesOf(n) |->
       IF h \in HashesOf(n) THEN n ELSE srv_hashring_dct[h]]
  /\ srv_hashring' = Sort(WithPoints(n))
  /\ UNCHANGED <<hfunc, searchVars>>

\* std::find and erase for each point of n: as many copies of a hash go, the
\* first ones, as n has points with it.  What stays keeps its order.
Stays(n, i) ==
  Cardinality({j \in DOMAIN srv_hashring :
                 j < i /\ srv_hashring[j] = srv_hashring[i]})
    >= Cardinality({p \in PointsOf(n) : hfunc[p] = srv_hashring[i]})

\* Mutant: the points stay in the ring, only the map forgets them.
RemoveServerKeepsPoints(n) ==
  /\ pc = "idle" /\ n \in servers
  /\ servers' = servers \ {n}
  /\ srv_hashring_dct' = [h \in DOMAIN srv_hashring_dct \ HashesOf(n) |->
                            srv_hashring_dct[h]]
  /\ UNCHANGED <<hfunc, srv_hashring, searchVars>>

RemoveServer(n) ==
  /\ pc = "idle" /\ n \in servers
  /\ servers' = servers \ {n}
  /\ srv_hashring_dct' = [h \in DOMAIN srv_hashring_dct \ HashesOf(n) |->
                            srv_hashring_dct[h]]
  /\ srv_hashring' = Sort([i \in {j \in DOMAIN srv_hashring : Stays(n, j)} |->
                             srv_hashring[i]])
  /\ UNCHANGED <<hfunc, searchVars>>

-----------------------------------------------------------------------------
(***************************************************************************)
(* get_server.                                                             *)
(***************************************************************************)
Goto(label) == pc' = label

\* ring_bsearch begins: before the first point or after the last one, index 0.
\* On an empty ring data[0] is undefined; the program never asks it.
GetServer(k) ==
  /\ pc = "idle" /\ size > 0
  /\ key' = k
  /\ IF k < srv_hashring[0] \/ k > srv_hashring[size - 1]
     THEN m' = 0 /\ Goto("lookup") /\ UNCHANGED <<s, e>>
     ELSE s' = 0 /\ e' = size - 1 /\ Goto("probe") /\ UNCHANGED m
  /\ UNCHANGED <<ringVars, server>>

\* Mutant: the upper half keeps its middle.
ProbeKeepsMiddle ==
  LET mid == s + ((e - s) \div 2)
  IN /\ pc = "probe" /\ s <= e
     /\ m' = mid
     /\ CASE srv_hashring[mid] < key ->
               s' = (mid + 1) % SizeLimit /\ UNCHANGED <<e, pc>>
          [] srv_hashring[mid] > key -> e' = mid /\ UNCHANGED <<s, pc>>
          [] OTHER -> Goto("lookup") /\ UNCHANGED <<s, e>>
     /\ UNCHANGED <<ringVars, key, server>>

\* One round of the loop.
Probe ==
  LET mid == s + ((e - s) \div 2)
  IN /\ pc = "probe" /\ s <= e
     /\ m' = mid
     /\ CASE srv_hashring[mid] < key ->
               s' = (mid + 1) % SizeLimit /\ UNCHANGED <<e, pc>>
          [] srv_hashring[mid] > key ->
               e' = (mid - 1) % SizeLimit /\ UNCHANGED <<s, pc>>
          [] OTHER -> Goto("lookup") /\ UNCHANGED <<s, e>>
     /\ UNCHANGED <<ringVars, key, server>>

\* Mutant: the last point probed is the answer.
ProbeEndAtMiddle ==
  /\ pc = "probe" /\ s > e
  /\ Goto("lookup")
  /\ UNCHANGED <<ringVars, key, s, e, m, server>>

\* The loop is over.
ProbeEnd ==
  /\ pc = "probe" /\ s > e
  /\ m' = IF srv_hashring[m] < key THEN m + 1 ELSE m
  /\ Goto("lookup")
  /\ UNCHANGED <<ringVars, key, s, e, server>>

\* srv_hashring_dct[srv_hashring[m]]; operator[] inserts T() for a hash that the
\* map does not have.
Lookup ==
  LET h == srv_hashring[m]
      d == [g \in DOMAIN srv_hashring_dct \cup {h} |->
              IF g \in DOMAIN srv_hashring_dct THEN srv_hashring_dct[g]
                                               ELSE DefaultName]
  IN /\ pc = "lookup"
     /\ srv_hashring_dct' = d
     /\ server' = d[h]
     /\ Goto("idle")
     /\ key' = 0 /\ s' = 0 /\ e' = 0 /\ m' = 0     \* the locals are gone
     /\ UNCHANGED <<hfunc, servers, srv_hashring>>

Next ==
  \/ \E n \in Names : AddServer(n) \/ RemoveServer(n)
  \/ \E k \in Hashes : GetServer(k)
  \/ Probe \/ ProbeEnd \/ Lookup

Safety == Init /\ [][Next]_vars
Spec == Safety /\ WF_vars(Probe \/ ProbeEnd \/ Lookup)

-----------------------------------------------------------------------------
(***************************************************************************)
(* Properties.                                                             *)
(***************************************************************************)
TypeOK ==
  /\ hfunc \in [Points -> Hashes]
  /\ servers \subseteq Names
  /\ srv_hashring \in [0 .. (size - 1) -> Hashes]
  /\ srv_hashring_dct \in [DOMAIN srv_hashring_dct -> Names]
  /\ DOMAIN srv_hashring_dct \subseteq Hashes
  /\ pc \in {"idle", "probe", "lookup"}
  /\ key \in Hashes /\ server \in Names
  /\ {s, e, m} \subseteq 0 .. (SizeLimit - 1)

\* The binary search ends inside the ring, at the first point at or after the
\* key or, when there is none, at index 0: no wrapped index, no off-by-one.
SearchExact ==
  pc = "lookup" =>
    /\ m < size
    /\ IF \E i \in 0 .. (size - 1) : srv_hashring[i] >= key
       THEN /\ srv_hashring[m] >= key
            /\ \A i \in 0 .. (size - 1) :
                 srv_hashring[i] >= key => srv_hashring[i] >= srv_hashring[m]
       ELSE m = 0

\* The points of the servers of S, and the distance from hash k up to hash h.
Live(S)    == {p \in Points : p[1] \in S}
Dist(k, h) == (h - k) % HashLimit

\* The point that hash k belongs to, by the definition of a consistent hash.
Nearest(S, k) ==
  CHOOSE p \in Live(S) : \A q \in Live(S) : Dist(k, hfunc[p]) <= Dist(k, hfunc[q])

CollisionFree == \A p, q \in Points : hfunc[p] = hfunc[q] => p = q

\* When no two points collide, get_server finds the server that the hash and the
\* set of servers determine, whatever was added and removed in which order.
RoutesToOwner ==
  [][pc = "lookup" /\ CollisionFree =>
       servers # {} /\ server' = Nearest(servers, key)[1]]_vars

\* Where the ring's own data would send hash k.
Route(k) ==
  LET After == {i \in DOMAIN srv_hashring : srv_hashring[i] >= k}
      i == IF After = {} THEN 0
           ELSE CHOOSE j \in After : \A l \in After : j <= l
  IN  srv_hashring_dct[srv_hashring[i]]

\* Adding a server only moves keys to it, and removing one only moves its own:
\* the other servers keep the keys they hold.
MinimalDisruption ==
  [][ CollisionFree /\ servers # {} /\ servers' # {} =>
      \A k \in Hashes :
        Route(k)' # Route(k) => \/ Route(k)' \in servers' \ servers
                                \/ Route(k) \in servers \ servers' ]_vars

\* Every search ends.
SearchEnds == pc = "probe" ~> pc = "idle"
=============================================================================
