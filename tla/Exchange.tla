------------------------------ MODULE Exchange ------------------------------
(***************************************************************************)
(* From lines to a distributed matrix or graph: paracel_load_as_matrix and *)
(* paracel_load_as_graph (include/ps.hpp), create_matrix and create_graph  *)
(* (include/load/loader.hpp), lines_organize, exchange and index_mapping   *)
(* (include/load/scheduler.hpp) on the process grid of utils/decomp.hpp.   *)
(*                                                                         *)
(* A parsed line is a sequence of fields [id, size, ok, w].  size is the   *)
(* number of pieces that str_split makes of the field: none of an empty    *)
(* one, 1 of "b", 2 (or more) of "b:0.2".  id is the name of its first     *)
(* piece if it is split in two, and of the whole field otherwise; w is the *)
(* number that std::stod reads in it.  ok is FALSE if a std::stoull or     *)
(* std::stod that the code calls for the field throws.                     *)
(*                                                                         *)
(* Ranks meet in MPI_Barrier between the phases; alltoall and bcastring    *)
(* are those of Collectives, here one step per rank that needs its         *)
(* partners in the same call, and what they carry is packed as in Wire.    *)
(***************************************************************************)
EXTENDS Wire, FiniteSetsExt

CONSTANTS Hash(_),      \* paracel::hash_type
          IntLimit      \* 2^31: first number that an int cannot hold

ASSUME ExchangeAssumption ==
  /\ IntLimit \in Nat \ {0} /\ IntLimit < IdLimit
  /\ \A i \in Id : Hash(i) \in Nat

\* Phases of one rank; at a barrier phase it waits for all others.
Phases == <<"fixload", "loaded", "organize", "organized", "exchange", "exchanged",
            "rows", "cols", "mapped", "build", "done">>
Barriers == {"loaded", "organized", "exchanged"}

VARIABLES world,    \* [np, pattern, mix, product, wide]: how the input is loaded;
                    \* wide for numeric ids
          doc,      \* the parsed lines of the input
          ph,       \* ph[r]: number of the phase; 0 after a crash
          linelst,  \* linelst[r]: the lines not yet organized
          slots,    \* slots[r][d]: line_slot_lst
          stf,      \* stf[r]: the triples that r received
          rm, cm,   \* index to id, as sequences (index 0 first)
          mapped,   \* stf_new
          built     \* the matrix or graph, a set of [row, col, w] without repetition

xvars == <<world, doc, ph, linelst, slots, stf, rm, cm, mapped, built>>

Rank == 0..(world.np - 1)
At(r, name) == ph[r] # 0 /\ Phases[ph[r]] = name
Reached(s, name) == \E k \in 1..Len(Phases) : Phases[k] = name /\ ph[s] >= k
Advance(r) == ph' = [ph EXCEPT ![r] = @ + 1]

(***************************************************************************)
(* The process grid.                                                       *)
(***************************************************************************)
npfactx(n) == [x |-> n, y |-> 1]
npfacty(n) == [x |-> 1, y |-> n]
npfact2d(n) ==
  LET upbnd == {d \in 2..n : d * d <= n /\ n % d = 0}
  IN  IF upbnd = {} THEN [x |-> n, y |-> 1]
      ELSE [x |-> Max(upbnd), y |-> n \div Max(upbnd)]

\* dim_init of the scheduler, the same as set_decomp_info of paralg.
Grid == CASE world.pattern = "fsmap" -> npfact2d(world.np)
          [] world.pattern = "smap"  -> npfacty(world.np)
          [] OTHER -> npfactx(world.np)

\* h: the rank that owns the entry (i, j).
Owner(i, j) == (Hash(i) % Grid.x) * Grid.y + (Hash(j) % Grid.y)

\* The products whose rows and columns index_mapping numbers.
Numbered == world.product \in {"matrix", "continuous"}

RowGroup(r) == {s \in Rank : s \div Grid.y = r \div Grid.y}
ColGroup(r) == {s \in Rank : s % Grid.y = r % Grid.y}

(***************************************************************************)
(* lines_organize.                                                         *)
(***************************************************************************)
One == 10000000   \* the weight 1.
Entry(line, f) == [row |-> line[1].id, col |-> f.id, w |-> IF f.size = 1 THEN One ELSE f.w]

\* Whether the fields after the first one are split, or are a column and a weight.
Splits(line) == Len(line) = 2 \/ world.mix

\* The lines that lines_organize gets through.  Of a field without a piece it
\* reads the elements 0 and 1 of an empty vector.
Supported(line) ==
  /\ Splits(line) \/ Len(line) = 3
  /\ \A k \in 1..Len(line) : line[k].ok /\ (Splits(line) /\ k > 1 => line[k].size # 0)

Triples(line) ==
  IF Splits(line) THEN [k \in 1..(Len(line) - 1) |-> Entry(line, line[k + 1])]
  ELSE <<[row |-> line[1].id, col |-> line[2].id, w |-> line[3].w]>>

Organized(ls) == FlattenSeq([k \in 1..Len(ls) |-> Triples(ls[k])])

\* The elements of s that are in S, in their order.
Among(s, S) ==
  LET upto[n \in 0..Len(s)] ==
        IF n = 0 THEN <<>>
        ELSE IF s[n] \in S THEN Append(upto[n - 1], s[n]) ELSE upto[n - 1]
  IN  upto[Len(s)]

OwnedBy(d, ts) == Among(ts, {t \in ToSet(ts) : Owner(t.row, t.col) = d})

ExchangeInit ==
  /\ ph = [r \in Rank |-> 1]
  /\ linelst = [r \in Rank |-> <<>>]
  /\ slots = [r \in Rank |-> [d \in Rank |-> <<>>]]
  /\ stf = linelst /\ rm = linelst /\ cm = linelst /\ mapped = linelst
  /\ built = [r \in Rank |-> {}]

\* The lines that fixload gives to the rank.
FixLoad(r, ls) ==
  /\ At(r, "fixload")
  /\ linelst' = [linelst EXCEPT ![r] = ls]
  /\ Advance(r)
  /\ UNCHANGED <<world, doc, slots, stf, rm, cm, mapped, built>>

Barrier(r) ==
  /\ \E b \in Barriers : At(r, b) /\ \A s \in Rank : Reached(s, b)
  /\ Advance(r)
  /\ UNCHANGED <<world, doc, linelst, slots, stf, rm, cm, mapped, built>>

\* fvec: the values of a line up to csz, that of the rank's first line, or of
\* the line itself if rm has strings (the flag is never lowered there).  A line
\* that is too short is read past its end; rows of different sizes fail an
\* assertion of Eigen.
DenseFits(ls) ==
  \A k \in 1..Len(ls) :
    /\ Len(ls[k]) >= 1 /\ \A c \in 1..Len(ls[k]) : ls[k][c].ok
    /\ IF world.wide THEN Len(ls[k]) >= Len(ls[1]) ELSE Len(ls[k]) = Len(ls[1])

\* Every rank makes a dense matrix of its own lines.
BuildDense(r) ==
  /\ At(r, "organize") /\ world.product = "dense" /\ DenseFits(linelst[r])
  /\ rm' = [rm EXCEPT ![r] = [k \in 1..Len(linelst[r]) |-> linelst[r][k][1].id]]
  /\ built' = [built EXCEPT ![r] =
       {[row |-> k - 1, col |-> c, w |-> linelst[r][k][c + 2].w] :
          k \in 1..Len(linelst[r]),
          c \in IF linelst[r] = <<>> THEN {} ELSE 0..(Len(linelst[r][1]) - 2)}]
  /\ ph' = [ph EXCEPT ![r] = Len(Phases)]
  /\ UNCHANGED <<world, doc, linelst, slots, stf, cm, mapped>>

LinesOrganize(r) ==
  /\ At(r, "organize") /\ world.product # "dense"
  /\ \A k \in 1..Len(linelst[r]) : Supported(linelst[r][k])
  /\ slots' = [slots EXCEPT ![r] = [d \in Rank |->
       OwnedBy(d, Organized(linelst[r]))]]
  /\ linelst' = [linelst EXCEPT ![r] = <<>>]
  /\ Advance(r)
  /\ UNCHANGED <<world, doc, stf, rm, cm, mapped, built>>

\* A rank dies, of an exception that nothing catches or of a read through the
\* null pointer of an empty vector, and mpirun ends the others.
Crash ==
  /\ ph' = [s \in Rank |-> 0]
  /\ UNCHANGED <<world, doc, linelst, slots, stf, rm, cm, mapped, built>>

\* "fmt of input files not supported", a field that is no number, or one that is
\* not there.
OrganizeFails(r) ==
  /\ At(r, "organize")
  /\ IF world.product = "dense" THEN ~DenseFits(linelst[r])
     ELSE \E k \in 1..Len(linelst[r]) : ~Supported(linelst[r][k])
  /\ Crash

\* What rank r has of the triples, or of the names, that rank s has for it.
Carried(s, r, ts) == IF s = r THEN ts ELSE RecvTriples(world.wide, PackTriples(world.wide, ts))
CarriedIds(s, r, ids) ==
  IF s = r \/ world.wide THEN ids ELSE RecvStrings(PackStrings(ids))

\* The rank that slot k of rbuf comes from (Collectives!RingDelivers).
Sender(r, k) == (2 * r + world.np - (k - 1)) % world.np

\* exchange: alltoall, then the slots one after the other.
ExchangeSlots(r) ==
  /\ At(r, "exchange")
  /\ \A s \in Rank : Reached(s, "exchange")
  /\ stf' = [stf EXCEPT ![r] = FlattenSeq([k \in 1..world.np |->
       Carried(Sender(r, k), r, slots[Sender(r, k)][r])])]
  /\ Advance(r)
  /\ UNCHANGED <<world, doc, linelst, slots, rm, cm, mapped, built>>

(***************************************************************************)
(* index_mapping.  The overload for numeric ids collects them in lists of  *)
(* int; an id beyond that comes back as another number.                    *)
(***************************************************************************)
Narrow(id) ==
  IF ~world.wide THEN id
  ELSE LET x == ((id + IntLimit) % (2 * IntLimit)) - IntLimit
       IN  IF x < 0 THEN IdLimit + x ELSE x

\* A std::set of int is in the order of the ints, not of the numbers that
\* they become.
Sooner(a, b) == (a + IntLimit) % IdLimit < (b + IntLimit) % IdLimit
Ordered(S) ==
  [k \in 1..Cardinality(S) |->
     CHOOSE x \in S : Cardinality({y \in S : Sooner(y, x)}) = k - 1]

Rows(s) == [k \in 1..Len(stf[s]) |-> Narrow(stf[s][k].row)]
Cols(s) == [k \in 1..Len(stf[s]) |-> Narrow(stf[s][k].col)]

\* The unions that bcastring makes in the groups.
NewRows(r) == UNION {ToSet(CarriedIds(s, r, Rows(s))) : s \in RowGroup(r)}
NewCols(r) == UNION {ToSet(CarriedIds(s, r, Cols(s))) : s \in ColGroup(r)}

\* A name with a separator in it is torn apart: recv throws, or it writes past
\* the end of its list, which the program may survive (with Undefined) or not.
RecvFails(r) ==
  /\ \/ At(r, "exchange") /\ \E s \in Rank \ {r} :
          Reached(s, "exchange") /\ ~TriplesFit(PackTriples(world.wide, slots[s][r]))
     \/ At(r, "rows") /\ Numbered /\ ~world.wide /\ \E s \in RowGroup(r) \ {r} :
          Reached(s, "rows") /\ ~StringsFit(PackStrings(Rows(s)))
     \/ At(r, "cols") /\ ~world.wide /\ \E s \in ColGroup(r) \ {r} :
          Reached(s, "cols") /\ ~StringsFit(PackStrings(Cols(s)))
  /\ Crash

\* rev_rm[id], of an unordered_map: an absent id is inserted with index 0.
IndexOf(ids, id) ==
  IF \E k \in 1..Len(ids) : ids[k] = id
  THEN (CHOOSE k \in 1..Len(ids) : ids[k] = id) - 1 ELSE 0

\* Mutant: the map is built from the rank's own rows, without the union.
MapRowsAlone(r) ==
  /\ At(r, "rows") /\ Advance(r)
  /\ rm' = [rm EXCEPT ![r] = Ordered({stf[r][k].row : k \in 1..Len(stf[r])})]
  /\ UNCHANGED <<world, doc, linelst, slots, stf, cm, mapped, built>>

MapRows(r) ==
  /\ At(r, "rows")
  /\ \A s \in RowGroup(r) : Reached(s, "rows")
  /\ rm' = [rm EXCEPT ![r] = Ordered(NewRows(r))]
  /\ Advance(r)
  /\ UNCHANGED <<world, doc, linelst, slots, stf, cm, mapped, built>>

MapCols(r) ==
  /\ At(r, "cols")
  /\ \A s \in ColGroup(r) : Reached(s, "cols")
  /\ LET new == Ordered(NewCols(r)) IN
     /\ cm' = [cm EXCEPT ![r] = new]
     /\ mapped' = [mapped EXCEPT ![r] = [k \in 1..Len(stf[r]) |->
          [row |-> IndexOf(rm[r], stf[r][k].row), col |-> IndexOf(new, stf[r][k].col),
           w |-> stf[r][k].w]]]
  /\ Advance(r)
  /\ UNCHANGED <<world, doc, linelst, slots, stf, rm, built>>

\* A graph that keeps the ids is built without index_mapping.
SkipMapping(r) ==
  /\ At(r, "rows") /\ world.product \in {"digraph", "strgraph"}
  /\ mapped' = [mapped EXCEPT ![r] = stf[r]]
  /\ ph' = [ph EXCEPT ![r] = @ + 3]
  /\ UNCHANGED <<world, doc, linelst, slots, stf, rm, cm, built>>

\* bigraph_continuous has one more barrier than the matrix.
Mapped(r) ==
  /\ At(r, "mapped")
  /\ world.product = "continuous" => \A s \in Rank : Reached(s, "mapped")
  /\ Advance(r)
  /\ UNCHANGED <<world, doc, linelst, slots, stf, rm, cm, mapped, built>>

Weights(ts, i, j) ==
  [k \in {k \in 1..Len(ts) : ts[k].row = i /\ ts[k].col = j} |-> ts[k].w]
SumOver(f) == MapThenSumSet(LAMBDA k : f[k], DOMAIN f)
Cells(ts) == {<<ts[k].row, ts[k].col>> : k \in 1..Len(ts)}

\* digraph::add_edge and dct[a][b] = w keep the last weight of a pair.
KeepsLast == world.product \in {"digraph", "strgraph"}

\* setFromTriplets adds up repeated entries; bigraph_continuous::add_edge keeps
\* every repetition (counted by their total here).
Build(r) ==
  /\ At(r, "build")
  /\ built' = [built EXCEPT ![r] = {[row |-> c[1], col |-> c[2], w |->
       LET f == Weights(mapped[r], c[1], c[2]) IN
       IF KeepsLast THEN f[Max(DOMAIN f)] ELSE SumOver(f)]
       : c \in Cells(mapped[r])}]
  /\ Advance(r)
  /\ UNCHANGED <<world, doc, linelst, slots, stf, rm, cm, mapped>>

Finished == \A r \in Rank : At(r, "done") \/ ph[r] = 0

RankStep(r, ls) ==
  \/ FixLoad(r, ls) \/ Barrier(r) \/ LinesOrganize(r) \/ OrganizeFails(r)
  \/ BuildDense(r) \/ ExchangeSlots(r) \/ Mapped(r) \/ Build(r)
  \/ Numbered /\ MapRows(r)
  \/ MapCols(r) \/ SkipMapping(r) \/ RecvFails(r)

-----------------------------------------------------------------------------
Complete == \A r \in Rank : At(r, "done")
RowName(r, i) == IF Numbered THEN rm[r][i + 1] ELSE i
ColName(r, j) == IF Numbered THEN cm[r][j + 1] ELSE j

\* What the properties suppose of the input: numbers that an int holds, because
\* index_mapping collects them in lists of int, and names that recv does not tear
\* apart.
GoodIds ==
  \A l \in 1..Len(doc) : \A k \in 1..Len(doc[l]) :
    IF world.wide THEN doc[l][k].id < IntLimit ELSE Plain(doc[l][k].id)

\* All ranks of a row of the grid number the rows alike, also before the last
\* of them has got through index_mapping, and no row is numbered in two rows
\* of the grid.
RowsAgree ==
  \A r, s \in Rank : GoodIds /\ Numbered /\ At(r, "done") /\ At(s, "done") =>
    IF s \in RowGroup(r) THEN rm[r] = rm[s]
    ELSE ToSet(rm[r]) \cap ToSet(rm[s]) = {}

\* The cells of the block of rank r, under the names that row_map and col_map
\* give to them.
NameOfCell(r, b) == <<RowName(r, b.row), ColName(r, b.col)>>
NamedCells(r) == {NameOfCell(r, b) : b \in built[r]}

\* Undoing the numbering gives the input: a finished rank has each pair of ids of
\* the lines that the hash grid gives to it, once, and nothing else.
CellsOf(r) ==
  /\ NamedCells(r) = {c \in Cells(Organized(doc)) : Owner(c[1], c[2]) = r}
  /\ \A a, b \in built[r] : NameOfCell(r, a) = NameOfCell(r, b) => a = b

\* fvec: the rows of the blocks, rank after rank, are the lines of the input in
\* their order, each under the line's id and with all of its values.
DenseIsInput ==
  LET before(r) == MapThenSumSet(LAMBDA s : Len(rm[s]), 0..(r - 1)) IN
  /\ before(world.np) = Len(doc)
  /\ \A r \in Rank : \A i \in 1..Len(rm[r]) :
       LET line == doc[before(r) + i] IN
       /\ rm[r][i] = line[1].id
       /\ {b \in built[r] : b.row = i - 1} =
            {[row |-> i - 1, col |-> c - 2, w |-> line[c].w] : c \in 2..Len(line)}
=============================================================================
