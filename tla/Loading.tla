------------------------------ MODULE Loading ------------------------------
(***************************************************************************)
(* From files to a distributed matrix or graph: Partition cuts the files   *)
(* and loads their lines, Exchange turns the lines of the ranks into their *)
(* blocks (paracel_load_as_matrix, paracel_load_as_graph in include/ps.hpp *)
(* with fixload, create_matrix, create_graph in include/load/loader.hpp).  *)
(*                                                                         *)
(* The input is a list of files, which is cut and loaded, or a case: files *)
(* whose lines have contents, and a product to make of them.               *)
(***************************************************************************)
EXTENDS Partition, Exchange

CONSTANTS Cases,      \* [world, doc, files]
          BLK_SZ

Field == [id : Id, size : 0 .. 2, ok : BOOLEAN, w : Int]

\* A case has one parsed line for each line of its files.
ASSUME LoadingAssumption ==
  /\ BLK_SZ \in Nat \ {0}
  /\ \A c \in Cases :
       /\ c.world.np \in Nat \ {0}
       /\ c.files \in Seq(Seq(BOOLEAN)) /\ c.files # <<>>
       /\ c.doc \in Seq(Seq(Field)) /\ Len(c.doc) = Cardinality(LinesOf(c.files))

\* What the parser makes of a line that was loaded.
Parsed(l) == doc[Cardinality({x \in AllLines : Before(x, l)}) + 1]

\* The lines of rank r, in the order in which it has loaded them.
Given(r) ==
  LET mine == Among(lines, {l \in ToSet(lines) : l[3] = r})
  IN  [k \in 1..Len(mine) |-> Parsed(mine[k])]

HasContents == doc # <<>>
LinesOnly == [np |-> 1, pattern |-> "", mix |-> FALSE, product |-> "lines", wide |-> FALSE]

\* A rank loads BLK_SZ blocks, or one for a dense matrix.
BlkSz(w) == IF w.pattern = "fvec" THEN 1 ELSE BLK_SZ

LoadInit ==
  /\ \/ /\ world = LinesOnly /\ doc = <<>>
        /\ namelst \in FileLists /\ np \in NPs /\ blk_sz \in BlkSzs
     \/ \E c \in Cases :
          /\ world = c.world /\ doc = c.doc
          /\ namelst = c.files /\ np = c.world.np /\ blk_sz = BlkSz(c.world)
  /\ Fresh
  /\ ExchangeInit

Cut == FilesPartition \/ StartBlock \/ ReadWholeFile \/ ReadLastFile \/ EndBlock

Ended ==
  \/ pc = "assert_failed"
  \/ pc = "done" /\ (HasContents => Finished)

LoadNext ==
  \/ Cut /\ UNCHANGED xvars
  \/ pc = "done" /\ HasContents /\ (\E r \in Rank : RankStep(r, Given(r))) /\ UNCHANGED vars
  \/ Ended /\ UNCHANGED <<vars, xvars>>

Load == LoadInit /\ [][LoadNext]_<<vars, xvars>>

-----------------------------------------------------------------------------
\* Whoever reads which line, wherever the cuts between the ranks fall and
\* whatever the others still do: the block of a finished rank has the entries of
\* the input that it owns, nothing lost between two ranks, nothing twice, under
\* the numbers that row_map and col_map give to their ids.
CellsAtOwners ==
  pc = "done" /\ HasContents /\ NoBlankLine /\ GoodIds /\ world.product # "dense" =>
    \A r \in Rank : At(r, "done") => CellsOf(r)

\* The weight of a pair is the sum of the weights that the lines give to it, but
\* in a dictionary of dictionaries it is that of one line: the pair's last line
\* among those of the rank whose slot is the last one with the pair.  A triple
\* that was carried to another rank has lost its seventh decimal.
WeightFits(r, c, w) ==
  IF KeepsLast
  THEN LET of(k) == Weights(Organized(Given(Sender(r, k))), c[1], c[2])
           f == of(Max({k \in 1..world.np : DOMAIN of(k) # {}}))
       IN  w - f[Max(DOMAIN f)] \in -5..5
  ELSE LET f == Weights(Organized(doc), c[1], c[2]) IN
       w - SumOver(f) \in -5 * Cardinality(DOMAIN f)..5 * Cardinality(DOMAIN f)

\* The blocks of all ranks are together the matrix or graph that the files
\* describe: the weights of the entries, or the rows of a dense matrix of lines
\* with the same number of values.
BlocksAreInput ==
  pc = "done" /\ HasContents /\ NoBlankLine /\ GoodIds /\ Complete =>
    IF world.product # "dense"
    THEN \A r \in Rank : \A b \in built[r] : WeightFits(r, NameOfCell(r, b), b.w)
    ELSE (\A k \in 1..Len(doc) : Len(doc[k]) = Len(doc[1])) => DenseIsInput
=============================================================================
