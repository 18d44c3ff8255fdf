------------------------------ MODULE Partition ------------------------------
(***************************************************************************)
(* Cutting the input files into byte ranges and loading the lines of each  *)
(* range: partition::files_partition and files_load_lines_impl             *)
(* (include/load/partition.hpp), driven by scheduler::structure_load       *)
(* (src/scheduler.cpp), rank after rank; the ranks only read the files, so *)
(* their order does not matter.  The second files_load_lines_impl, which   *)
(* hands the lines to a callback, has the same loops.                      *)
(*                                                                         *)
(* A file is a sequence of bytes, TRUE for a newline.  A line is named by  *)
(* its file and the position of its first byte; what it says is left out.  *)
(* Positions count from 0, files from 1.                                   *)
(***************************************************************************)
EXTENDS Integers, Sequences

CONSTANTS
  FileLists,   \* the lists of input files considered
  NPs,         \* the numbers of ranks
  BlkSzs       \* blocks per rank: BLK_SZ, or 1 for "fvec" and "linesplit"

ASSUME PartitionAssumption ==
  /\ FileLists \subseteq Seq(Seq(BOOLEAN)) /\ <<>> \notin FileLists
  /\ NPs \subseteq Nat \ {0} /\ BlkSzs \subseteq Nat \ {0}

VARIABLES
  namelst,     \* the files
  np, blk_sz,
  displs,      \* displs[i + 1]: the bytes before file i + 1
  slst, elst,  \* the byte ranges, by block
  pc,
  rk, blk,     \* the rank, and the block of it that is being loaded
  fi, fen,     \* the file being read, and the last file of the block
  offset,      \* the program's idea of the position in file fi
  pos,         \* the position of the stream
  lines        \* the lines loaded so far and the rank that has each

vars == <<namelst, np, blk_sz, displs, slst, elst, pc, rk, blk, fi, fen,
          offset, pos, lines>>
inputs == <<namelst, np, blk_sz>>
ranges == <<displs, slst, elst>>

NFiles == Len(namelst)
nbk    == np * blk_sz

Fresh ==
  /\ displs = <<>> /\ slst = <<>> /\ elst = <<>>
  /\ pc = "partition"
  /\ rk = 0 /\ blk = 0 /\ fi = 1 /\ fen = 1 /\ offset = 0 /\ pos = 0
  /\ lines = <<>>

Init == namelst \in FileLists /\ np \in NPs /\ blk_sz \in BlkSzs /\ Fresh

-----------------------------------------------------------------------------
(***************************************************************************)
(* files_partition.                                                        *)
(***************************************************************************)

\* displs, as a running sum.
Displs(fs) ==
  LET d[i \in 1 .. Len(fs) + 1] ==
        IF i = 1 THEN 0 ELSE d[i - 1] + Len(fs[i - 1])
  IN  d

\* Mutant: the last range is as long as the others, the remainder is dropped.
RangeEndShort(i, sz) == (i + 1) * (sz \div nbk)

RangeStart(i, sz) == i * (sz \div nbk)
RangeEnd(i, sz)   == IF i = nbk - 1 THEN sz ELSE (i + 1) * (sz \div nbk)

\* assert(s < e) ends the program when there are more blocks than bytes.
FilesPartition ==
  LET d  == Displs(namelst)
      sz == d[NFiles + 1]
  IN /\ pc = "partition"
     /\ displs' = d
     /\ slst' = [i \in 0 .. nbk - 1 |-> RangeStart(i, sz)]
     /\ elst' = [i \in 0 .. nbk - 1 |-> RangeEnd(i, sz)]
     /\ pc' = IF \E i \in 0 .. nbk - 1 : RangeStart(i, sz) >= RangeEnd(i, sz)
              THEN "assert_failed" ELSE "block"
     /\ UNCHANGED <<inputs, rk, blk, fi, fen, offset, pos, lines>>

-----------------------------------------------------------------------------
(***************************************************************************)
(* files_load_lines_impl(st, en).                                          *)
(***************************************************************************)
st == slst[blk]
en == elst[blk]

\* std::getline at position p of file f: where its line ends, and where the
\* stream is then.  At the end of the file nothing is read.
LineEnd(f, p) ==
  IF \E q \in p .. Len(f) - 1 : f[q + 1]
  THEN CHOOSE q \in p .. Len(f) - 1 :
         f[q + 1] /\ \A r \in p .. q - 1 : ~f[r + 1]
  ELSE IF p < Len(f) THEN Len(f) ELSE p

AfterLine(f, p) ==
  IF LineEnd(f, p) < Len(f) THEN LineEnd(f, p) + 1 ELSE Len(f)

\* The first and the last file of the range.
FirstFile == CHOOSE i \in 1 .. NFiles :
               /\ displs[i] <= st
               /\ \A j \in i + 1 .. NFiles : displs[j] > st
LastFile  == CHOOSE i \in 1 .. NFiles :
               /\ i > 1 => en > displs[i]
               /\ \A j \in i + 1 .. NFiles : en <= displs[j]

\* Mutant: the stream is not set back by one byte before the first line is
\* skipped.
SkipFromOffset(f, o) ==
  [off |-> o + (LineEnd(f, o) - o), at |-> AfterLine(f, o)]

\* seekg(offset - 1) and a getline, which skips the line that the range before
\* this one loads, and nothing when a line starts at offset.
SkipPartial(f, o) ==
  [off |-> o + (LineEnd(f, o - 1) - (o - 1)), at |-> AfterLine(f, o - 1)]

\* Open file i at position o, in a block whose last file is last.
OpenAt(i, o, last) ==
  /\ fi' = i
  /\ IF o > 0
     THEN /\ offset' = SkipPartial(namelst[i], o).off
          /\ pos' = SkipPartial(namelst[i], o).at
     ELSE offset' = 0 /\ pos' = 0
  /\ pc' = IF i = last THEN "last_file" ELSE "whole_file"

\* Locate the files of a block and open the first.
StartBlock ==
  /\ pc = "block"
  /\ fen' = LastFile
  /\ OpenAt(FirstFile, st - displs[FirstFile], LastFile)
  /\ UNCHANGED <<inputs, ranges, rk, blk, lines>>

\* A file of the block before its last one is read to its end, or to its first
\* empty line.
ReadWholeFile ==
  /\ pc = "whole_file"
  /\ IF LineEnd(namelst[fi], pos) = pos
     THEN /\ OpenAt(fi + 1, 0, fen)
          /\ UNCHANGED <<fen, lines>>
     ELSE /\ lines' = Append(lines, <<fi, pos, rk>>)
          /\ pos' = AfterLine(namelst[fi], pos)
          /\ UNCHANGED <<fi, fen, offset, pc>>
  /\ UNCHANGED <<inputs, ranges, rk, blk>>

InRange == offset + displs[fi] < en

\* The last file of the block is read up to the line that starts at en or after.
ReadLastFile ==
  /\ pc = "last_file" /\ InRange
  /\ lines' = Append(lines, <<fi, pos, rk>>)
  /\ offset' = offset + (LineEnd(namelst[fi], pos) - pos) + 1
  /\ pos' = AfterLine(namelst[fi], pos)
  /\ UNCHANGED <<inputs, ranges, pc, rk, blk, fi, fen>>

\* structure_load: the next block of the rank, or the next rank.
EndBlock ==
  /\ pc = "last_file" /\ ~InRange
  /\ IF blk + 1 < (rk + 1) * blk_sz
     THEN blk' = blk + 1 /\ rk' = rk /\ pc' = "block"
     ELSE IF rk + 1 < np
     THEN blk' = (rk + 1) * blk_sz /\ rk' = rk + 1 /\ pc' = "block"
     ELSE pc' = "done" /\ UNCHANGED <<blk, rk>>
  /\ UNCHANGED <<inputs, ranges, fi, fen, offset, pos, lines>>

Terminated == pc \in {"done", "assert_failed"} /\ UNCHANGED vars

Next == \/ FilesPartition \/ StartBlock \/ ReadWholeFile \/ ReadLastFile
        \/ EndBlock \/ Terminated

Spec == Init /\ [][Next]_vars

-----------------------------------------------------------------------------
(***************************************************************************)
(* Properties.                                                             *)
(***************************************************************************)

\* Where the lines of file f start.
LineStarts(f) == {p \in 0 .. Len(f) - 1 : p = 0 \/ f[p]}

\* What reading the files one after the other would give.
LinesOf(fs) == UNION {{i} \X LineStarts(fs[i]) : i \in 1 .. Len(fs)}
AllLines == LinesOf(namelst)

Before(x, y) == x[1] < y[1] \/ (x[1] = y[1] /\ x[2] < y[2])

\* Whatever the files and the cut, what is loaded are lines of the input from
\* their first byte on, each at most once and in the order of the input: no
\* range loads what its neighbour loads, at the seams of blocks and of files.
LinesInOrder ==
  /\ \A i \in DOMAIN lines : <<lines[i][1], lines[i][2]>> \in AllLines
  /\ \A i \in DOMAIN lines : i > 1 => Before(lines[i - 1], lines[i])

NoBlankLine ==
  \A i \in 1 .. NFiles : \A p \in LineStarts(namelst[i]) : ~namelst[i][p + 1]

\* Files without an empty line are loaded completely.
LoadsEveryLine ==
  pc = "done" /\ NoBlankLine =>
    \A l \in AllLines : \E i \in DOMAIN lines : <<lines[i][1], lines[i][2]>> = l
=============================================================================
