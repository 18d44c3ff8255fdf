-------------------------------- MODULE Wire --------------------------------
(***************************************************************************)
(* How Comm::isend and recv (include/utils/comm.hpp) carry lists of        *)
(* triples and of strings: isend packs the list into one string with       *)
(* separators, recv splits it again.                                       *)
(*                                                                         *)
(* Text is a sequence of tokens: underscores, the words ps and PARACEL     *)
(* where they stand alone between underscores or ends, other words, and    *)
(* printed numbers.  A separator is three tokens, so that a name may hold  *)
(* one, or form one with what is packed around it.  Weights are whole      *)
(* multiples of 10^-7.                                                     *)
(***************************************************************************)
EXTENDS Integers, Sequences, SequencesExt

CONSTANTS IdLimit,      \* ids are below it (2^64 for numbers)
          Spelling(_)   \* the text of the name that an id stands for

Alone(w) == [t |-> w, v |-> 0]
Num(n)  == [t |-> "num", v |-> n]

SEP   == <<Alone("_"), Alone("PARACEL"), Alone("_")>>
INNER == <<Alone("_"), Alone("ps"), Alone("_")>>

Id == 0 .. IdLimit - 1

ASSUME WireAssumption ==
  /\ IdLimit \in Nat
  /\ \A x \in Id : Spelling(x) \in Seq([t : {"_", "ps", "PARACEL", "word"}, v : Int])
  /\ \A x, y \in Id : Spelling(x) = Spelling(y) => x = y

\* A name without the words of the separators.  Nothing in the code asks for it.
Plain(x) == \A k \in 1 .. Len(Spelling(x)) : Spelling(x)[k].t \notin {"ps", "PARACEL"}

\* Mutant: the weight is printed as an int.
PrintedWhole(w) == 10000000 * (w \div 10000000)

\* std::to_string of a double keeps six decimals.
Printed(w) == 10 * ((w + 5) \div 10)

\* An id in the text: std::to_string of a number (num), or the name itself.
IdText(num, x) == IF num THEN <<Num(x)>> ELSE Spelling(x)

LocalPack(num, x) ==
  IdText(num, x.row) \o INNER \o IdText(num, x.col) \o INNER \o <<Num(Printed(x.w))>>

\* A list of one triple gets a separator at its end, longer ones only between.
PackTriples(num, l) ==
  [n |-> Len(l), text |-> FlattenSeq([k \in 1..Len(l) |->
     LocalPack(num, l[k]) \o IF k < Len(l) \/ Len(l) = 1 THEN SEP ELSE <<>>])]

PackStrings(l) ==
  [n |-> Len(l), text |-> FlattenSeq([k \in 1..Len(l) |->
     Spelling(l[k]) \o IF k < Len(l) THEN SEP ELSE <<>>])]

-----------------------------------------------------------------------------
\* s ends in the separator.
Closes(s, sep) ==
  Len(s) >= 3 /\ \A k \in 1..3 : s[Len(s) - 3 + k] = sep[k]

\* The pieces ps with one more token: a separator that it completes ends
\* the last piece, and a new one begins.
Extend(ps, c, sep) ==
  LET q == Append(Last(ps), c)
  IN  IF Closes(q, sep) THEN Append(Append(Front(ps), SubSeq(q, 1, Len(q) - 3)), <<>>)
      ELSE Append(Front(ps), q)

\* boost::algorithm::split_regex: the pieces between the separators, which are
\* found from left to right and do not overlap.
Pieces(s, sep) ==
  LET upto[n \in 0..Len(s)] ==
        IF n = 0 THEN << <<>> >> ELSE Extend(upto[n - 1], s[n], sep)
  IN  upto[Len(s)]

\* Mutant: an empty last piece is kept.
SplitKeepsEmpty(s, sep) == Pieces(s, sep)

\* str_split_by_word drops an empty last piece, but only that one.
SplitByWord(s, sep) ==
  LET r == Pieces(s, sep) IN IF Last(r) = <<>> THEN Front(r) ELSE r

\* Stands for a name or a value that was not sent.
Undefined == -1

NameOf(s) ==
  IF \E x \in Id : Spelling(x) = s THEN CHOOSE x \in Id : Spelling(x) = s ELSE Undefined
IdOf(num, s) == IF num THEN s[1].v ELSE NameOf(s)

\* The third part of a triple is read with std::stod, which throws unless it is
\* a number; without a third part the end of the list of parts is overrun.
HasParts(s) ==
  LET p == SplitByWord(s, INNER) IN Len(p) >= 3 /\ Len(p[3]) = 1 /\ p[3][1].t = "num"

LocalUnpack(num, s) ==
  LET p == SplitByWord(s, INNER)
  IN  [row |-> IdOf(num, p[1]), col |-> IdOf(num, p[2]), w |-> p[3][1].v]

\* recv of a list makes a list of the size that was sent and fills it with the
\* pieces of the string, past its end when there are more.
TriplesFit(m) ==
  LET r == SplitByWord(m.text, SEP)
  IN  Len(r) = m.n /\ \A k \in 1..m.n : HasParts(r[k])

StringsFit(m) == Len(SplitByWord(m.text, SEP)) <= m.n

RecvTriples(num, m) ==
  IF TriplesFit(m) THEN LET r == SplitByWord(m.text, SEP) IN [k \in 1..m.n |-> LocalUnpack(num, r[k])]
  ELSE <<[row |-> Undefined, col |-> Undefined, w |-> Undefined]>>

\* An element without a piece stays empty.
RecvStrings(m) ==
  LET r == SplitByWord(m.text, SEP)
  IN  IF StringsFit(m) THEN [k \in 1..m.n |-> NameOf(IF k <= Len(r) THEN r[k] ELSE <<>>)]
      ELSE <<Undefined>>
=============================================================================
