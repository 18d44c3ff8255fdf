----------------------------- MODULE MCLoading -----------------------------
(* All files of a few bytes, and a few inputs with contents.                *)
EXTENDS Loading

CONSTANTS MaxFiles, MaxBytes

Files == UNION {[1 .. n -> BOOLEAN] : n \in 0 .. MaxBytes}
MCFileLists == UNION {[1 .. n -> Files] : n \in 1 .. MaxFiles}

World(n, pattern, mix, product, wide) ==
  [np |-> n, pattern |-> pattern, mix |-> mix, product |-> product, wide |-> wide]

SparseWorlds ==
  {World(4, "fsmap", FALSE, "matrix", FALSE), World(6, "fsmap", TRUE, "matrix", TRUE),
   World(3, "fsmap", TRUE, "continuous", TRUE), World(3, "smap", FALSE, "continuous", TRUE),
   World(3, "fmap", TRUE, "digraph", TRUE), World(3, "fmap", FALSE, "strgraph", FALSE)}
DenseWorlds == {World(n, "fvec", TRUE, "dense", wide) : n \in 1..3, wide \in BOOLEAN}

\* "3", "3:0.2", an empty field, and "b" where a number is read.
F(id) == [id |-> id, size |-> 1, ok |-> TRUE, w |-> id * One]
G(id, w) == [id |-> id, size |-> 2, ok |-> TRUE, w |-> w]
Empty == [id |-> 99, size |-> 0, ok |-> TRUE, w |-> 0]
NoNumber == [id |-> 5, size |-> 2, ok |-> FALSE, w |-> 0]

\* The empty name, and names that look like "a_ps_b", "a_PARACEL", "a_b" and
\* "a_PARACEL_b".
A == [t |-> "word", v |-> 1]
B == [t |-> "word", v |-> 2]
MCSpelling(x) ==
  CASE x = 99 -> <<>>
    [] x = 98 -> <<A, Alone("_"), Alone("ps"), Alone("_"), B>>
    [] x = 97 -> <<A, Alone("_"), Alone("PARACEL")>>
    [] x = 96 -> <<A, Alone("_"), B>>
    [] x = 95 -> <<A, Alone("_"), Alone("PARACEL"), Alone("_"), B>>
    [] OTHER  -> <<[t |-> "word", v |-> x]>>

\* Pairs, weighted pairs, sets or values (by mix), repetitions, weights with
\* seven decimals, and lines that are too short, too long or without a number.
SparseDocs ==
  {<< <<F(0), F(1)>>, <<F(1), G(0, 30000000)>>, <<F(0), F(3), F(2)>>, <<F(3), F(1)>> >>,
   << <<F(4), G(3, 2000004)>>, <<F(4), G(3, 6)>>, <<F(5), F(2), F(4)>>,
      <<F(1), F(2)>>, <<F(4), F(3)>> >>,
   << <<F(0), F(1)>>, <<F(1), F(2), F(3), F(0)>> >>,
   << <<F(3), F(1)>>, <<F(4), NoNumber>> >>,
   << <<F(3), F(1)>>, <<F(4)>> >>}
NameDocs ==
  {<< <<F(1), Empty, F(2)>>, <<Empty, F(2)>>, <<F(2), F(96)>> >>,
   << <<F(1), F(2)>>, <<F(1), Empty>> >>,
   << <<F(1), F(98)>>, <<F(97), F(2)>>, <<F(4), F(97), F(2)>>, <<F(98), F(4)>> >>,
   << <<F(1), F(2)>>, <<F(2), F(95)>>, <<F(95), F(2)>>, <<F(1), F(1)>> >>}
WideDocs == {<< <<F(100), F(1)>>, <<F(1), F(101)>>, <<F(2), F(3)>> >>}
DenseDocs ==
  {[k \in 1..n |-> <<F(k), F(2 * k), F(k % 2)>>] : n \in {1, 4, 5}} \cup
  {<< <<F(1), F(2)>>, <<F(2), F(3), F(4)>>, <<F(3), F(1)>> >>}

\* Files of n lines: one file of long lines, or two whose lines differ in length.
Line(n) == [k \in 1..n |-> k = n]
Rep(n, len) == FlattenSeq([k \in 1..n |-> Line(len)])
Layouts(n) ==
  {<<Rep(n, 8)>>} \cup
  IF n < 2 THEN {}
  ELSE {<<Rep(1, 3) \o Rep(1, 5), SubSeq(Rep(n - 2, 5), 1, 5 * (n - 2))>>}

CaseSet(ws, ds) ==
  UNION {{[world |-> w, doc |-> d, files |-> f] : w \in ws, f \in Layouts(Len(d))} : d \in ds}

MCCases ==
  CaseSet(SparseWorlds, SparseDocs) \cup CaseSet(DenseWorlds, DenseDocs)
  \cup CaseSet({w \in SparseWorlds : ~w.wide}, NameDocs)
  \cup CaseSet({w \in SparseWorlds : w.wide}, WideDocs)

MCHash(i) == IF i % 3 = 0 THEN i + 1 ELSE i
=============================================================================
