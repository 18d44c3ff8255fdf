--------------------------- MODULE MCCollectives ---------------------------
EXTENDS Collectives

\* Everything for everybody, and a case with empty containers and two
\* elements in one of them.
MCInputs ==
  {[r \in Rank |-> [t \in Rank |-> << <<r, t>> >>]],
   [r \in Rank |-> [t \in Rank |->
      IF t = 0 THEN <<>> ELSE IF r = t THEN << <<r, 0>>, <<r, 1>> >> ELSE << <<r, t>> >>]]}

AllCalls ==
  {<<"alltoall", "bcastring">>, <<"alltoallring", "treereduce", "alltoall">>,
   <<"treereduce", "synchronize", "alltoall">>, <<"bcastring", "synchronize", "treereduce">>}
=============================================================================
