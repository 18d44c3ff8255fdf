---------------------------- MODULE MCSSPClock ----------------------------
(* Small instances of SSPClock.  Symmetry (safety runs only): the workers   *)
(* other than rank 0 run the same code, and so do the keys.                 *)
EXTENDS SSPClock, TLC

PeerSymmetry == Permutations(Workers \ {Rank0})
===========================================================================
