--------------------------- MODULE MCMPIScheduler ---------------------------
(***************************************************************************)
(* Three processes; a host with two slots and two hosts with one, so that  *)
(* the job needs two or three of them.                                     *)
(***************************************************************************)
EXTENDS MPIScheduler

MCSlots(h) == IF h = 1 THEN 2 ELSE 1
=============================================================================
