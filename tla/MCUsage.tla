------------------------------- MODULE MCUsage -------------------------------
(***************************************************************************)
(* Two goroutines persist usage; days are kept for one day.                *)
(***************************************************************************)
EXTENDS Usage, TLC

CallerSymmetry == Permutations(Procs)
=============================================================================
