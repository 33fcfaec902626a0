--------------------------- MODULE MCDaemonHistory --------------------------
(***************************************************************************)
(* DaemonStatus with its history, on a few goroutines and callers.         *)
(***************************************************************************)
EXTENDS DaemonHistory, TLC

(* Goroutines are interchangeable, and so are the clients.                 *)
JobSymmetry == Permutations(Jobs) \cup Permutations(Clients)
=============================================================================
