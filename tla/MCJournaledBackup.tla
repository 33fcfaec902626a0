-------------------------- MODULE MCJournaledBackup --------------------------
(***************************************************************************)
(* The backup engine on instances small enough for TLC.  The small files   *)
(* of an instance are interchangeable: nothing in the engine orders paths. *)
(***************************************************************************)
EXTENDS JournaledBackup, TLC

SmallFileSymmetry == Permutations(Paths \ LargePaths)

=============================================================================
