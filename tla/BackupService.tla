---------------------------- MODULE BackupService ----------------------------
(***************************************************************************)
(* What a backup promises of a quiet directory.  A snapshot appears at     *)
(* once and whole: it is the directory as it is at that moment, and its    *)
(* name, the time it was begun, is later than that of any other snapshot.  *)
(* From then on it stays as it is, whatever becomes of the directory, of   *)
(* other snapshots and of later backups, until it is deleted.              *)
(***************************************************************************)
EXTENDS Naturals

CONSTANTS
    Directories,  \* what the backup directory can be
    Names         \* the names of snapshots, which are times

VARIABLES
    dir,    \* the backup directory
    snaps   \* the snapshots there are: name |-> contents

vars == <<dir, snaps>>

Init ==
    /\ dir \in Directories
    /\ snaps = [t \in {} |-> dir]

\* The user's files change.
Change ==
    /\ dir' \in Directories
    /\ UNCHANGED snaps

Take(t) ==
    /\ \A u \in DOMAIN snaps : u < t
    /\ snaps' = [u \in DOMAIN snaps \cup {t} |-> IF u = t THEN dir ELSE snaps[u]]
    /\ UNCHANGED dir

Delete(t) ==
    /\ snaps' = [u \in DOMAIN snaps \ {t} |-> snaps[u]]
    /\ UNCHANGED dir

Next ==
    \/ Change
    \/ \E t \in Names : Take(t) \/ Delete(t)

Spec == Init /\ [][Next]_vars

=============================================================================
