--------------------------- MODULE RestoreService ---------------------------
(***************************************************************************)
(* What a restore promises: it touches only the entries that were asked    *)
(* for, and when it says it is done each of them is there with the bytes   *)
(* the snapshot has, but for those it reported.  It says nothing of where  *)
(* the bytes come from.                                                    *)
(***************************************************************************)
CONSTANTS
    Paths   \* the entries of the snapshot

VARIABLES
    running,   \* whether a restore is under way
    wanted,    \* what it was asked for
    restored,  \* the entries in the destination that are as in the snapshot
    reported,  \* the entries it could not restore
    outcome    \* how the last one ended

vars == <<running, wanted, restored, reported, outcome>>

Init ==
    /\ running = FALSE /\ outcome = "none"
    /\ wanted = {} /\ restored = {} /\ reported = {}

Begin ==
    /\ ~running
    /\ running' = TRUE
    /\ wanted' \in SUBSET Paths
    /\ reported' = {}
    /\ outcome' = "none"
    /\ UNCHANGED restored

\* An entry that is there is about to be written again.
Overwrite(p) ==
    /\ running /\ p \in wanted
    /\ restored' = restored \ {p}
    /\ UNCHANGED <<running, wanted, reported, outcome>>

Deliver(p) ==
    /\ running /\ p \in wanted
    /\ restored' = restored \cup {p}
    /\ UNCHANGED <<running, wanted, reported, outcome>>

Report(p) ==
    /\ running /\ p \in wanted
    /\ reported' = reported \cup {p}
    /\ restored' \in {restored, restored \cup {p}}
    /\ UNCHANGED <<running, wanted, outcome>>

Done ==
    /\ running
    /\ wanted \subseteq restored \cup reported
    /\ running' = FALSE
    /\ outcome' = "done"
    /\ reported' \in {reported \cup S : S \in SUBSET wanted}
    /\ UNCHANGED <<wanted, restored>>

\* Canceled, or the process is gone, perhaps while it wrote an entry.
Abandon ==
    /\ running
    /\ running' = FALSE
    /\ outcome' = "abandoned"
    /\ restored' \in {restored} \cup {restored \ {p} : p \in wanted}
    /\ UNCHANGED <<wanted, reported>>

Next ==
    \/ Begin \/ Done \/ Abandon
    \/ \E p \in Paths : Overwrite(p) \/ Deliver(p) \/ Report(p)

Spec == Init /\ [][Next]_vars
=============================================================================
