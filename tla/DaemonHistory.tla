---------------------------- MODULE DaemonHistory ----------------------------
(***************************************************************************)
(* When do the daemon's operations overlap?  A goroutine looks at the      *)
(* status in one section of gGlobalsLock and writes it in a later one, a   *)
(* replay much later: between the two it is let in and nobody can tell.    *)
(* The history variable raced remembers whether a goroutine was ever let   *)
(* in while another one was there; DaemonStatus is not restrained by it.   *)
(***************************************************************************)
EXTENDS DaemonStatus

VARIABLE raced

hvars == <<vars, raced>>

\* The goroutine is let in: it has found the status Idle, and has not ended.
LetIn(j) == jobs[j].at = "set" \/ InProgress(j)

\* It is let in, and the status does not show it yet.
Unannounced(j) ==
    \/ jobs[j].at = "set"
    \/ jobs[j].kind = "hello" /\ jobs[j].at \in {"connect", "initial"}

HInit == Init /\ raced = FALSE

HNext ==
    /\ Next
    /\ raced' = (raced \/ \E j, k \in Jobs :
                            j # k /\ ~LetIn(j) /\ LetIn(j)' /\ Unannounced(k))

HSpec == HInit /\ [][HNext]_hvars

HFairSpec == HSpec /\ Fairness

-----------------------------------------------------------------------------
(* Operations overlap only by that race, whoever calls, cancels, fails or  *)
(* replays: as long as no goroutine was let in beside one that had not     *)
(* announced itself, there is never a second operation in progress, so the *)
(* two sections of the lock are the only hole in "busy with other work".   *)
OverlapIsARace == ~raced => OneAtATime

(* The inductive invariant: until the first race one goroutine at most is  *)
(* let in, the status shows it once it is announced, and in the Idle state *)
(* only a replay that has not announced itself holds a copy of gDb.        *)
SerialInv ==
    /\ \A j \in Jobs : jobs[j].db # None => InProgress(j)
    /\ ~raced => \A j, k \in Jobs : LetIn(j) /\ LetIn(k) => j = k
    /\ ~raced => \A j \in Jobs : LetIn(j) /\ ~Unannounced(j) => state # "Idle"
=============================================================================
