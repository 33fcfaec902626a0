-------------------------------- MODULE Usage --------------------------------
(***************************************************************************)
(* Usage reports.  Every transfer adds to two atomic counters              *)
(* (pkg/objstore/objstore.go); persistUsage (daemon/main.go), called from  *)
(* several goroutines, takes them and writes a row to the database         *)
(* (pkg/database/usage.go), after one with the space used in the bucket    *)
(* (pkg/snapshots/usage.go).  GetUsageHistory (daemon/usage.go) shows the  *)
(* rows by day.  A backup works on a copy of the database and writes it    *)
(* back (pkg/backup/journaled_backup.go).                                  *)
(***************************************************************************)
EXTENDS Naturals, FiniteSets, Functions

CONSTANTS
    Procs,         \* goroutines that persist usage
    None,          \* no backup is running
    Window,        \* days that are kept and shown; three months in the code
    Allowed,       \* "during": calls during a backup; "crash", "error", "tidyError"
    MaxDay, MaxBytes, MaxCalls, MaxBackups, MaxFaults   \* bounds

Days == 0..MaxDay

ASSUME UsageAssumption ==
    /\ IsFiniteSet(Procs) /\ Window \in Nat
    /\ MaxDay \in Nat /\ MaxBytes \in Nat /\ MaxCalls \in Nat
    /\ MaxBackups \in Nat /\ MaxFaults \in Nat

VARIABLES
    uploadBytes, downloadBytes,
    db, mem,        \* the usage tables, by day; the copy a backup works on
    pc, job,        \* of each goroutine: where it is, its local variables
    day, size,      \* today; the size of the bucket
    shown,          \* what a user was shown last
    transferred,    \* bytes counted, without those that went with a process
    expired,        \* of them, in rows deleted as old
    disturbed,      \* "during": a row was inserted while a backup held its copy;
                    \* "tidyError": a row was inserted and an error returned
    calls, backups, faults

counters == <<uploadBytes, downloadBytes>>
tables   == <<db, mem>>
world    == <<day, size, backups>>
history  == <<shown, transferred, expired, disturbed>>
vars     == <<counters, tables, pc, job, world, history, calls, faults>>

Empty == [space |-> [d \in Days |-> 0], bandwidth |-> [d \in Days |-> 0]]
NoJob == [kind |-> "none", up |-> 0, down |-> 0, bytes |-> 0]

Init ==
    /\ uploadBytes = 0 /\ downloadBytes = 0
    /\ db = Empty /\ mem = None
    /\ pc = [p \in Procs |-> "idle"]
    /\ job = [p \in Procs |-> NoJob]
    /\ day = 0 /\ size = 0
    /\ shown = Empty
    /\ transferred = 0 /\ expired = 0 /\ disturbed = {}
    /\ calls = 0 /\ backups = 0 /\ faults = 0

Goto(p, l) == pc' = [pc EXCEPT ![p] = l]
Fault(what) == what \in Allowed /\ faults < MaxFaults /\ faults' = faults + 1

-----------------------------------------------------------------------------
(* The object store: bytes are counted when a call has succeeded.  The     *)
(* bucket only grows here: rows keep the peak of a day.                    *)

Count(up, down) ==
    /\ transferred + up + down <= MaxBytes
    /\ uploadBytes' = uploadBytes + up
    /\ downloadBytes' = downloadBytes + down
    /\ transferred' = transferred + up + down
    /\ UNCHANGED <<tables, pc, job, day, backups, shown, expired, disturbed, calls, faults>>

UploadObjFromBuffer == Count(1, 0) /\ size' = size + 1
DownloadObjToBuffer == Count(0, 1) /\ UNCHANGED size

-----------------------------------------------------------------------------
(* A backup: the usage tables go into the copy and come back as they were. *)

InitMemDb ==
    /\ mem = None /\ backups < MaxBackups
    /\ "during" \in Allowed \/ \A p \in Procs : pc[p] = "idle"
    /\ mem' = db /\ backups' = backups + 1
    /\ UNCHANGED <<counters, db, pc, job, day, size, history, calls, faults>>

PersistMemDbToFile ==
    /\ mem # None /\ db' = mem
    /\ mem' \in {mem, None}   \* the last persist closes the copy
    /\ UNCHANGED <<counters, pc, job, world, history, calls, faults>>

-----------------------------------------------------------------------------
(* The callers of persistUsage.  "idle": the timer, the ends of backups    *)
(* and restores and the start of a wipe; "delete": DeleteSnapshots;        *)
(* "exit": the handler of SIGTERM.                                         *)
Kinds == {"history", "idle", "delete", "exit"}

PersistUsage(p, kind) ==
    /\ pc[p] = "idle" /\ calls < MaxCalls
    /\ mem # None => kind # "idle" /\ "during" \in Allowed
    /\ kind = "exit" => \A q \in Procs : job[q].kind # "exit"
    /\ job' = [job EXCEPT ![p].kind = kind]
    /\ Goto(p, IF kind = "exit" THEN "loadUp" ELSE "space")
    /\ calls' = calls + 1
    /\ UNCHANGED <<counters, tables, world, history, faults>>

\* ComputeTotalCloudSpaceUsage, or one of its listings fails.
ComputeTotalCloudSpaceUsage(p) ==
    /\ pc[p] = "space"
    /\ \/ /\ job' = [job EXCEPT ![p].bytes = size]
          /\ Goto(p, "addSpace") /\ UNCHANGED faults
       \/ /\ Fault("error")
          /\ Goto(p, IF job[p].kind = "delete" THEN "done" ELSE "loadUp")
          /\ UNCHANGED job
    /\ UNCHANGED <<counters, tables, world, history, calls>>

Cut == IF day > Window THEN day - Window ELSE 0

\* Mutant: the days that are still shown are deleted too.
TidyTooMuch(table) == [d \in Days |-> IF d <= Cut + 1 /\ d < day THEN 0 ELSE table[d]]

\* Rows older than the window are deleted after every insertion.
Tidy(table) == [d \in Days |-> IF d < Cut THEN 0 ELSE table[d]]

\* Only the peak of a day is asked of the space rows, and the sum of the others.
Larger(a, b) == IF a > b THEN a ELSE b

Sum(table) == SumFunctionOnSet(table, Days)

Inserted(error) == disturbed \cup error \cup (IF mem # None THEN {"during"} ELSE {})

\* The row, or an error before it, or one after it when old rows are deleted.
AddSpaceUsageReport(p) ==
    LET added == [db.space EXCEPT ![day] = Larger(@, job[p].bytes)]
    IN  /\ pc[p] = "addSpace"
        /\ \/ /\ db' = [db EXCEPT !.space = Tidy(added)]
              /\ disturbed' = Inserted({}) /\ UNCHANGED faults
           \/ Fault("error") /\ UNCHANGED <<db, disturbed>>
           \/ /\ Fault("tidyError")
              /\ db' = [db EXCEPT !.space = added]
              /\ disturbed' = Inserted({})
        /\ job' = [job EXCEPT ![p].bytes = 0]
        /\ Goto(p, IF job[p].kind = "delete" THEN "done" ELSE "loadUp")
        /\ UNCHANGED <<counters, mem, world, shown, transferred, expired, calls>>

-----------------------------------------------------------------------------
(* PersistBandwidthUsage *)

LoadUploadBytes(p) ==
    /\ pc[p] = "loadUp"
    /\ job' = [job EXCEPT ![p].up = uploadBytes]
    /\ Goto(p, "swapUp")
    /\ UNCHANGED <<counters, tables, world, history, calls, faults>>

\* Mutant: the counter is set to zero whatever it holds by now.
StoreZeroUpload(p) ==
    /\ pc[p] = "swapUp"
    /\ uploadBytes' = 0 /\ Goto(p, "loadDown")
    /\ UNCHANGED <<downloadBytes, tables, job, world, history, calls, faults>>

SwapUploadBytes(p) ==
    /\ pc[p] = "swapUp"
    /\ \/ uploadBytes = job[p].up /\ uploadBytes' = 0 /\ Goto(p, "loadDown") /\ UNCHANGED job
       \/ /\ uploadBytes # job[p].up
          /\ job' = [job EXCEPT ![p].up = 0]
          /\ Goto(p, "loadUp") /\ UNCHANGED uploadBytes
    /\ UNCHANGED <<downloadBytes, tables, world, history, calls, faults>>

LoadDownloadBytes(p) ==
    /\ pc[p] = "loadDown"
    /\ job' = [job EXCEPT ![p].down = downloadBytes]
    /\ Goto(p, "swapDown")
    /\ UNCHANGED <<counters, tables, world, history, calls, faults>>

SwapDownloadBytes(p) ==
    /\ pc[p] = "swapDown"
    /\ \/ downloadBytes = job[p].down /\ downloadBytes' = 0 /\ Goto(p, "add") /\ UNCHANGED job
       \/ /\ downloadBytes # job[p].down
          /\ job' = [job EXCEPT ![p].down = 0]
          /\ Goto(p, "loadDown") /\ UNCHANGED downloadBytes
    /\ UNCHANGED <<uploadBytes, tables, world, history, calls, faults>>

\* Mutant: the goroutine keeps the bytes it has reported.
SettleNothing(p) == UNCHANGED job

Settle(p) == job' = [job EXCEPT ![p].up = 0, ![p].down = 0]

\* Likewise; after an error the bytes are put back.
AddBandwidthUsageReport(p) ==
    LET bytes == job[p].up + job[p].down
        added == [db.bandwidth EXCEPT ![day] = @ + bytes]
    IN  /\ pc[p] = "add"
        /\ \/ /\ bytes = 0 /\ Goto(p, "done")
              /\ UNCHANGED <<db, job, expired, disturbed, faults>>
           \/ /\ bytes > 0
              /\ db' = [db EXCEPT !.bandwidth = Tidy(added)]
              /\ expired' = expired + (Sum(added) - Sum(Tidy(added)))
              /\ disturbed' = Inserted({})
              /\ Settle(p) /\ Goto(p, "done") /\ UNCHANGED faults
           \/ /\ bytes > 0 /\ Fault("error")
              /\ Goto(p, "putBack")
              /\ UNCHANGED <<db, job, expired, disturbed>>
           \/ /\ bytes > 0 /\ Fault("tidyError")
              /\ db' = [db EXCEPT !.bandwidth = added]
              /\ disturbed' = Inserted({"tidyError"})
              /\ Goto(p, "putBack")
              /\ UNCHANGED <<job, expired>>
        /\ UNCHANGED <<counters, mem, world, shown, transferred, calls>>

\* Mutant: the bytes are put back and the report is tried again.
PutBackAndRetry(p) ==
    /\ pc[p] = "putBack"
    /\ uploadBytes' = uploadBytes + job[p].up + job[p].down
    /\ Goto(p, "add")
    /\ UNCHANGED <<downloadBytes, tables, job, world, history, calls, faults>>

\* Both are added to the counter of uploads, one after the other.
PutBack(p) ==
    /\ pc[p] = "putBack"
    /\ \/ /\ job[p].up > 0
          /\ uploadBytes' = uploadBytes + job[p].up
          /\ job' = [job EXCEPT ![p].up = 0]
          /\ UNCHANGED pc
       \/ /\ job[p].up = 0
          /\ uploadBytes' = uploadBytes + job[p].down
          /\ Settle(p) /\ Goto(p, "done")
    /\ UNCHANGED <<downloadBytes, tables, world, history, calls, faults>>

-----------------------------------------------------------------------------
(* What the callers do next *)

\* The days shown begin one after the oldest that is kept.
Visible(d) == d > Cut \/ Cut = 0

\* GetPeakDailySpaceUsage and GetTotalDailyBandwidthUsage.
GetPeakDailySpaceUsage(p) ==
    /\ pc[p] = "done" /\ job[p].kind = "history"
    /\ shown' = [shown EXCEPT !.space = [d \in Days |-> IF Visible(d) THEN db.space[d] ELSE 0]]
    /\ Goto(p, "total")
    /\ UNCHANGED <<counters, tables, job, world, transferred, expired, disturbed, calls, faults>>

GetTotalDailyBandwidthUsage(p) ==
    /\ pc[p] = "total"
    /\ shown' = [shown EXCEPT !.bandwidth =
                    [d \in Days |-> IF Visible(d) THEN db.bandwidth[d] ELSE 0]]
    /\ Goto(p, "idle") /\ job' = [job EXCEPT ![p] = NoJob]
    /\ UNCHANGED <<counters, tables, world, transferred, expired, disturbed, calls, faults>>

Persisted(p) ==
    /\ pc[p] = "done" /\ job[p].kind \in {"idle", "delete"}
    /\ Goto(p, "idle") /\ job' = [job EXCEPT ![p] = NoJob]
    /\ UNCHANGED <<counters, tables, world, history, calls, faults>>

\* Bytes a goroutine has taken from the counters.
Taken == [p \in Procs |->
            IF pc[p] \in {"swapUp", "loadUp"} THEN 0
            ELSE job[p].up + (IF pc[p] = "swapDown" THEN 0 ELSE job[p].down)]

\* Bytes that only the process knows of.
Held == uploadBytes + downloadBytes + SumFunctionOnSet(Taken, Procs)

\* The process ends; the daemon starts again with what is in the file.
EndProcess ==
    /\ uploadBytes' = 0 /\ downloadBytes' = 0
    /\ mem' = None
    /\ pc' = [p \in Procs |-> "idle"]
    /\ job' = [p \in Procs |-> NoJob]
    /\ transferred' = transferred - Held
    /\ UNCHANGED <<db, world, shown, expired, disturbed, calls>>

Exit(p) == pc[p] = "done" /\ job[p].kind = "exit" /\ EndProcess /\ UNCHANGED faults

Crash == Fault("crash") /\ EndProcess

Midnight ==
    /\ day < MaxDay /\ day' = day + 1
    /\ UNCHANGED <<counters, tables, pc, job, size, backups, history, calls, faults>>

-----------------------------------------------------------------------------
Next ==
    \/ UploadObjFromBuffer \/ DownloadObjToBuffer
    \/ InitMemDb \/ PersistMemDbToFile
    \/ \E p \in Procs :
        \/ \E kind \in Kinds : PersistUsage(p, kind)
        \/ ComputeTotalCloudSpaceUsage(p) \/ AddSpaceUsageReport(p)
        \/ LoadUploadBytes(p) \/ SwapUploadBytes(p)
        \/ LoadDownloadBytes(p) \/ SwapDownloadBytes(p)
        \/ AddBandwidthUsageReport(p) \/ PutBack(p)
        \/ GetPeakDailySpaceUsage(p) \/ GetTotalDailyBandwidthUsage(p)
        \/ Persisted(p) \/ Exit(p)
    \/ Crash \/ Midnight

Spec == Init /\ [][Next]_vars

-----------------------------------------------------------------------------
Tables == [space : [Days -> Nat], bandwidth : [Days -> Nat]]

Labels == {"idle", "space", "addSpace", "loadUp", "swapUp", "loadDown", "swapDown",
           "add", "putBack", "done", "total"}
Jobs == [kind : Kinds \cup {"none"}, up : Nat, down : Nat, bytes : Nat]

(* The tables hold a number for every day; only a goroutine that has taken *)
(* bytes from the counters holds any.                                      *)
TypeOK ==
    /\ uploadBytes \in Nat /\ downloadBytes \in Nat
    /\ db \in Tables /\ mem \in {None} \cup Tables /\ shown \in Tables
    /\ pc \in [Procs -> Labels] /\ job \in [Procs -> Jobs]
    /\ \A p \in Procs :
        /\ pc[p] \in {"idle", "space", "addSpace", "loadUp", "done", "total"} => job[p].up = 0
        /\ pc[p] \notin {"swapDown", "add", "putBack"} => job[p].down = 0
    /\ day \in Days /\ size \in Nat
    /\ transferred \in Nat /\ expired \in Nat
    /\ calls \in Nat /\ backups \in Nat /\ faults \in Nat

(* However goroutines that persist usage, transfers, backups and failures  *)
(* overlap, no byte is reported twice, unless deleting old rows failed:    *)
(* then the bytes are put back although their row has been inserted.       *)
NeverOvercounted == "tidyError" \notin disturbed => Sum(db.bandwidth) + Held <= transferred

(* Unless a row was inserted while a backup held a copy of the database    *)
(* ("during"), or its bytes were put back because deleting old rows failed *)
(* after it ("tidyError"), every byte is in a row, in a counter, in the    *)
(* hands of a goroutine that is persisting it, or in a row deleted as old. *)
NothingLost == disturbed = {} => Sum(db.bandwidth) + Held + expired = transferred

(* Unless a row was inserted while a backup held a copy, what the user was *)
(* shown for a day stays stored as long as the day is shown.               *)
ShownStays ==
    "during" \notin disturbed => \A d \in Days : Visible(d) =>
        shown.space[d] <= db.space[d] /\ shown.bandwidth[d] <= db.bandwidth[d]

-----------------------------------------------------------------------------
(* The inductive invariant behind the last three.                          *)

\* The copy is as the file is, until a row is inserted while it exists.
CopyCurrent == "during" \notin disturbed => mem \in {None, db}

\* Nor are bytes reported twice by the rows of the copy, which come back.
CopyNeverOvercounts ==
    "tidyError" \notin disturbed /\ mem # None => Sum(mem.bandwidth) + Held <= transferred

(* What the process holds was transferred, and the copy of the tables that *)
(* a backup writes back (PersistMemDbToFile) is as good as the tables.     *)
UsageInv ==
    /\ TypeOK /\ Held <= transferred
    /\ CopyCurrent /\ CopyNeverOvercounts
    /\ NeverOvercounted /\ NothingLost /\ ShownStays
=============================================================================
