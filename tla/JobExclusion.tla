---------------------------- MODULE JobExclusion ----------------------------
(***************************************************************************)
(* What a lock per machine owes a scheduled job: of the processes of one    *)
(* machine at most one runs the job; a process that finds another running   *)
(* does nothing at all.  DistributedLock implements it when the redis       *)
(* package is missing (with_lock, scheduler.py).                            *)
(***************************************************************************)
CONSTANTS Proc, Host, HostOf
VARIABLE running    \* the processes that are inside the job

Init == running = {}

Start(p) ==
    /\ \A q \in running : HostOf[q] # HostOf[p]
    /\ running' = running \cup {p}

\* The job returned, raised, or died with its process.
Stop(p) ==
    /\ p \in running
    /\ running' = running \ {p}

Next == \E p \in Proc : Start(p) \/ Stop(p)

Spec == Init /\ [][Next]_running
=============================================================================
