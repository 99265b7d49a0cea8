--------------------------- MODULE DistributedLock ---------------------------
(***************************************************************************)
(* The lock that keeps a scheduled job from running twice                   *)
(* (src/backend/modules/scheduler.py), for ONE job name.  Each Gunicorn     *)
(* worker starts its own scheduler (app.py), so every worker fires the job  *)
(* and wraps it in with_lock(DistributedLock): SET NX EX on a Redis key,    *)
(* and a flock on a file of the machine when Redis raises.                  *)
(*                                                                         *)
(* One process runs at most one invocation of a job at a time               *)
(* (APScheduler's max_instances = 1), so the lock object of an invocation   *)
(* is indexed by its process.                                               *)
(***************************************************************************)
EXTENDS Naturals

CONSTANTS
    Proc,       \* worker processes
    Host,       \* machines (or containers): the processes of one share /tmp
    HostOf,     \* the machine of each process
    Token,      \* readings of time.time() used as lock tokens
    Timeout,    \* the lock's expiry, in ticks of the model's time
    HasRedis,   \* _HAS_REDIS: the redis package was importable
    Faulty,     \* whether Redis calls may fail and processes may die
    None        \* Python's None, the nil reply of Redis, "nobody"

ASSUME LockAssumption ==
    /\ HostOf \in [Proc -> Host]
    /\ Timeout \in Nat \ {0}
    /\ HasRedis \in BOOLEAN
    /\ Faulty \in BOOLEAN
    /\ None \notin Proc \cup Token

VARIABLES
    pc,         \* where each process is in wrapper / __enter__ / __exit__
    token,      \* _redis_token of the process's current lock object
    client,     \* processes whose module-level _redis_client is set
    key,        \* the value of the Redis key, None when it does not exist
    ttl,        \* ticks until the Redis key expires
    flock       \* the process that holds the lock file of each machine

vars == <<pc, token, client, key, ttl, flock>>

PC == {"idle", "set", "flock", "running", "release", "unlock", "down"}

Init ==
    /\ pc = [p \in Proc |-> "idle"]
    /\ token = [p \in Proc |-> None]
    /\ client = {}
    /\ key = None
    /\ ttl = 0
    /\ flock = [h \in Host |-> None]

-----------------------------------------------------------------------------
HoldsFile(p) == flock[HostOf[p]] = p

\* The invocation p runs under an unexpired Redis key of its own.
HoldsKey(p) == key # None /\ key = token[p]

Running == {p \in Proc : pc[p] = "running"}

\* Readings of the clock that no live lock object and no key carries:
\* two lock objects that coexist took their time.time() at different moments.
FreshToken == {t \in Token : t # key /\ \A p \in Proc : token[p] # t}

-----------------------------------------------------------------------------
\* Faulty variants of the actions below, one mistake each: what the properties
\* have to tell from the code.

\* The expiry is given in milliseconds where seconds are meant.
SetKeyInMilliseconds(p) ==
    /\ pc[p] = "set"
    /\ key = None
    /\ key' = token[p]
    /\ ttl' = 1000 * Timeout
    /\ pc' = [pc EXCEPT ![p] = "running"]
    /\ UNCHANGED <<token, client, flock>>

\* SET NX without EX.
SetKeyForever(p) ==
    /\ pc[p] = "set"
    /\ key = None
    /\ key' = token[p]
    /\ ttl' = 0
    /\ pc' = [pc EXCEPT ![p] = "running"]
    /\ UNCHANGED <<token, client, flock>>

\* LOCK_SH in place of LOCK_EX.
TakeFileShared(p) ==
    /\ pc[p] = "flock"
    /\ flock' = [flock EXCEPT ![HostOf[p]] = p]
    /\ pc' = [pc EXCEPT ![p] = "running"]
    /\ UNCHANGED <<token, client, key, ttl>>

\* The error of the file lock is swallowed too.
SkipAndRun(p) ==
    /\ pc[p] = "flock"
    /\ flock[HostOf[p]] # None
    /\ pc' = [pc EXCEPT ![p] = "running"]
    /\ UNCHANGED <<token, client, key, ttl, flock>>

\* The key is deleted without the comparison.
ReleaseAnyKey(p) ==
    /\ pc[p] = "release"
    /\ key' = None /\ ttl' = 0
    /\ pc' = [pc EXCEPT ![p] = "unlock"]
    /\ UNCHANGED <<token, client, flock>>

\* __exit__ returns once a token was released, the file being taken for unused.
UnlockWithoutToken(p) ==
    /\ pc[p] = "unlock"
    /\ flock' = IF HoldsFile(p) /\ token[p] = None
                THEN [flock EXCEPT ![HostOf[p]] = None] ELSE flock
    /\ token' = [token EXCEPT ![p] = None]
    /\ pc' = [pc EXCEPT ![p] = "idle"]
    /\ UNCHANGED <<client, key, ttl>>

-----------------------------------------------------------------------------
\* The trigger fires: wrapper builds a DistributedLock, __enter__ looks for a
\* client and reads its token off the clock.
Fire(p) ==
    /\ pc[p] = "idle"
    /\ HasRedis
    /\ \E t \in FreshToken : token' = [token EXCEPT ![p] = t]
    /\ client' = client \cup {p}
    /\ pc' = [pc EXCEPT ![p] = "set"]
    /\ UNCHANGED <<key, ttl, flock>>

\* No token is taken: the redis package is missing, or the ping that follows
\* the very first construction of the client raises (the global is set by then,
\* so later calls do not ping).
FireWithoutToken(p) ==
    /\ pc[p] = "idle"
    /\ ~HasRedis \/ (Faulty /\ p \notin client)
    /\ client' = IF HasRedis THEN client \cup {p} ELSE client
    /\ pc' = [pc EXCEPT ![p] = "flock"]
    /\ UNCHANGED <<token, key, ttl, flock>>

\* SET NX EX succeeds: the job runs under the Redis key.
SetKey(p) ==
    /\ pc[p] = "set"
    /\ key = None
    /\ key' = token[p]
    /\ ttl' = Timeout
    /\ pc' = [pc EXCEPT ![p] = "running"]
    /\ UNCHANGED <<token, client, flock>>

\* The key exists.  __enter__ raises BlockingIOError inside its own try block,
\* whose "except Exception" takes it for a Redis failure: on to the file lock.
KeyHeld(p) ==
    /\ pc[p] = "set"
    /\ key # None
    /\ pc' = [pc EXCEPT ![p] = "flock"]
    /\ UNCHANGED <<token, client, key, ttl, flock>>

\* The call raises: the request was lost, or it was applied and its reply lost.
SetFails(p) ==
    /\ Faulty
    /\ pc[p] = "set"
    /\ \/ UNCHANGED <<key, ttl>>
       \/ key = None /\ key' = token[p] /\ ttl' = Timeout
    /\ pc' = [pc EXCEPT ![p] = "flock"]
    /\ UNCHANGED <<token, client, flock>>

\* flock(LOCK_EX | LOCK_NB) on the machine's lock file.
TakeFile(p) ==
    /\ pc[p] = "flock"
    /\ flock[HostOf[p]] = None
    /\ flock' = [flock EXCEPT ![HostOf[p]] = p]
    /\ pc' = [pc EXCEPT ![p] = "running"]
    /\ UNCHANGED <<token, client, key, ttl>>

\* The file is locked: BlockingIOError reaches with_lock, which logs "already
\* running on another instance".  __exit__ is not called; the object is dropped.
Skip(p) ==
    /\ pc[p] = "flock"
    /\ flock[HostOf[p]] # None
    /\ token' = [token EXCEPT ![p] = None]
    /\ pc' = [pc EXCEPT ![p] = "idle"]
    /\ UNCHANGED <<client, key, ttl, flock>>

\* The job returns or raises, and __exit__ begins.
Finish(p) ==
    /\ pc[p] = "running"
    /\ pc' = [pc EXCEPT ![p] = IF token[p] # None THEN "release" ELSE "unlock"]
    /\ UNCHANGED <<token, client, key, ttl, flock>>

\* The script: delete the key if it still carries this object's token.
ReleaseKey(p) ==
    /\ pc[p] = "release"
    /\ IF HoldsKey(p) THEN key' = None /\ ttl' = 0 ELSE UNCHANGED <<key, ttl>>
    /\ pc' = [pc EXCEPT ![p] = "unlock"]
    /\ UNCHANGED <<token, client, flock>>

\* The script could not be sent: logged, and the key is left to expire.
ReleaseFails(p) ==
    /\ Faulty
    /\ pc[p] = "release"
    /\ pc' = [pc EXCEPT ![p] = "unlock"]
    /\ UNCHANGED <<token, client, key, ttl, flock>>

\* The end of __exit__: the file, if this object locked it, is unlocked.
Unlock(p) ==
    /\ pc[p] = "unlock"
    /\ flock' = IF HoldsFile(p) THEN [flock EXCEPT ![HostOf[p]] = None] ELSE flock
    /\ token' = [token EXCEPT ![p] = None]
    /\ pc' = [pc EXCEPT ![p] = "idle"]
    /\ UNCHANGED <<client, key, ttl>>

-----------------------------------------------------------------------------
\* A worker dies.  The kernel drops its flock; its Redis key stays.
Crash(p) ==
    /\ Faulty
    /\ pc[p] # "down"
    /\ pc' = [pc EXCEPT ![p] = "down"]
    /\ token' = [token EXCEPT ![p] = None]
    /\ client' = client \ {p}
    /\ flock' = IF HoldsFile(p) THEN [flock EXCEPT ![HostOf[p]] = None] ELSE flock
    /\ UNCHANGED <<key, ttl>>

\* The Gunicorn master starts a new worker, which imports the module afresh.
Restart(p) ==
    /\ pc[p] = "down"
    /\ pc' = [pc EXCEPT ![p] = "idle"]
    /\ UNCHANGED <<token, client, key, ttl, flock>>

\* Time passes, and Redis expires the key (a key without expiry would have 0).
Tick ==
    /\ key # None
    /\ ttl > 0
    /\ ttl' = ttl - 1
    /\ key' = IF ttl = 1 THEN None ELSE key
    /\ UNCHANGED <<pc, token, client, flock>>

\* Redis restarts from a snapshot older than the key.
RedisForgets ==
    /\ Faulty
    /\ key # None
    /\ key' = None
    /\ ttl' = 0
    /\ UNCHANGED <<pc, token, client, flock>>

-----------------------------------------------------------------------------
Enter(p) ==
    \/ Fire(p) \/ FireWithoutToken(p)
    \/ SetKey(p) \/ KeyHeld(p) \/ SetFails(p)
    \/ TakeFile(p) \/ Skip(p)

Exit(p) == Finish(p) \/ ReleaseKey(p) \/ ReleaseFails(p) \/ Unlock(p)

Next ==
    \/ \E p \in Proc : Enter(p) \/ Exit(p) \/ Crash(p) \/ Restart(p)
    \/ Tick
    \/ RedisForgets

Spec == Init /\ [][Next]_vars

\* Triggers keep firing, threads are scheduled, jobs end, workers are restarted
\* and time passes.  Nothing obliges Redis or a worker to fail.
Fairness ==
    /\ \A p \in Proc : WF_vars(Enter(p)) /\ WF_vars(Exit(p)) /\ WF_vars(Restart(p))
    /\ WF_vars(Tick)

FairSpec == Spec /\ Fairness

-----------------------------------------------------------------------------
TypeOK ==
    /\ pc \in [Proc -> PC]
    /\ token \in [Proc -> Token \cup {None}]
    /\ client \in SUBSET Proc
    /\ key \in Token \cup {None}
    /\ ttl \in 0..Timeout
    /\ flock \in [Host -> Proc \cup {None}]

\* A lock file is held only by a live process of that machine that is running
\* the job or leaving __exit__: no path, the skip and the crash included, leaks
\* the file lock (scheduler.py:72-84, 102-108).
FileOwnerIsLive ==
    \A h \in Host : flock[h] # None =>
        /\ HostOf[flock[h]] = h
        /\ pc[flock[h]] \in {"running", "release", "unlock"}

\* The intent of the module: the job runs in one process at a time
\* (with_lock, lines 111-123).
MutualExclusion == \A p, q \in Running : p = q

\* The file lock alone (no redis package) excludes the processes of one machine,
\* through skips, crashes and restarts (lines 72-84, 102-108).
ExclusionPerHost ==
    \A p, q \in Running : HostOf[p] = HostOf[q] => p = q

\* So without redis a machine's processes implement the abstract exclusion.
Exclusion == INSTANCE JobExclusion WITH running <- Running
ImplementsExclusion == Exclusion!Spec

\* with_lock says "already running on another instance" only when a different
\* process has the job's file locked: it is running the job or about to unlock
\* (lines 81-83, 119-121).
SkipMeansBusy ==
    [][\A p \in Proc : Skip(p) =>
          \E q \in Proc \ {p} : pc[q] \in {"running", "release", "unlock"}]_vars

\* A run starts under a lock of its own, and no step of any process takes that
\* lock away before the run ends: only Redis can, by expiring or losing the key.
\* In particular the late release of a holder whose key expired does not delete
\* its successor's key, nor does the exit of a run that fell back to the file
\* (lines 62-68, 76-84, 87-108).
NoRunLosesItsLock ==
    [][\A p \in Proc :
          (/\ p \in Running'
           /\ p \in Running => HoldsKey(p) \/ HoldsFile(p)
           /\ ~Tick /\ ~RedisForgets)
              => HoldsKey(p)' \/ HoldsFile(p)']_vars

\* A key is never stuck: whoever set it, dead or not, it is gone after a while
\* (ex=self.timeout, line 64).
KeyIsFreed == \A t \in Token : key = t ~> key # t

\* Once workers stop dying, the job keeps being run by somebody, whatever keys
\* and files earlier crashes left behind and however often Redis fails.
JobKeepsRunning ==
    <>[][\A p \in Proc : ~Crash(p)]_vars => []<>(Running # {})
=============================================================================
