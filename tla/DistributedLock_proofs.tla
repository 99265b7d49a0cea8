------------------------ MODULE DistributedLock_proofs ------------------------
(***************************************************************************)
(* Theorems about DistributedLock for every set of workers, machines and    *)
(* tokens, failures included.  LockInv is the inductive invariant they all  *)
(* rest on.                                                                 *)
(***************************************************************************)
EXTENDS DistributedLock, FunctionTheorems, FiniteSetTheorems, TLAPS

\* A key has time to live, so Tick never counts below zero.
KeyHasTtl == key # None => ttl > 0

\* Lock objects that coexist carry different tokens.
TokensDistinct ==
    \A p, q \in Proc : p # q /\ token[p] # None => token[p] # token[q]

\* SET is only reached with a token; a run without one holds the file.
TokenAtSet == \A p \in Proc : pc[p] = "set" => token[p] # None
FileWithoutToken ==
    \A p \in Running : token[p] = None => HoldsFile(p)

\* Without the redis package no token is ever taken.
NoTokens == ~HasRedis => \A p \in Proc : token[p] = None

LockInv ==
    /\ TypeOK
    /\ FileOwnerIsLive
    /\ KeyHasTtl
    /\ TokensDistinct
    /\ TokenAtSet
    /\ FileWithoutToken
    /\ NoTokens

LEMMA InitInv == Init => LockInv
BY LockAssumption
DEF Init, LockInv, TypeOK, PC, FileOwnerIsLive, KeyHasTtl, TokensDistinct,
    TokenAtSet, FileWithoutToken, NoTokens, Running

-----------------------------------------------------------------------------
\* Type correctness, one step per action.
LEMMA StepType == LockInv /\ [Next]_vars => TypeOK'
<1>. SUFFICES ASSUME LockInv, [Next]_vars PROVE TypeOK'
  OBVIOUS
<1>. USE LockAssumption DEF LockInv, TypeOK, PC
<1>1. ASSUME NEW p \in Proc, Enter(p) PROVE TypeOK'
  <2>1. CASE Fire(p)
    BY <2>1 DEF Fire, FreshToken
  <2>2. CASE FireWithoutToken(p)
    BY <2>2 DEF FireWithoutToken
  <2>3. CASE SetKey(p)
    BY <2>3 DEF SetKey
  <2>4. CASE KeyHeld(p)
    BY <2>4 DEF KeyHeld
  <2>5. CASE SetFails(p)
    BY <2>5 DEF SetFails
  <2>6. CASE TakeFile(p)
    BY <2>6 DEF TakeFile
  <2>7. CASE Skip(p)
    BY <2>7 DEF Skip
  <2>8. QED
    BY <1>1, <2>1, <2>2, <2>3, <2>4, <2>5, <2>6, <2>7 DEF Enter
<1>2. ASSUME NEW p \in Proc, Exit(p) PROVE TypeOK'
  <2>1. CASE Finish(p)
    BY <2>1 DEF Finish
  <2>2. CASE ReleaseKey(p)
    BY <2>2 DEF ReleaseKey
  <2>3. CASE ReleaseFails(p)
    BY <2>3 DEF ReleaseFails
  <2>4. CASE Unlock(p)
    BY <2>4 DEF Unlock
  <2>5. QED
    BY <1>2, <2>1, <2>2, <2>3, <2>4 DEF Exit
<1>3. ASSUME NEW p \in Proc, Crash(p) PROVE TypeOK'
  BY <1>3 DEF Crash
<1>4. ASSUME NEW p \in Proc, Restart(p) PROVE TypeOK'
  BY <1>4 DEF Restart
<1>5. CASE Tick
  BY <1>5 DEF Tick, KeyHasTtl
<1>6. CASE RedisForgets
  BY <1>6 DEF RedisForgets
<1>7. CASE UNCHANGED vars
  BY <1>7 DEF vars
<1>8. QED
  BY <1>1, <1>2, <1>3, <1>4, <1>5, <1>6, <1>7 DEF Next

\* The file lock of a machine only ever belongs to a live process of it.
LEMMA StepFileOwner == LockInv /\ [Next]_vars => FileOwnerIsLive'
<1>. SUFFICES ASSUME LockInv, [Next]_vars PROVE FileOwnerIsLive'
  OBVIOUS
<1>. USE LockAssumption DEF LockInv, TypeOK, PC, FileOwnerIsLive, HoldsFile
<1>1. ASSUME NEW p \in Proc, Enter(p) PROVE FileOwnerIsLive'
  <2>1. CASE TakeFile(p)
    BY <2>1 DEF TakeFile
  <2>2. CASE SetKey(p)
    BY <2>2 DEF SetKey
  <2>3. CASE ~TakeFile(p) /\ ~SetKey(p)
    BY <1>1, <2>3
    DEF Enter, Fire, FireWithoutToken, KeyHeld, SetFails, Skip
  <2>4. QED
    BY <2>1, <2>2, <2>3
<1>2. ASSUME NEW p \in Proc, Exit(p) PROVE FileOwnerIsLive'
  <2>1. CASE Unlock(p)
    BY <2>1 DEF Unlock
  <2>2. CASE ~Unlock(p)
    BY <1>2, <2>2 DEF Exit, Finish, ReleaseKey, ReleaseFails
  <2>3. QED
    BY <2>1, <2>2
<1>3. ASSUME NEW p \in Proc, Crash(p) PROVE FileOwnerIsLive'
  BY <1>3 DEF Crash
<1>4. ASSUME NEW p \in Proc, Restart(p) PROVE FileOwnerIsLive'
  BY <1>4 DEF Restart
<1>5. CASE Tick \/ RedisForgets \/ UNCHANGED vars
  BY <1>5 DEF Tick, RedisForgets, vars
<1>6. QED
  BY <1>1, <1>2, <1>3, <1>4, <1>5 DEF Next

\* Tokens: distinct, present at SET, absent without the package; keys expire.
LEMMA StepTokens ==
    LockInv /\ [Next]_vars =>
        KeyHasTtl' /\ TokensDistinct' /\ TokenAtSet' /\ NoTokens'
<1>. SUFFICES ASSUME LockInv, [Next]_vars
              PROVE  KeyHasTtl' /\ TokensDistinct' /\ TokenAtSet' /\ NoTokens'
  OBVIOUS
<1>. DEFINE Goal == KeyHasTtl /\ TokensDistinct /\ TokenAtSet /\ NoTokens
<1>. USE LockAssumption
     DEF LockInv, TypeOK, PC, KeyHasTtl, TokensDistinct, TokenAtSet, NoTokens
<1>1. ASSUME NEW p \in Proc, Enter(p) PROVE Goal'
  <2>1. CASE Fire(p)
    BY <2>1 DEF Fire, FreshToken
  <2>2. CASE SetKey(p) \/ KeyHeld(p) \/ SetFails(p)
    BY <2>2 DEF SetKey, KeyHeld, SetFails
  <2>3. CASE FireWithoutToken(p) \/ TakeFile(p) \/ Skip(p)
    BY <2>3 DEF FireWithoutToken, TakeFile, Skip
  <2>4. QED
    BY <1>1, <2>1, <2>2, <2>3 DEF Enter
<1>2. ASSUME NEW p \in Proc, Exit(p) PROVE Goal'
  BY <1>2 DEF Exit, Finish, ReleaseKey, ReleaseFails, Unlock
<1>3. ASSUME NEW p \in Proc, Crash(p) \/ Restart(p) PROVE Goal'
  BY <1>3 DEF Crash, Restart
<1>4. CASE Tick \/ RedisForgets \/ UNCHANGED vars
  BY <1>4 DEF Tick, RedisForgets, vars
<1>5. QED
  BY <1>1, <1>2, <1>3, <1>4 DEF Next

\* A run that has no token holds the file.
LEMMA StepFile == LockInv /\ [Next]_vars => FileWithoutToken'
<1>. SUFFICES ASSUME LockInv, [Next]_vars, NEW q \in Running', token'[q] = None
              PROVE  HoldsFile(q)'
  BY DEF FileWithoutToken
<1>. USE LockAssumption
     DEF LockInv, TypeOK, PC, FileWithoutToken, TokenAtSet, Running, HoldsFile
<1>1. ASSUME NEW p \in Proc, Enter(p) PROVE HoldsFile(q)'
  <2>1. CASE SetKey(p)
    BY <2>1 DEF SetKey
  <2>2. CASE TakeFile(p)
    BY <2>2 DEF TakeFile
  <2>3. CASE ~SetKey(p) /\ ~TakeFile(p)
    BY <1>1, <2>3
    DEF Enter, Fire, FireWithoutToken, KeyHeld, SetFails, Skip, FreshToken
  <2>4. QED
    BY <2>1, <2>2, <2>3
<1>2. ASSUME NEW p \in Proc, Exit(p) PROVE HoldsFile(q)'
  BY <1>2 DEF Exit, Finish, ReleaseKey, ReleaseFails, Unlock
<1>3. ASSUME NEW p \in Proc, Crash(p) \/ Restart(p) PROVE HoldsFile(q)'
  BY <1>3 DEF Crash, Restart
<1>4. CASE Tick \/ RedisForgets \/ UNCHANGED vars
  BY <1>4 DEF Tick, RedisForgets, vars
<1>5. QED
  BY <1>1, <1>2, <1>3, <1>4 DEF Next

LEMMA StepInv == LockInv /\ [Next]_vars => LockInv'
BY StepType, StepFileOwner, StepTokens, StepFile DEF LockInv

LEMMA Invariance == Spec => []LockInv
BY InitInv, StepInv, PTL DEF Spec

-----------------------------------------------------------------------------
\* Every variable keeps its type.
THEOREM TypeCorrect == Spec => []TypeOK
BY Invariance, PTL DEF LockInv

\* The file lock never outlives the run that took it: whatever is skipped,
\* crashes or fails, its owner is alive and still has to unlock it
\* (scheduler.py:72-84, 102-108).
THEOREM FileOwner == Spec => []FileOwnerIsLive
BY Invariance, PTL DEF LockInv

\* with_lock never reports "already running" for a job nobody is running
\* (scheduler.py:81-83, 119-121).
THEOREM SkipIsHonest == Spec => SkipMeansBusy
<1>1. LockInv /\ [Next]_vars =>
        [\A p \in Proc : Skip(p) =>
            \E q \in Proc \ {p} : pc[q] \in {"running", "release", "unlock"}]_vars
  <2>. SUFFICES ASSUME LockInv, NEW p \in Proc, Skip(p)
                PROVE  \E q \in Proc \ {p} :
                          pc[q] \in {"running", "release", "unlock"}
    OBVIOUS
  <2>1. HostOf[p] \in Host /\ flock[HostOf[p]] # None /\ pc[p] = "flock"
    BY LockAssumption DEF Skip
  <2>2. /\ flock[HostOf[p]] \in Proc
        /\ pc[flock[HostOf[p]]] \in {"running", "release", "unlock"}
    BY <2>1 DEF LockInv, TypeOK, FileOwnerIsLive
  <2>3. flock[HostOf[p]] # p
    BY <2>1, <2>2
  <2>4. QED
    BY <2>2, <2>3
<1>2. QED
  BY <1>1, Invariance, PTL DEF Spec, SkipMeansBusy

\* A run under a lock of its own.
Covered(p) == HoldsKey(p) \/ HoldsFile(p)

\* What processes do, Redis apart.
ProcessStep == \E p \in Proc : Enter(p) \/ Exit(p) \/ Crash(p) \/ Restart(p)

\* A run starts under a lock, and no process takes that lock away.
LEMMA StepCovered ==
    ASSUME LockInv, [ProcessStep]_vars,
           NEW p \in Proc, p \in Running', p \in Running => Covered(p)
    PROVE  Covered(p)'
<1>. USE LockAssumption
     DEF LockInv, TypeOK, PC, TokensDistinct, TokenAtSet, HoldsKey, HoldsFile,
         Running, Covered
<1>1. ASSUME NEW q \in Proc, Enter(q) PROVE Covered(p)'
  <2>1. CASE SetKey(q)
    BY <2>1 DEF SetKey
  <2>2. CASE TakeFile(q)
    BY <2>2 DEF TakeFile
  <2>3. CASE Fire(q) \/ FireWithoutToken(q) \/ KeyHeld(q) \/ SetFails(q)
    BY <2>3 DEF Fire, FireWithoutToken, KeyHeld, SetFails
  <2>4. CASE Skip(q)
    BY <2>4 DEF Skip
  <2>5. QED
    BY <1>1, <2>1, <2>2, <2>3, <2>4 DEF Enter
<1>2. ASSUME NEW q \in Proc, Exit(q) PROVE Covered(p)'
  <2>1. CASE Finish(q)
    BY <2>1 DEF Finish
  <2>2. CASE ReleaseKey(q)
    BY <2>2 DEF ReleaseKey
  <2>3. CASE ReleaseFails(q)
    BY <2>3 DEF ReleaseFails
  <2>4. CASE Unlock(q)
    BY <2>4 DEF Unlock
  <2>5. QED
    BY <1>2, <2>1, <2>2, <2>3, <2>4 DEF Exit
<1>3. ASSUME NEW q \in Proc, Crash(q) \/ Restart(q) PROVE Covered(p)'
  BY <1>3 DEF Crash, Restart
<1>4. CASE UNCHANGED vars
  BY <1>4 DEF vars
<1>5. QED
  BY <1>1, <1>2, <1>3, <1>4 DEF ProcessStep

\* Only Redis can end a lock before the run it protects: no process, the late
\* release of an expired holder included, removes another run's key or unlocks
\* its file (scheduler.py:62-68, 76-84, 87-108).
THEOREM LockLastsAsLongAsItsRun == Spec => NoRunLosesItsLock
<1>1. LockInv /\ [Next]_vars =>
        [\A p \in Proc :
            (/\ p \in Running'
             /\ p \in Running => HoldsKey(p) \/ HoldsFile(p)
             /\ ~Tick /\ ~RedisForgets)
                => HoldsKey(p)' \/ HoldsFile(p)']_vars
  <2>1. [Next]_vars /\ ~Tick /\ ~RedisForgets => [ProcessStep]_vars
    BY DEF Next, ProcessStep
  <2>2. QED
    BY <2>1, StepCovered DEF Covered
<1>2. QED
  BY <1>1, Invariance, PTL DEF Spec, NoRunLosesItsLock

\* A key or a file is held by one process, so runs under locks of their own are no
\* more than the locks.
LEMMA CoveredAreFew ==
    ASSUME LockInv, IsFiniteSet(Host), NEW S \in SUBSET Proc, \A p \in S : Covered(p)
    PROVE  /\ IsFiniteSet(S)
           /\ Cardinality(S) <= Cardinality(Host) + (IF HasRedis THEN 1 ELSE 0)
<1>. DEFINE owners == {flock[h] : h \in Host}
            keyed == {p \in S : HoldsKey(p)}
<1>1. IsFiniteSet(owners) /\ Cardinality(owners) <= Cardinality(Host)
  <2>1. flock \in Surjection(Host, owners)
    BY Fun_IsSurj DEF LockInv, TypeOK
  <2>2. QED
    BY <2>1, FS_Surjection
<1>2. \A p, q \in keyed : p = q
  BY DEF HoldsKey, LockInv, TokensDistinct
<1>3. ~HasRedis => keyed = {}
  BY DEF HoldsKey, LockInv, NoTokens
<1>4. S \subseteq owners \cup keyed
  BY LockAssumption DEF Covered, HoldsFile, LockInv, TypeOK
<1>5. Cardinality(owners) \in Nat /\ Cardinality(Host) \in Nat
  BY <1>1, FS_CardinalityType
<1>6. ASSUME NEW x, S \subseteq owners \cup {x}
      PROVE  IsFiniteSet(S) /\ Cardinality(S) <= Cardinality(owners) + 1
  <2>. HIDE DEF owners
  <2>1. /\ IsFiniteSet(owners \cup {x})
        /\ x \in owners => Cardinality(owners \cup {x}) = Cardinality(owners)
        /\ x \notin owners => Cardinality(owners \cup {x}) = Cardinality(owners) + 1
    BY <1>1, FS_AddElement
  <2>2. Cardinality(owners \cup {x}) <= Cardinality(owners) + 1
    BY <1>5, <2>1
  <2>3. IsFiniteSet(S) /\ Cardinality(S) <= Cardinality(owners \cup {x})
    BY <1>6, <2>1, FS_Subset
  <2>4. Cardinality(S) \in Nat /\ Cardinality(owners \cup {x}) \in Nat
    BY <2>1, <2>3, FS_CardinalityType
  <2>5. QED
    BY <1>5, <2>2, <2>3, <2>4
<1>. HIDE DEF owners, keyed
<1>7. CASE keyed = {}
  <2>1. S \subseteq owners
    BY <1>4, <1>7
  <2>2. IsFiniteSet(S) /\ Cardinality(S) <= Cardinality(owners)
    BY <1>1, <2>1, FS_Subset
  <2>3. Cardinality(S) \in Nat
    BY <2>2, FS_CardinalityType
  <2>4. QED
    BY <1>1, <1>5, <2>2, <2>3
<1>8. CASE keyed # {}
  <2>1. PICK k \in keyed : keyed = {k}
    BY <1>2, <1>8
  <2>2. IsFiniteSet(S) /\ Cardinality(S) <= Cardinality(owners) + 1
    BY <1>4, <1>6, <2>1
  <2>3. Cardinality(S) \in Nat
    BY <2>2, FS_CardinalityType
  <2>4. HasRedis
    BY <1>3, <1>8
  <2>5. QED
    BY <1>1, <1>5, <2>2, <2>3, <2>4
<1>9. QED
  BY <1>7, <1>8

-----------------------------------------------------------------------------
\* Without the redis package every run holds its machine's file.
LEMMA RunnersHoldFile ==
    ASSUME LockInv, ~HasRedis, NEW p \in Running
    PROVE  HoldsFile(p)
BY DEF LockInv, NoTokens, FileWithoutToken, Running

\* Without the redis package the job runs at most once per machine at a time,
\* crashes and restarts included (scheduler.py:72-84, 102-108).
THEOREM FileLockExcludes ==
    ASSUME ~HasRedis PROVE Spec => []ExclusionPerHost
<1>1. LockInv => ExclusionPerHost
  BY RunnersHoldFile DEF ExclusionPerHost, HoldsFile
<1>2. QED
  BY <1>1, Invariance, PTL

\* Without the redis package the lock implements the abstract exclusion: its
\* steps start a run that has no peer on its machine, end one, or stutter.
THEOREM FileLockImplementsExclusion ==
    ASSUME ~HasRedis PROVE Spec => ImplementsExclusion
<1>1. Init => Exclusion!Init
  BY DEF Init, Exclusion!Init, Running
<1>2. LockInv /\ [Next]_vars => [Exclusion!Next]_Running
  <2>. SUFFICES ASSUME LockInv, [Next]_vars
                PROVE  [Exclusion!Next]_Running
    OBVIOUS
  <2>. USE LockAssumption DEF LockInv, TypeOK, PC, Running
  <2>1. ASSUME NEW p \in Proc, TakeFile(p) PROVE Exclusion!Start(p)
    <3>1. \A q \in Running : HostOf[q] # HostOf[p]
      BY <2>1, RunnersHoldFile DEF TakeFile, HoldsFile
    <3>2. Running' = Running \cup {p}
      BY <2>1 DEF TakeFile
    <3>3. QED
      BY <3>1, <3>2 DEF Exclusion!Start
  <2>2. ASSUME NEW p \in Proc, Finish(p) PROVE Exclusion!Stop(p)
    BY <2>2 DEF Finish, Exclusion!Stop
  <2>3. ASSUME NEW p \in Proc, Crash(p)
        PROVE  Exclusion!Stop(p) \/ UNCHANGED Running
    BY <2>3 DEF Crash, Exclusion!Stop
  <2>4. ASSUME NEW p \in Proc, Restart(p) PROVE UNCHANGED Running
    BY <2>4 DEF Restart
  <2>5. ASSUME NEW p \in Proc, SetKey(p) PROVE FALSE
    BY <2>5 DEF SetKey, TokenAtSet, NoTokens
  <2>6. ASSUME NEW p \in Proc, Enter(p), ~TakeFile(p) PROVE UNCHANGED Running
    BY <2>5, <2>6
    DEF Enter, Fire, FireWithoutToken, KeyHeld, SetFails, Skip
  <2>7. ASSUME NEW p \in Proc, Exit(p), ~Finish(p) PROVE UNCHANGED Running
    BY <2>7 DEF Exit, ReleaseKey, ReleaseFails, Unlock
  <2>8. CASE Tick \/ RedisForgets \/ UNCHANGED vars
    BY <2>8 DEF Tick, RedisForgets, vars
  <2>9. QED
    BY <2>1, <2>2, <2>3, <2>4, <2>6, <2>7, <2>8 DEF Next, Exclusion!Next
<1>3. QED
  BY <1>1, <1>2, Invariance, PTL DEF Spec, ImplementsExclusion, Exclusion!Spec
=============================================================================
