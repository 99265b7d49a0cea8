-------------------------- MODULE Remediation_proofs --------------------------
(***************************************************************************)
(* Theorems about Remediation for every set of requests, suggestions and     *)
(* commands, whatever overlaps and fails.  BaseInv says what holds of every   *)
(* suggestion; TellInv and RanIsOver what holds of one until two requests     *)
(* met over it or the result of one was lost.                                *)
(***************************************************************************)
EXTENDS Remediation, SequenceTheorems, TLAPS

\* What a request holds between two of its statements.
HeldOK ==
    \A r \in Req :
        /\ pc[r] \in {"approve", "reject", "ssh", "record"} =>
              target[r] \in Suggestion /\ rows[target[r]] # None
        /\ pc[r] = "approve" => cmd[r] \in Command
        /\ pc[r] = "ssh" => cmd[r] \in Command /\ Approved(target[r], cmd[r])
        /\ pc[r] \in {"direct", "settle"} => target[r] \in DOMAIN execs
        /\ pc[r] \in {"record", "settle"} => result[r] \in Outcome

\* The command of an approved row is one that somebody approved.
RowsApproved ==
    \A s \in Suggestion : Status(s) = "approved" => Approved(s, rows[s].command)

BaseInv == TypeOK /\ HeldOK /\ RowsApproved /\ OnlyApprovedCommandsRun

LEMMA InitBase == Init => BaseInv
BY RemediationAssumption
DEF Init, BaseInv, TypeOK, PC, Handling, HeldOK, RowsApproved, Status, OnlyApprovedCommandsRun

-----------------------------------------------------------------------------
\* Rows are only written by these actions, and keep the type of a row.
LEMMA RowTypes == BaseInv /\ [Next]_vars => rows' \in [Suggestion -> SuggestionRow \cup {None}]
<1>. SUFFICES ASSUME BaseInv, [Next]_vars
              PROVE  rows' \in [Suggestion -> SuggestionRow \cup {None}]
  OBVIOUS
<1>. USE DEF BaseInv, TypeOK
<1>1. ASSUME NEW s \in Suggestion, NEW c \in Command, Generate(s, c)
      PROVE  rows' \in [Suggestion -> SuggestionRow \cup {None}]
  BY <1>1 DEF Generate, SuggestionRow
<1>2. ASSUME NEW r \in Req, Approve(r)
      PROVE  rows' \in [Suggestion -> SuggestionRow \cup {None}]
  <2>1. rows[target[r]] \in SuggestionRow /\ cmd[r] \in Command
    BY <1>2 DEF Approve, HeldOK
  <2>2. QED
    BY <1>2, <2>1 DEF Approve, SuggestionRow
<1>3. ASSUME NEW r \in Req, Reject(r)
      PROVE  rows' \in [Suggestion -> SuggestionRow \cup {None}]
  <2>1. rows[target[r]] \in SuggestionRow
    BY <1>3 DEF Reject, HeldOK
  <2>2. QED
    BY <1>3, <2>1 DEF Reject, SuggestionRow
<1>4. ASSUME NEW r \in Req, RecordResult(r)
      PROVE  rows' \in [Suggestion -> SuggestionRow \cup {None}]
  <2>1. rows[target[r]] \in SuggestionRow /\ result[r] \in Outcome
    BY <1>4 DEF RecordResult, HeldOK
  <2>2. QED
    BY <1>4, <2>1 DEF RecordResult, SuggestionRow, Outcome
<1>5. ASSUME NEW r \in Req, Start(r) \/ RunSuggested(r) \/ RunDirect(r)
                            \/ SettleDirect(r) \/ Abort(r)
      PROVE  UNCHANGED rows
  BY <1>5
  DEF Start, ReadToApprove, ReadToReject, ReadToExecute, BeginDirect, RunSuggested,
      RunDirect, SettleDirect, Abort, BeginOn, tables
<1>6. QED
  BY <1>1, <1>2, <1>3, <1>4, <1>5 DEF Next, Continue, vars

\* Type correctness of the remaining variables, one step per action.
LEMMA StepType == BaseInv /\ [Next]_vars => TypeOK'
<1>. SUFFICES ASSUME BaseInv, [Next]_vars PROVE TypeOK'
  OBVIOUS
<1>0. rows' \in [Suggestion -> SuggestionRow \cup {None}]
  BY RowTypes
<1>. USE RemediationAssumption DEF BaseInv, TypeOK, PC, Handling, Outcome, history, deeds, mishaps
<1>1. ASSUME NEW s \in Suggestion, NEW c \in Command, Generate(s, c) PROVE TypeOK'
  BY <1>0, <1>1 DEF Generate, history, locals
<1>2. ASSUME NEW r \in Req, Start(r) PROVE TypeOK'
  <2>1. CASE ReadToApprove(r)
    <3>1. \A s \in Suggestion : Status(s) = "pending" => rows[s].command \in Command
      BY DEF Status, SuggestionRow
    <3>2. QED
      BY <1>0, <2>1, <3>1 DEF ReadToApprove, Begin, BeginOn, tables, deeds, history, mishaps
  <2>2. CASE ReadToReject(r)
    BY <1>0, <2>2 DEF ReadToReject, Begin, BeginOn, tables, deeds, history, mishaps
  <2>3. CASE ReadToExecute(r)
    <3>1. \A s \in Suggestion : Status(s) = "approved" => rows[s].command \in Command
      BY DEF Status, SuggestionRow
    <3>2. QED
      BY <1>0, <2>3, <3>1 DEF ReadToExecute, Begin, BeginOn, tables, deeds, history, mishaps
  <2>4. CASE BeginDirect(r)
    <3>1. execs' \in Seq(ExecRow)
      BY <2>4 DEF BeginDirect, ExecRow
    <3>2. Len(execs) + 1 \in Nat
      OBVIOUS
    <3>3. QED
      BY <1>0, <2>4, <3>1, <3>2 DEF BeginDirect, Begin, history
  <2>5. QED
    BY <1>2, <2>1, <2>2, <2>3, <2>4 DEF Start
<1>3. ASSUME NEW r \in Req, Approve(r) PROVE TypeOK'
  BY <1>0, <1>3 DEF Approve, HeldOK, End
<1>4. ASSUME NEW r \in Req, Reject(r) \/ RecordResult(r) PROVE TypeOK'
  BY <1>0, <1>4 DEF Reject, RecordResult, End, history
<1>5. ASSUME NEW r \in Req, RunSuggested(r) PROVE TypeOK'
  <2>1. target[r] \in Suggestion /\ cmd[r] \in Command
    BY <1>5 DEF RunSuggested, HeldOK
  <2>2. Append(runs[target[r]], cmd[r]) \in Seq(Command)
    BY <2>1
  <2>3. runs' \in [Suggestion -> Seq(Command)]
    BY <1>5, <2>2 DEF RunSuggested
  <2>4. QED
    BY <1>0, <1>5, <2>3 DEF RunSuggested, tables
<1>6. ASSUME NEW r \in Req, RunDirect(r) PROVE TypeOK'
  BY <1>0, <1>6 DEF RunDirect, tables, history
<1>7. ASSUME NEW r \in Req, SettleDirect(r) PROVE TypeOK'
  <2>1. target[r] \in DOMAIN execs /\ result[r] \in Outcome
    BY <1>7 DEF SettleDirect, HeldOK
  <2>2. [execs[target[r]] EXCEPT !.status = result[r]] \in ExecRow
    <3>1. execs[target[r]] \in ExecRow
      BY <2>1, ElementOfSeq
    <3>2. QED
      BY <2>1, <3>1 DEF ExecRow
  <2>3. execs' \in Seq(ExecRow)
    BY <1>7, <2>1, <2>2, ExceptSeq DEF SettleDirect
  <2>4. QED
    BY <1>0, <1>7, <2>3 DEF SettleDirect, End, history
<1>8. ASSUME NEW r \in Req, Abort(r) PROVE TypeOK'
  <2>1. pc[r] = "record" => target[r] \in Suggestion
    BY DEF HeldOK
  <2>2. pc[r] \in {"direct", "settle"} => target[r] \in Nat
    BY DEF HeldOK
  <2>3. unrecorded' \subseteq Suggestion /\ abandoned' \subseteq Nat
    BY <1>8, <2>1, <2>2 DEF Abort
  <2>4. QED
    BY <1>0, <1>8, <2>3 DEF Abort, End, tables, deeds
<1>9. CASE UNCHANGED vars
  BY <1>9 DEF vars
<1>10. QED
  BY <1>1, <1>2, <1>3, <1>4, <1>5, <1>6, <1>7, <1>8, <1>9 DEF Next, Continue
-----------------------------------------------------------------------------
\* What other requests rely on never goes away: rows and execution rows stay,
\* and an approval that was given remains given.
LEMMA NothingIsLost ==
    BaseInv /\ [Next]_vars =>
        /\ \A s \in Suggestion : rows[s] # None => rows'[s] # None
        /\ DOMAIN execs \subseteq DOMAIN execs'
        /\ approvals \subseteq approvals'
<1>. SUFFICES ASSUME BaseInv, [Next]_vars
              PROVE  /\ \A s \in Suggestion : rows[s] # None => rows'[s] # None
                     /\ DOMAIN execs \subseteq DOMAIN execs'
                     /\ approvals \subseteq approvals'
  OBVIOUS
<1>1. \A s \in Suggestion : rows[s] # None => rows'[s] # None
  <2>. SUFFICES ASSUME NEW s \in Suggestion, rows[s] # None PROVE rows'[s] # None
    OBVIOUS
  <2>1. rows[s] \in SuggestionRow
    BY DEF BaseInv, TypeOK
  <2>2. CASE UNCHANGED rows
    BY <2>2
  <2>3. ASSUME NEW t \in Suggestion, NEW c \in Command, Generate(t, c) PROVE rows'[s] # None
    BY <2>3 DEF Generate, BaseInv, TypeOK
  <2>4. ASSUME NEW r \in Req, Approve(r) \/ Reject(r) \/ RecordResult(r)
        PROVE  rows'[s] # None
    <3>1. CASE target[r] # s
      BY <2>4, <3>1 DEF Approve, Reject, RecordResult, BaseInv, TypeOK
    <3>2. CASE target[r] = s
      <4>1. CASE Approve(r)
        <5>1. cmd[r] \in Command
          BY <4>1 DEF Approve, BaseInv, HeldOK
        <5>2. rows'[s] \in SuggestionRow
          BY <2>1, <3>2, <4>1, <5>1 DEF Approve, BaseInv, TypeOK, SuggestionRow
        <5>3. QED
          BY <5>2, RemediationAssumption
      <4>2. CASE Reject(r)
        <5>1. rows'[s] \in SuggestionRow
          BY <2>1, <3>2, <4>2 DEF Reject, BaseInv, TypeOK, SuggestionRow
        <5>2. QED
          BY <5>1, RemediationAssumption
      <4>3. CASE RecordResult(r)
        <5>1. result[r] \in Outcome
          BY <4>3 DEF RecordResult, BaseInv, HeldOK
        <5>2. rows'[s] \in SuggestionRow
          BY <2>1, <3>2, <4>3, <5>1
          DEF RecordResult, BaseInv, TypeOK, SuggestionRow, Outcome
        <5>3. QED
          BY <5>2, RemediationAssumption
      <4>4. QED
        BY <2>4, <4>1, <4>2, <4>3
    <3>3. QED
      BY <3>1, <3>2
  <2>5. QED
    BY <2>2, <2>3, <2>4
    DEF Next, Start, Continue, ReadToApprove, ReadToReject, ReadToExecute, BeginDirect,
        RunSuggested, RunDirect, SettleDirect, Abort, BeginOn, tables, vars
<1>2. DOMAIN execs \subseteq DOMAIN execs'
  <2>1. CASE UNCHANGED execs
    BY <2>1
  <2>2. ASSUME NEW r \in Req, BeginDirect(r) PROVE DOMAIN execs \subseteq DOMAIN execs'
    BY <2>2 DEF BeginDirect, BaseInv, TypeOK
  <2>3. ASSUME NEW r \in Req, SettleDirect(r) PROVE DOMAIN execs \subseteq DOMAIN execs'
    BY <2>3 DEF SettleDirect, BaseInv, TypeOK
  <2>4. QED
    BY <2>1, <2>2, <2>3
    DEF Next, Start, Continue, Generate, ReadToApprove, ReadToReject, ReadToExecute,
        BeginOn, Approve, Reject, RunSuggested, RecordResult, RunDirect, Abort, tables, vars
<1>3. approvals \subseteq approvals'
  BY DEF Next, Start, Continue, Generate, ReadToApprove, ReadToReject, ReadToExecute,
         BeginOn, BeginDirect, Approve, Reject, RunSuggested, RecordResult, RunDirect,
         SettleDirect, Abort, tables, history, deeds, vars
<1>4. QED
  BY <1>1, <1>2, <1>3

\* What a request holds stays true of it until its own next statement.
LEMMA StepHeld == BaseInv /\ [Next]_vars => HeldOK'
<1>. SUFFICES ASSUME BaseInv, [Next]_vars PROVE HeldOK'
  OBVIOUS
<1>. USE RemediationAssumption DEF BaseInv, TypeOK
<1>. DEFINE Held(r) ==
        /\ pc[r] \in {"approve", "reject", "ssh", "record"} =>
              target[r] \in Suggestion /\ rows[target[r]] # None
        /\ pc[r] = "approve" => cmd[r] \in Command
        /\ pc[r] = "ssh" => cmd[r] \in Command /\ Approved(target[r], cmd[r])
        /\ pc[r] \in {"direct", "settle"} => target[r] \in DOMAIN execs
        /\ pc[r] \in {"record", "settle"} => result[r] \in Outcome
     Same(r) == pc'[r] = pc[r] /\ target'[r] = target[r] /\ cmd'[r] = cmd[r] /\ result'[r] = result[r]
<1>1. \A s \in Suggestion : \A c : Approved(s, c) => Approved(s, c)'
  BY NothingIsLost DEF Approved
<1>2. ASSUME NEW q \in Req, Same(q) PROVE Held(q)'
  <2>1. Held(q)
    BY DEF HeldOK
  <2>2. QED
    BY <1>1, <1>2, <2>1, NothingIsLost
<1>3. ASSUME NEW r \in Req, Start(r), NEW q \in Req PROVE Held(q)'
  <2>1. CASE q # r
    <3>1. Same(q)
      BY <1>3, <2>1
      DEF Start, ReadToApprove, ReadToReject, ReadToExecute, BeginOn, BeginDirect, Begin
    <3>2. QED
      BY <1>2, <3>1
  <2>2. CASE q = r /\ ReadToApprove(r)
    <3>1. \A s \in Suggestion : Status(s) = "pending" =>
             rows[s] # None /\ rows[s].command \in Command
      BY DEF Status, SuggestionRow
    <3>2. QED
      BY <2>2, <3>1 DEF ReadToApprove, BeginOn, Begin, tables
  <2>3. CASE q = r /\ ReadToReject(r)
    BY <2>3 DEF ReadToReject, BeginOn, Begin, Status, tables
  <2>4. CASE q = r /\ ReadToExecute(r)
    <3>1. \A s \in Suggestion : Status(s) = "approved" =>
             /\ rows[s] # None /\ rows[s].command \in Command
             /\ Approved(s, rows[s].command)
      BY DEF Status, SuggestionRow, RowsApproved
    <3>2. PICK s \in Suggestion : Status(s) = "approved" /\ BeginOn(r, "ssh", s, rows[s].command)
      BY <2>4 DEF ReadToExecute
    <3>3. pc'[r] = "ssh" /\ target'[r] = s /\ cmd'[r] = rows[s].command /\ rows' = rows
      BY <3>2 DEF BeginOn, Begin, tables
    <3>4. QED
      BY <1>1, <2>4, <3>1, <3>2, <3>3
  <2>5. CASE q = r /\ BeginDirect(r)
    <3>1. Len(execs) + 1 \in DOMAIN execs'
      BY <2>5 DEF BeginDirect
    <3>2. QED
      BY <2>5, <3>1 DEF BeginDirect, Begin
  <2>6. QED
    BY <1>3, <2>1, <2>2, <2>3, <2>4, <2>5 DEF Start
<1>4. ASSUME NEW r \in Req, Continue(r) \/ Abort(r), NEW q \in Req PROVE Held(q)'
  <2>1. CASE q # r
    <3>1. Same(q)
      BY <1>4, <2>1
      DEF Continue, Approve, Reject, RunSuggested, RecordResult, RunDirect,
          SettleDirect, Abort, End
    <3>2. QED
      BY <1>2, <3>1
  <2>2. CASE q = r /\ RunSuggested(r)
    BY <2>2 DEF RunSuggested, HeldOK, Outcome, tables
  <2>3. CASE q = r /\ RunDirect(r)
    BY <2>3 DEF RunDirect, HeldOK, Outcome, tables
  <2>4. CASE q = r /\ ~RunSuggested(r) /\ ~RunDirect(r)
    BY <1>4, <2>4 DEF Continue, Approve, Reject, RecordResult, SettleDirect, Abort, End
  <2>5. QED
    BY <2>1, <2>2, <2>3, <2>4
<1>5. ASSUME UNCHANGED locals, NEW q \in Req PROVE Held(q)'
  BY <1>2, <1>5 DEF locals
<1>6. \A q \in Req : Held(q)'
  BY <1>3, <1>4, <1>5 DEF Next, Generate, locals, vars
<1>7. QED
  BY <1>6 DEF HeldOK

\* Only Approve makes a row approved or changes an approved row's command.
LEMMA StepRowsApproved == BaseInv /\ [Next]_vars => RowsApproved'
<1>. SUFFICES ASSUME BaseInv, [Next]_vars, NEW s \in Suggestion, Status(s)' = "approved"
              PROVE  Approved(s, rows[s].command)'
  BY DEF RowsApproved
<1>. USE DEF BaseInv, TypeOK
<1>1. CASE rows'[s] = rows[s]
  BY <1>1, NothingIsLost DEF RowsApproved, Status, Approved
<1>2. ASSUME NEW t \in Suggestion, NEW c \in Command, Generate(t, c), rows'[s] # rows[s]
      PROVE  FALSE
  BY <1>2 DEF Generate, Status
<1>3. ASSUME NEW r \in Req, Approve(r), rows'[s] # rows[s]
      PROVE  Approved(s, rows[s].command)'
  <2>1. target[r] = s /\ rows[s] \in SuggestionRow
    BY <1>3 DEF Approve, HeldOK
  <2>2. rows'[s].command = cmd[r]
    BY <1>3, <2>1 DEF Approve, SuggestionRow
  <2>3. QED
    BY <1>3, <2>1, <2>2 DEF Approve, Approved
<1>4. ASSUME NEW r \in Req, Reject(r) \/ RecordResult(r), rows'[s] # rows[s]
      PROVE  FALSE
  <2>1. target[r] = s /\ rows[s] \in SuggestionRow /\ pc[r] \in {"reject", "record"}
    BY <1>4 DEF Reject, RecordResult, HeldOK
  <2>2. rows'[s].status \in {"rejected", "completed", "failed"}
    BY <1>4, <2>1 DEF Reject, RecordResult, SuggestionRow, HeldOK, Outcome
  <2>3. QED
    BY <2>2 DEF Status
<1>5. QED
  BY <1>1, <1>2, <1>3, <1>4
  DEF Next, Start, Continue, ReadToApprove, ReadToReject, ReadToExecute, BeginDirect,
      RunSuggested, RunDirect, SettleDirect, Abort, BeginOn, tables, vars

\* Only RunSuggested runs a command, one that its request saw approved.
LEMMA StepRuns == BaseInv /\ [Next]_vars => OnlyApprovedCommandsRun'
<1>. SUFFICES ASSUME BaseInv, [Next]_vars PROVE OnlyApprovedCommandsRun'
  OBVIOUS
<1>. USE DEF BaseInv, TypeOK
<1>1. \A s \in Suggestion : \A c : Approved(s, c) => Approved(s, c)'
  BY NothingIsLost DEF Approved
<1>2. CASE UNCHANGED runs
  BY <1>1, <1>2 DEF OnlyApprovedCommandsRun
<1>3. ASSUME NEW r \in Req, RunSuggested(r), runs' # runs PROVE OnlyApprovedCommandsRun'
  <2>1. /\ target[r] \in Suggestion /\ cmd[r] \in Command \ Blocked
        /\ Approved(target[r], cmd[r])
        /\ runs' = [runs EXCEPT ![target[r]] = Append(@, cmd[r])]
    BY <1>3 DEF RunSuggested, HeldOK
  <2>2. ASSUME NEW s \in Suggestion, NEW i \in DOMAIN runs'[s]
        PROVE  Approved(s, runs[s][i])' /\ runs'[s][i] \notin Blocked
    <3>1. CASE s # target[r]
      BY <1>1, <2>1, <2>2, <3>1 DEF OnlyApprovedCommandsRun
    <3>2. CASE s = target[r] /\ i \in DOMAIN runs[s]
      <4>1. runs'[s][i] = runs[s][i]
        BY <2>1, <3>2
      <4>2. QED
        BY <1>1, <3>2, <4>1 DEF OnlyApprovedCommandsRun
    <3>3. CASE s = target[r] /\ i \notin DOMAIN runs[s]
      <4>1. runs'[s][i] = cmd[r]
        BY <2>1, <2>2, <3>3
      <4>2. QED
        BY <1>1, <2>1, <3>3, <4>1
    <3>4. QED
      BY <3>1, <3>2, <3>3
  <2>3. QED
    BY <2>2 DEF OnlyApprovedCommandsRun
<1>4. QED
  BY <1>2, <1>3
  DEF Next, Start, Continue, Generate, ReadToApprove, ReadToReject, ReadToExecute,
      BeginOn, BeginDirect, Approve, Reject, RecordResult, RunDirect, SettleDirect, Abort,
      history, deeds, vars

LEMMA StepBase == BaseInv /\ [Next]_vars => BaseInv'
BY StepType, StepHeld, StepRowsApproved, StepRuns DEF BaseInv

LEMMA BaseInvariance == Spec => []BaseInv
BY InitBase, StepBase, PTL DEF Spec

\* The tables and the requests keep their types (schema.sql:252-297).
THEOREM TypeCorrect == Spec => []TypeOK
BY BaseInvariance, PTL DEF BaseInv

\* No command of a suggestion runs that nobody approved, and no blocked one, for
\* any number of requests that race, fail and die (assistant.py:4, 81-124).
THEOREM HumanInTheLoop == Spec => []OnlyApprovedCommandsRun
BY BaseInvariance, PTL DEF BaseInv
-----------------------------------------------------------------------------

-----------------------------------------------------------------------------
\* One request moves, or none.
Acts(r) == Start(r) \/ Continue(r) \/ Abort(r)
Still(q) ==
    /\ pc'[q] = pc[q] /\ target'[q] = target[q]
    /\ cmd'[q] = cmd[q] /\ result'[q] = result[q]

LEMMA OneMoves ==
    ASSUME BaseInv, [Next]_vars
    PROVE  \/ UNCHANGED <<locals, mishaps>>
           \/ \E r \in Req : Acts(r) /\ \A q \in Req : q # r => Still(q)
<1>. USE DEF BaseInv, TypeOK, Still
<1>1. ASSUME NEW r \in Req, Start(r), NEW q \in Req, q # r PROVE Still(q)
  BY <1>1
  DEF Start, ReadToApprove, ReadToReject, ReadToExecute, BeginDirect, BeginOn, Begin
<1>2. ASSUME NEW r \in Req, Continue(r) \/ Abort(r), NEW q \in Req, q # r PROVE Still(q)
  BY <1>2
  DEF Continue, Approve, Reject, RunSuggested, RecordResult, RunDirect, SettleDirect,
      Abort, End
<1>3. QED
  BY <1>1, <1>2 DEF Next, Acts, Generate, history, locals, mishaps, vars

\* A suggestion that was disturbed remains so.
LEMMA MishapsStay ==
    ASSUME [Next]_vars
    PROVE  met \subseteq met' /\ unrecorded \subseteq unrecorded' /\ abandoned \subseteq abandoned'
BY DEF Next, Start, Continue, Generate, ReadToApprove, ReadToReject, ReadToExecute, BeginOn,
       BeginDirect, Approve, Reject, RunSuggested, RecordResult, RunDirect, SettleDirect,
       Abort, history, mishaps, vars

\* A request that is about a suggestion after a step was so before it, or has just
\* read the suggestion's row.
LEMMA Arrives ==
    ASSUME BaseInv, NEW r \in Req, Acts(r), pc'[r] \in Handling
    PROVE  \/ pc[r] \in Handling /\ target'[r] = target[r]
           \/ \E s \in Suggestion : \E l, c : pc[r] = "idle" /\ target'[r] = s /\ BeginOn(r, l, s, c)
<1>. USE DEF BaseInv, TypeOK, Handling
<1>1. CASE Continue(r) \/ Abort(r)
  BY <1>1 DEF Continue, Approve, Reject, RunSuggested, RecordResult, RunDirect, SettleDirect,
     Abort, End
<1>2. CASE Start(r)
  BY <1>2 DEF Start, ReadToApprove, ReadToReject, ReadToExecute, BeginDirect, BeginOn, Begin
<1>3. QED
  BY <1>1, <1>2 DEF Acts

-----------------------------------------------------------------------------
\* Of a suggestion over which no two requests met, at most one is under way, and
\* what that one read is still so when it writes.
AloneOn ==
    \A p, q \in Req :
        /\ pc[p] \in Handling /\ pc[q] \in Handling
        /\ target[p] = target[q] /\ target[p] \notin met
        => p = q

ReadStillTrue ==
    \A r \in Req : target[r] \notin met =>
        /\ pc[r] \in {"approve", "reject"} => Status(target[r]) = "pending"
        /\ pc[r] \in {"ssh", "record"} => Status(target[r]) = "approved"

QuietInv == BaseInv /\ AloneOn /\ ReadStillTrue

LEMMA StepAloneOn == ASSUME BaseInv, AloneOn, [Next]_vars PROVE AloneOn'
<1>. SUFFICES ASSUME NEW p \in Req, NEW q \in Req,
                     pc'[p] \in Handling, pc'[q] \in Handling,
                     target'[p] = target'[q], target'[p] \notin met', p # q
              PROVE  FALSE
  BY DEF AloneOn
<1>1. CASE UNCHANGED <<locals, mishaps>>
  BY <1>1 DEF AloneOn, locals, mishaps
<1>2. ASSUME NEW r \in Req, Acts(r), \A x \in Req : x # r => Still(x) PROVE FALSE
  <2>1. CASE r # p /\ r # q
    BY <1>2, <2>1, MishapsStay DEF AloneOn, Still
  <2>2. ASSUME NEW x \in Req, x # r, pc'[r] \in Handling, pc'[x] \in Handling,
               target'[r] = target'[x], target'[r] \notin met'
        PROVE  FALSE
    <3>1. pc[x] \in Handling /\ target[x] = target'[r]
      BY <1>2, <2>2 DEF Still
    <3>2. CASE pc[r] \in Handling /\ target'[r] = target[r]
      BY <2>2, <3>1, <3>2, MishapsStay DEF AloneOn
    <3>3. CASE \E s \in Suggestion : \E l, c : target'[r] = s /\ BeginOn(r, l, s, c)
      BY <2>2, <3>1, <3>3 DEF BeginOn
    <3>4. QED
      BY <1>2, <2>2, <3>2, <3>3, Arrives
  <2>3. QED
    BY <2>1, <2>2
<1>3. QED
  BY <1>1, <1>2, OneMoves

\* The row of such a suggestion is not written while a request is on its way to
\* write it, but by that request.
LEMMA RowsWait ==
    ASSUME BaseInv, AloneOn, [Next]_vars, NEW q \in Req,
           pc[q] \in Handling, pc'[q] # "idle", target[q] \notin met
    PROVE  /\ rows'[target[q]] = rows[target[q]] /\ target'[q] = target[q]
           /\ Status(target[q])' = Status(target[q])
<1>. USE DEF BaseInv, TypeOK, Handling
<1>1. target[q] \in Suggestion /\ rows[target[q]] # None
  BY DEF HeldOK
<1>2. ASSUME NEW s \in Suggestion, NEW c \in Command, Generate(s, c)
      PROVE  rows'[target[q]] = rows[target[q]] /\ target'[q] = target[q]
  BY <1>1, <1>2 DEF Generate, locals
<1>3. ASSUME NEW r \in Req, Start(r) \/ RunSuggested(r) \/ RunDirect(r) \/ SettleDirect(r)
                            \/ Abort(r)
      PROVE  rows' = rows /\ target'[q] = target[q]
  BY <1>3
  DEF Start, ReadToApprove, ReadToReject, ReadToExecute, BeginDirect, BeginOn, Begin,
      RunSuggested, RunDirect, SettleDirect, Abort, End, tables
<1>4. ASSUME NEW r \in Req, Approve(r) \/ Reject(r) \/ RecordResult(r)
      PROVE  rows'[target[q]] = rows[target[q]] /\ target'[q] = target[q]
  <2>1. r # q
    BY <1>4 DEF Approve, Reject, RecordResult, End
  <2>2. target[r] # target[q]
    BY <1>4, <2>1 DEF Approve, Reject, RecordResult, AloneOn
  <2>3. QED
    BY <1>1, <1>4, <2>1, <2>2 DEF Approve, Reject, RecordResult, End
<1>5. QED
  BY <1>1, <1>2, <1>3, <1>4 DEF Next, Continue, Status, vars

LEMMA StepReadStillTrue == ASSUME QuietInv, [Next]_vars PROVE ReadStillTrue'
<1>. USE DEF QuietInv, BaseInv, TypeOK, Handling
<1>. SUFFICES ASSUME NEW q \in Req, target'[q] \notin met'
              PROVE  /\ pc'[q] \in {"approve", "reject"} => Status(target[q])' = "pending"
                     /\ pc'[q] \in {"ssh", "record"} => Status(target[q])' = "approved"
  BY DEF ReadStillTrue
<1>1. CASE pc[q] \in Handling /\ pc'[q] \in Handling
  <2>1. target'[q] = target[q]
    <3>1. CASE UNCHANGED <<locals, mishaps>>
      BY <3>1 DEF locals
    <3>2. ASSUME NEW r \in Req, Acts(r), \A x \in Req : x # r => Still(x)
          PROVE  target'[q] = target[q]
      <4>1. CASE q = r
        BY <1>1, <3>2, <4>1, Arrives
      <4>2. CASE q # r
        BY <3>2, <4>2 DEF Still
      <4>3. QED
        BY <4>1, <4>2
    <3>3. QED
      BY <3>1, <3>2, OneMoves
  <2>2. Status(target[q])' = Status(target[q]) /\ target[q] \notin met
    BY <1>1, <2>1, RowsWait, MishapsStay
  <2>3. pc'[q] = pc[q] \/ (pc[q] = "ssh" /\ pc'[q] = "record")
    <3>1. ASSUME NEW r \in Req, Start(r) PROVE pc'[q] = pc[q]
      BY <1>1, <3>1
      DEF Start, ReadToApprove, ReadToReject, ReadToExecute, BeginDirect, BeginOn, Begin
    <3>2. ASSUME NEW r \in Req, Continue(r) \/ Abort(r)
          PROVE  pc'[q] = pc[q] \/ (pc[q] = "ssh" /\ pc'[q] = "record")
      BY <1>1, <3>2
      DEF Continue, Approve, Reject, RunSuggested, RecordResult, RunDirect,
          SettleDirect, Abort, End
    <3>3. QED
      BY <3>1, <3>2 DEF Next, Generate, locals, vars
  <2>4. QED
    BY <1>1, <2>2, <2>3 DEF ReadStillTrue
<1>2. CASE pc[q] \notin Handling /\ pc'[q] \in Handling
  <2>1. PICK r \in Req : Acts(r) /\ \A x \in Req : x # r => Still(x)
    BY <1>2, OneMoves DEF locals
  <2>2. r = q
    BY <1>2, <2>1 DEF Still
  <2>3. Start(q)
    BY <1>2, <2>1, <2>2
    DEF Acts, Continue, Approve, Reject, RunSuggested, RecordResult, RunDirect,
        SettleDirect, Abort, End
  <2>4. PICK s \in Suggestion :
           /\ rows' = rows /\ target'[q] = s
           /\ pc'[q] \in {"approve", "reject"} => Status(s) = "pending"
           /\ pc'[q] \in {"ssh", "record"} => Status(s) = "approved"
    BY <1>2, <2>3
    DEF Start, ReadToApprove, ReadToReject, ReadToExecute, BeginDirect, BeginOn, Begin, tables
  <2>5. Status(target[q])' = Status(s)
    BY <2>4 DEF Status
  <2>6. QED
    BY <2>4, <2>5
<1>3. QED
  BY <1>1, <1>2

LEMMA StepQuiet == QuietInv /\ [Next]_vars => QuietInv'
BY StepBase, StepAloneOn, StepReadStillTrue DEF QuietInv

-----------------------------------------------------------------------------
\* What ran is over, or its request is about to say so.
RanIsOver ==
    \A s \in Suggestion : runs[s] # <<>> /\ ~Disturbed(s) =>
        \/ Status(s) \in Outcome
        \/ \E r \in Req : pc[r] = "record" /\ target[r] = s

LEMMA StepRanIsOver == ASSUME QuietInv, RanIsOver, [Next]_vars PROVE RanIsOver'
<1>. USE DEF QuietInv, BaseInv, TypeOK, Handling
<1>. DEFINE Recording(s) == \E r \in Req : pc[r] = "record" /\ target[r] = s
<1>. SUFFICES ASSUME NEW s \in Suggestion, runs'[s] # <<>>, ~Disturbed(s)'
              PROVE  Status(s)' \in Outcome \/ Recording(s)'
  BY DEF RanIsOver
<1>0. ~Disturbed(s)
  BY MishapsStay DEF Disturbed
<1>1. ASSUME runs'[s] = runs[s], rows'[s] = rows[s],
             \A q \in Req : pc[q] = "record" /\ target[q] = s =>
                               pc'[q] = "record" /\ target'[q] = s
      PROVE  Status(s)' \in Outcome \/ Recording(s)'
  BY <1>0, <1>1 DEF RanIsOver, Status
<1>2. ASSUME NEW r \in Req, RunSuggested(r) PROVE Status(s)' \in Outcome \/ Recording(s)'
  <2>1. CASE target[r] = s
    BY <1>2, <2>1 DEF RunSuggested
  <2>2. CASE target[r] # s
    BY <1>1, <1>2, <2>2 DEF RunSuggested, tables
  <2>3. QED
    BY <2>1, <2>2
<1>3. ASSUME NEW r \in Req, RecordResult(r) PROVE Status(s)' \in Outcome \/ Recording(s)'
  <2>1. CASE target[r] = s
    <3>1. rows[s] \in SuggestionRow /\ result[r] \in Outcome
      BY <1>3, <2>1 DEF RecordResult, HeldOK
    <3>2. rows'[s] = [rows[s] EXCEPT !.status = result[r], !.executed = TRUE]
      BY <1>3, <2>1 DEF RecordResult
    <3>3. rows'[s] \in SuggestionRow /\ rows'[s].status = result[r]
      BY <3>1, <3>2 DEF SuggestionRow, Outcome
    <3>4. QED
      BY <3>1, <3>3, RemediationAssumption DEF Status
  <2>2. CASE target[r] # s
    BY <1>1, <1>3, <2>2 DEF RecordResult, End, history, deeds
  <2>3. QED
    BY <2>1, <2>2
<1>4. ASSUME NEW r \in Req, Approve(r) \/ Reject(r)
      PROVE  Status(s)' \in Outcome \/ Recording(s)'
  <2>1. CASE target[r] = s
    <3>1. Status(s) = "pending" /\ pc[r] \in {"approve", "reject"}
      BY <1>0, <1>4, <2>1 DEF Approve, Reject, ReadStillTrue, Disturbed
    <3>2. \A q \in Req : ~(pc[q] = "record" /\ target[q] = s)
      BY <1>0, <2>1, <3>1 DEF AloneOn, Disturbed
    <3>3. runs'[s] = runs[s]
      BY <1>4 DEF Approve, Reject, history, deeds
    <3>4. QED
      BY <1>0, <3>1, <3>2, <3>3 DEF RanIsOver, Outcome
  <2>2. CASE target[r] # s
    BY <1>1, <1>4, <2>2 DEF Approve, Reject, End, history, deeds
  <2>3. QED
    BY <2>1, <2>2
<1>5. ASSUME NEW t \in Suggestion, NEW c \in Command, Generate(t, c)
      PROVE  Status(s)' \in Outcome \/ Recording(s)'
  <2>1. CASE t = s
    <3>1. \A q \in Req : ~(pc[q] = "record" /\ target[q] = s)
      BY <1>5, <2>1 DEF Generate, HeldOK
    <3>2. Status(s) = "absent" /\ runs'[s] = runs[s]
      BY <1>5, <2>1 DEF Generate, Status, history, deeds
    <3>3. QED
      BY <1>0, <3>1, <3>2 DEF RanIsOver, Outcome
  <2>2. CASE t # s
    BY <1>1, <1>5, <2>2 DEF Generate, history, deeds, locals
  <2>3. QED
    BY <2>1, <2>2
<1>6. ASSUME NEW r \in Req, Start(r) \/ RunDirect(r) \/ SettleDirect(r)
      PROVE  Status(s)' \in Outcome \/ Recording(s)'
  BY <1>1, <1>6
  DEF Start, ReadToApprove, ReadToReject, ReadToExecute, BeginDirect, BeginOn, Begin,
      RunDirect, SettleDirect, End, tables, history, deeds
<1>7. ASSUME NEW r \in Req, Abort(r) PROVE Status(s)' \in Outcome \/ Recording(s)'
  <2>1. ~(pc[r] = "record" /\ target[r] = s)
    BY <1>7 DEF Abort, Disturbed
  <2>2. QED
    BY <1>1, <1>7, <2>1 DEF Abort, End, tables, deeds
<1>8. CASE UNCHANGED vars
  BY <1>1, <1>8 DEF vars
<1>9. QED
  BY <1>2, <1>3, <1>4, <1>5, <1>6, <1>7, <1>8 DEF Next, Continue

-----------------------------------------------------------------------------
\* What ran is in the row, or the request that ran it is about to put it there.
Recorded(s) ==
    \/ rows[s] # None /\ rows[s].executed = TRUE
    \/ \E r \in Req : pc[r] = "record" /\ target[r] = s
    \/ s \in unrecorded

RanIsRecorded == \A s \in Suggestion : runs[s] # <<>> => Recorded(s)

\* A row that says that its command ran goes on to say so.
LEMMA ExecutedStays ==
    ASSUME BaseInv, [Next]_vars, NEW s \in Suggestion, rows[s] # None, rows[s].executed = TRUE
    PROVE  rows'[s] # None /\ rows'[s].executed = TRUE
<1>. USE DEF BaseInv, TypeOK
<1>1. rows'[s] # None
  BY NothingIsLost
<1>2. rows[s] \in SuggestionRow
  OBVIOUS
<1>3. CASE rows'[s] = rows[s]
  BY <1>1, <1>3
<1>4. ASSUME NEW r \in Req, Approve(r) \/ Reject(r) \/ RecordResult(r), rows'[s] # rows[s]
      PROVE  rows'[s].executed = TRUE
  <2>1. CASE Approve(r)
    <3>1. rows'[s] = [rows[s] EXCEPT !.status = "approved", !.command = cmd[r],
                                     !.approved_by = r]
      BY <1>4, <2>1 DEF Approve
    <3>2. QED
      BY <1>2, <3>1 DEF SuggestionRow
  <2>2. CASE Reject(r)
    <3>1. rows'[s] = [rows[s] EXCEPT !.status = "rejected"]
      BY <1>4, <2>2 DEF Reject
    <3>2. QED
      BY <1>2, <3>1 DEF SuggestionRow
  <2>3. CASE RecordResult(r)
    <3>1. rows'[s] = [rows[s] EXCEPT !.status = result[r], !.executed = TRUE]
      BY <1>4, <2>3 DEF RecordResult
    <3>2. QED
      BY <1>2, <3>1 DEF SuggestionRow
  <2>4. QED
    BY <1>4, <2>1, <2>2, <2>3
<1>5. ASSUME NEW t \in Suggestion, NEW c \in Command, Generate(t, c), rows'[s] # rows[s]
      PROVE  FALSE
  BY <1>5 DEF Generate
<1>6. QED
  BY <1>1, <1>3, <1>4, <1>5
  DEF Next, Start, Continue, ReadToApprove, ReadToReject, ReadToExecute, BeginDirect,
      RunSuggested, RunDirect, SettleDirect, Abort, BeginOn, tables, vars

\* A request that ran a command stays until it has recorded it, or dies over it.
LEMMA RecordingStays ==
    ASSUME BaseInv, [Next]_vars, NEW r \in Req, pc[r] = "record"
    PROVE  \/ pc'[r] = "record" /\ target'[r] = target[r]
           \/ rows'[target[r]] # None /\ rows'[target[r]].executed = TRUE
           \/ target[r] \in unrecorded'
<1>. USE DEF BaseInv, TypeOK
<1>1. /\ target[r] \in Suggestion /\ result[r] \in Outcome
      /\ rows[target[r]] # None /\ rows[target[r]] \in SuggestionRow
  BY DEF HeldOK
<1>2. CASE RecordResult(r)
  <2>1. rows'[target[r]] # None
    BY <1>1, NothingIsLost
  <2>2. rows'[target[r]] = [rows[target[r]] EXCEPT !.status = result[r], !.executed = TRUE]
    BY <1>1, <1>2 DEF RecordResult
  <2>3. rows'[target[r]].executed = TRUE
    BY <1>1, <2>2 DEF SuggestionRow
  <2>4. QED
    BY <2>1, <2>3
<1>3. ASSUME NEW q \in Req, Start(q) PROVE pc'[r] = "record" /\ target'[r] = target[r]
  BY <1>3 DEF Start, ReadToApprove, ReadToReject, ReadToExecute, BeginDirect, BeginOn, Begin
<1>4. ASSUME NEW q \in Req, Continue(q), ~RecordResult(r)
      PROVE  pc'[r] = "record" /\ target'[r] = target[r]
  BY <1>4
  DEF Continue, Approve, Reject, RunSuggested, RecordResult, RunDirect, SettleDirect, End
<1>5. ASSUME NEW q \in Req, Abort(q)
      PROVE  \/ pc'[r] = "record" /\ target'[r] = target[r]
             \/ target[r] \in unrecorded'
  BY <1>5 DEF Abort, End
<1>6. QED
  BY <1>2, <1>3, <1>4, <1>5 DEF Next, Generate, locals, vars

\* Whatever overlaps and fails, what a suggestion ran is recorded, but for the request
\* that fails or dies between its command and its UPDATE (assistant.py:112-118).
THEOREM ResultsAreStored == Spec => []RunsAreRecorded
<1>1. Init => RanIsRecorded
  BY DEF Init, RanIsRecorded
<1>2. BaseInv /\ RanIsRecorded /\ [Next]_vars => RanIsRecorded'
  <2>. SUFFICES ASSUME BaseInv, RanIsRecorded, [Next]_vars, NEW s \in Suggestion,
                       runs'[s] # <<>>
                PROVE  Recorded(s)'
    BY DEF RanIsRecorded
  <2>1. CASE Recorded(s)
    <3>1. CASE rows[s] # None /\ rows[s].executed = TRUE
      BY <3>1, ExecutedStays DEF Recorded
    <3>2. ASSUME NEW r \in Req, pc[r] = "record", target[r] = s PROVE Recorded(s)'
      BY <3>2, RecordingStays DEF Recorded
    <3>3. CASE s \in unrecorded
      BY <3>3, MishapsStay DEF Recorded
    <3>4. QED
      BY <2>1, <3>1, <3>2, <3>3 DEF Recorded
  <2>2. CASE ~Recorded(s)
    <3>1. runs'[s] # runs[s]
      BY <2>2 DEF RanIsRecorded
    <3>2. PICK r \in Req : RunSuggested(r)
      BY <3>1
      DEF Next, Start, Continue, Generate, ReadToApprove, ReadToReject, ReadToExecute,
          BeginOn, BeginDirect, Approve, Reject, RecordResult, RunDirect, SettleDirect,
          Abort, history, deeds, vars
    <3>3. target[r] = s /\ pc'[r] = "record" /\ target'[r] = target[r]
      BY <3>1, <3>2 DEF RunSuggested, BaseInv, TypeOK
    <3>4. QED
      BY <3>3 DEF Recorded
  <2>3. QED
    BY <2>1, <2>2
<1>3. RanIsRecorded => RunsAreRecorded
  BY DEF RanIsRecorded, Recorded, RunsAreRecorded
<1>4. QED
  BY <1>1, <1>2, <1>3, BaseInvariance, PTL DEF Spec

-----------------------------------------------------------------------------
\* Row s names the approval it is executed by; command c of s has run.
Signed(s) == <<s, rows[s].command, rows[s].approved_by>> \in approvals
Ran(s, c) == \E i \in DOMAIN runs[s] : runs[s][i] = c

\* A request that executes a suggestion holds the command of its row, and has run
\* it when it is about to record a success.
RunsTheRow ==
    \A r \in Req : target[r] \notin met =>
        /\ pc[r] \in {"ssh", "record"} => cmd[r] = rows[target[r]].command
        /\ pc[r] = "record" /\ result[r] = "completed" => Ran(target[r], cmd[r])

RowsTell ==
    \A s \in Suggestion \ met :
        /\ Status(s) \in {"approved", "completed"} => Signed(s)
        /\ Status(s) = "completed" => Ran(s, rows[s].command)

TellInv == QuietInv /\ RunsTheRow /\ RowsTell

\* What ran remains among what ran.
LEMMA RanStays == ASSUME BaseInv, [Next]_vars, NEW s \in Suggestion, NEW c, Ran(s, c)
                  PROVE  Ran(s, c)'
<1>. USE DEF BaseInv, TypeOK
<1>1. CASE runs'[s] = runs[s]
  BY <1>1 DEF Ran
<1>2. ASSUME NEW r \in Req, RunSuggested(r), runs'[s] # runs[s] PROVE Ran(s, c)'
  <2>1. /\ target[r] = s /\ runs'[s] = Append(runs[s], cmd[r])
        /\ runs[s] \in Seq(Command) /\ cmd[r] \in Command
    BY <1>2 DEF RunSuggested, HeldOK
  <2>2. \A i \in DOMAIN runs[s] : i \in DOMAIN runs'[s] /\ runs'[s][i] = runs[s][i]
    BY <2>1
  <2>3. QED
    BY <2>2 DEF Ran
<1>3. QED
  BY <1>1, <1>2
  DEF Next, Start, Continue, Generate, ReadToApprove, ReadToReject, ReadToExecute,
      BeginOn, BeginDirect, Approve, Reject, RecordResult, RunDirect, SettleDirect,
      Abort, history, deeds, vars

\* What is said of row s stays true while the row does.
LEMMA RowTellsOn ==
    ASSUME BaseInv, RowsTell, [Next]_vars, NEW s \in Suggestion \ met, rows'[s] = rows[s]
    PROVE  /\ Status(s)' \in {"approved", "completed"} => Signed(s)'
           /\ Status(s)' = "completed" => Ran(s, rows[s].command)'
<1>1. Status(s)' = Status(s)
  BY DEF Status
<1>2. Signed(s) => Signed(s)'
  BY NothingIsLost DEF Signed
<1>3. Ran(s, rows[s].command) => Ran(s, rows[s].command)'
  <2>. DEFINE c == rows[s].command
  <2>1. c' = c
    OBVIOUS
  <2>2. Ran(s, c) => \E i \in DOMAIN runs'[s] : runs'[s][i] = c
    BY RanStays DEF Ran
  <2>3. QED
    BY <2>1, <2>2 DEF Ran
<1>4. QED
  BY <1>1, <1>2, <1>3 DEF RowsTell

\* A completed row: its request ran the command that the row still has.
LEMMA StepRowsTell == ASSUME TellInv, [Next]_vars PROVE RowsTell'
<1>. USE DEF TellInv, QuietInv, BaseInv, TypeOK
<1>. SUFFICES ASSUME NEW s \in Suggestion, s \notin met'
              PROVE  /\ Status(s)' \in {"approved", "completed"} => Signed(s)'
                     /\ Status(s)' = "completed" => Ran(s, rows[s].command)'
  BY DEF RowsTell
<1>0. s \notin met
  BY MishapsStay
<1>1. CASE rows'[s] = rows[s]
  BY <1>0, <1>1, RowTellsOn
<1>2. ASSUME NEW t \in Suggestion, NEW c \in Command, Generate(t, c), rows'[s] # rows[s]
      PROVE  Status(s)' \in {"absent", "pending"}
  BY <1>2 DEF Generate, Status
<1>3. ASSUME NEW r \in Req, Reject(r), rows'[s] # rows[s]
      PROVE  Status(s)' \in {"absent", "rejected"}
  <2>1. target[r] = s /\ rows[s] \in SuggestionRow
    BY <1>3 DEF Reject, HeldOK
  <2>2. rows'[s].status = "rejected"
    BY <1>3, <2>1 DEF Reject, SuggestionRow
  <2>3. QED
    BY <2>2 DEF Status
<1>4. ASSUME NEW r \in Req, Approve(r), rows'[s] # rows[s]
      PROVE  Status(s)' \in {"absent", "approved"} /\ Signed(s)'
  <2>1. target[r] = s /\ rows[s] \in SuggestionRow /\ cmd[r] \in Command
    BY <1>4 DEF Approve, HeldOK
  <2>2. rows'[s].status = "approved" /\ rows'[s].command = cmd[r] /\ rows'[s].approved_by = r
    BY <1>4, <2>1 DEF Approve, SuggestionRow
  <2>3. <<s, cmd[r], r>> \in approvals'
    BY <1>4, <2>1 DEF Approve
  <2>4. QED
    BY <2>2, <2>3 DEF Status, Signed
<1>5. ASSUME NEW r \in Req, RecordResult(r), rows'[s] # rows[s]
      PROVE  Signed(s)' /\ (Status(s)' = "completed" => Ran(s, rows[s].command)')
  <2>1. /\ target[r] = s /\ pc[r] = "record" /\ rows[s] # None /\ rows[s] \in SuggestionRow
        /\ result[r] \in Outcome
    BY <1>5 DEF RecordResult, HeldOK
  <2>2. Signed(s)
    BY <1>0, <2>1 DEF ReadStillTrue, RowsTell
  <2>3. rows'[s] = [rows[s] EXCEPT !.status = result[r], !.executed = TRUE]
    BY <1>5, <2>1 DEF RecordResult
  <2>4. /\ rows'[s].status = result[r] /\ rows'[s].command = rows[s].command
        /\ rows'[s].approved_by = rows[s].approved_by
    BY <2>1, <2>3 DEF SuggestionRow
  <2>5. Signed(s)'
    BY <2>2, <2>4, NothingIsLost DEF Signed
  <2>6. ASSUME Status(s)' = "completed" PROVE Ran(s, rows[s].command)'
    <3>1. result[r] = "completed"
      BY <2>4, <2>6 DEF Status
    <3>2. Ran(s, rows[s].command)
      BY <1>0, <2>1, <3>1 DEF RunsTheRow
    <3>3. runs' = runs
      BY <1>5 DEF RecordResult, history, deeds
    <3>4. QED
      BY <2>4, <3>2, <3>3 DEF Ran
  <2>7. QED
    BY <2>5, <2>6
<1>6. CASE rows'[s] # rows[s]
  BY <1>2, <1>3, <1>4, <1>5, <1>6
  DEF Next, Start, Continue, ReadToApprove, ReadToReject, ReadToExecute, BeginDirect,
      RunSuggested, RunDirect, SettleDirect, Abort, BeginOn, tables, vars
<1>7. QED
  BY <1>1, <1>6

\* A request executes the row as it read it, for nobody else is about it.
LEMMA StepRunsTheRow == ASSUME TellInv, [Next]_vars PROVE RunsTheRow'
<1>. USE DEF TellInv, QuietInv, BaseInv, TypeOK
<1>. DEFINE Tells(q) == target[q] \notin met =>
        /\ pc[q] \in {"ssh", "record"} => cmd[q] = rows[target[q]].command
        /\ pc[q] = "record" /\ result[q] = "completed" => Ran(target[q], cmd[q])
<1>1. ASSUME NEW q \in Req, Still(q) PROVE Tells(q)'
  <2>. USE DEF Still
  <2>0. target[q] \in met => target'[q] \in met'
    BY <1>1, MishapsStay
  <2>1. CASE pc[q] \in {"ssh", "record"} /\ target[q] \notin met
    <3>1. rows'[target[q]] = rows[target[q]] /\ target'[q] = target[q] /\ target[q] \in Suggestion
      BY <1>1, <2>1, RowsWait DEF HeldOK, Handling
    <3>2. Tells(q)
      BY <2>1 DEF RunsTheRow
    <3>3. Ran(target[q], cmd[q]) =>
             \E i \in DOMAIN runs'[target[q]] : runs'[target[q]][i] = cmd[q]
      BY <3>1, RanStays DEF Ran
    <3>4. pc[q] = "record" /\ result[q] = "completed" =>
             \E i \in DOMAIN runs'[target'[q]] : runs'[target'[q]][i] = cmd'[q]
      BY <1>1, <2>1, <3>1, <3>2, <3>3
    <3>5. cmd'[q] = rows'[target'[q]].command
      BY <1>1, <2>1, <3>1, <3>2
    <3>6. QED
      BY <1>1, <3>4, <3>5 DEF Ran
  <2>2. CASE pc[q] \notin {"ssh", "record"} \/ target[q] \in met
    BY <1>1, <2>0, <2>2
  <2>3. QED
    BY <2>1, <2>2
<1>2. ASSUME NEW r \in Req, Start(r), NEW q \in Req PROVE Tells(q)'
  <2>1. CASE q # r
    BY <1>1, <1>2, <2>1
    DEF Start, ReadToApprove, ReadToReject, ReadToExecute, BeginDirect, BeginOn, Begin, Still
  <2>2. CASE q = r /\ ReadToExecute(r)
    <3>1. PICK s \in Suggestion : BeginOn(r, "ssh", s, rows[s].command)
      BY <2>2 DEF ReadToExecute
    <3>2. pc'[r] = "ssh" /\ target'[r] = s /\ cmd'[r] = rows[s].command /\ rows' = rows
      BY <2>2, <3>1 DEF Begin, BeginOn, tables
    <3>3. QED
      BY <2>2, <3>2
  <2>3. CASE q = r /\ ~ReadToExecute(r)
    BY <1>2, <2>3 DEF Start, ReadToApprove, ReadToReject, BeginDirect, BeginOn, Begin, Still
  <2>4. QED
    BY <2>1, <2>2, <2>3
<1>3. ASSUME NEW r \in Req, Continue(r) \/ Abort(r), NEW q \in Req PROVE Tells(q)'
  <2>1. CASE q # r
    BY <1>1, <1>3, <2>1
    DEF Continue, Approve, Reject, RunSuggested, RecordResult, RunDirect, SettleDirect,
        Abort, End, Still
  <2>2. CASE q = r /\ RunSuggested(r)
    <3>1. /\ target[r] \in Suggestion /\ cmd[r] \in Command /\ runs[target[r]] \in Seq(Command)
          /\ target[r] \notin met => cmd[r] = rows[target[r]].command
      BY <2>2 DEF RunSuggested, HeldOK, RunsTheRow
    <3>2. pc'[r] = "record" /\ UNCHANGED <<rows, target, cmd, met>>
      BY <2>2 DEF RunSuggested, tables, mishaps
    <3>3. \/ result'[r] = "failed"
          \/ runs'[target[r]] = Append(runs[target[r]], cmd[r])
      BY <2>2, <3>1 DEF RunSuggested
    <3>4. runs'[target[r]] = Append(runs[target[r]], cmd[r])
            => \E i \in DOMAIN runs'[target[r]] : runs'[target[r]][i] = cmd[r]
      <4>1. Len(runs[target[r]]) + 1 \in DOMAIN Append(runs[target[r]], cmd[r])
        BY <3>1
      <4>2. Append(runs[target[r]], cmd[r])[Len(runs[target[r]]) + 1] = cmd[r]
        BY <3>1
      <4>3. QED
        BY <4>1, <4>2
    <3>5. QED
      BY <2>2, <3>1, <3>2, <3>3, <3>4 DEF Ran
  <2>3. CASE q = r /\ ~RunSuggested(r)
    BY <1>3, <2>3
    DEF Continue, Approve, Reject, RecordResult, RunDirect, SettleDirect, Abort, End
  <2>4. QED
    BY <2>1, <2>2, <2>3
<1>4. ASSUME UNCHANGED locals, NEW q \in Req PROVE Tells(q)'
  BY <1>1, <1>4 DEF locals, Still
<1>5. \A q \in Req : Tells(q)'
  BY <1>2, <1>3, <1>4 DEF Next, Generate, locals, vars
<1>6. QED
  BY <1>5 DEF RunsTheRow

LEMMA TellInvariance == Spec => []TellInv
<1>1. Init => TellInv
  BY InitBase
  DEF Init, TellInv, QuietInv, AloneOn, ReadStillTrue, RunsTheRow, RowsTell, Status, Handling
<1>2. TellInv /\ [Next]_vars => TellInv'
  BY StepQuiet, StepRowsTell, StepRunsTheRow DEF TellInv
<1>3. QED
  BY <1>1, <1>2, PTL DEF Spec

\* Unless two requests met over it, a completed row names a command that ran and the
\* user who approved it, whatever else overlaps and fails (assistant.py:88, 112-118).
THEOREM CompletedRowsTellTheTruth == Spec => []RecordTellsWhatRan
<1>1. TellInv => RecordTellsWhatRan
  BY DEF TellInv, RowsTell, Signed, Ran, RecordTellsWhatRan, TellsWhatRan
<1>2. QED
  BY <1>1, TellInvariance, PTL


-----------------------------------------------------------------------------
\* The refinement of SuggestionLife: what its variables stand for.
StateOf(s) == IF Disturbed(s) THEN "disturbed" ELSE Status(s)
CommandOf(s) == IF Disturbed(s) THEN None ELSE Proposed(s)
RunsOf(s) == IF Disturbed(s) THEN <<>> ELSE runs[s]
States == [s \in Suggestion |-> StateOf(s)]
Commands == [s \in Suggestion |-> CommandOf(s)]
Runs == [s \in Suggestion |-> RunsOf(s)]

Rests(s) == StateOf(s)' = StateOf(s) /\ CommandOf(s)' = CommandOf(s) /\ RunsOf(s)' = RunsOf(s)

LEMMA LifeRests ==
    ASSUME \A s \in Suggestion : Rests(s)
    PROVE  UNCHANGED <<States, Commands, Runs>>
BY DEF Rests, States, Commands, Runs

\* A step moves one suggestion.
LEMMA OneLife ==
    ASSUME NEW s \in Suggestion, \A t \in Suggestion \ {s} : Rests(t),
           NEW l, NEW c, NEW h, StateOf(s)' = l, CommandOf(s)' = c, RunsOf(s)' = h
    PROVE  /\ States' = [States EXCEPT ![s] = l]
           /\ Commands' = [Commands EXCEPT ![s] = c]
           /\ Runs' = [Runs EXCEPT ![s] = h]
BY DEF Rests, States, Commands, Runs

LEMMA SameCommand ==
    ASSUME NEW s \in Suggestion, \A t \in Suggestion \ {s} : Rests(t),
           CommandOf(s)' = CommandOf(s)
    PROVE  Commands' = Commands
BY DEF Rests, Commands

LEMMA SameRuns ==
    ASSUME NEW s \in Suggestion, \A t \in Suggestion \ {s} : Rests(t), RunsOf(s)' = RunsOf(s)
    PROVE  Runs' = Runs
BY DEF Rests, Runs

\* A suggestion that nothing was written about is where it was.
LEMMA RowRests ==
    ASSUME NEW s \in Suggestion, rows'[s] = rows[s], runs'[s] = runs[s],
           Disturbed(s)' = Disturbed(s)
    PROVE  Rests(s)
BY DEF Rests, StateOf, CommandOf, RunsOf, Status, Proposed

\* So is one that was disturbed before.
LEMMA DisturbedRests ==
    ASSUME NEW s \in Suggestion, Disturbed(s), [Next]_vars
    PROVE  Rests(s)
<1>1. Disturbed(s)'
  BY MishapsStay DEF Disturbed
<1>2. QED
  BY <1>1 DEF Rests, StateOf, CommandOf, RunsOf

\* The columns of a row that is there.
LEMMA RowColumns ==
    ASSUME NEW s \in Suggestion, rows[s] \in SuggestionRow, ~Disturbed(s)
    PROVE  /\ Status(s) = rows[s].status
           /\ StateOf(s) = rows[s].status /\ CommandOf(s) = rows[s].command
           /\ RunsOf(s) = runs[s]
BY RemediationAssumption DEF Status, Proposed, StateOf, CommandOf, RunsOf

LEMMA RowColumnsNext ==
    ASSUME NEW s \in Suggestion, rows'[s] \in SuggestionRow, ~Disturbed(s)'
    PROVE  /\ StateOf(s)' = rows'[s].status /\ CommandOf(s)' = rows'[s].command
           /\ RunsOf(s)' = runs'[s]
BY RemediationAssumption DEF Status, Proposed, StateOf, CommandOf, RunsOf

\* A suggestion is disturbed, or another time.
LEMMA DisturbanceEndsLife ==
    ASSUME BaseInv, [Next]_vars, NEW s \in Suggestion, rows[s] # None, UNCHANGED <<rows, runs>>,
           Disturbed(s)', \A t \in Suggestion \ {s} : Disturbed(t)' = Disturbed(t)
    PROVE  Life!Next \/ UNCHANGED <<States, Commands, Runs>>
<1>1. \A t \in Suggestion \ {s} : Rests(t)
  BY RowRests
<1>2. CASE Disturbed(s)
  <2>1. Rests(s)
    BY <1>2, DisturbedRests
  <2>2. QED
    BY <1>1, <2>1, LifeRests
<1>3. CASE ~Disturbed(s)
  <2>1. rows[s] \in SuggestionRow
    BY DEF BaseInv, TypeOK
  <2>2. States[s] \notin {"absent", "disturbed"}
    BY <1>3, <2>1, RowColumns DEF States, SuggestionRow
  <2>3. StateOf(s)' = "disturbed" /\ CommandOf(s)' = None /\ RunsOf(s)' = <<>>
    BY DEF StateOf, CommandOf, RunsOf
  <2>4. /\ States' = [States EXCEPT ![s] = "disturbed"]
        /\ Commands' = [Commands EXCEPT ![s] = None]
        /\ Runs' = [Runs EXCEPT ![s] = <<>>]
    BY <1>1, <2>3, OneLife
  <2>5. Life!Disturb(s)
    BY <2>2, <2>4
    DEF Life!Disturb, States, Commands, Runs, StateOf, CommandOf, RunsOf
  <2>6. QED
    BY <2>5 DEF Life!Next
<1>4. QED
  BY <1>2, <1>3

\* The statements that write the row of a suggestion nothing disturbed, one by one.
LEMMA WritesMoveLife ==
    ASSUME TellInv, [Next]_vars, NEW r \in Req, Approve(r) \/ Reject(r) \/ RecordResult(r),
           ~Disturbed(target[r])
    PROVE  Life!Next
<1>. USE DEF TellInv, QuietInv, BaseInv, TypeOK
<1>1. PICK s \in Suggestion : s = target[r] /\ rows[s] \in SuggestionRow
  BY DEF HeldOK, Approve, Reject, RecordResult
<1>2. /\ \A t \in Suggestion \ {s} : rows'[t] = rows[t]
      /\ UNCHANGED <<runs, mishaps>>
  BY <1>1 DEF Approve, Reject, RecordResult, history, deeds, mishaps
<1>3. \A t \in Suggestion \ {s} : Rests(t)
  BY <1>2, RowRests DEF Disturbed, mishaps
<1>4. ~Disturbed(s) /\ ~Disturbed(s)' /\ s \notin met
  BY <1>1, <1>2 DEF Disturbed, mishaps
<1>5. /\ Status(s) = rows[s].status /\ States[s] = Status(s)
      /\ CommandOf(s) = rows[s].command /\ RunsOf(s) = runs[s] /\ Runs[s] = runs[s]
  BY <1>1, <1>4, RowColumns DEF States, Runs
<1>6. CASE Approve(r)
  <2>1. cmd[r] \in Command /\ Status(s) = "pending"
    BY <1>1, <1>4, <1>6 DEF Approve, HeldOK, ReadStillTrue
  <2>2. rows'[s] = [rows[s] EXCEPT !.status = "approved", !.command = cmd[r],
                                   !.approved_by = r]
    BY <1>1, <1>6 DEF Approve
  <2>3. /\ rows'[s] \in SuggestionRow
        /\ rows'[s].status = "approved" /\ rows'[s].command = cmd[r]
    BY <1>1, <2>1, <2>2 DEF SuggestionRow
  <2>4. StateOf(s)' = "approved" /\ CommandOf(s)' = cmd[r] /\ RunsOf(s)' = RunsOf(s)
    BY <1>2, <1>4, <1>5, <2>3, RowColumnsNext
  <2>5. /\ States' = [States EXCEPT ![s] = "approved"]
        /\ Commands' = [Commands EXCEPT ![s] = cmd[r]]
        /\ Runs' = Runs
    BY <1>3, <2>4, OneLife, SameRuns
  <2>6. Life!Approve(s, cmd[r])
    BY <1>5, <2>1, <2>5
    DEF Life!Approve, Life!Move, States, Commands, Runs, StateOf, CommandOf, RunsOf
  <2>7. QED
    BY <1>1, <2>1, <2>6 DEF Life!Next
<1>7. CASE Reject(r)
  <2>1. Status(s) = "pending"
    BY <1>1, <1>4, <1>7 DEF Reject, ReadStillTrue
  <2>2. rows'[s] = [rows[s] EXCEPT !.status = "rejected"]
    BY <1>1, <1>7 DEF Reject
  <2>3. /\ rows'[s] \in SuggestionRow
        /\ rows'[s].status = "rejected" /\ rows'[s].command = rows[s].command
    BY <1>1, <2>2 DEF SuggestionRow
  <2>4. StateOf(s)' = "rejected" /\ CommandOf(s)' = CommandOf(s) /\ RunsOf(s)' = RunsOf(s)
    BY <1>2, <1>4, <1>5, <2>3, RowColumnsNext
  <2>5. States' = [States EXCEPT ![s] = "rejected"] /\ Commands' = Commands /\ Runs' = Runs
    BY <1>3, <2>4, OneLife, SameCommand, SameRuns
  <2>6. Life!Reject(s)
    BY <1>5, <2>1, <2>5
    DEF Life!Reject, Life!Move, States, Commands, Runs, StateOf, CommandOf, RunsOf
  <2>7. QED
    BY <1>1, <2>6 DEF Life!Next
<1>8. CASE RecordResult(r)
  <2>1. Status(s) = "approved" /\ result[r] \in Outcome
    BY <1>1, <1>4, <1>8 DEF RecordResult, ReadStillTrue, HeldOK
  <2>2. rows'[s] = [rows[s] EXCEPT !.status = result[r], !.executed = TRUE]
    BY <1>1, <1>8 DEF RecordResult
  <2>3. /\ rows'[s] \in SuggestionRow
        /\ rows'[s].status = result[r] /\ rows'[s].command = rows[s].command
    BY <1>1, <2>1, <2>2 DEF SuggestionRow, Outcome
  <2>4. StateOf(s)' = result[r] /\ CommandOf(s)' = CommandOf(s) /\ RunsOf(s)' = RunsOf(s)
    BY <1>2, <1>4, <1>5, <2>3, RowColumnsNext
  <2>5. States' = [States EXCEPT ![s] = result[r]] /\ Commands' = Commands /\ Runs' = Runs
    BY <1>3, <2>4, OneLife, SameCommand, SameRuns
  <2>6. CASE result[r] = "failed"
    <3>1. Life!Fail(s)
      BY <1>5, <2>1, <2>5, <2>6
      DEF Life!Fail, Life!Move, States, Commands, Runs, StateOf, CommandOf, RunsOf
    <3>2. QED
      BY <1>1, <3>1 DEF Life!Next
  <2>7. CASE result[r] = "completed"
    <3>1. Ran(s, cmd[r])
      BY <1>1, <1>4, <1>8, <2>7 DEF RecordResult, RunsTheRow
    <3>2. Runs[s] # <<>>
      BY <1>5, <3>1 DEF Ran
    <3>3. Life!Complete(s)
      BY <1>5, <2>1, <2>5, <2>7, <3>2
      DEF Life!Complete, Life!Move, States, Commands, Runs, StateOf, CommandOf, RunsOf
    <3>4. QED
      BY <1>1, <3>3 DEF Life!Next
  <2>8. QED
    BY <2>1, <2>6, <2>7 DEF Outcome
<1>9. QED
  BY <1>6, <1>7, <1>8

LEMMA GenerationMovesLife ==
    ASSUME BaseInv, NEW s \in Suggestion, NEW c \in Command, Generate(s, c), ~Disturbed(s)
    PROVE  Life!Next
<1>. USE DEF BaseInv, TypeOK
<1>1. /\ \A t \in Suggestion \ {s} : rows'[t] = rows[t]
      /\ rows[s] = None /\ UNCHANGED <<runs, mishaps>>
  BY DEF Generate, history, deeds, mishaps
<1>2. \A t \in Suggestion \ {s} : Rests(t)
  BY <1>1, RowRests DEF Disturbed, mishaps
<1>3. rows'[s] = [status |-> "pending", command |-> c, approved_by |-> None,
                  executed |-> FALSE]
  BY DEF Generate
<1>4. rows'[s] \in SuggestionRow /\ rows'[s].status = "pending" /\ rows'[s].command = c
  BY <1>3 DEF SuggestionRow
<1>5. ~Disturbed(s)' /\ RunsOf(s)' = RunsOf(s)
  BY <1>1 DEF Disturbed, mishaps, RunsOf
<1>6. StateOf(s)' = "pending" /\ CommandOf(s)' = c
  BY <1>4, <1>5, RowColumnsNext
<1>7. /\ States' = [States EXCEPT ![s] = "pending"]
      /\ Commands' = [Commands EXCEPT ![s] = c]
      /\ Runs' = Runs
  BY <1>2, <1>5, <1>6, OneLife, SameRuns
<1>8. States[s] = "absent"
  BY <1>1 DEF States, StateOf, Status
<1>9. Life!Propose(s, c)
  BY <1>7, <1>8
  DEF Life!Propose, Life!Move, States, Commands, Runs, StateOf, CommandOf, RunsOf
<1>10. QED
  BY <1>9 DEF Life!Next

\* A suggestion that is executed has not run: had it, its row would be over.
LEMMA RunMovesLife ==
    ASSUME TellInv, RanIsOver, [Next]_vars, NEW r \in Req, RunSuggested(r), runs' # runs,
           ~Disturbed(target[r])
    PROVE  Life!Next
<1>. USE DEF TellInv, QuietInv, BaseInv, TypeOK
<1>1. PICK s \in Suggestion : s = target[r]
  BY DEF RunSuggested, HeldOK
<1>2. /\ rows[s] \in SuggestionRow /\ s \notin met /\ ~Disturbed(s)
      /\ pc[r] = "ssh" /\ Status(s) = "approved"
      /\ cmd[r] = rows[s].command /\ cmd[r] \in Command
  BY <1>1 DEF RunSuggested, HeldOK, ReadStillTrue, RunsTheRow, Disturbed
<1>3. \A q \in Req : ~(pc[q] = "record" /\ target[q] = s)
  BY <1>1, <1>2 DEF AloneOn, Handling
<1>4. runs[s] = <<>>
  BY <1>2, <1>3 DEF RanIsOver, Outcome
<1>5. /\ cmd[r] \notin Blocked /\ UNCHANGED <<rows, mishaps>>
      /\ runs' = [runs EXCEPT ![s] = Append(runs[s], cmd[r])]
  BY <1>1 DEF RunSuggested, tables
<1>6. \A t \in Suggestion \ {s} : Rests(t)
  BY <1>5, RowRests DEF Disturbed, mishaps
<1>7. runs'[s] = <<cmd[r]>> /\ ~Disturbed(s)'
  BY <1>2, <1>4, <1>5 DEF Disturbed, mishaps
<1>8. /\ StateOf(s) = "approved" /\ CommandOf(s) = cmd[r] /\ RunsOf(s) = <<>>
      /\ StateOf(s)' = "approved" /\ CommandOf(s)' = cmd[r] /\ RunsOf(s)' = <<cmd[r]>>
  BY <1>2, <1>4, <1>5, <1>7, RowColumns, RowColumnsNext
<1>9. /\ States' = States /\ Commands' = Commands
      /\ Runs' = [Runs EXCEPT ![s] = <<cmd[r]>>]
  <2>1. States' = [States EXCEPT ![s] = "approved"] /\ Runs' = [Runs EXCEPT ![s] = <<cmd[r]>>]
    BY <1>6, <1>8, OneLife
  <2>2. States' = States
    BY <1>8, <2>1 DEF States
  <2>3. QED
    BY <1>6, <1>8, <2>1, <2>2, SameCommand
<1>10. States[s] = "approved" /\ Commands[s] = cmd[r] /\ Runs[s] = <<>>
  BY <1>8 DEF States, Commands, Runs
<1>11. Life!Run(s)
  BY <1>5, <1>9, <1>10
  DEF Life!Run, States, Commands, Runs, StateOf, CommandOf, RunsOf
<1>12. QED
  BY <1>11 DEF Life!Next

\* A suggestion that was never generated has not been disturbed.
Generated == \A s \in Suggestion : Disturbed(s) => rows[s] # None

LEMMA StepGenerated == ASSUME BaseInv, Generated, [Next]_vars PROVE Generated'
<1>. SUFFICES ASSUME NEW s \in Suggestion, Disturbed(s)', rows[s] = None PROVE FALSE
  BY NothingIsLost DEF Generated
<1>1. ~Disturbed(s)
  BY DEF Generated
<1>2. CASE UNCHANGED mishaps
  BY <1>1, <1>2 DEF Disturbed, mishaps
<1>3. ASSUME NEW r \in Req, ReadToApprove(r) \/ ReadToReject(r) \/ ReadToExecute(r) PROVE FALSE
  BY <1>1, <1>3 DEF ReadToApprove, ReadToReject, ReadToExecute, BeginOn, Disturbed, Status
<1>4. ASSUME NEW r \in Req, Abort(r) PROVE FALSE
  BY <1>1, <1>4 DEF Abort, Disturbed, BaseInv, HeldOK
<1>5. QED
  BY <1>2, <1>3, <1>4
  DEF Next, Start, Continue, Generate, BeginDirect, Approve, Reject, RunSuggested,
      RecordResult, RunDirect, SettleDirect, history, mishaps, vars

\* Every suggestion leads the life it was promised (decided once by a human, run at
\* most once and only as decided, closed by how it went), for any number of requests
\* that overlap, fail and die, until two of them meet over it or one dies over its
\* result (assistant.py:1-9, 81-124).
THEOREM SuggestionsLeadTheirLife == Spec => ImplementsLife
<1>1. Init => Life!Init /\ RanIsOver /\ Generated
  BY DEF Init, Life!Init, Status, Proposed, Disturbed, RanIsOver, Generated
<1>2. TellInv /\ RanIsOver /\ Generated /\ [Next]_vars =>
         [Life!Next]_<<States, Commands, Runs>>
  <2>. SUFFICES ASSUME TellInv, RanIsOver, Generated, [Next]_vars
                PROVE  Life!Next \/ UNCHANGED <<States, Commands, Runs>>
    OBVIOUS
  <2>0. BaseInv
    BY DEF TellInv, QuietInv
  <2>1. ASSUME UNCHANGED <<rows, runs, met, unrecorded>>
        PROVE  UNCHANGED <<States, Commands, Runs>>
    BY <2>1, RowRests, LifeRests DEF Disturbed
  <2>2. ASSUME NEW s \in Suggestion, NEW c \in Command, Generate(s, c) PROVE Life!Next
    <3>1. ~Disturbed(s)
      BY <2>2 DEF Generate, Generated
    <3>2. QED
      BY <2>0, <2>2, <3>1, GenerationMovesLife
  <2>3. ASSUME NEW r \in Req, Approve(r) \/ Reject(r) \/ RecordResult(r)
        PROVE  Life!Next \/ UNCHANGED <<States, Commands, Runs>>
    <3>1. CASE ~Disturbed(target[r])
      BY <2>3, <3>1, WritesMoveLife
    <3>2. CASE Disturbed(target[r])
      <4>1. PICK s \in Suggestion : s = target[r]
        BY <2>0, <2>3 DEF Approve, Reject, RecordResult, BaseInv, HeldOK
      <4>2. \A t \in Suggestion \ {s} : Rests(t)
        BY <2>0, <2>3, <4>1, RowRests
        DEF Approve, Reject, RecordResult, BaseInv, TypeOK, Disturbed, history, deeds, mishaps
      <4>3. Rests(s)
        BY <3>2, <4>1, DisturbedRests
      <4>4. QED
        BY <4>2, <4>3, LifeRests
    <3>3. QED
      BY <3>1, <3>2
  <2>4. ASSUME NEW r \in Req, RunSuggested(r)
        PROVE  Life!Next \/ UNCHANGED <<States, Commands, Runs>>
    <3>1. CASE ~Disturbed(target[r]) /\ runs' # runs
      BY <2>4, <3>1, RunMovesLife
    <3>2. CASE runs' = runs
      BY <2>1, <2>4, <3>2 DEF RunSuggested, tables, mishaps
    <3>3. CASE Disturbed(target[r])
      <4>1. PICK s \in Suggestion : s = target[r]
        BY <2>0, <2>4 DEF RunSuggested, BaseInv, HeldOK
      <4>2. \A t \in Suggestion \ {s} : Rests(t)
        BY <2>0, <2>4, <4>1, RowRests
        DEF RunSuggested, BaseInv, TypeOK, Disturbed, tables, mishaps
      <4>3. Rests(s)
        BY <3>3, <4>1, DisturbedRests
      <4>4. QED
        BY <4>2, <4>3, LifeRests
    <3>4. QED
      BY <3>1, <3>2, <3>3
  <2>5. ASSUME NEW r \in Req, ReadToApprove(r) \/ ReadToReject(r) \/ ReadToExecute(r)
        PROVE  Life!Next \/ UNCHANGED <<States, Commands, Runs>>
    <3>1. PICK s \in Suggestion : Status(s) # "absent" /\ \E l, c : BeginOn(r, l, s, c)
      BY <2>5 DEF ReadToApprove, ReadToReject, ReadToExecute
    <3>2. /\ rows[s] # None /\ UNCHANGED <<rows, runs, unrecorded>>
          /\ met' = met \/ met' = met \cup {s}
      BY <3>1 DEF BeginOn, Status, tables, deeds
    <3>3. CASE met' = met
      BY <2>1, <3>2, <3>3
    <3>4. CASE met' = met \cup {s}
      <4>1. Disturbed(s)' /\ \A t \in Suggestion \ {s} : Disturbed(t)' = Disturbed(t)
        BY <3>2, <3>4 DEF Disturbed
      <4>2. QED
        BY <2>0, <3>2, <4>1, DisturbanceEndsLife
    <3>5. QED
      BY <3>2, <3>3, <3>4
  <2>6. ASSUME NEW r \in Req, BeginDirect(r) \/ RunDirect(r) \/ SettleDirect(r)
        PROVE  UNCHANGED <<rows, runs, met, unrecorded>>
    BY <2>6 DEF BeginDirect, RunDirect, SettleDirect, tables, history, deeds, mishaps
  <2>7. ASSUME NEW r \in Req, Abort(r)
        PROVE  Life!Next \/ UNCHANGED <<States, Commands, Runs>>
    <3>1. UNCHANGED <<rows, runs, met>>
      BY <2>7 DEF Abort, tables, deeds
    <3>2. CASE pc[r] = "record"
      <4>1. PICK s \in Suggestion : s = target[r] /\ rows[s] # None
        BY <2>0, <3>2 DEF BaseInv, HeldOK
      <4>2. unrecorded' = unrecorded \cup {s}
        BY <2>7, <3>2, <4>1 DEF Abort
      <4>3. Disturbed(s)' /\ \A t \in Suggestion \ {s} : Disturbed(t)' = Disturbed(t)
        BY <3>1, <4>2 DEF Disturbed
      <4>4. QED
        BY <2>0, <3>1, <4>1, <4>3, DisturbanceEndsLife
    <3>3. CASE pc[r] # "record"
      BY <2>1, <2>7, <3>1, <3>3 DEF Abort
    <3>4. QED
      BY <3>2, <3>3
  <2>8. CASE UNCHANGED vars
    BY <2>1, <2>8 DEF vars
  <2>9. QED
    BY <2>1, <2>2, <2>3, <2>4, <2>5, <2>6, <2>7, <2>8 DEF Next, Start, Continue
<1>3. TellInv /\ RanIsOver /\ Generated /\ [Next]_vars => RanIsOver' /\ Generated'
  BY StepRanIsOver, StepGenerated DEF TellInv, QuietInv
<1>4. QED
  BY <1>1, <1>2, <1>3, TellInvariance, PTL
  DEF Spec, ImplementsLife, Life!Spec, States, Commands, Runs, StateOf, CommandOf, RunsOf

-----------------------------------------------------------------------------
\* A request that runs a command directly leaves its row settled, or dies.
LEMMA AttendanceGoesOn ==
    ASSUME BaseInv, [Next]_vars, NEW r \in Req, pc[r] \in {"direct", "settle"}
    PROVE  \/ pc'[r] \in {"direct", "settle"} /\ target'[r] = target[r]
           \/ execs'[target[r]].status # "running"
           \/ target[r] \in abandoned'
<1>. USE DEF BaseInv, TypeOK
<1>1. CASE SettleDirect(r)
  <2>1. target[r] \in DOMAIN execs /\ result[r] \in Outcome
    BY <1>1 DEF SettleDirect, HeldOK
  <2>2. execs[target[r]] \in ExecRow
    BY <2>1, ElementOfSeq
  <2>3. execs'[target[r]] = [execs[target[r]] EXCEPT !.status = result[r]]
    BY <1>1, <2>1 DEF SettleDirect
  <2>4. QED
    BY <2>1, <2>2, <2>3 DEF ExecRow, Outcome
<1>2. CASE Abort(r)
  BY <1>2 DEF Abort
<1>3. ASSUME NEW q \in Req, Start(q)
      PROVE  pc'[r] \in {"direct", "settle"} /\ target'[r] = target[r]
  BY <1>3
  DEF Start, ReadToApprove, ReadToReject, ReadToExecute, BeginDirect, BeginOn, Begin
<1>4. ASSUME NEW q \in Req, Continue(q) \/ Abort(q), ~SettleDirect(r), ~Abort(r)
      PROVE  pc'[r] \in {"direct", "settle"} /\ target'[r] = target[r]
  BY <1>4
  DEF Continue, Approve, Reject, RunSuggested, RecordResult, RunDirect, SettleDirect,
      Abort, End
<1>5. QED
  BY <1>1, <1>2, <1>3, <1>4 DEF Next, Generate, locals, vars

\* A row that says 'running' after a step did so before it, or was just inserted.
LEMMA RunningOrigin ==
    ASSUME BaseInv, [Next]_vars, NEW i \in DOMAIN execs', execs'[i].status = "running"
    PROVE  \/ i \in DOMAIN execs /\ execs[i].status = "running"
           \/ \E r \in Req : pc'[r] = "direct" /\ target'[r] = i
<1>. USE DEF BaseInv, TypeOK
<1>1. CASE UNCHANGED execs
  BY <1>1
<1>2. ASSUME NEW r \in Req, BeginDirect(r)
      PROVE  \/ i \in DOMAIN execs /\ execs[i].status = "running"
             \/ \E q \in Req : pc'[q] = "direct" /\ target'[q] = i
  <2>1. PICK c \in Command : /\ Begin(r, "direct", Len(execs) + 1, c)
                            /\ execs' = Append(execs, [command |-> c, status |-> "running"])
    BY <1>2 DEF BeginDirect
  <2>2. CASE i = Len(execs) + 1
    BY <2>1, <2>2 DEF Begin
  <2>3. CASE i # Len(execs) + 1
    <3>1. i \in DOMAIN execs /\ execs'[i] = execs[i]
      BY <2>1, <2>3
    <3>2. QED
      BY <3>1
  <2>4. QED
    BY <2>2, <2>3
<1>3. ASSUME NEW r \in Req, SettleDirect(r)
      PROVE  i \in DOMAIN execs /\ execs[i].status = "running"
  <2>1. target[r] \in DOMAIN execs /\ result[r] \in Outcome
    BY <1>3 DEF SettleDirect, HeldOK
  <2>2. i \in DOMAIN execs /\ execs[target[r]] \in ExecRow
    BY <1>3, <2>1, ElementOfSeq DEF SettleDirect
  <2>3. CASE i = target[r]
    <3>1. execs'[i] = [execs[i] EXCEPT !.status = result[r]]
      BY <1>3, <2>1, <2>3 DEF SettleDirect
    <3>2. execs'[i].status = result[r]
      BY <2>2, <2>3, <3>1 DEF ExecRow
    <3>3. QED
      BY <2>1, <3>2 DEF Outcome
  <2>4. CASE i # target[r]
    BY <1>3, <2>2, <2>4 DEF SettleDirect
  <2>5. QED
    BY <2>3, <2>4
<1>4. QED
  BY <1>1, <1>2, <1>3
  DEF Next, Start, Continue, Generate, ReadToApprove, ReadToReject, ReadToExecute, BeginOn,
      Approve, Reject, RunSuggested, RecordResult, RunDirect, Abort, tables, vars

\* A row of remote_executions is 'running' only while a request attends to it, for any
\* number of requests, unless its request died (api_remote_exec.py:96-105).
THEOREM RunningRowsHaveRequests == Spec => []RunningRowsAreAttended
<1>1. Init => RunningRowsAreAttended
  BY DEF Init, RunningRowsAreAttended
<1>2. BaseInv /\ RunningRowsAreAttended /\ [Next]_vars => RunningRowsAreAttended'
  <2>. SUFFICES ASSUME BaseInv, RunningRowsAreAttended, [Next]_vars,
                       NEW i \in DOMAIN execs', execs'[i].status = "running"
                PROVE  \/ i \in abandoned'
                       \/ \E r \in Req : target'[r] = i /\ pc'[r] \in {"direct", "settle"}
    BY DEF RunningRowsAreAttended
  <2>1. CASE i \in DOMAIN execs /\ execs[i].status = "running"
    <3>1. CASE i \in abandoned
      BY <3>1, MishapsStay
    <3>2. ASSUME NEW r \in Req, target[r] = i, pc[r] \in {"direct", "settle"}
          PROVE  i \in abandoned' \/ (target'[r] = i /\ pc'[r] \in {"direct", "settle"})
      BY <3>2, AttendanceGoesOn
    <3>3. QED
      BY <2>1, <3>1, <3>2 DEF RunningRowsAreAttended
  <2>2. CASE \E r \in Req : pc'[r] = "direct" /\ target'[r] = i
    BY <2>2
  <2>3. QED
    BY <2>1, <2>2, RunningOrigin
<1>3. QED
  BY <1>1, <1>2, BaseInvariance, PTL DEF Spec
=============================================================================
