----------------------------- MODULE Remediation -----------------------------
(***************************************************************************)
(* Commands that SysWatch runs on hosts: AI suggestions that an admin has to *)
(* approve first (src/backend/modules/ai/assistant.py) and commands an       *)
(* admin enters (api_remote_exec.py).                                       *)
(*                                                                         *)
(* A request reads a row, decides on what it read, and updates the row by    *)
(* id alone; each statement autocommits, so requests served by different     *)
(* workers and threads interleave between them.  A request in its             *)
(* early returns changes nothing and is not an action.  Log lines, the        *)
(* temporary key file and the host a command runs on are left out.            *)
(* A command has no time limit: recv_exit_status() waits for it until         *)
(* Gunicorn kills the worker.  So no request has to come to an end.           *)
(***************************************************************************)
EXTENDS Naturals, Sequences

CONSTANTS
    Req,        \* requests that may be under way; each stands for its user too
    Suggestion, \* ids of remediation_suggestions
    Command,    \* command lines
    Blocked,    \* those _is_command_safe refuses
    None,       \* NULL, a missing row, a missing field of the body
    Faulty,     \* may a statement raise or a worker die within a request
    MaxRuns,    \* bound: runs of one suggestion
    MaxExecs    \* bound: rows of remote_executions

SuggestionRow == [status : {"pending", "approved", "rejected", "completed", "failed"},
                  command : Command,
                  approved_by : Req \cup {None},
                  executed : BOOLEAN]       \* executed_at is not NULL

ASSUME RemediationAssumption ==
    /\ Blocked \subseteq Command
    /\ None \notin Req \cup Suggestion \cup Command \cup SuggestionRow
    /\ Faulty \in BOOLEAN
    /\ MaxRuns \in Nat /\ MaxExecs \in Nat

VARIABLES
    rows,       \* remediation_suggestions
    execs,      \* remote_executions, ids are positions
    approvals,  \* history: what was ever approved, and by whom
    runs,       \* history: the commands each suggestion ran, in order
    met,        \* history: suggestions that two requests were about at once
    unrecorded, \* history: suggestions a request died over before it stored the result
    abandoned,  \* history: rows of execs whose request died
    pc,         \* where each request is
    target,     \* the id its URL names, or exec_id
    cmd,        \* the command it holds
    result      \* the outcome execute_command_on_host returned to it

tables == <<rows, execs>>
deeds == <<approvals, runs>>
mishaps == <<met, unrecorded, abandoned>>
history == <<deeds, mishaps>>
locals == <<pc, target, cmd, result>>
vars == <<rows, execs, approvals, runs, met, unrecorded, abandoned,
          pc, target, cmd, result>>

Handling == {"approve", "reject", "ssh", "record"}
PC == {"idle", "direct", "settle"} \cup Handling
ExecRow == [command : Command, status : {"running", "completed", "failed"}]
Outcome == {"completed", "failed"}

Init ==
    /\ rows = [s \in Suggestion |-> None]
    /\ execs = <<>>
    /\ approvals = {}
    /\ runs = [s \in Suggestion |-> <<>>]
    /\ met = {} /\ unrecorded = {} /\ abandoned = {}
    /\ pc = [r \in Req |-> "idle"]
    /\ target = [r \in Req |-> None]
    /\ cmd = [r \in Req |-> None]
    /\ result = [r \in Req |-> None]

-----------------------------------------------------------------------------
Status(s) == IF rows[s] = None THEN "absent" ELSE rows[s].status

\* A request starts, and holds what it read or was given.
Begin(r, l, t, c) ==
    /\ pc[r] = "idle"
    /\ pc' = [pc EXCEPT ![r] = l]
    /\ target' = [target EXCEPT ![r] = t]
    /\ cmd' = [cmd EXCEPT ![r] = c]
    /\ UNCHANGED result

\* It is about a suggestion, maybe one that another request is about already.
BeginOn(r, l, s, c) ==
    /\ Begin(r, l, s, c)
    /\ met' = IF \E q \in Req : pc[q] \in Handling /\ target[q] = s
              THEN met \cup {s} ELSE met
    /\ UNCHANGED <<tables, deeds, unrecorded, abandoned>>

\* It answers, or dies.
End(r) ==
    /\ pc' = [pc EXCEPT ![r] = "idle"]
    /\ target' = [target EXCEPT ![r] = None]
    /\ cmd' = [cmd EXCEPT ![r] = None]
    /\ result' = [result EXCEPT ![r] = None]

-----------------------------------------------------------------------------
\* Faulty variants of the actions below, one mistake each: what the properties
\* have to tell from the code.

\* Only rejected and finished suggestions are refused.
ReadToExecutePending(r) ==
    \E s \in Suggestion : Status(s) \in {"pending", "approved"}
                         /\ BeginOn(r, "ssh", s, rows[s].command)

\* A failure returns nothing.
RunWithoutResult(r) ==
    LET s == target[r]
    IN  /\ pc[r] = "ssh"
        /\ \/ UNCHANGED <<runs, result>>
           \/ /\ cmd[r] \notin Blocked
              /\ Len(runs[s]) < MaxRuns
              /\ runs' = [runs EXCEPT ![s] = Append(@, cmd[r])]
              /\ \E x \in Outcome : result' = [result EXCEPT ![r] = x]
        /\ pc' = [pc EXCEPT ![r] = "record"]
        /\ UNCHANGED <<tables, approvals, mishaps, target, cmd>>

\* The outcome is not looked at.
RunToCompletion(r) ==
    LET s == target[r]
    IN  /\ pc[r] = "ssh"
        /\ \/ UNCHANGED runs
           \/ /\ cmd[r] \notin Blocked
              /\ Len(runs[s]) < MaxRuns
              /\ runs' = [runs EXCEPT ![s] = Append(@, cmd[r])]
        /\ result' = [result EXCEPT ![r] = "completed"]
        /\ pc' = [pc EXCEPT ![r] = "record"]
        /\ UNCHANGED <<tables, approvals, mishaps, target, cmd>>

\* The output is stored and the status left alone.
RecordOutputOnly(r) ==
    /\ pc[r] = "record"
    /\ rows' = [rows EXCEPT ![target[r]].executed = TRUE]
    /\ End(r)
    /\ UNCHANGED <<execs, history>>

\* executed_at is written on success only.
RecordSuccess(r) ==
    /\ pc[r] = "record"
    /\ rows' = [rows EXCEPT ![target[r]].status = result[r],
                            ![target[r]].executed = @ \/ result[r] = "completed"]
    /\ End(r)
    /\ UNCHANGED <<execs, history>>

\* So is the row of a direct execution.
SettleSuccess(r) ==
    /\ pc[r] = "settle"
    /\ execs' = IF result[r] = "completed"
                THEN [execs EXCEPT ![target[r]].status = "completed"] ELSE execs
    /\ End(r)
    /\ UNCHANGED <<rows, history>>

-----------------------------------------------------------------------------
\* The model's answer is stored, always as 'pending'.
Generate(s, c) ==
    /\ rows[s] = None
    /\ rows' = [rows EXCEPT ![s] = [status |-> "pending", command |-> c,
                                    approved_by |-> None, executed |-> FALSE]]
    /\ UNCHANGED <<execs, history, locals>>

\* The SELECT of approve_suggestion, for a body that may modify the command.
ReadToApprove(r) ==
    \E s \in Suggestion, modified \in Command \cup {None} :
        /\ Status(s) = "pending"
        /\ BeginOn(r, "approve", s, IF modified # None THEN modified ELSE rows[s].command)

\* Its UPDATE ... WHERE id: the status is not looked at again.
Approve(r) ==
    LET s == target[r]
    IN  /\ pc[r] = "approve"
        /\ rows' = [rows EXCEPT ![s].status = "approved", ![s].command = cmd[r],
                                ![s].approved_by = r]
        /\ approvals' = approvals \cup {<<s, cmd[r], r>>}
        /\ End(r)
        /\ UNCHANGED <<execs, runs, mishaps>>

ReadToReject(r) ==
    \E s \in Suggestion : Status(s) = "pending" /\ BeginOn(r, "reject", s, None)

Reject(r) ==
    /\ pc[r] = "reject"
    /\ rows' = [rows EXCEPT ![target[r]].status = "rejected"]
    /\ End(r)
    /\ UNCHANGED <<execs, history>>

\* execute_suggestion: an approved row, and the command it has at this moment.
ReadToExecute(r) ==
    \E s \in Suggestion : Status(s) = "approved" /\ BeginOn(r, "ssh", s, rows[s].command)

\* execute_command_on_host for a suggestion.  A failure may come before the
\* command ran (refused, no credentials, no connection) or after it (the output
\* could not be read); a blocked command is always refused.
RunSuggested(r) ==
    LET s == target[r]
    IN  /\ pc[r] = "ssh"
        /\ \/ /\ result' = [result EXCEPT ![r] = "failed"]
              /\ UNCHANGED runs
           \/ /\ cmd[r] \notin Blocked
              /\ Len(runs[s]) < MaxRuns
              /\ runs' = [runs EXCEPT ![s] = Append(@, cmd[r])]
              /\ \E x \in Outcome : result' = [result EXCEPT ![r] = x]
        /\ pc' = [pc EXCEPT ![r] = "record"]
        /\ UNCHANGED <<tables, approvals, mishaps, target, cmd>>

\* UPDATE status, executed_at and output, again by id alone.
RecordResult(r) ==
    /\ pc[r] = "record"
    /\ rows' = [rows EXCEPT ![target[r]].status = result[r], ![target[r]].executed = TRUE]
    /\ End(r)
    /\ UNCHANGED <<execs, history>>

-----------------------------------------------------------------------------
\* POST /remote/exec: checked, and recorded as 'running' before it runs.
BeginDirect(r) ==
    /\ Len(execs) < MaxExecs
    /\ \E c \in Command \ Blocked :
        /\ Begin(r, "direct", Len(execs) + 1, c)
        /\ execs' = Append(execs, [command |-> c, status |-> "running"])
    /\ UNCHANGED <<rows, history>>

RunDirect(r) ==
    /\ pc[r] = "direct"
    /\ \E x \in Outcome : result' = [result EXCEPT ![r] = x]
    /\ pc' = [pc EXCEPT ![r] = "settle"]
    /\ UNCHANGED <<tables, history, target, cmd>>

SettleDirect(r) ==
    /\ pc[r] = "settle"
    /\ execs' = [execs EXCEPT ![target[r]].status = result[r]]
    /\ End(r)
    /\ UNCHANGED <<rows, history>>

\* A statement raises (the output may be too long for its column), or the
\* worker dies.  No handler catches it and nothing is undone.
Abort(r) ==
    /\ Faulty
    /\ pc[r] # "idle"
    /\ unrecorded' = IF pc[r] = "record" THEN unrecorded \cup {target[r]} ELSE unrecorded
    /\ abandoned' = IF pc[r] \in {"direct", "settle"} THEN abandoned \cup {target[r]}
                                                     ELSE abandoned
    /\ End(r)
    /\ UNCHANGED <<tables, deeds, met>>

-----------------------------------------------------------------------------
Start(r) == ReadToApprove(r) \/ ReadToReject(r) \/ ReadToExecute(r) \/ BeginDirect(r)

Continue(r) ==
    \/ Approve(r) \/ Reject(r)
    \/ RunSuggested(r) \/ RecordResult(r)
    \/ RunDirect(r) \/ SettleDirect(r)

Next ==
    \/ \E s \in Suggestion, c \in Command : Generate(s, c)
    \/ \E r \in Req : Start(r) \/ Continue(r) \/ Abort(r)

Spec == Init /\ [][Next]_vars

-----------------------------------------------------------------------------
TypeOK ==
    /\ rows \in [Suggestion -> SuggestionRow \cup {None}]
    /\ execs \in Seq(ExecRow)
    /\ approvals \subseteq Suggestion \X Command \X Req
    /\ runs \in [Suggestion -> Seq(Command)]
    /\ met \subseteq Suggestion /\ unrecorded \subseteq Suggestion /\ abandoned \subseteq Nat
    /\ pc \in [Req -> PC]
    /\ target \in [Req -> Suggestion \cup Nat \cup {None}]
    /\ cmd \in [Req -> Command \cup {None}]
    /\ result \in [Req -> Outcome \cup {None}]

Approved(s, c) == \E r \in Req : <<s, c, r>> \in approvals

\* "ALL suggestions require human approval before execution": whatever a
\* suggestion ran, however its approvals, rejections and executions interleaved,
\* an admin had approved that very command, modified or not, and none of it is
\* blocked, although approve_suggestion checks no command
\* (assistant.py:4, 81-90, 103-112; api_remote_exec.py:57).
OnlyApprovedCommandsRun ==
    \A s \in Suggestion : \A i \in DOMAIN runs[s] :
        Approved(s, runs[s][i]) /\ runs[s][i] \notin Blocked

\* A completed row tells what ran: the command it names is one that ran, approved
\* by the user it names ("Full audit trail of who approved what and when",
\* assistant.py:7, 88, 114).
TellsWhatRan(s) ==
    Status(s) = "completed" =>
        /\ \E i \in DOMAIN runs[s] : runs[s][i] = rows[s].command
        /\ <<s, rows[s].command, rows[s].approved_by>> \in approvals
FullAuditTrail == \A s \in Suggestion : TellsWhatRan(s)

\* The trail is only lost to requests about the same suggestion: those about others
\* and failures at any statement leave it true (assistant.py:81-124).
RecordTellsWhatRan == \A s \in Suggestion \ met : TellsWhatRan(s)

\* "Execution results captured and stored": what ran has its result in the row,
\* or the request that ran it is about to store it.  However approvals, rejections
\* and other executions write to the row, only a request that dies or fails at that
\* very UPDATE loses one (assistant.py:8, 112-118).
RunsAreRecorded ==
    \A s \in Suggestion : runs[s] # <<>> =>
        \/ rows[s].executed
        \/ \E r \in Req : pc[r] = "record" /\ target[r] = s
        \/ s \in unrecorded

\* Every suggestion leads the life it is promised (decided once, run at most once
\* with the command that was approved, closed by how it went), whatever overlaps
\* and fails, until two requests are about it at once or the result of one is lost
\* (assistant.py:1-9, 81-124).
Disturbed(s) == s \in met \cup unrecorded
Proposed(s) == IF rows[s] = None THEN None ELSE rows[s].command
Life == INSTANCE SuggestionLife WITH
            state   <- [s \in Suggestion |-> IF Disturbed(s) THEN "disturbed" ELSE Status(s)],
            command <- [s \in Suggestion |-> IF Disturbed(s) THEN None ELSE Proposed(s)],
            runs    <- [s \in Suggestion |-> IF Disturbed(s) THEN <<>> ELSE runs[s]]
ImplementsLife == Life!Spec

\* A row of remote_executions is 'running' only while its request is, which settles
\* it whether the command succeeded or not (api_remote_exec.py:96-105); a request
\* that waits for ever, or dies, leaves it so.
RunningRowsAreAttended ==
    \A i \in DOMAIN execs : execs[i].status = "running" =>
        \/ i \in abandoned
        \/ \E r \in Req : target[r] = i /\ pc[r] \in {"direct", "settle"}
=============================================================================
