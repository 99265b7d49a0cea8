--------------------------- MODULE SuggestionLife ---------------------------
(***************************************************************************)
(* What the assistant owes a remediation suggestion (assistant.py:1-9): a    *)
(* human decides once on the command that will run, that command runs at    *)
(* most once and no other does, and the end of its life tells how it went.  *)
(* Nothing is promised of a suggestion once it was disturbed; Remediation    *)
(* says what disturbs one.                                                   *)
(***************************************************************************)
EXTENDS Sequences

CONSTANTS Suggestion, Command, Blocked, None

VARIABLES
    state,      \* of each suggestion
    command,    \* what it proposes, and from the approval on what may run
    runs        \* what it ran

Init ==
    /\ state = [s \in Suggestion |-> "absent"]
    /\ command = [s \in Suggestion |-> None]
    /\ runs = [s \in Suggestion |-> <<>>]

Move(s, from, to) == state[s] = from /\ state' = [state EXCEPT ![s] = to]

Propose(s, c) ==
    /\ Move(s, "absent", "pending")
    /\ command' = [command EXCEPT ![s] = c]
    /\ UNCHANGED runs

\* As proposed or modified.
Approve(s, c) ==
    /\ Move(s, "pending", "approved")
    /\ command' = [command EXCEPT ![s] = c]
    /\ UNCHANGED runs

Reject(s) == Move(s, "pending", "rejected") /\ UNCHANGED <<command, runs>>

Run(s) ==
    /\ state[s] = "approved" /\ command[s] \notin Blocked
    /\ runs[s] = <<>>
    /\ runs' = [runs EXCEPT ![s] = <<command[s]>>]
    /\ UNCHANGED <<state, command>>

Complete(s) ==
    /\ Move(s, "approved", "completed")
    /\ runs[s] # <<>>
    /\ UNCHANGED <<command, runs>>

\* Before the command ran or after it.
Fail(s) == Move(s, "approved", "failed") /\ UNCHANGED <<command, runs>>

Disturb(s) ==
    /\ state[s] \notin {"absent", "disturbed"}
    /\ state' = [state EXCEPT ![s] = "disturbed"]
    /\ command' = [command EXCEPT ![s] = None]
    /\ runs' = [runs EXCEPT ![s] = <<>>]

Next ==
    \E s \in Suggestion :
        \/ \E c \in Command : Propose(s, c) \/ Approve(s, c)
        \/ Reject(s) \/ Run(s) \/ Complete(s) \/ Fail(s) \/ Disturb(s)

Spec == Init /\ [][Next]_<<state, command, runs>>
=============================================================================
