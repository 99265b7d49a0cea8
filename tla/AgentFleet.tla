----------------------------- MODULE AgentFleet ------------------------------
(***************************************************************************)
(* The agents (src/agents/syswatch_agent.py) together with the server of    *)
(* HostMonitor: what they send, what the server does with it, and what they *)
(* make of the answer or of its absence.                                    *)
(***************************************************************************)
EXTENDS HostMonitor

CONSTANTS
    Machine,    \* computers with an agent installed
    NameOf,     \* socket.gethostname() of each
    AddressOf   \* _get_local_ip() of each

ASSUME FleetAssumption ==
    /\ NameOf \in [Machine -> Hostname] /\ AddressOf \in [Machine -> Ip]
    /\ None \notin Request

VARIABLES
    agent,      \* is the process stopped, registering or in its loop
    thread,     \* the server thread whose answer register_agent waits for
    known,      \* what register_agent returned
    sent,       \* what send_metrics returned last, None before
    gone        \* machines whose host was deleted since they began to register

agentVars == <<agent, thread, known, sent, gone>>
vars == <<hostVars, agentVars>>

Init ==
    /\ HostInit
    /\ agent = [m \in Machine |-> "stopped"]
    /\ thread = [m \in Machine |-> None]
    /\ known = [m \in Machine |-> FALSE]
    /\ sent = [m \in Machine |-> None]
    /\ gone = {}

-----------------------------------------------------------------------------
\* The server's routes under /api/agent and the header they ask for.
ServerRoutes == {"register", "report", "heartbeat"}

\* Would the server act on a POST to this route with this X-Agent-Key?
Accepted(route, key) == route \in ServerRoutes /\ (route = "register" \/ key # None)

\* The agent takes agent_id or id from the reply, which has neither, and never
\* its agent_key: no later request carries X-Agent-Key.
AgentKey(m) == None

\* register_agent returns: run_agent goes on to its loop whatever it returned.
EnterLoop(m, ok) ==
    /\ agent' = [agent EXCEPT ![m] = "running"]
    /\ known' = [known EXCEPT ![m] = ok]
    /\ thread' = [thread EXCEPT ![m] = None]

\* The thread's answer reaches the agent that still waits for it, if any.
Answer(r, ok) ==
    LET M == {m \in Machine : thread[m] = r}
    IN  /\ agent' = [m \in Machine |-> IF m \in M THEN "running" ELSE agent[m]]
        /\ known' = [m \in Machine |-> IF m \in M THEN ok ELSE known[m]]
        /\ thread' = [m \in Machine |-> IF m \in M THEN None ELSE thread[m]]
        /\ UNCHANGED <<sent, gone>>

\* run_agent starts, by hand or by the service manager, and registers.
Register(m, r) ==
    /\ agent[m] = "stopped"
    /\ RegisterSelect(r, NameOf[m], AddressOf[m])
    /\ agent' = [agent EXCEPT ![m] = "waiting"]
    /\ thread' = [thread EXCEPT ![m] = r]
    /\ gone' = gone \ {m}
    /\ UNCHANGED <<known, sent>>

\* The server cannot be reached, or requests' timeout passes while the server
\* is still at it.
NoServer(m) ==
    /\ agent[m] = "stopped"
    /\ EnterLoop(m, FALSE)
    /\ UNCHANGED <<hostVars, sent, gone>>

\* Faulty variant: an answer that does not come is taken for a good one.
TimeOutHopefully(m) ==
    /\ agent[m] = "waiting"
    /\ EnterLoop(m, TRUE)
    /\ UNCHANGED <<hostVars, sent, gone>>

TimeOut(m) ==
    /\ agent[m] = "waiting"
    /\ EnterLoop(m, FALSE)
    /\ UNCHANGED <<hostVars, sent, gone>>

\* One turn of the loop.  The heartbeat of every fifth turn is refused for want
\* of a key, its result is not looked at.  Without psutil run_agent has exited.
Turn(m) ==
    /\ agent[m] = "running"
    /\ sent' = [sent EXCEPT ![m] = Accepted("metrics", AgentKey(m))]
    /\ UNCHANGED <<hostVars, agent, thread, known, gone>>

\* KeyboardInterrupt, a crash or a reboot; systemd and launchd start it again.
Stop(m) ==
    /\ agent[m] # "stopped"
    /\ agent' = [agent EXCEPT ![m] = "stopped"]
    /\ thread' = [thread EXCEPT ![m] = None]
    /\ known' = [known EXCEPT ![m] = FALSE]
    /\ sent' = [sent EXCEPT ![m] = None]
    /\ UNCHANGED <<hostVars, gone>>

\* A host is deleted under the agents that run on it.
Forget(r) ==
    /\ DeleteRow(r)
    /\ gone' = gone \cup {m \in Machine : NameOf[m] = call[r].hostname}
    /\ UNCHANGED <<agent, thread, known, sent>>

ServerStep(r) ==
    \/ (RegisterUpdate(r) \/ RegisterInsert(r)) /\ UNCHANGED agentVars
    \/ RegisterReply(r) /\ Answer(r, TRUE)
    \/ (RegisterRefused(r) \/ RequestFails(r)) /\ Answer(r, FALSE)
    \/ Forget(r)
    \/ (Continue(r) \/ NewRequest(r)) /\ UNCHANGED agentVars

AgentStep(m) ==
    (\E r \in Request : Register(m, r)) \/ NoServer(m) \/ TimeOut(m) \/ Turn(m) \/ Stop(m)

Surroundings ==
    /\ \/ Reachability
       \/ \E h \in Hostname, ip \in Ip : UpdateHost(h, ip)
       \/ \E c \in Checker : CheckFails(c)
    /\ UNCHANGED agentVars

Next ==
    \/ \E r \in Request : ServerStep(r)
    \/ \E m \in Machine : AgentStep(m)
    \/ \E c \in Checker : CheckStep(c) /\ UNCHANGED agentVars
    \/ Surroundings

\* Requests run to their end, the job comes up at its interval, agents go on
\* with their loop.  Nobody has to start, stop or fail.
Fairness ==
    /\ \A r \in Request : WF_vars(/\ \/ RegisterUpdate(r) \/ RegisterInsert(r)
                                     \/ RegisterReply(r) \/ RegisterRefused(r)
                                     \/ DeleteRow(r) \/ Continue(r)
                                  /\ ServerStep(r))
    /\ \A c \in Checker : WF_vars(CheckStep(c) /\ UNCHANGED agentVars)
    /\ \A m \in Machine : WF_vars(TimeOut(m) \/ Turn(m))

Spec == Init /\ [][Next]_vars /\ Fairness

-----------------------------------------------------------------------------
\* Every variable holds a value of its type, in particular only statuses of the
\* column's ENUM are stored (schema.sql:75).
TypeOK ==
    /\ hosts \in [Id -> Row \cup {None}]
    /\ nextId \in 1..(MaxId + 1) /\ lastKey \in 0..MaxKey
    /\ metrics \subseteq Hostname /\ history \subseteq Hostname
    /\ reach \subseteq Ip
    /\ todo \in [Checker -> SUBSET Snapshot]
    /\ cur \in [Checker -> Change \cup {None}]
    /\ call \in [Request -> Call]
    /\ faults \in 0..MaxFaults
    /\ due \subseteq Id /\ overlapped \subseteq Hostname
    /\ agent \in [Machine -> {"stopped", "waiting", "running"}]
    /\ thread \in [Machine -> Request \cup {None}]
    /\ known \in [Machine -> BOOLEAN]
    /\ sent \in [Machine -> BOOLEAN \cup {None}]
    /\ gone \subseteq Machine

\* A host that went DOWN is notified of by the check that wrote it, also when it has
\* been reported UP or deleted since; only a check that breaks off between the
\* UPDATE and the notification can keep it silent (host_checker.py:68-76).
DownIsAnnounced ==
    \A i \in due :
        \E c \in Checker : /\ cur[c] # None /\ cur[c].id = i
                           /\ cur[c].new = "DOWN" /\ cur[c].at # "write"

\* Metrics and history of a host that is not there are left only where a
\* report and the deletion were under way at one time (api_hosts.py:40-44,
\* api_agent.py:62-91): a deletion by itself leaves nothing, at no step.
DataHasItsHost ==
    \A h \in metrics \cup history : Named(h) # {} \/ h \in overlapped

\* An agent that believes it is registered has a row, unless the host was deleted
\* since it began to register; a lost or late answer never makes it believe so
\* (syswatch_agent.py:142-157, api_agent.py:36-51).
RegisteredIsStored ==
    \A m \in Machine : known[m] => m \in gone \/ Named(NameOf[m]) # {}

IsStatus(i, s) == i \in Stored /\ hosts[i].status = s

\* Every host is looked at again and again: notifications do not break checks off
\* for ever, or nothing but the check changes what it looks at.  Where each
\* notification raises, a host that others mark UP as often as the check finds it
\* DOWN ends every check that comes to it first.
ChecksGoRound ==
    \/ <>[][\A c \in Checker : ~NotifyFails(c)]_vars
    \/ <>[][UNCHANGED <<hosts, reach>> \/ \E c \in Checker : CheckWrite(c)]_vars

\* A host that stays reachable is UP for good in the end, although late writes
\* of checks with an old snapshot may still mark it DOWN and each change may cost
\* the rest of its check (host_checker.py:53-81).
ReachableHostGoesUp ==
    ChecksGoRound =>
        \A i \in Id : <>[](i \in Stored /\ hosts[i].ip \in reach) => <>[]IsStatus(i, "UP")

\* A host that stays unreachable, and that no request with its key and no scan
\* is about, is DOWN for good in the end, whether its agent runs or not.
UnreachableHostGoesDown ==
    ChecksGoRound =>
        \A i \in Id :
            <>[](/\ i \in Stored /\ hosts[i].ip \notin reach
                 /\ \A r \in Request : call[r].id # i)
            => <>[]IsStatus(i, "DOWN")
=============================================================================
