----------------------------- MODULE HostMonitor -----------------------------
(***************************************************************************)
(* The hosts table and the data kept per host, as the server writes them:   *)
(* the periodic check (host_checker.py), the agents' endpoints              *)
(* (api_agent.py), the inventory (api_hosts.py) and the network scan        *)
(* (api_discovery.py).  Every database statement autocommits, so each is an *)
(* action of its own and anything may happen between two of them.           *)
(*                                                                         *)
(* AgentFleet adds the agents that call these endpoints.                    *)
(***************************************************************************)
EXTENDS Naturals, FiniteSets

CONSTANTS
    Checker,    \* scheduler threads that run check_host_status
    Request,    \* server threads that handle API requests
    Hostname,   \* names of hosts, the ones that reverse DNS gives included
    Ip,         \* addresses
    None,       \* NULL, a missing row, Python's None
    MaxId,      \* bound: ids of hosts, an INSERT beyond them raises
    MaxKey,     \* bound: registrations
    MaxFaults   \* bound: statements that raise

Id == 1..MaxId
StatusEnum == {"UP", "DOWN", "WARNING", "UNREACHABLE", "PENDING"}
OsEnum == {"linux", "windows", "macos", "freebsd", "other"}
Row == [hostname : Hostname, ip : Ip, status : StatusEnum, key : Nat \cup {None}]
Snapshot == [id : Id, ip : Ip, status : StatusEnum]
Change == [id : Id, new : {"UP", "DOWN"}, at : {"write", "event", "notify"}]

ASSUME HostAssumption ==
    /\ None \notin Hostname \cup Ip \cup Nat \cup Row \cup Change
    /\ MaxId \in Nat /\ MaxKey \in Nat /\ MaxFaults \in Nat

VARIABLES
    hosts,      \* the hosts table: the row of each id
    nextId,     \* its AUTO_INCREMENT
    lastKey,    \* agent keys handed out, one per registration
    metrics,    \* hostnames that have rows in metrics
    history,    \* hostnames that have rows in metric_history
    reach,      \* addresses that answer a ping or a TCP connect now
    todo,       \* what is left of each checker's snapshot of hosts
    cur,        \* the change of status each checker is writing
    call,       \* the request each server thread is at
    faults,     \* statements that have raised
    due,        \* history: ids that a check wrote DOWN and is still to notify of
    overlapped  \* hostnames with a report and a deletion at one time

tables == <<hosts, nextId, lastKey, metrics, history>>
ghosts == <<faults, due, overlapped>>
hostVars == <<hosts, nextId, lastKey, metrics, history, reach, todo, cur, call,
              faults, due, overlapped>>

Op == {"idle", "register", "registered", "metrics", "status", "history", "beat",
       "delete", "delete_history", "delete_row", "deleted", "add", "scan", "found"}
Call == [op : Op, hostname : Hostname \cup {None}, id : Id \cup {None},
         ip : Ip \cup {None}, key : Nat \cup {None}, ips : SUBSET Ip]

Idle == [op |-> "idle", hostname |-> None, id |-> None, ip |-> None,
         key |-> None, ips |-> {}]

HostInit ==
    /\ hosts = [i \in Id |-> None]
    /\ nextId = 1 /\ lastKey = 0
    /\ metrics = {} /\ history = {}
    /\ reach \in SUBSET Ip
    /\ todo = [c \in Checker |-> {}]
    /\ cur = [c \in Checker |-> None]
    /\ call = [r \in Request |-> Idle]
    /\ faults = 0 /\ due = {} /\ overlapped = {}

-----------------------------------------------------------------------------
Stored == {i \in Id : hosts[i] # None}
Named(h) == {i \in Stored : hosts[i].hostname = h}
At(ip) == {i \in Stored : hosts[i].ip = ip}
KeyOf(k) == {i \in Stored : hosts[i].key = k}

\* query_one: some row of S, None when there is none.
OneOf(S) == IF S = {} THEN {None} ELSE S

\* UPDATE hosts SET f=v WHERE id=i: no row, no change and no error.
With(i, f, v) ==
    IF i \in Stored THEN [hosts EXCEPT ![i] = [@ EXCEPT ![f] = v]] ELSE hosts

\* Faulty variant: a session that is not strict takes any status.
InsertableLoosely(h, status, os) ==
    Named(h) = {} /\ os \in OsEnum /\ nextId \in Id

\* INSERT INTO hosts passes when the hostname is new (uk_hostname) and the
\* values are in their ENUMs, the session's sql_mode being strict.
Insertable(h, status, os) ==
    Named(h) = {} /\ status \in StatusEnum /\ os \in OsEnum /\ nextId \in Id

Insert(h, ip, status, key) ==
    /\ hosts' = [hosts EXCEPT ![nextId] =
                    [hostname |-> h, ip |-> ip, status |-> status, key |-> key]]
    /\ nextId' = nextId + 1

Deleting(h) == \E r \in Request : /\ call[r].hostname = h
                                  /\ call[r].op \in {"delete", "delete_history", "delete_row"}
Reporting(h) == \E r \in Request : /\ call[r].hostname = h
                                   /\ call[r].op \in {"metrics", "status", "history"}

GoOn(r, op) == call' = [call EXCEPT ![r].op = op]
Return(r) == call' = [call EXCEPT ![r] = Idle]
Begin(r, c) == call[r] = Idle /\ call' = [call EXCEPT ![r] = c]

-----------------------------------------------------------------------------
\* POST /agent/register

RegisterSelect(r, h, ip) ==
    /\ lastKey < MaxKey
    /\ lastKey' = lastKey + 1
    /\ \E i \in OneOf(Named(h)) :
           Begin(r, [Idle EXCEPT !.op = "register", !.hostname = h, !.ip = ip,
                                 !.id = i, !.key = lastKey + 1])
    /\ UNCHANGED <<hosts, nextId, metrics, history, reach, todo, cur, ghosts>>

\* The row that was found gets the new address and key, if it is still there.
RegisterUpdate(r) ==
    /\ call[r].op = "register" /\ call[r].id # None
    /\ hosts' = IF call[r].id \in Stored
                THEN [hosts EXCEPT ![call[r].id] =
                        [@ EXCEPT !.ip = call[r].ip, !.key = call[r].key, !.status = "UP"]]
                ELSE hosts
    /\ GoOn(r, "registered")
    /\ UNCHANGED <<nextId, lastKey, metrics, history, reach, todo, cur, ghosts>>

RegisterInsert(r) ==
    /\ call[r].op = "register" /\ call[r].id = None
    /\ Insertable(call[r].hostname, "UP", "linux")
    /\ Insert(call[r].hostname, call[r].ip, "UP", call[r].key)
    /\ GoOn(r, "registered")
    /\ UNCHANGED <<lastKey, metrics, history, reach, todo, cur, ghosts>>

RegisterRefused(r) ==
    /\ call[r].op = "register" /\ call[r].id = None
    /\ ~Insertable(call[r].hostname, "UP", "linux")
    /\ Return(r)
    /\ UNCHANGED <<tables, reach, todo, cur, ghosts>>

\* The event is inserted and 201 answered, with the key.
RegisterReply(r) ==
    /\ call[r].op = "registered"
    /\ Return(r)
    /\ UNCHANGED <<tables, reach, todo, cur, ghosts>>

-----------------------------------------------------------------------------
\* POST /agent/report and /agent/heartbeat.  An unknown key is answered with
\* 403, none at all with 401, and nothing is stored.

ReportSelect(r, k) ==
    \E i \in KeyOf(k) :
        LET h == hosts[i].hostname
        IN  /\ Begin(r, [Idle EXCEPT !.op = "metrics", !.hostname = h, !.id = i])
            /\ overlapped' = IF Deleting(h) THEN overlapped \cup {h} ELSE overlapped
            /\ UNCHANGED <<tables, reach, todo, cur, faults, due>>

ReportMetrics(r) ==
    /\ call[r].op = "metrics"
    /\ metrics' = metrics \cup {call[r].hostname}
    /\ GoOn(r, "status")
    /\ UNCHANGED <<hosts, nextId, lastKey, history, reach, todo, cur, ghosts>>

ReportStatus(r) ==
    /\ call[r].op = "status"
    /\ hosts' = With(call[r].id, "status", "UP")
    /\ GoOn(r, "history")
    /\ UNCHANGED <<nextId, lastKey, metrics, history, reach, todo, cur, ghosts>>

\* One INSERT per metric: another one follows or the request is answered.
ReportHistory(r) ==
    /\ call[r].op = "history"
    /\ history' = history \cup {call[r].hostname}
    /\ GoOn(r, "history") \/ Return(r)
    /\ UNCHANGED <<hosts, nextId, lastKey, metrics, reach, todo, cur, ghosts>>

HeartbeatSelect(r, k) ==
    /\ \E i \in KeyOf(k) : Begin(r, [Idle EXCEPT !.op = "beat", !.id = i])
    /\ UNCHANGED <<tables, reach, todo, cur, ghosts>>

HeartbeatStatus(r) ==
    /\ call[r].op = "beat"
    /\ hosts' = With(call[r].id, "status", "UP")
    /\ Return(r)
    /\ UNCHANGED <<nextId, lastKey, metrics, history, reach, todo, cur, ghosts>>

-----------------------------------------------------------------------------
\* DELETE /hosts/<id>: the data goes by hostname, the row by id.

DeleteSelect(r, i) ==
    LET h == hosts[i].hostname
    IN  /\ i \in Stored
        /\ Begin(r, [Idle EXCEPT !.op = "delete", !.hostname = h, !.id = i])
        /\ overlapped' = IF Reporting(h) THEN overlapped \cup {h} ELSE overlapped
        /\ UNCHANGED <<tables, reach, todo, cur, faults, due>>

\* Faulty variant: the metrics are forgotten.
DeleteOnlyHistory(r) ==
    /\ call[r].op = "delete"
    /\ GoOn(r, "delete_history")
    /\ UNCHANGED <<tables, reach, todo, cur, ghosts>>

DeleteMetrics(r) ==
    /\ call[r].op = "delete"
    /\ metrics' = metrics \ {call[r].hostname}
    /\ GoOn(r, "delete_history")
    /\ UNCHANGED <<hosts, nextId, lastKey, history, reach, todo, cur, ghosts>>

DeleteHistory(r) ==
    /\ call[r].op = "delete_history"
    /\ history' = history \ {call[r].hostname}
    /\ GoOn(r, "delete_row")
    /\ UNCHANGED <<hosts, nextId, lastKey, metrics, reach, todo, cur, ghosts>>

DeleteRow(r) ==
    /\ call[r].op = "delete_row"
    /\ hosts' = [hosts EXCEPT ![call[r].id] = None]
    /\ GoOn(r, "deleted")
    /\ UNCHANGED <<nextId, lastKey, metrics, history, reach, todo, cur, ghosts>>

DeleteReply(r) ==
    /\ call[r].op = "deleted"
    /\ Return(r)
    /\ UNCHANGED <<tables, reach, todo, cur, ghosts>>

\* PUT /hosts/<hostname>: one statement; of the columns it may set only the
\* address matters here.
UpdateHost(h, ip) ==
    /\ hosts' = [i \in Id |-> IF i \in Named(h) THEN [hosts[i] EXCEPT !.ip = ip] ELSE hosts[i]]
    /\ UNCHANGED <<nextId, lastKey, metrics, history, reach, todo, cur, call, ghosts>>

\* POST /hosts: 409 when the hostname or the address is known.  The status it
\* inserts is 'UNKNOWN', so the statement raises.
AddSelect(r, h, ip) ==
    /\ Named(h) \cup At(ip) = {}
    /\ Begin(r, [Idle EXCEPT !.op = "add", !.hostname = h, !.ip = ip])
    /\ UNCHANGED <<tables, reach, todo, cur, ghosts>>

AddInsert(r) ==
    LET h == call[r].hostname
    IN  /\ call[r].op = "add"
        /\ IF Insertable(h, "UNKNOWN", "linux")
           THEN Insert(h, call[r].ip, "UNKNOWN", None)
           ELSE UNCHANGED <<hosts, nextId>>
        /\ Return(r)
        /\ UNCHANGED <<lastKey, metrics, history, reach, todo, cur, ghosts>>

-----------------------------------------------------------------------------
\* POST /discovery/scan: the sweep first, then each address that answered.

ScanSweep(r) ==
    /\ \E S \in SUBSET reach \ {{}} : Begin(r, [Idle EXCEPT !.op = "scan", !.ips = S])
    /\ UNCHANGED <<tables, reach, todo, cur, ghosts>>

ScanSelect(r) ==
    /\ call[r].op = "scan"
    /\ \E ip \in call[r].ips : \E i \in OneOf(At(ip)) :
           call' = [call EXCEPT ![r] = [@ EXCEPT !.op = "found", !.ip = ip, !.id = i,
                                                 !.ips = call[r].ips \ {ip}]]
    /\ UNCHANGED <<tables, reach, todo, cur, ghosts>>

NextAddress(r) ==
    IF call[r].ips = {} THEN Return(r)
    ELSE call' = [call EXCEPT ![r] = [@ EXCEPT !.op = "scan", !.ip = None, !.id = None]]

ScanUpdate(r) ==
    /\ call[r].op = "found" /\ call[r].id # None
    /\ hosts' = With(call[r].id, "status", "UP")
    /\ NextAddress(r)
    /\ UNCHANGED <<nextId, lastKey, metrics, history, reach, todo, cur, ghosts>>

\* What reverse DNS may answer for an address, and what system its TTL suggests.
ReverseDns(ip) == Hostname
DetectedOs(ip) == {"linux", "windows", "network_device", "unknown"}

\* An INSERT that raises ends the scan, the rest of the addresses undone.
ScanInsert(r) ==
    /\ call[r].op = "found" /\ call[r].id = None
    /\ \E h \in ReverseDns(call[r].ip), os \in DetectedOs(call[r].ip) :
           IF Insertable(h, "UP", os)
           THEN Insert(h, call[r].ip, "UP", None) /\ NextAddress(r)
           ELSE Return(r) /\ UNCHANGED <<hosts, nextId>>
    /\ UNCHANGED <<lastKey, metrics, history, reach, todo, cur, ghosts>>

-----------------------------------------------------------------------------
\* check_host_status

CheckStart(c) ==
    /\ todo[c] = {} /\ cur[c] = None
    /\ Stored # {}
    /\ todo' = [todo EXCEPT ![c] = {[id |-> i, ip |-> hosts[i].ip, status |-> hosts[i].status] :
                                    i \in Stored}]
    /\ UNCHANGED <<tables, reach, cur, call, ghosts>>

\* Faulty variants: a host that was DOWN is not looked at again; one that does
\* not answer is given another try in the next check, for ever.
CheckPingIfUp(c) ==
    /\ cur[c] = None
    /\ \E s \in todo[c] :
           /\ todo' = [todo EXCEPT ![c] = @ \ {s}]
           /\ cur' = IF s.status # "UP" \/ s.ip \in reach THEN cur
                     ELSE [cur EXCEPT ![c] = [id |-> s.id, new |-> "DOWN", at |-> "write"]]
    /\ UNCHANGED <<tables, reach, call, ghosts>>

CheckPingLeniently(c) ==
    /\ cur[c] = None
    /\ \E s \in todo[c] :
           /\ todo' = [todo EXCEPT ![c] = @ \ {s}]
           /\ cur' = IF s.status = "UP" \/ s.ip \notin reach THEN cur
                     ELSE [cur EXCEPT ![c] = [id |-> s.id, new |-> "UP", at |-> "write"]]
    /\ UNCHANGED <<tables, reach, call, ghosts>>

\* The ping; the answer is compared with the status of the SNAPSHOT.  When they
\* agree only last_seen is written.
CheckPing(c) ==
    /\ cur[c] = None
    /\ \E s \in todo[c] :
           LET new == IF s.ip \in reach THEN "UP" ELSE "DOWN"
           IN  /\ todo' = [todo EXCEPT ![c] = @ \ {s}]
               /\ cur' = IF new = s.status THEN cur
                         ELSE [cur EXCEPT ![c] = [id |-> s.id, new |-> new, at |-> "write"]]
    /\ UNCHANGED <<tables, reach, call, ghosts>>

CheckWrite(c) ==
    LET i == cur[c].id
    IN  /\ cur[c] # None /\ cur[c].at = "write"
        /\ hosts' = With(i, "status", cur[c].new)
        /\ cur' = [cur EXCEPT ![c] = [@ EXCEPT !.at = "event"]]
        /\ due' = IF /\ i \in Stored /\ hosts[i].status # "DOWN"
                     /\ cur[c].new = "DOWN"
                  THEN due \cup {i} ELSE due
        /\ UNCHANGED <<nextId, lastKey, metrics, history, reach, todo, call,
                       faults, overlapped>>

CheckEvent(c) ==
    /\ cur[c] # None /\ cur[c].at = "event"
    /\ cur' = [cur EXCEPT ![c] = [@ EXCEPT !.at = "notify"]]
    /\ UNCHANGED <<tables, reach, todo, call, ghosts>>

\* Faulty variant: nothing is sent when the row has changed in the meantime.
CheckNotifyIfStill(c) ==
    LET i == cur[c].id
        still == i \in Stored /\ hosts[i].status = cur[c].new
    IN  /\ cur[c] # None /\ cur[c].at = "notify"
        /\ due' = IF cur[c].new = "DOWN" /\ still THEN due \ {i} ELSE due
        /\ cur' = [cur EXCEPT ![c] = None]
        /\ UNCHANGED <<tables, reach, todo, call, faults, overlapped>>

\* It passes only where the table of notifications was made by hand.
CheckNotify(c) ==
    /\ cur[c] # None /\ cur[c].at = "notify"
    /\ due' = IF cur[c].new = "DOWN" THEN due \ {cur[c].id} ELSE due
    /\ cur' = [cur EXCEPT ![c] = None]
    /\ UNCHANGED <<tables, reach, todo, call, faults, overlapped>>

\* A check that breaks off: the hosts it had left wait for the next one, and the
\* change it was at is not notified of.
BreakOff(c) ==
    /\ due' = IF /\ cur[c] # None /\ cur[c].at # "write"
                 /\ cur[c].new = "DOWN"
              THEN due \ {cur[c].id} ELSE due
    /\ todo' = [todo EXCEPT ![c] = {}]
    /\ cur' = [cur EXCEPT ![c] = None]

\* As the schema is shipped MySQL refuses its CREATE TABLE notifications for the
\* column "read", a reserved word: the INSERT raises, and the check ends with it.
NotifyFails(c) ==
    /\ cur[c] # None /\ cur[c].at = "notify"
    /\ BreakOff(c)
    /\ UNCHANGED <<tables, reach, call, faults, overlapped>>

-----------------------------------------------------------------------------
\* A statement raises or the worker dies: what the thread had left is lost.

RequestFails(r) ==
    /\ call[r] # Idle /\ faults < MaxFaults
    /\ faults' = faults + 1
    /\ Return(r)
    /\ UNCHANGED <<tables, reach, todo, cur, due, overlapped>>

CheckFails(c) ==
    /\ todo[c] # {} \/ cur[c] # None
    /\ faults < MaxFaults
    /\ faults' = faults + 1
    /\ BreakOff(c)
    /\ UNCHANGED <<tables, reach, call, overlapped>>

\* Machines and the network come and go.
Reachability ==
    /\ \E ip \in Ip : reach' = IF ip \in reach THEN reach \ {ip} ELSE reach \cup {ip}
    /\ UNCHANGED <<tables, todo, cur, call, ghosts>>

CheckStep(c) ==
    \/ CheckStart(c) \/ CheckPing(c) \/ CheckWrite(c) \/ CheckEvent(c)
    \/ CheckNotify(c) \/ NotifyFails(c)

\* What a request does after its first statement, registrations apart.
Continue(r) ==
    \/ ReportMetrics(r) \/ ReportStatus(r) \/ ReportHistory(r) \/ HeartbeatStatus(r)
    \/ DeleteMetrics(r) \/ DeleteHistory(r) \/ DeleteReply(r) \/ AddInsert(r)
    \/ ScanSelect(r) \/ ScanUpdate(r) \/ ScanInsert(r)

\* The requests of operators, and of clients that kept the key of a reply.
NewRequest(r) ==
    \/ \E k \in 1..lastKey : ReportSelect(r, k) \/ HeartbeatSelect(r, k)
    \/ \E i \in Id : DeleteSelect(r, i)
    \/ \E h \in Hostname, ip \in Ip : AddSelect(r, h, ip)
    \/ ScanSweep(r)
=============================================================================
