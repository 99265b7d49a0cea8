-------------------------- MODULE AgentFleet_proofs ---------------------------
(***************************************************************************)
(* Theorems about AgentFleet for every set of hosts, addresses, agents and   *)
(* threads.  TypeInv is typing plus what a request holds between two of its  *)
(* statements; DataInv adds what reports and deletions know of the data,     *)
(* RegisterInv what an agent's registration has stored so far.               *)
(***************************************************************************)
EXTENDS AgentFleet, TLAPS

RegisterOps == {"register", "registered"}
ReportOps == {"metrics", "status", "history"}
DeleteOps == {"delete", "delete_history", "delete_row"}

\* What the statements of a request use is there.
HeldOK ==
    \A r \in Request :
        /\ call[r].op \in RegisterOps \cup ReportOps \cup DeleteOps
              => call[r].hostname \in Hostname
        /\ call[r].op \in RegisterOps \cup {"found"} => call[r].ip \in Ip

TypeInv == TypeOK /\ HeldOK

\* Ids are used once, and id i was never another host's than h.
IdsAreFresh == \A i \in Stored : i < nextId
IsOf(i, h) == i \in Id /\ i < nextId /\ (i \in Stored => hosts[i].hostname = h)

KnowsItsHost ==
    \A r \in Request : call[r].op \in DeleteOps => IsOf(call[r].id, call[r].hostname)

\* Reports and deletions of a host that meet are on record.
MeetingsAreSeen == \A h \in Hostname : Deleting(h) /\ Reporting(h) => h \in overlapped

\* A deletion that met no report has removed what it says it has.
DeletedSoFar ==
    \A r \in Request :
        LET h == call[r].hostname
        IN  /\ call[r].op \in {"delete_history", "delete_row"} => h \notin metrics \/ h \in overlapped
            /\ call[r].op = "delete_row" => h \notin history \/ h \in overlapped

\* A report that met no deletion is about a host that is there.
ReportedIsThere ==
    \A h \in Hostname : Reporting(h) => Named(h) # {} \/ h \in overlapped

DataInv ==
    /\ TypeInv /\ IdsAreFresh /\ KnowsItsHost
    /\ MeetingsAreSeen /\ DeletedSoFar /\ ReportedIsThere /\ DataHasItsHost

\* The machine's host was deleted since it began to register, or has a row.
RowOrGone(m) == m \in gone \/ Named(NameOf[m]) # {}

\* The thread an agent waits for registers it, and what it has found or stored
\* is there.
Waiting(m) ==
    thread[m] # None =>
        LET c == call[thread[m]]
        IN  /\ agent[m] = "waiting"
            /\ c.op \in RegisterOps /\ c.hostname = NameOf[m]
            /\ c.op = "registered" => RowOrGone(m)
            /\ c.op = "register" /\ c.id # None => m \in gone \/ c.id \in Named(NameOf[m])

Believes(m) == known[m] => agent[m] = "running" /\ RowOrGone(m)

RegisterInv == DataInv /\ \A m \in Machine : Waiting(m) /\ Believes(m)

-----------------------------------------------------------------------------
\* Typing, the server's side of it and the agents'.
HostTypes ==
    /\ hosts \in [Id -> Row \cup {None}]
    /\ nextId \in 1..(MaxId + 1) /\ lastKey \in 0..MaxKey
    /\ metrics \subseteq Hostname /\ history \subseteq Hostname
    /\ reach \subseteq Ip
    /\ todo \in [Checker -> SUBSET Snapshot]
    /\ cur \in [Checker -> Change \cup {None}]
    /\ call \in [Request -> Call]
    /\ faults \in 0..MaxFaults
    /\ due \subseteq Id /\ overlapped \subseteq Hostname
    /\ HeldOK

AgentTypes ==
    /\ agent \in [Machine -> {"stopped", "waiting", "running"}]
    /\ thread \in [Machine -> Request \cup {None}]
    /\ known \in [Machine -> BOOLEAN]
    /\ sent \in [Machine -> BOOLEAN \cup {None}]
    /\ gone \subseteq Machine

LEMMA TypesAre == TypeInv <=> HostTypes /\ AgentTypes
BY DEF TypeInv, TypeOK, HostTypes, AgentTypes

LEMMA IdleIsCall == Idle \in Call
BY DEF Idle, Call, Op

\* A request that is at c holds what c is to hold, and the others hold theirs.
LEMMA CallStep ==
    ASSUME call \in [Request -> Call], HeldOK, NEW r \in Request, NEW c \in Call,
           call' = [call EXCEPT ![r] = c],
           c.op \in RegisterOps \cup ReportOps \cup DeleteOps => c.hostname \in Hostname,
           c.op \in RegisterOps \cup {"found"} => c.ip \in Ip
    PROVE  call' \in [Request -> Call] /\ HeldOK'
BY DEF HeldOK

LEMMA ReturnStep ==
    ASSUME call \in [Request -> Call], HeldOK, NEW r \in Request, Return(r)
    PROVE  call' \in [Request -> Call] /\ HeldOK'
<1>1. Idle.op = "idle"
  BY DEF Idle
<1>2. QED
  BY <1>1, IdleIsCall, CallStep DEF Return, RegisterOps, ReportOps, DeleteOps

\* A request that goes on within its kind needs what it had.
LEMMA GoOnStep ==
    ASSUME call \in [Request -> Call], HeldOK, NEW r \in Request, NEW op \in Op, GoOn(r, op),
           op \in RegisterOps => call[r].op \in RegisterOps,
           op \in ReportOps \cup DeleteOps => call[r].op \in ReportOps \cup DeleteOps,
           op # "found"
    PROVE  call' \in [Request -> Call] /\ HeldOK'
<1>. DEFINE c == [call[r] EXCEPT !.op = op]
<1>1. /\ c \in Call /\ c.op = op /\ c.hostname = call[r].hostname /\ c.ip = call[r].ip
  BY DEF Call
<1>2. call' = [call EXCEPT ![r] = c]
  BY DEF GoOn
<1>3. c.op \in RegisterOps \cup ReportOps \cup DeleteOps => c.hostname \in Hostname
  BY <1>1 DEF HeldOK
<1>4. c.op \in RegisterOps \cup {"found"} => c.ip \in Ip
  BY <1>1 DEF HeldOK
<1>. HIDE DEF c
<1>5. QED
  BY <1>1, <1>2, <1>3, <1>4, CallStep

\* What a request begins with.
LEMMA BeginStep ==
    ASSUME call \in [Request -> Call], HeldOK, NEW r \in Request, NEW c \in Call, Begin(r, c),
           c.op \in RegisterOps \cup ReportOps \cup DeleteOps => c.hostname \in Hostname,
           c.op \in RegisterOps \cup {"found"} => c.ip \in Ip
    PROVE  call' \in [Request -> Call] /\ HeldOK'
BY CallStep DEF Begin

\* One UPDATE of a status, and one INSERT, keep rows rows.
LEMMA WithTypes ==
    ASSUME hosts \in [Id -> Row \cup {None}], NEW i, NEW v \in StatusEnum,
           hosts' = With(i, "status", v)
    PROVE  /\ hosts' \in [Id -> Row \cup {None}]
           /\ Stored' = Stored
           /\ \A j \in Stored : /\ hosts'[j].hostname = hosts[j].hostname
                                /\ hosts'[j].key = hosts[j].key
BY HostAssumption DEF With, Stored, Row

LEMMA InsertTypes ==
    ASSUME hosts \in [Id -> Row \cup {None}], nextId \in 1..(MaxId + 1),
           NEW h \in Hostname, NEW ip \in Ip, NEW status \in StatusEnum,
           NEW key \in Nat \cup {None}, nextId \in Id, Insert(h, ip, status, key)
    PROVE  /\ hosts' \in [Id -> Row \cup {None}]
           /\ nextId' \in 1..(MaxId + 1) /\ nextId' = nextId + 1
           /\ Stored' = Stored \cup {nextId}
           /\ hosts'[nextId].hostname = h
           /\ \A j \in Id \ {nextId} : hosts'[j] = hosts[j]
<1>. DEFINE row == [hostname |-> h, ip |-> ip, status |-> status, key |-> key]
<1>1. row \in Row /\ row # None /\ row.hostname = h
  BY HostAssumption DEF Row
<1>2. hosts' = [hosts EXCEPT ![nextId] = row] /\ nextId' = nextId + 1
  BY DEF Insert
<1>. HIDE DEF row
<1>3. QED
  BY <1>1, <1>2, HostAssumption DEF Stored, Id

\* The tables and what is beside the calls stay: so do their types.
LEMMA OnlyCalls ==
    ASSUME HostTypes, call' \in [Request -> Call], HeldOK',
           UNCHANGED <<tables, reach, todo, cur, faults, due>>,
           overlapped' \subseteq Hostname
    PROVE  HostTypes'
BY DEF HostTypes, tables

LEMMA RegisterTypes ==
    ASSUME HostTypes, NEW r \in Request,
           \/ \E h \in Hostname, ip \in Ip : RegisterSelect(r, h, ip)
           \/ RegisterUpdate(r) \/ RegisterInsert(r) \/ RegisterRefused(r) \/ RegisterReply(r)
    PROVE  HostTypes'
<1>1. ASSUME NEW h \in Hostname, NEW ip \in Ip, RegisterSelect(r, h, ip) PROVE HostTypes'
  <2>1. PICK i \in OneOf(Named(h)) :
           Begin(r, [Idle EXCEPT !.op = "register", !.hostname = h, !.ip = ip,
                                 !.id = i, !.key = lastKey + 1])
    BY <1>1 DEF RegisterSelect
  <2>. DEFINE c == [Idle EXCEPT !.op = "register", !.hostname = h, !.ip = ip,
                                !.id = i, !.key = lastKey + 1]
  <2>2. i \in Id \cup {None}
    BY DEF OneOf, Named, Stored
  <2>3. lastKey + 1 \in Nat /\ h \in Hostname \cup {None} /\ ip \in Ip \cup {None}
    BY DEF HostTypes
  <2>4. c \in Call /\ c.op = "register" /\ c.hostname = h /\ c.ip = ip
    BY <2>2, <2>3 DEF Idle, Call, Op
  <2>5. Begin(r, c)
    BY <2>1
  <2>. HIDE DEF c
  <2>6. call' \in [Request -> Call] /\ HeldOK'
    BY <2>4, <2>5, BeginStep DEF HostTypes
  <2>7. lastKey' \in 0..MaxKey
    <3>1. lastKey < MaxKey /\ lastKey' = lastKey + 1
      BY <1>1 DEF RegisterSelect
    <3>2. QED
      BY <3>1, HostAssumption DEF HostTypes
  <2>8. QED
    BY <1>1, <2>6, <2>7 DEF RegisterSelect, HostTypes, ghosts
<1>2. CASE RegisterUpdate(r)
  <2>1. call[r].ip \in Ip /\ call[r].key \in Nat \cup {None}
    BY <1>2 DEF RegisterUpdate, HostTypes, HeldOK, RegisterOps, Call
  <2>2. hosts' \in [Id -> Row \cup {None}]
    <3>. DEFINE i == call[r].id
                row == [hosts[i] EXCEPT !.ip = call[r].ip, !.key = call[r].key, !.status = "UP"]
    <3>1. hosts' = IF i \in Stored THEN [hosts EXCEPT ![i] = row] ELSE hosts
      BY <1>2 DEF RegisterUpdate
    <3>2. i \in Stored => hosts[i] \in Row
      BY DEF HostTypes, Stored
    <3>3. i \in Stored => row \in Row
      BY <2>1, <3>2 DEF Row, StatusEnum
    <3>. HIDE DEF i, row
    <3>4. QED
      BY <3>1, <3>3 DEF HostTypes
  <2>3. call' \in [Request -> Call] /\ HeldOK'
    BY <1>2, GoOnStep DEF RegisterUpdate, HostTypes, RegisterOps, ReportOps, DeleteOps, Op
  <2>4. QED
    BY <1>2, <2>2, <2>3 DEF RegisterUpdate, HostTypes, ghosts
<1>3. CASE RegisterInsert(r)
  <2>1. /\ call[r].hostname \in Hostname /\ call[r].ip \in Ip
        /\ call[r].key \in Nat \cup {None}
    BY <1>3 DEF RegisterInsert, HostTypes, HeldOK, RegisterOps, Call
  <2>2. hosts' \in [Id -> Row \cup {None}] /\ nextId' \in 1..(MaxId + 1)
    BY <1>3, <2>1, InsertTypes DEF RegisterInsert, Insertable, HostTypes, StatusEnum
  <2>3. call' \in [Request -> Call] /\ HeldOK'
    BY <1>3, GoOnStep DEF RegisterInsert, HostTypes, RegisterOps, ReportOps, DeleteOps, Op
  <2>4. QED
    BY <1>3, <2>2, <2>3 DEF RegisterInsert, HostTypes, ghosts
<1>4. CASE RegisterRefused(r) \/ RegisterReply(r)
  BY <1>4, ReturnStep, OnlyCalls DEF RegisterRefused, RegisterReply, HostTypes, ghosts
<1>5. QED
  BY <1>1, <1>2, <1>3, <1>4

LEMMA ReportTypes ==
    ASSUME HostTypes, NEW r \in Request,
           \/ \E k \in Nat : ReportSelect(r, k) \/ HeartbeatSelect(r, k)
           \/ ReportMetrics(r) \/ ReportStatus(r) \/ ReportHistory(r) \/ HeartbeatStatus(r)
    PROVE  HostTypes'
<1>1. ASSUME NEW k \in Nat, ReportSelect(r, k) PROVE HostTypes'
  <2>1. PICK i \in KeyOf(k) :
           /\ Begin(r, [Idle EXCEPT !.op = "metrics", !.hostname = hosts[i].hostname, !.id = i])
           /\ overlapped' = IF Deleting(hosts[i].hostname)
                            THEN overlapped \cup {hosts[i].hostname} ELSE overlapped
           /\ UNCHANGED <<tables, reach, todo, cur, faults, due>>
    BY <1>1 DEF ReportSelect
  <2>. DEFINE c == [Idle EXCEPT !.op = "metrics", !.hostname = hosts[i].hostname, !.id = i]
  <2>2. i \in Id /\ hosts[i].hostname \in Hostname
    BY DEF KeyOf, Stored, HostTypes, Row
  <2>3. c \in Call /\ c.op = "metrics" /\ c.hostname \in Hostname
    BY <2>2 DEF Idle, Call, Op
  <2>4. Begin(r, c)
    BY <2>1
  <2>. HIDE DEF c
  <2>5. call' \in [Request -> Call] /\ HeldOK'
    BY <2>3, <2>4, BeginStep DEF HostTypes, RegisterOps
  <2>6. overlapped' \subseteq Hostname
    BY <2>1, <2>2 DEF HostTypes
  <2>7. QED
    BY <2>1, <2>5, <2>6, OnlyCalls
<1>2. ASSUME NEW k \in Nat, HeartbeatSelect(r, k) PROVE HostTypes'
  <2>1. PICK i \in KeyOf(k) : Begin(r, [Idle EXCEPT !.op = "beat", !.id = i])
    BY <1>2 DEF HeartbeatSelect
  <2>. DEFINE c == [Idle EXCEPT !.op = "beat", !.id = i]
  <2>2. c \in Call /\ c.op = "beat"
    BY DEF Idle, Call, Op, KeyOf, Stored
  <2>3. Begin(r, c)
    BY <2>1
  <2>. HIDE DEF c
  <2>4. call' \in [Request -> Call] /\ HeldOK'
    BY <2>2, <2>3, BeginStep DEF HostTypes, RegisterOps, ReportOps, DeleteOps
  <2>5. QED
    BY <1>2, <2>4, OnlyCalls DEF HeartbeatSelect, ghosts, HostTypes
<1>3. CASE ReportMetrics(r)
  <2>1. call' \in [Request -> Call] /\ HeldOK'
    BY <1>3, GoOnStep DEF ReportMetrics, HostTypes, RegisterOps, ReportOps, DeleteOps, Op
  <2>2. metrics' \subseteq Hostname
    BY <1>3 DEF ReportMetrics, HostTypes, HeldOK, ReportOps
  <2>3. QED
    BY <1>3, <2>1, <2>2 DEF ReportMetrics, HostTypes, ghosts
<1>4. CASE ReportStatus(r)
  <2>1. call' \in [Request -> Call] /\ HeldOK'
    BY <1>4, GoOnStep DEF ReportStatus, HostTypes, RegisterOps, ReportOps, DeleteOps, Op
  <2>2. hosts' \in [Id -> Row \cup {None}]
    BY <1>4, WithTypes DEF ReportStatus, HostTypes, StatusEnum
  <2>3. QED
    BY <1>4, <2>1, <2>2 DEF ReportStatus, HostTypes, ghosts
<1>5. CASE ReportHistory(r)
  <2>1. call' \in [Request -> Call] /\ HeldOK'
    BY <1>5, GoOnStep, ReturnStep
    DEF ReportHistory, HostTypes, RegisterOps, ReportOps, DeleteOps, Op
  <2>2. history' \subseteq Hostname
    BY <1>5 DEF ReportHistory, HostTypes, HeldOK, ReportOps
  <2>3. QED
    BY <1>5, <2>1, <2>2 DEF ReportHistory, HostTypes, ghosts
<1>6. CASE HeartbeatStatus(r)
  <2>1. call' \in [Request -> Call] /\ HeldOK'
    BY <1>6, ReturnStep DEF HeartbeatStatus, HostTypes
  <2>2. hosts' \in [Id -> Row \cup {None}]
    BY <1>6, WithTypes DEF HeartbeatStatus, HostTypes, StatusEnum
  <2>3. QED
    BY <1>6, <2>1, <2>2 DEF HeartbeatStatus, HostTypes, ghosts
<1>7. QED
  BY <1>1, <1>2, <1>3, <1>4, <1>5, <1>6

LEMMA DeleteTypes ==
    ASSUME HostTypes, NEW r \in Request,
           \/ \E i \in Id : DeleteSelect(r, i)
           \/ DeleteMetrics(r) \/ DeleteHistory(r) \/ DeleteRow(r) \/ DeleteReply(r)
    PROVE  HostTypes'
<1>1. ASSUME NEW i \in Id, DeleteSelect(r, i) PROVE HostTypes'
  <2>. DEFINE c == [Idle EXCEPT !.op = "delete", !.hostname = hosts[i].hostname, !.id = i]
  <2>1. hosts[i].hostname \in Hostname
    BY <1>1 DEF DeleteSelect, Stored, HostTypes, Row
  <2>2. c \in Call /\ c.op = "delete" /\ c.hostname \in Hostname
    BY <2>1 DEF Idle, Call, Op
  <2>3. Begin(r, c)
    BY <1>1 DEF DeleteSelect
  <2>. HIDE DEF c
  <2>4. call' \in [Request -> Call] /\ HeldOK'
    BY <2>2, <2>3, BeginStep DEF HostTypes, RegisterOps
  <2>5. overlapped' \subseteq Hostname
    BY <1>1, <2>1 DEF DeleteSelect, HostTypes
  <2>6. UNCHANGED <<tables, reach, todo, cur, faults, due>>
    BY <1>1 DEF DeleteSelect
  <2>7. QED
    BY <2>4, <2>5, <2>6, OnlyCalls
<1>2. CASE DeleteMetrics(r)
  <2>1. call' \in [Request -> Call] /\ HeldOK'
    BY <1>2, GoOnStep DEF DeleteMetrics, HostTypes, RegisterOps, ReportOps, DeleteOps, Op
  <2>2. QED
    BY <1>2, <2>1 DEF DeleteMetrics, HostTypes, ghosts
<1>3. CASE DeleteHistory(r)
  <2>1. call' \in [Request -> Call] /\ HeldOK'
    BY <1>3, GoOnStep DEF DeleteHistory, HostTypes, RegisterOps, ReportOps, DeleteOps, Op
  <2>2. QED
    BY <1>3, <2>1 DEF DeleteHistory, HostTypes, ghosts
<1>4. CASE DeleteRow(r)
  <2>1. call' \in [Request -> Call] /\ HeldOK'
    BY <1>4, GoOnStep DEF DeleteRow, HostTypes, RegisterOps, ReportOps, DeleteOps, Op
  <2>2. QED
    BY <1>4, <2>1 DEF DeleteRow, HostTypes, ghosts
<1>5. CASE DeleteReply(r)
  BY <1>5, ReturnStep, OnlyCalls DEF DeleteReply, HostTypes, ghosts
<1>6. QED
  BY <1>1, <1>2, <1>3, <1>4, <1>5

\* The status of POST /hosts is not one of the column's.
LEMMA AddsNothing ==
    ASSUME NEW r \in Request, AddInsert(r)
    PROVE  /\ UNCHANGED <<tables, reach, todo, cur, ghosts>> /\ Return(r)
BY DEF AddInsert, Insertable, StatusEnum, tables

LEMMA InventoryTypes ==
    ASSUME HostTypes,
           \/ \E r \in Request : \/ \E h \in Hostname, ip \in Ip : AddSelect(r, h, ip)
                                 \/ AddInsert(r)
           \/ \E h \in Hostname, ip \in Ip : UpdateHost(h, ip)
    PROVE  HostTypes'
<1>1. ASSUME NEW r \in Request, NEW h \in Hostname, NEW ip \in Ip, AddSelect(r, h, ip)
      PROVE  HostTypes'
  <2>. DEFINE c == [Idle EXCEPT !.op = "add", !.hostname = h, !.ip = ip]
  <2>1. c \in Call /\ c.op = "add"
    BY DEF Idle, Call, Op
  <2>2. Begin(r, c)
    BY <1>1 DEF AddSelect
  <2>. HIDE DEF c
  <2>3. call' \in [Request -> Call] /\ HeldOK'
    BY <2>1, <2>2, BeginStep DEF HostTypes, RegisterOps, ReportOps, DeleteOps
  <2>4. QED
    BY <1>1, <2>3, OnlyCalls DEF AddSelect, ghosts, HostTypes
<1>2. ASSUME NEW r \in Request, AddInsert(r) PROVE HostTypes'
  BY <1>2, AddsNothing, ReturnStep, OnlyCalls DEF HostTypes, ghosts
<1>3. ASSUME NEW h \in Hostname, NEW ip \in Ip, UpdateHost(h, ip) PROVE HostTypes'
  <2>1. hosts' \in [Id -> Row \cup {None}]
    BY <1>3 DEF UpdateHost, HostTypes, Named, Stored, Row
  <2>2. QED
    BY <1>3, <2>1
    DEF UpdateHost, HostTypes, HeldOK, ghosts, RegisterOps, ReportOps, DeleteOps
<1>4. QED
  BY <1>1, <1>2, <1>3

\* A scan goes on with the next address or is over.
LEMMA NextAddressTypes ==
    ASSUME call \in [Request -> Call], HeldOK, NEW r \in Request, NextAddress(r)
    PROVE  call' \in [Request -> Call] /\ HeldOK'
<1>1. CASE call[r].ips = {}
  BY <1>1, ReturnStep DEF NextAddress
<1>2. CASE call[r].ips # {}
  <2>. DEFINE c == [call[r] EXCEPT !.op = "scan", !.ip = None, !.id = None]
  <2>1. c \in Call /\ c.op = "scan"
    BY DEF Call, Op
  <2>2. call' = [call EXCEPT ![r] = c]
    BY <1>2 DEF NextAddress
  <2>. HIDE DEF c
  <2>3. QED
    BY <2>1, <2>2, CallStep DEF RegisterOps, ReportOps, DeleteOps
<1>3. QED
  BY <1>1, <1>2

LEMMA ScanTypes ==
    ASSUME HostTypes, NEW r \in Request,
           ScanSweep(r) \/ ScanSelect(r) \/ ScanUpdate(r) \/ ScanInsert(r)
    PROVE  HostTypes'
<1>1. CASE ScanSweep(r)
  <2>1. PICK S \in SUBSET reach : Begin(r, [Idle EXCEPT !.op = "scan", !.ips = S])
    BY <1>1 DEF ScanSweep
  <2>. DEFINE c == [Idle EXCEPT !.op = "scan", !.ips = S]
  <2>2. S \subseteq Ip
    BY DEF HostTypes
  <2>3. c \in Call /\ c.op = "scan"
    BY <2>2 DEF Idle, Call, Op
  <2>4. Begin(r, c)
    BY <2>1
  <2>. HIDE DEF c
  <2>5. call' \in [Request -> Call] /\ HeldOK'
    BY <2>3, <2>4, BeginStep DEF HostTypes, RegisterOps, ReportOps, DeleteOps
  <2>6. QED
    BY <1>1, <2>5, OnlyCalls DEF ScanSweep, ghosts, HostTypes
<1>2. CASE ScanSelect(r)
  <2>1. PICK ip \in call[r].ips : \E i \in OneOf(At(ip)) :
           call' = [call EXCEPT ![r] = [@ EXCEPT !.op = "found", !.ip = ip, !.id = i,
                                                 !.ips = call[r].ips \ {ip}]]
    BY <1>2 DEF ScanSelect
  <2>2. PICK i \in OneOf(At(ip)) :
           call' = [call EXCEPT ![r] = [@ EXCEPT !.op = "found", !.ip = ip, !.id = i,
                                                 !.ips = call[r].ips \ {ip}]]
    BY <2>1
  <2>. DEFINE c == [call[r] EXCEPT !.op = "found", !.ip = ip, !.id = i,
                                !.ips = call[r].ips \ {ip}]
  <2>3. ip \in Ip /\ i \in Id \cup {None}
    BY DEF HostTypes, Call, OneOf, At, Stored
  <2>4. c \in Call /\ c.op = "found" /\ c.ip = ip
    <3>1. call[r] \in Call
      BY DEF HostTypes
    <3>2. call[r].ips \ {ip} \in SUBSET Ip
      BY <3>1 DEF Call
    <3>3. QED
      BY <2>3, <3>1, <3>2 DEF Call, Op
  <2>5. call' = [call EXCEPT ![r] = c]
    BY <2>2
  <2>. HIDE DEF c
  <2>6. call' \in [Request -> Call] /\ HeldOK'
    BY <2>3, <2>4, <2>5, CallStep DEF HostTypes, RegisterOps, ReportOps, DeleteOps
  <2>7. QED
    BY <1>2, <2>6, OnlyCalls DEF ScanSelect, ghosts, HostTypes
<1>3. CASE ScanUpdate(r)
  <2>1. call' \in [Request -> Call] /\ HeldOK'
    BY <1>3, NextAddressTypes DEF ScanUpdate, HostTypes
  <2>2. hosts' \in [Id -> Row \cup {None}]
    BY <1>3, WithTypes DEF ScanUpdate, HostTypes, StatusEnum
  <2>3. QED
    BY <1>3, <2>1, <2>2 DEF ScanUpdate, HostTypes, ghosts
<1>4. CASE ScanInsert(r)
  <2>1. PICK h \in Hostname, os \in DetectedOs(call[r].ip) :
           IF Insertable(h, "UP", os)
           THEN Insert(h, call[r].ip, "UP", None) /\ NextAddress(r)
           ELSE Return(r) /\ UNCHANGED <<hosts, nextId>>
    BY <1>4 DEF ScanInsert, ReverseDns
  <2>2. call' \in [Request -> Call] /\ HeldOK'
    BY <2>1, NextAddressTypes, ReturnStep DEF HostTypes
  <2>3. call[r].ip \in Ip
    BY <1>4 DEF ScanInsert, HostTypes, HeldOK
  <2>4. hosts' \in [Id -> Row \cup {None}] /\ nextId' \in 1..(MaxId + 1)
    BY <2>1, <2>3, InsertTypes DEF Insertable, HostTypes, StatusEnum
  <2>5. QED
    BY <1>4, <2>2, <2>4 DEF ScanInsert, HostTypes, ghosts
<1>5. QED
  BY <1>1, <1>2, <1>3, <1>4

LEMMA CheckTypes ==
    ASSUME HostTypes, NEW c \in Checker, CheckStep(c) \/ CheckFails(c)
    PROVE  HostTypes'
<1>. USE DEF HostTypes, tables, ghosts
<1>1. HeldOK' <=> HeldOK
  BY DEF CheckStep, CheckStart, CheckPing, CheckWrite, CheckEvent, CheckNotify,
         NotifyFails, BreakOff, CheckFails, HeldOK
<1>2. CASE CheckStart(c)
  <2>1. \A i \in Stored : [id |-> i, ip |-> hosts[i].ip, status |-> hosts[i].status] \in Snapshot
    BY DEF Stored, Row, Snapshot
  <2>2. todo' \in [Checker -> SUBSET Snapshot]
    BY <1>2, <2>1 DEF CheckStart
  <2>3. QED
    BY <1>1, <1>2, <2>2 DEF CheckStart
<1>3. CASE CheckPing(c)
  <2>1. PICK s \in todo[c], new \in {"UP", "DOWN"} :
           /\ todo' = [todo EXCEPT ![c] = @ \ {s}]
           /\ cur' = cur \/ cur' = [cur EXCEPT ![c] = [id |-> s.id, new |-> new, at |-> "write"]]
    BY <1>3 DEF CheckPing
  <2>2. [id |-> s.id, new |-> new, at |-> "write"] \in Change
    BY DEF Snapshot, Change
  <2>3. cur' \in [Checker -> Change \cup {None}] /\ todo' \in [Checker -> SUBSET Snapshot]
    BY <2>1, <2>2
  <2>4. QED
    BY <1>1, <1>3, <2>3 DEF CheckPing
<1>4. CASE CheckWrite(c)
  <2>1. /\ cur[c] \in Change /\ cur' = [cur EXCEPT ![c] = [cur[c] EXCEPT !.at = "event"]]
        /\ hosts' = With(cur[c].id, "status", cur[c].new)
    BY <1>4 DEF CheckWrite
  <2>2. [cur[c] EXCEPT !.at = "event"] \in Change /\ cur[c].new \in StatusEnum
    BY <2>1 DEF Change, StatusEnum
  <2>3. hosts' \in [Id -> Row \cup {None}]
    BY <2>1, <2>2, WithTypes
  <2>4. cur' \in [Checker -> Change \cup {None}]
    BY <2>1, <2>2
  <2>5. due' \subseteq Id
    BY <1>4 DEF CheckWrite, Stored
  <2>6. QED
    BY <1>1, <1>4, <2>3, <2>4, <2>5 DEF CheckWrite
<1>5. CASE CheckEvent(c)
  <2>1. cur[c] \in Change /\ cur' = [cur EXCEPT ![c] = [cur[c] EXCEPT !.at = "notify"]]
    BY <1>5 DEF CheckEvent
  <2>2. [cur[c] EXCEPT !.at = "notify"] \in Change
    BY <2>1 DEF Change
  <2>3. QED
    BY <1>1, <1>5, <2>1, <2>2 DEF CheckEvent
<1>6. CASE CheckNotify(c)
  BY <1>1, <1>6 DEF CheckNotify
<1>7. CASE CheckFails(c)
  <2>1. faults' \in 0..MaxFaults
    BY <1>7, HostAssumption DEF CheckFails
  <2>2. QED
    BY <1>1, <1>7, <2>1 DEF CheckFails, BreakOff
<1>8. CASE NotifyFails(c)
  BY <1>1, <1>8 DEF NotifyFails, BreakOff
<1>9. QED
  BY <1>2, <1>3, <1>4, <1>5, <1>6, <1>7, <1>8 DEF CheckStep

LEMMA FailureTypes ==
    ASSUME HostTypes, Reachability \/ \E r \in Request : RequestFails(r)
    PROVE  HostTypes'
<1>1. CASE Reachability
  BY <1>1
  DEF Reachability, HostTypes, HeldOK, tables, ghosts, RegisterOps, ReportOps, DeleteOps
<1>2. ASSUME NEW r \in Request, RequestFails(r) PROVE HostTypes'
  <2>1. call' \in [Request -> Call] /\ HeldOK'
    BY <1>2, ReturnStep DEF RequestFails, HostTypes
  <2>2. faults' \in 0..MaxFaults
    BY <1>2, HostAssumption DEF RequestFails, HostTypes
  <2>3. QED
    BY <1>2, <2>1, <2>2 DEF RequestFails, HostTypes, tables
<1>3. QED
  BY <1>1, <1>2

LEMMA SameHosts == HostTypes /\ UNCHANGED hostVars => HostTypes'
BY DEF HostTypes, hostVars, HeldOK, RegisterOps, ReportOps, DeleteOps

\* The server's side of every step.
LEMMA ServerTypes ==
    ASSUME HostTypes, NEW r \in Request, ServerStep(r)
    PROVE  HostTypes'
<1>1. \A k \in 1..lastKey : k \in Nat
  OBVIOUS
<1>2. CASE NewRequest(r)
  BY <1>1, <1>2, ReportTypes, DeleteTypes, InventoryTypes, ScanTypes DEF NewRequest
<1>3. CASE Continue(r)
  BY <1>3, ReportTypes, DeleteTypes, InventoryTypes, ScanTypes DEF Continue
<1>4. CASE ~Continue(r) /\ ~NewRequest(r)
  BY <1>4, RegisterTypes, DeleteTypes, FailureTypes DEF ServerStep, Forget
<1>5. QED
  BY <1>2, <1>3, <1>4

LEMMA NextHostTypes == HostTypes /\ [Next]_vars => HostTypes'
<1>. SUFFICES ASSUME HostTypes, [Next]_vars PROVE HostTypes'
  OBVIOUS
<1>1. ASSUME NEW m \in Machine, AgentStep(m) PROVE HostTypes'
  <2>1. ASSUME NEW r \in Request, Register(m, r) PROVE HostTypes'
    <3>1. RegisterSelect(r, NameOf[m], AddressOf[m])
      BY <2>1 DEF Register
    <3>2. NameOf[m] \in Hostname /\ AddressOf[m] \in Ip
      BY FleetAssumption
    <3>3. QED
      BY <3>1, <3>2, RegisterTypes
  <2>2. CASE NoServer(m) \/ TimeOut(m) \/ Turn(m) \/ Stop(m)
    BY <2>2, SameHosts DEF NoServer, TimeOut, Turn, Stop
  <2>3. QED
    BY <1>1, <2>1, <2>2 DEF AgentStep
<1>2. CASE Surroundings
  BY <1>2, FailureTypes, InventoryTypes, CheckTypes DEF Surroundings
<1>3. CASE UNCHANGED vars
  BY <1>3, SameHosts DEF vars
<1>4. QED
  BY <1>1, <1>2, <1>3, ServerTypes, CheckTypes DEF Next

LEMMA AnswerTypes ==
    ASSUME AgentTypes, NEW r, NEW ok \in BOOLEAN, Answer(r, ok)
    PROVE  AgentTypes'
BY DEF AgentTypes, Answer

LEMMA NextAgentTypes == AgentTypes /\ [Next]_vars => AgentTypes'
<1>. SUFFICES ASSUME AgentTypes, [Next]_vars PROVE AgentTypes'
  OBVIOUS
<1>1. ASSUME NEW m \in Machine, AgentStep(m) PROVE AgentTypes'
  <2>. USE DEF AgentTypes
  <2>1. ASSUME NEW r \in Request, Register(m, r) PROVE AgentTypes'
    <3>1. /\ agent' = [agent EXCEPT ![m] = "waiting"] /\ thread' = [thread EXCEPT ![m] = r]
          /\ gone' = gone \ {m} /\ UNCHANGED <<known, sent>>
      BY <2>1 DEF Register
    <3>2. QED
      BY <3>1
  <2>2. CASE NoServer(m) \/ TimeOut(m)
    <3>1. EnterLoop(m, FALSE) /\ UNCHANGED <<sent, gone>>
      BY <2>2 DEF NoServer, TimeOut
    <3>2. QED
      BY <3>1 DEF EnterLoop
  <2>3. CASE Turn(m)
    BY <2>3 DEF Turn, Accepted
  <2>4. CASE Stop(m)
    BY <2>4 DEF Stop
  <2>5. QED
    BY <1>1, <2>1, <2>2, <2>3, <2>4 DEF AgentStep
<1>2. ASSUME NEW r \in Request, ServerStep(r) PROVE AgentTypes'
  <2>1. CASE UNCHANGED agentVars
    BY <2>1 DEF agentVars, AgentTypes
  <2>2. CASE Answer(r, TRUE) \/ Answer(r, FALSE)
    BY <2>2, AnswerTypes
  <2>3. CASE Forget(r)
    BY <2>3 DEF Forget, AgentTypes
  <2>4. QED
    BY <1>2, <2>1, <2>2, <2>3 DEF ServerStep
<1>3. CASE UNCHANGED agentVars
  BY <1>3 DEF agentVars, AgentTypes
<1>4. QED
  BY <1>1, <1>2, <1>3 DEF Next, Surroundings, vars

LEMMA InitTypes == Init => TypeInv
<1>. SUFFICES ASSUME Init PROVE TypeInv
  OBVIOUS
<1>1. HeldOK
  BY DEF Init, HostInit, HeldOK, Idle, RegisterOps, ReportOps, DeleteOps
<1>2. HostTypes
  BY <1>1, IdleIsCall, HostAssumption DEF Init, HostInit, HostTypes
<1>3. AgentTypes
  BY DEF Init, AgentTypes
<1>4. QED
  BY <1>2, <1>3, TypesAre

LEMMA NextTypes == TypeInv /\ [Next]_vars => TypeInv'
BY NextHostTypes, NextAgentTypes, TypesAre DEF TypeInv, TypeOK, HostTypes, AgentTypes

\* Whatever agents, operators and checks do at one time, every value stored is one
\* its column takes: the statuses of host_checker.py:73, api_agent.py:40-50, 76 and
\* api_discovery.py are in the ENUM, and 'UNKNOWN' (api_hosts.py:31) is never there.
THEOREM TypeCorrect == Spec => []TypeOK
<1>1. TypeInv => TypeOK
  BY DEF TypeInv
<1>2. QED
  BY InitTypes, NextTypes, <1>1, PTL DEF Spec

-----------------------------------------------------------------------------
\* The checker that has written a host DOWN and has still to say so.
Announces(c, i) ==
    cur[c] # None /\ cur[c].id = i /\ cur[c].new = "DOWN" /\ cur[c].at # "write"

\* Only the checks write what the announcements are about.
LEMMA AnnouncementsStay ==
    DownIsAnnounced /\ UNCHANGED <<cur, due>> => DownIsAnnounced'
BY DEF DownIsAnnounced

\* A step of c keeps what the other checkers announce.
LEMMA AnnounceStep ==
    ASSUME TypeInv, DownIsAnnounced, NEW c \in Checker, NEW v, cur' = [cur EXCEPT ![c] = v],
           \A i \in due' : (i \in due /\ ~Announces(c, i)) \/ Announces(c, i)'
    PROVE  DownIsAnnounced'
<1>1. ASSUME NEW i \in due' PROVE \E d \in Checker : Announces(d, i)'
  <2>1. CASE Announces(c, i)'
    BY <2>1
  <2>2. CASE i \in due /\ ~Announces(c, i)
    <3>1. PICK d \in Checker : Announces(d, i)
      BY <2>2 DEF DownIsAnnounced, Announces
    <3>2. d # c /\ cur'[d] = cur[d]
      BY <2>2, <3>1 DEF TypeInv, TypeOK
    <3>3. QED
      BY <3>1, <3>2 DEF Announces
  <2>3. QED
    BY <1>1, <2>1, <2>2
<1>2. QED
  BY <1>1 DEF DownIsAnnounced, Announces

LEMMA CheckAnnounces ==
    ASSUME TypeInv, DownIsAnnounced, NEW c \in Checker, CheckStep(c) \/ CheckFails(c)
    PROVE  DownIsAnnounced'
<1>. USE DEF TypeInv, TypeOK
<1>1. CASE CheckStart(c)
  BY <1>1, AnnouncementsStay DEF CheckStart, ghosts
<1>2. CASE CheckPing(c)
  <2>1. PICK s \in todo[c] :
           LET new == IF s.ip \in reach THEN "UP" ELSE "DOWN"
           IN  cur' = IF new = s.status THEN cur
                      ELSE [cur EXCEPT ![c] = [id |-> s.id, new |-> new, at |-> "write"]]
    BY <1>2 DEF CheckPing
  <2>2. cur[c] = None /\ UNCHANGED due
    BY <1>2 DEF CheckPing, ghosts
  <2>3. CASE UNCHANGED cur
    BY <2>2, <2>3, AnnouncementsStay
  <2>4. ASSUME NEW v, cur' = [cur EXCEPT ![c] = v] PROVE DownIsAnnounced'
    <3>1. \A i : ~Announces(c, i)
      BY <2>2 DEF Announces
    <3>2. QED
      BY <2>2, <2>4, <3>1, AnnounceStep
  <2>5. QED
    BY <2>1, <2>3, <2>4
<1>3. CASE CheckWrite(c)
  <2>. DEFINE v == [cur[c] EXCEPT !.at = "event"]
              i == cur[c].id
  <2>1. /\ cur[c] \in Change /\ cur[c].at = "write" /\ cur' = [cur EXCEPT ![c] = v]
        /\ \A j \in due' : j \in due \/ (j = i /\ cur[c].new = "DOWN")
    <3>1. cur[c] # None /\ cur[c].at = "write"
      BY <1>3 DEF CheckWrite
    <3>2. cur' = [cur EXCEPT ![c] = v]
      BY <1>3 DEF CheckWrite
    <3>3. \A j \in due' : j \in due \/ (j = i /\ cur[c].new = "DOWN")
      BY <1>3 DEF CheckWrite
    <3>4. cur[c] \in Change
      BY <3>1
    <3>5. QED
      BY <3>1, <3>2, <3>3, <3>4
  <2>2. v \in Change /\ v.id = i /\ v.new = cur[c].new /\ v.at = "event"
    BY <2>1 DEF Change
  <2>3. v # None /\ cur'[c] = v
    BY <2>1, <2>2, HostAssumption
  <2>4. \A j : ~Announces(c, j)
    BY <2>1 DEF Announces
  <2>5. \A j : j = i /\ cur[c].new = "DOWN" => Announces(c, j)'
    BY <2>2, <2>3 DEF Announces
  <2>. HIDE DEF v, i
  <2>6. QED
    BY <2>1, <2>4, <2>5, AnnounceStep
<1>4. CASE CheckEvent(c)
  <2>. DEFINE v == [cur[c] EXCEPT !.at = "notify"]
  <2>1. cur[c] \in Change /\ cur' = [cur EXCEPT ![c] = v] /\ UNCHANGED due
    BY <1>4 DEF CheckEvent, ghosts
  <2>2. v \in Change /\ v.id = cur[c].id /\ v.new = cur[c].new /\ v.at = "notify"
    BY <2>1 DEF Change
  <2>3. v # None /\ cur'[c] = v
    BY <2>1, <2>2, HostAssumption
  <2>4. \A j : Announces(c, j) => Announces(c, j)'
    BY <2>2, <2>3 DEF Announces
  <2>. HIDE DEF v
  <2>5. QED
    BY <2>1, <2>4, AnnounceStep
<1>5. CASE CheckNotify(c)
  <2>1. /\ cur' = [cur EXCEPT ![c] = None]
        /\ \A j \in due' : j \in due /\ ~Announces(c, j)
    BY <1>5 DEF CheckNotify, Announces
  <2>2. QED
    BY <2>1, AnnounceStep
<1>6. CASE CheckFails(c) \/ NotifyFails(c)
  <2>1. /\ cur' = [cur EXCEPT ![c] = None]
        /\ \A j \in due' : j \in due /\ ~Announces(c, j)
    BY <1>6 DEF CheckFails, NotifyFails, BreakOff, Announces
  <2>2. QED
    BY <2>1, AnnounceStep
<1>7. QED
  BY <1>1, <1>2, <1>3, <1>4, <1>5, <1>6 DEF CheckStep

\* Requests and agents leave it to the checks.
LEMMA OthersAnnounceNothing ==
    ASSUME DownIsAnnounced,
           \/ \E r \in Request : ServerStep(r)
           \/ \E m \in Machine : AgentStep(m)
           \/ Reachability \/ \E h \in Hostname, ip \in Ip : UpdateHost(h, ip)
           \/ UNCHANGED vars
    PROVE  DownIsAnnounced'
<1>1. ASSUME NEW r \in Request, ServerStep(r) PROVE UNCHANGED <<cur, due>>
  <2>1. CASE Continue(r)
    BY <2>1
    DEF Continue, ReportMetrics, ReportStatus, ReportHistory, HeartbeatStatus, DeleteMetrics,
        DeleteHistory, DeleteReply, AddInsert, ScanSelect, ScanUpdate, ScanInsert, ghosts
  <2>2. CASE NewRequest(r)
    BY <2>2
    DEF NewRequest, ReportSelect, HeartbeatSelect, DeleteSelect, AddSelect, ScanSweep, ghosts
  <2>3. QED
    BY <1>1, <2>1, <2>2
    DEF ServerStep, RegisterUpdate, RegisterInsert, RegisterReply, RegisterRefused,
        RequestFails, Forget, DeleteRow, ghosts
<1>2. ASSUME NEW m \in Machine, AgentStep(m) PROVE UNCHANGED <<cur, due>>
  BY <1>2
  DEF AgentStep, Register, RegisterSelect, NoServer, TimeOut, Turn, Stop, hostVars, ghosts
<1>3. CASE UNCHANGED vars
  BY <1>3, AnnouncementsStay DEF vars, hostVars
<1>4. QED
  BY <1>1, <1>2, <1>3, AnnouncementsStay DEF Reachability, UpdateHost, ghosts

\* A host that a check has marked DOWN is notified of by that check, whatever agents
\* and operators do to it in between, unless the check breaks off (host_checker.py:68-76).
THEOREM DownIsNeverSilent == Spec => []DownIsAnnounced
<1>1. Init => DownIsAnnounced
  BY DEF Init, HostInit, DownIsAnnounced
<1>2. TypeInv /\ DownIsAnnounced /\ [Next]_vars => DownIsAnnounced'
  BY CheckAnnounces, OthersAnnounceNothing DEF Next, Surroundings
<1>3. QED
  BY InitTypes, NextTypes, <1>1, <1>2, PTL DEF Spec

-----------------------------------------------------------------------------
\* Rows that stay keep their hostname, and a new row has the next id.
RowsKept ==
    /\ \A i \in Stored' : \/ i \in Stored /\ hosts'[i].hostname = hosts[i].hostname
                          \/ i = nextId /\ nextId' = nextId + 1
    /\ nextId' = nextId \/ nextId' = nextId + 1

LEMMA FreshIds ==
    ASSUME HostTypes, IdsAreFresh, RowsKept
    PROVE  IdsAreFresh'
BY HostAssumption DEF HostTypes, IdsAreFresh, RowsKept, Stored, Id

\* What a deletion knows stays so under every step that begins none.
LEMMA KnowledgeStays ==
    ASSUME HostTypes, KnowsItsHost, RowsKept,
           \A r \in Request : call'[r].op \in DeleteOps =>
               \/ /\ call[r].op \in DeleteOps
                  /\ call'[r].id = call[r].id /\ call'[r].hostname = call[r].hostname
               \/ IsOf(call'[r].id, call'[r].hostname)
    PROVE  KnowsItsHost'
<1>1. ASSUME NEW r \in Request, call'[r].op \in DeleteOps
      PROVE  IsOf(call[r].id, call[r].hostname)'
  <2>1. IsOf(call'[r].id, call'[r].hostname)
    BY <1>1 DEF KnowsItsHost
  <2>2. \A i, h : IsOf(i, h) => i \in Id /\ i < nextId' /\ (i \in Stored' => hosts'[i].hostname = h)
    BY HostAssumption DEF HostTypes, RowsKept, IsOf, Stored, Id
  <2>3. QED
    BY <2>1, <2>2 DEF IsOf
<1>2. QED
  BY <1>1 DEF KnowsItsHost

\* Calls that are no reports or deletions do not matter, nor does what makes no
\* row go and touches no data.
LEMMA QuietStep ==
    ASSUME DataInv, TypeInv', RowsKept, Stored \subseteq Stored',
           \A i \in Stored : hosts'[i].hostname = hosts[i].hostname,
           UNCHANGED <<metrics, history, overlapped>>,
           \A r \in Request : call'[r] = call[r] \/ call'[r].op \notin ReportOps \cup DeleteOps
    PROVE  DataInv'
<1>. USE DEF DataInv, ReportOps, DeleteOps
<1>1. HostTypes
  BY TypesAre
<1>2. IdsAreFresh'
  BY <1>1, FreshIds
<1>3. KnowsItsHost'
  BY <1>1, KnowledgeStays
<1>4. \A h : (Deleting(h)' => Deleting(h)) /\ (Reporting(h)' => Reporting(h))
  BY DEF Deleting, Reporting
<1>5. \A h : Named(h) \subseteq Named(h)'
  BY DEF Named
<1>6. MeetingsAreSeen' /\ ReportedIsThere' /\ DataHasItsHost'
  BY <1>4, <1>5 DEF MeetingsAreSeen, ReportedIsThere, DataHasItsHost
<1>7. DeletedSoFar'
  BY DEF DeletedSoFar
<1>8. QED
  BY <1>2, <1>3, <1>6, <1>7

\* What the steps of everybody do to the rows.
LEMMA WithKeeps ==
    ASSUME HostTypes, NEW i, NEW v \in StatusEnum, hosts' = With(i, "status", v),
           UNCHANGED nextId
    PROVE  /\ RowsKept /\ Stored' = Stored
           /\ \A j \in Stored : hosts'[j].hostname = hosts[j].hostname
BY WithTypes DEF HostTypes, RowsKept

LEMMA InsertKeeps ==
    ASSUME HostTypes, IdsAreFresh, NEW h \in Hostname, NEW ip \in Ip, NEW status \in StatusEnum,
           NEW key \in Nat \cup {None}, nextId \in Id, Insert(h, ip, status, key)
    PROVE  /\ RowsKept /\ Stored \subseteq Stored'
           /\ \A j \in Stored : hosts'[j].hostname = hosts[j].hostname
           /\ nextId \in Named(h)'
<1>1. /\ Stored' = Stored \cup {nextId} /\ nextId' = nextId + 1
      /\ hosts'[nextId].hostname = h
      /\ \A j \in Id \ {nextId} : hosts'[j] = hosts[j]
  BY InsertTypes DEF HostTypes
<1>2. nextId \notin Stored
  BY DEF IdsAreFresh, HostTypes
<1>3. Stored \subseteq Id
  BY DEF Stored
<1>4. QED
  BY <1>1, <1>2, <1>3 DEF RowsKept, Named

LEMMA UpdateKeeps ==
    ASSUME HostTypes, NEW r \in Request, RegisterUpdate(r)
    PROVE  Stored' = Stored /\ \A j \in Stored : hosts'[j].hostname = hosts[j].hostname
<1>1. CASE call[r].id \in Stored
  <2>. DEFINE row == [hosts[call[r].id] EXCEPT !.ip = call[r].ip, !.key = call[r].key,
                                               !.status = "UP"]
  <2>1. hosts' = [hosts EXCEPT ![call[r].id] = row]
    BY <1>1 DEF RegisterUpdate
  <2>2. hosts[call[r].id] \in Row
    BY <1>1 DEF HostTypes, Stored
  <2>3. call[r].ip \in Ip /\ call[r].key \in Nat \cup {None}
    BY DEF RegisterUpdate, HostTypes, HeldOK, RegisterOps, Call
  <2>4. row \in Row /\ row.hostname = hosts[call[r].id].hostname
    BY <2>2, <2>3 DEF Row, StatusEnum
  <2>5. row # None
    BY <2>4, HostAssumption
  <2>. HIDE DEF row
  <2>6. QED
    BY <1>1, <2>1, <2>4, <2>5 DEF HostTypes, Stored
<1>2. CASE call[r].id \notin Stored
  BY <1>2 DEF RegisterUpdate, Stored
<1>3. QED
  BY <1>1, <1>2

LEMMA SameRows ==
    ASSUME UNCHANGED <<hosts, nextId>>
    PROVE  RowsKept /\ Stored' = Stored /\ \A j \in Stored : hosts'[j].hostname = hosts[j].hostname
BY DEF RowsKept, Stored

\* The calls after a step of r that is no report's and no deletion's.
Aside(r) == \A q \in Request : call'[q] = call[q] \/ call'[q].op \notin ReportOps \cup DeleteOps

LEMMA AsideSteps ==
    ASSUME HostTypes, NEW r \in Request,
           \/ Return(r)
           \/ \E op \in {"registered", "deleted"} : GoOn(r, op)
           \/ \E c \in Call : c.op \notin ReportOps \cup DeleteOps /\ Begin(r, c)
           \/ NextAddress(r)
    PROVE  Aside(r)
<1>. USE DEF HostTypes, Aside, ReportOps, DeleteOps
<1>1. Idle.op = "idle"
  BY DEF Idle
<1>2. CASE Return(r)
  BY <1>1, <1>2 DEF Return
<1>3. ASSUME NEW op \in {"registered", "deleted"}, GoOn(r, op) PROVE Aside(r)
  BY <1>3 DEF GoOn, Call
<1>4. ASSUME NEW c \in Call, c.op \notin ReportOps \cup DeleteOps, Begin(r, c) PROVE Aside(r)
  BY <1>4 DEF Begin
<1>5. CASE NextAddress(r)
  <2>1. CASE call[r].ips = {}
    BY <1>2, <1>5, <2>1 DEF NextAddress
  <2>2. CASE call[r].ips # {}
    <3>. DEFINE c == [call[r] EXCEPT !.op = "scan", !.ip = None, !.id = None]
    <3>1. call' = [call EXCEPT ![r] = c]
      BY <1>5, <2>2 DEF NextAddress
    <3>2. c.op = "scan"
      BY DEF Call
    <3>. HIDE DEF c
    <3>3. QED
      BY <3>1, <3>2
  <2>3. QED
    BY <2>1, <2>2
<1>6. QED
  BY <1>2, <1>3, <1>4, <1>5

LEMMA QuietServer ==
    ASSUME DataInv, TypeInv', NEW r \in Request,
           \/ \E h \in Hostname, ip \in Ip : RegisterSelect(r, h, ip) \/ AddSelect(r, h, ip)
           \/ \E k \in Nat : HeartbeatSelect(r, k)
           \/ RegisterUpdate(r) \/ RegisterInsert(r) \/ RegisterRefused(r) \/ RegisterReply(r)
           \/ HeartbeatStatus(r) \/ DeleteReply(r) \/ AddInsert(r)
           \/ ScanSweep(r) \/ ScanSelect(r) \/ ScanUpdate(r) \/ ScanInsert(r)
           \/ RequestFails(r)
    PROVE  DataInv'
<1>. USE DEF ghosts, tables
<1>1. HostTypes /\ IdsAreFresh
  BY TypesAre DEF DataInv
<1>2. ASSUME NEW h \in Hostname, NEW ip \in Ip, RegisterSelect(r, h, ip) PROVE DataInv'
  <2>1. PICK i \in OneOf(Named(h)) :
           Begin(r, [Idle EXCEPT !.op = "register", !.hostname = h, !.ip = ip,
                                 !.id = i, !.key = lastKey + 1])
    BY <1>2 DEF RegisterSelect
  <2>. DEFINE c == [Idle EXCEPT !.op = "register", !.hostname = h, !.ip = ip,
                                !.id = i, !.key = lastKey + 1]
  <2>2. c.op = "register" /\ Begin(r, c)
    BY <2>1 DEF Idle
  <2>. HIDE DEF c
  <2>3. Aside(r)
    BY <1>1, <2>2 DEF Begin, HostTypes, Aside, ReportOps, DeleteOps
  <2>4. UNCHANGED <<hosts, nextId, metrics, history, overlapped>>
    BY <1>2 DEF RegisterSelect
  <2>5. QED
    BY <2>3, <2>4, SameRows, QuietStep DEF Aside
<1>3. ASSUME NEW h \in Hostname, NEW ip \in Ip, AddSelect(r, h, ip) PROVE DataInv'
  <2>. DEFINE c == [Idle EXCEPT !.op = "add", !.hostname = h, !.ip = ip]
  <2>1. c.op = "add" /\ Begin(r, c)
    BY <1>3 DEF AddSelect, Idle
  <2>. HIDE DEF c
  <2>2. Aside(r)
    BY <1>1, <2>1 DEF Begin, HostTypes, Aside, ReportOps, DeleteOps
  <2>3. UNCHANGED <<hosts, nextId, metrics, history, overlapped>>
    BY <1>3 DEF AddSelect
  <2>4. QED
    BY <2>2, <2>3, SameRows, QuietStep DEF Aside
<1>4. ASSUME NEW k \in Nat, HeartbeatSelect(r, k) PROVE DataInv'
  <2>1. PICK i \in KeyOf(k) : Begin(r, [Idle EXCEPT !.op = "beat", !.id = i])
    BY <1>4 DEF HeartbeatSelect
  <2>. DEFINE c == [Idle EXCEPT !.op = "beat", !.id = i]
  <2>2. c.op = "beat" /\ Begin(r, c)
    BY <2>1 DEF Idle
  <2>. HIDE DEF c
  <2>3. Aside(r)
    BY <1>1, <2>2 DEF Begin, HostTypes, Aside, ReportOps, DeleteOps
  <2>4. UNCHANGED <<hosts, nextId, metrics, history, overlapped>>
    BY <1>4 DEF HeartbeatSelect
  <2>5. QED
    BY <2>3, <2>4, SameRows, QuietStep DEF Aside
<1>5. CASE RegisterUpdate(r)
  <2>1. Aside(r)
    BY <1>1, <1>5, AsideSteps DEF RegisterUpdate
  <2>2. Stored' = Stored /\ \A j \in Stored : hosts'[j].hostname = hosts[j].hostname
    BY <1>1, <1>5, UpdateKeeps
  <2>3. UNCHANGED <<nextId, metrics, history, overlapped>>
    BY <1>5 DEF RegisterUpdate
  <2>4. RowsKept
    BY <2>2, <2>3 DEF RowsKept
  <2>5. QED
    BY <2>1, <2>2, <2>3, <2>4, QuietStep DEF Aside
<1>6. CASE RegisterInsert(r)
  <2>1. Aside(r)
    BY <1>1, <1>6, AsideSteps DEF RegisterInsert
  <2>2. /\ call[r].hostname \in Hostname /\ call[r].ip \in Ip
        /\ call[r].key \in Nat \cup {None}
    BY <1>1, <1>6 DEF RegisterInsert, HostTypes, HeldOK, RegisterOps, Call
  <2>3. /\ RowsKept /\ Stored \subseteq Stored'
        /\ \A j \in Stored : hosts'[j].hostname = hosts[j].hostname
    BY <1>1, <1>6, <2>2, InsertKeeps DEF RegisterInsert, Insertable, StatusEnum
  <2>4. QED
    BY <1>6, <2>1, <2>3, QuietStep DEF Aside, RegisterInsert
<1>7. CASE RegisterRefused(r) \/ RegisterReply(r) \/ DeleteReply(r) \/ RequestFails(r) \/ AddInsert(r)
  <2>1. Return(r) /\ UNCHANGED <<hosts, nextId, metrics, history, overlapped>>
    BY <1>7, AddsNothing DEF RegisterRefused, RegisterReply, DeleteReply, RequestFails
  <2>2. QED
    BY <1>1, <2>1, AsideSteps, SameRows, QuietStep DEF Aside
<1>8. CASE HeartbeatStatus(r) \/ ScanUpdate(r)
  <2>1. Aside(r)
    BY <1>1, <1>8, AsideSteps DEF HeartbeatStatus, ScanUpdate
  <2>2. /\ hosts' = With(call[r].id, "status", "UP")
        /\ UNCHANGED <<nextId, metrics, history, overlapped>>
    BY <1>8 DEF HeartbeatStatus, ScanUpdate
  <2>3. QED
    BY <1>1, <2>1, <2>2, WithKeeps, QuietStep DEF Aside, StatusEnum
<1>9. CASE ScanSweep(r)
  <2>1. PICK S \in SUBSET reach : Begin(r, [Idle EXCEPT !.op = "scan", !.ips = S])
    BY <1>9 DEF ScanSweep
  <2>. DEFINE c == [Idle EXCEPT !.op = "scan", !.ips = S]
  <2>2. c.op = "scan" /\ Begin(r, c)
    BY <2>1 DEF Idle
  <2>. HIDE DEF c
  <2>3. Aside(r)
    BY <1>1, <2>2 DEF Begin, HostTypes, Aside, ReportOps, DeleteOps
  <2>4. UNCHANGED <<hosts, nextId, metrics, history, overlapped>>
    BY <1>9 DEF ScanSweep
  <2>5. QED
    BY <2>3, <2>4, SameRows, QuietStep DEF Aside
<1>10. CASE ScanSelect(r)
  <2>1. PICK ip, i :
           call' = [call EXCEPT ![r] = [@ EXCEPT !.op = "found", !.ip = ip, !.id = i,
                                                 !.ips = call[r].ips \ {ip}]]
    BY <1>10 DEF ScanSelect
  <2>. DEFINE c == [call[r] EXCEPT !.op = "found", !.ip = ip, !.id = i,
                                   !.ips = call[r].ips \ {ip}]
  <2>2. c.op = "found" /\ call' = [call EXCEPT ![r] = c]
    BY <1>1, <2>1 DEF HostTypes, Call
  <2>. HIDE DEF c
  <2>3. Aside(r)
    BY <1>1, <2>2 DEF HostTypes, Aside, ReportOps, DeleteOps
  <2>4. UNCHANGED <<hosts, nextId, metrics, history, overlapped>>
    BY <1>10 DEF ScanSelect
  <2>5. QED
    BY <2>3, <2>4, SameRows, QuietStep DEF Aside
<1>11. CASE ScanInsert(r)
  <2>1. PICK h \in Hostname, os \in DetectedOs(call[r].ip) :
           IF Insertable(h, "UP", os)
           THEN Insert(h, call[r].ip, "UP", None) /\ NextAddress(r)
           ELSE Return(r) /\ UNCHANGED <<hosts, nextId>>
    BY <1>11 DEF ScanInsert, ReverseDns
  <2>2. Aside(r)
    BY <1>1, <2>1, AsideSteps
  <2>3. call[r].ip \in Ip
    BY <1>1, <1>11 DEF ScanInsert, HostTypes, HeldOK
  <2>4. /\ RowsKept /\ Stored \subseteq Stored'
        /\ \A j \in Stored : hosts'[j].hostname = hosts[j].hostname
    BY <1>1, <2>1, <2>3, InsertKeeps, SameRows DEF Insertable, StatusEnum
  <2>5. QED
    BY <1>11, <2>2, <2>4, QuietStep DEF Aside, ScanInsert
<1>12. QED
  BY <1>2, <1>3, <1>4, <1>5, <1>6, <1>7, <1>8, <1>9, <1>10, <1>11

\* Only r's call changes, to c.
LEMMA CallIs ==
    ASSUME HostTypes, NEW r \in Request, NEW c, call' = [call EXCEPT ![r] = c]
    PROVE  call'[r] = c /\ \A q \in Request \ {r} : call'[q] = call[q]
BY DEF HostTypes

LEMMA GoOnIs ==
    ASSUME HostTypes, NEW r \in Request, NEW op, GoOn(r, op)
    PROVE  /\ call'[r].op = op /\ call'[r].hostname = call[r].hostname /\ call'[r].id = call[r].id
           /\ \A q \in Request \ {r} : call'[q] = call[q]
BY DEF HostTypes, GoOn, Call

\* A report finds its host there, and notes the deletions that are under way.
LEMMA ReportBegins ==
    ASSUME DataInv, TypeInv', NEW r \in Request, NEW k, ReportSelect(r, k)
    PROVE  DataInv'
<1>. USE DEF DataInv
<1>1. PICK i \in KeyOf(k) :
        /\ Begin(r, [Idle EXCEPT !.op = "metrics", !.hostname = hosts[i].hostname, !.id = i])
        /\ overlapped' = IF Deleting(hosts[i].hostname)
                         THEN overlapped \cup {hosts[i].hostname} ELSE overlapped
        /\ UNCHANGED <<tables, reach, todo, cur, faults, due>>
  BY DEF ReportSelect
<1>. DEFINE h == hosts[i].hostname
            c == [Idle EXCEPT !.op = "metrics", !.hostname = h, !.id = i]
<1>2. HostTypes
  BY TypesAre
<1>3. i \in Named(h)
  BY DEF KeyOf, Named
<1>4. c.op = "metrics" /\ c.hostname = h
  BY DEF Idle
<1>5. call' = [call EXCEPT ![r] = c]
  BY <1>1 DEF Begin
<1>6. overlapped' = IF Deleting(h) THEN overlapped \cup {h} ELSE overlapped
  BY <1>1
<1>7. UNCHANGED <<hosts, nextId, metrics, history>>
  BY <1>1 DEF tables
<1>. HIDE DEF c, h
<1>8. call'[r] = c /\ \A q \in Request \ {r} : call'[q] = call[q]
  BY <1>2, <1>5, CallIs
<1>9. \A g : /\ Deleting(g)' => Deleting(g)
             /\ Reporting(g)' => Reporting(g) \/ g = h
  BY <1>4, <1>8 DEF Deleting, Reporting
<1>10. overlapped \subseteq overlapped' /\ (Deleting(h) => h \in overlapped')
  BY <1>6
<1>11. MeetingsAreSeen'
  BY <1>9, <1>10 DEF MeetingsAreSeen
<1>12. \A g : Named(g)' = Named(g)
  BY <1>7 DEF Named, Stored
<1>13. ReportedIsThere' /\ DataHasItsHost'
  BY <1>3, <1>7, <1>9, <1>10, <1>12 DEF ReportedIsThere, DataHasItsHost
<1>14. KnowsItsHost' /\ IdsAreFresh'
  BY <1>2, <1>4, <1>7, <1>8, SameRows, KnowledgeStays, FreshIds DEF DeleteOps
<1>15. DeletedSoFar'
  BY <1>4, <1>7, <1>8, <1>10 DEF DeletedSoFar
<1>16. QED
  BY <1>11, <1>13, <1>14, <1>15

\* What a report stores is its host's.
LEMMA ReportGoesOn ==
    ASSUME DataInv, TypeInv', NEW r \in Request,
           ReportMetrics(r) \/ ReportStatus(r) \/ ReportHistory(r)
    PROVE  DataInv'
<1>. USE DEF DataInv
<1>. DEFINE h == call[r].hostname
<1>1. HostTypes
  BY TypesAre
<1>2. /\ call[r].op \in ReportOps /\ UNCHANGED <<nextId, overlapped>>
      /\ metrics' \subseteq metrics \cup {h} /\ history' \subseteq history \cup {h}
      /\ hosts' = hosts \/ hosts' = With(call[r].id, "status", "UP")
      /\ Return(r) \/ \E op \in ReportOps : GoOn(r, op)
  BY DEF ReportMetrics, ReportStatus, ReportHistory, ReportOps, ghosts
<1>3. /\ RowsKept /\ Stored' = Stored
      /\ \A j \in Stored : hosts'[j].hostname = hosts[j].hostname
  BY <1>1, <1>2, SameRows, WithKeeps DEF StatusEnum
<1>4. /\ call'[r].op \in ReportOps => call'[r].hostname = h
      /\ call'[r].op \notin DeleteOps
      /\ \A q \in Request \ {r} : call'[q] = call[q]
  <2>1. CASE Return(r)
    <3>1. call'[r] = Idle /\ \A q \in Request \ {r} : call'[q] = call[q]
      BY <1>1, <2>1, CallIs DEF Return
    <3>2. Idle.op = "idle"
      BY DEF Idle
    <3>3. QED
      BY <3>1, <3>2 DEF ReportOps, DeleteOps
  <2>2. ASSUME NEW op \in ReportOps, GoOn(r, op)
        PROVE  /\ call'[r].hostname = h /\ call'[r].op \notin DeleteOps
               /\ \A q \in Request \ {r} : call'[q] = call[q]
    BY <1>1, <2>2, GoOnIs DEF ReportOps, DeleteOps
  <2>3. QED
    BY <1>2, <2>1, <2>2
<1>5. Reporting(h) /\ h \in Hostname
  BY <1>1, <1>2 DEF Reporting, HostTypes, HeldOK, ReportOps
<1>. HIDE DEF h
<1>6. \A g : (Deleting(g)' => Deleting(g)) /\ (Reporting(g)' => Reporting(g))
  BY <1>4, <1>5 DEF Deleting, Reporting, ReportOps, DeleteOps
<1>7. \A g : Named(g)' = Named(g)
  BY <1>3 DEF Named
<1>8. MeetingsAreSeen' /\ ReportedIsThere'
  BY <1>2, <1>6, <1>7 DEF MeetingsAreSeen, ReportedIsThere
<1>9. DataHasItsHost'
  BY <1>2, <1>5, <1>7 DEF DataHasItsHost, ReportedIsThere
<1>10. KnowsItsHost' /\ IdsAreFresh'
  BY <1>1, <1>3, <1>4, KnowledgeStays, FreshIds
<1>11. DeletedSoFar'
  <2>1. ASSUME NEW q \in Request, call'[q].op \in {"delete_history", "delete_row"}
        PROVE  /\ call'[q].hostname \notin metrics' \/ call'[q].hostname \in overlapped'
               /\ call'[q].op = "delete_row" =>
                    call'[q].hostname \notin history' \/ call'[q].hostname \in overlapped'
    <3>1. call'[q] = call[q]
      BY <1>4, <2>1 DEF DeleteOps
    <3>2. call[q].hostname = h => h \in overlapped
      BY <1>5, <2>1, <3>1 DEF MeetingsAreSeen, Deleting
    <3>3. QED
      BY <1>2, <2>1, <3>1, <3>2 DEF DeletedSoFar
  <2>2. QED
    BY <2>1 DEF DeletedSoFar
<1>12. QED
  BY <1>8, <1>9, <1>10, <1>11

\* A deletion knows its host's name, and notes the reports that are under way.
LEMMA DeletionBegins ==
    ASSUME DataInv, TypeInv', NEW r \in Request, NEW i \in Id, DeleteSelect(r, i)
    PROVE  DataInv'
<1>. USE DEF DataInv
<1>. DEFINE h == hosts[i].hostname
            c == [Idle EXCEPT !.op = "delete", !.hostname = h, !.id = i]
<1>1. HostTypes
  BY TypesAre
<1>2. i \in Stored /\ IsOf(i, h)
  BY DEF DeleteSelect, IsOf, IdsAreFresh
<1>3. c.op = "delete" /\ c.hostname = h /\ c.id = i
  BY DEF Idle
<1>4. call' = [call EXCEPT ![r] = c]
  BY DEF DeleteSelect, Begin
<1>5. overlapped' = IF Reporting(h) THEN overlapped \cup {h} ELSE overlapped
  BY DEF DeleteSelect
<1>6. UNCHANGED <<hosts, nextId, metrics, history>>
  BY DEF DeleteSelect, tables
<1>. HIDE DEF c, h
<1>7. call'[r] = c /\ \A q \in Request \ {r} : call'[q] = call[q]
  BY <1>1, <1>4, CallIs
<1>8. \A g : /\ Deleting(g)' => Deleting(g) \/ g = h
             /\ Reporting(g)' => Reporting(g)
  BY <1>3, <1>7 DEF Deleting, Reporting
<1>9. overlapped \subseteq overlapped' /\ (Reporting(h) => h \in overlapped')
  BY <1>5
<1>10. \A g : Named(g)' = Named(g)
  BY <1>6 DEF Named, Stored
<1>11. MeetingsAreSeen' /\ ReportedIsThere' /\ DataHasItsHost'
  BY <1>6, <1>8, <1>9, <1>10 DEF MeetingsAreSeen, ReportedIsThere, DataHasItsHost
<1>12. KnowsItsHost' /\ IdsAreFresh'
  BY <1>1, <1>2, <1>3, <1>6, <1>7, SameRows, KnowledgeStays, FreshIds DEF DeleteOps
<1>13. DeletedSoFar'
  BY <1>3, <1>6, <1>7, <1>9 DEF DeletedSoFar
<1>14. QED
  BY <1>11, <1>12, <1>13

\* What a deletion removes stays removed, but for reports it has met.
LEMMA DeletionGoesOn ==
    ASSUME DataInv, TypeInv', NEW r \in Request, DeleteMetrics(r) \/ DeleteHistory(r)
    PROVE  DataInv'
<1>. USE DEF DataInv
<1>1. HostTypes
  BY TypesAre
<1>2. UNCHANGED <<hosts, nextId, overlapped>>
  BY DEF DeleteMetrics, DeleteHistory, ghosts
<1>3. PICK op \in {"delete_history", "delete_row"} :
        /\ GoOn(r, op)
        /\ \/ /\ op = "delete_history" /\ call[r].op = "delete"
              /\ metrics' = metrics \ {call[r].hostname} /\ history' = history
           \/ /\ op = "delete_row" /\ call[r].op = "delete_history"
              /\ metrics' = metrics /\ history' = history \ {call[r].hostname}
  BY DEF DeleteMetrics, DeleteHistory
<1>4. /\ call'[r].op = op /\ call'[r].hostname = call[r].hostname /\ call'[r].id = call[r].id
      /\ \A q \in Request \ {r} : call'[q] = call[q]
  BY <1>1, <1>3, GoOnIs
<1>5. \A g : (Deleting(g)' => Deleting(g)) /\ (Reporting(g)' => Reporting(g))
  BY <1>3, <1>4 DEF Deleting, Reporting
<1>6. \A g : Named(g)' = Named(g)
  BY <1>2 DEF Named, Stored
<1>7. MeetingsAreSeen' /\ ReportedIsThere' /\ DataHasItsHost'
  BY <1>2, <1>3, <1>5, <1>6 DEF MeetingsAreSeen, ReportedIsThere, DataHasItsHost
<1>8. KnowsItsHost' /\ IdsAreFresh'
  BY <1>1, <1>2, <1>3, <1>4, SameRows, KnowledgeStays, FreshIds DEF DeleteOps
<1>9. DeletedSoFar'
  BY <1>2, <1>3, <1>4 DEF DeletedSoFar
<1>10. QED
  BY <1>7, <1>8, <1>9

\* The row that goes is the one the deletion is about.
LEMMA RowGoes ==
    ASSUME DataInv, NEW r \in Request, DeleteRow(r)
    PROVE  /\ RowsKept
           /\ \A h : h # call[r].hostname => Named(h)' = Named(h)
<1>1. HostTypes
  BY TypesAre DEF DataInv
<1>2. IsOf(call[r].id, call[r].hostname)
  BY DEF DataInv, KnowsItsHost, DeleteRow, DeleteOps
<1>3. hosts' = [hosts EXCEPT ![call[r].id] = None] /\ UNCHANGED nextId
  BY DEF DeleteRow
<1>4. /\ Stored' = Stored \ {call[r].id}
      /\ \A i \in Stored' : hosts'[i] = hosts[i]
  BY <1>1, <1>2, <1>3 DEF HostTypes, Stored, IsOf
<1>5. QED
  BY <1>2, <1>3, <1>4 DEF RowsKept, Named, IsOf

LEMMA DeletionRemoves ==
    ASSUME DataInv, TypeInv', NEW r \in Request, DeleteRow(r)
    PROVE  DataInv'
<1>. USE DEF DataInv
<1>. DEFINE h == call[r].hostname
<1>1. HostTypes
  BY TypesAre
<1>2. /\ GoOn(r, "deleted") /\ call[r].op = "delete_row"
      /\ UNCHANGED <<metrics, history, overlapped>>
  BY DEF DeleteRow, ghosts
<1>3. RowsKept /\ \A g : g # h => Named(g)' = Named(g)
  BY RowGoes
<1>4. /\ call'[r].op = "deleted"
      /\ \A q \in Request \ {r} : call'[q] = call[q]
  BY <1>1, <1>2, GoOnIs
<1>5. Deleting(h)
  BY <1>2 DEF Deleting
<1>6. h \in metrics \cup history => h \in overlapped
  BY <1>2 DEF DeletedSoFar
<1>. HIDE DEF h
<1>7. \A g : (Deleting(g)' => Deleting(g)) /\ (Reporting(g)' => Reporting(g))
  BY <1>4 DEF Deleting, Reporting
<1>8. MeetingsAreSeen' /\ DataHasItsHost'
  BY <1>2, <1>3, <1>6, <1>7 DEF MeetingsAreSeen, DataHasItsHost
<1>9. ReportedIsThere'
  BY <1>2, <1>3, <1>5, <1>7 DEF ReportedIsThere, MeetingsAreSeen
<1>10. KnowsItsHost' /\ IdsAreFresh'
  BY <1>1, <1>3, <1>4, KnowledgeStays, FreshIds DEF DeleteOps
<1>11. DeletedSoFar'
  BY <1>2, <1>4 DEF DeletedSoFar
<1>12. QED
  BY <1>8, <1>9, <1>10, <1>11

\* Steps that leave the calls and the rows' hostnames as they are.
LEMMA QuietChecks ==
    ASSUME DataInv, TypeInv',
           \/ \E c \in Checker : CheckStep(c) \/ CheckFails(c)
           \/ Reachability \/ UNCHANGED hostVars
           \/ \E h \in Hostname, ip \in Ip : UpdateHost(h, ip)
    PROVE  DataInv'
<1>. USE DEF tables, ghosts
<1>1. HostTypes
  BY TypesAre DEF DataInv
<1>2. ASSUME NEW c \in Checker, CheckWrite(c) PROVE DataInv'
  <2>1. /\ hosts' = With(cur[c].id, "status", cur[c].new) /\ cur[c].new \in StatusEnum
        /\ UNCHANGED <<nextId, metrics, history, overlapped, call>>
    BY <1>1, <1>2 DEF CheckWrite, HostTypes, Change, StatusEnum
  <2>2. QED
    BY <1>1, <2>1, WithKeeps, QuietStep
<1>3. ASSUME UNCHANGED <<hosts, nextId, metrics, history, overlapped, call>> PROVE DataInv'
  BY <1>3, SameRows, QuietStep
<1>4. ASSUME NEW c \in Checker,
             \/ CheckStart(c) \/ CheckPing(c) \/ CheckEvent(c) \/ CheckNotify(c)
             \/ NotifyFails(c) \/ CheckFails(c)
      PROVE  DataInv'
  BY <1>3, <1>4 DEF CheckStart, CheckPing, CheckEvent, CheckNotify, NotifyFails, CheckFails
<1>5. ASSUME NEW h \in Hostname, NEW ip \in Ip, UpdateHost(h, ip) PROVE DataInv'
  <2>1. /\ hosts' = [i \in Id |-> IF i \in Named(h) THEN [hosts[i] EXCEPT !.ip = ip] ELSE hosts[i]]
        /\ UNCHANGED <<nextId, metrics, history, overlapped, call>>
    BY <1>5 DEF UpdateHost
  <2>2. \A i \in Stored : [hosts[i] EXCEPT !.ip = ip] \in Row
                          /\ [hosts[i] EXCEPT !.ip = ip].hostname = hosts[i].hostname
    BY <1>1 DEF HostTypes, Stored, Row
  <2>3. Stored' = Stored /\ \A i \in Stored : hosts'[i].hostname = hosts[i].hostname
    BY <2>1, <2>2, HostAssumption DEF Stored, Named
  <2>4. RowsKept
    BY <2>1, <2>3 DEF RowsKept
  <2>5. QED
    BY <2>1, <2>3, <2>4, QuietStep
<1>6. QED
  BY <1>2, <1>3, <1>4, <1>5 DEF CheckStep, Reachability, hostVars

LEMMA ServerData ==
    ASSUME DataInv, TypeInv', NEW r \in Request, ServerStep(r)
    PROVE  DataInv'
<1>1. \A k \in 1..lastKey : k \in Nat
  OBVIOUS
<1>2. CASE NewRequest(r)
  BY <1>1, <1>2, QuietServer, ReportBegins, DeletionBegins DEF NewRequest
<1>3. CASE Continue(r)
  BY <1>3, QuietServer, ReportGoesOn, DeletionGoesOn DEF Continue
<1>4. CASE ~Continue(r) /\ ~NewRequest(r)
  BY <1>4, QuietServer, DeletionRemoves DEF ServerStep, Forget
<1>5. QED
  BY <1>2, <1>3, <1>4

LEMMA NextData == DataInv /\ [Next]_vars => DataInv'
<1>. SUFFICES ASSUME DataInv, [Next]_vars PROVE DataInv'
  OBVIOUS
<1>1. TypeInv'
  BY NextTypes DEF DataInv
<1>2. ASSUME NEW m \in Machine, AgentStep(m) PROVE DataInv'
  <2>1. ASSUME NEW r \in Request, Register(m, r) PROVE DataInv'
    <3>1. RegisterSelect(r, NameOf[m], AddressOf[m])
      BY <2>1 DEF Register
    <3>2. NameOf[m] \in Hostname /\ AddressOf[m] \in Ip
      BY FleetAssumption
    <3>3. QED
      BY <1>1, <3>1, <3>2, QuietServer
  <2>2. CASE NoServer(m) \/ TimeOut(m) \/ Turn(m) \/ Stop(m)
    BY <1>1, <2>2, QuietChecks DEF NoServer, TimeOut, Turn, Stop
  <2>3. QED
    BY <1>2, <2>1, <2>2 DEF AgentStep
<1>3. CASE UNCHANGED vars
  BY <1>1, <1>3, QuietChecks DEF vars
<1>4. QED
  BY <1>1, <1>2, <1>3, ServerData, QuietChecks DEF Next, Surroundings

LEMMA InitData == Init => DataInv
<1>. SUFFICES ASSUME Init PROVE DataInv
  OBVIOUS
<1>1. TypeInv
  BY InitTypes
<1>2. \A r \in Request : call[r].op = "idle"
  BY DEF Init, HostInit, Idle
<1>3. Stored = {} /\ metrics = {} /\ history = {}
  BY DEF Init, HostInit, Stored
<1>4. QED
  BY <1>1, <1>2, <1>3
  DEF DataInv, IdsAreFresh, KnowsItsHost, MeetingsAreSeen, DeletedSoFar, ReportedIsThere,
      DataHasItsHost, Deleting, Reporting, DeleteOps

\* A deletion, three statements (api_hosts.py:40-44), leaves data without a host only
\* if a report (api_agent.py:62-91) was under way at one time with it, among any
\* number of requests, hosts and keys.
THEOREM DataIsKeptWithItsHost == Spec => []DataHasItsHost
<1>1. DataInv => DataHasItsHost
  BY DEF DataInv
<1>2. QED
  BY InitData, NextData, <1>1, PTL DEF Spec

-----------------------------------------------------------------------------
\* No row goes, and none changes its hostname.
NoRowGoes == \A i \in Stored : i \in Stored' /\ hosts'[i].hostname = hosts[i].hostname

LEMMA NamedGrows == ASSUME NoRowGoes, NEW h PROVE Named(h) \subseteq Named(h)'
BY DEF NoRowGoes, Named

\* A step of r leaves the other calls alone.
LEMMA OtherCallsStay ==
    ASSUME HostTypes, NEW r \in Request, ServerStep(r), NEW q \in Request \ {r}
    PROVE  call'[q] = call[q]
<1>. USE DEF HostTypes, Begin, GoOn, Return
<1>1. CASE Continue(r)
  BY <1>1
  DEF Continue, ReportMetrics, ReportStatus, ReportHistory, HeartbeatStatus, DeleteMetrics,
      DeleteHistory, DeleteReply, AddInsert, ScanSelect, ScanUpdate, ScanInsert, NextAddress
<1>2. CASE NewRequest(r)
  BY <1>2
  DEF NewRequest, ReportSelect, HeartbeatSelect, DeleteSelect, AddSelect, ScanSweep
<1>3. CASE ~Continue(r) /\ ~NewRequest(r)
  BY <1>3
  DEF ServerStep, RegisterUpdate, RegisterInsert, RegisterReply, RegisterRefused,
      RequestFails, Forget, DeleteRow
<1>4. QED
  BY <1>1, <1>2, <1>3

\* What a request does that is no registration comes from no registration.
LEMMA NotRegistering ==
    ASSUME HostTypes, NEW r \in Request, Continue(r) \/ NewRequest(r) \/ DeleteRow(r)
    PROVE  call[r].op \notin RegisterOps
<1>1. Idle.op = "idle"
  BY DEF Idle
<1>2. CASE Continue(r)
  BY <1>2
  DEF RegisterOps, Continue, ReportMetrics, ReportStatus, ReportHistory, HeartbeatStatus,
      DeleteMetrics, DeleteHistory, DeleteReply, AddInsert, ScanSelect, ScanUpdate, ScanInsert
<1>3. CASE NewRequest(r)
  BY <1>1, <1>3
  DEF RegisterOps, NewRequest, ReportSelect, HeartbeatSelect, DeleteSelect, AddSelect,
      ScanSweep, Begin
<1>4. CASE DeleteRow(r)
  BY <1>4 DEF RegisterOps, DeleteRow
<1>5. QED
  BY <1>2, <1>3, <1>4

LEMMA RowsStay ==
    ASSUME HostTypes, IdsAreFresh, NEW r \in Request,
           Continue(r) \/ NewRequest(r) \/ RegisterReply(r) \/ RegisterRefused(r) \/ RequestFails(r)
    PROVE  NoRowGoes
<1>. USE DEF tables
<1>1. ASSUME UNCHANGED <<hosts>> PROVE NoRowGoes
  BY <1>1 DEF NoRowGoes, Stored
<1>2. CASE ReportStatus(r) \/ HeartbeatStatus(r) \/ ScanUpdate(r)
  <2>1. hosts' = With(call[r].id, "status", "UP")
    BY <1>2 DEF ReportStatus, HeartbeatStatus, ScanUpdate
  <2>2. QED
    BY <2>1, WithTypes DEF HostTypes, StatusEnum, NoRowGoes
<1>3. CASE ScanInsert(r)
  <2>1. PICK h \in Hostname, os \in DetectedOs(call[r].ip) :
           IF Insertable(h, "UP", os)
           THEN Insert(h, call[r].ip, "UP", None) /\ NextAddress(r)
           ELSE Return(r) /\ UNCHANGED <<hosts, nextId>>
    BY <1>3 DEF ScanInsert, ReverseDns
  <2>2. call[r].ip \in Ip
    BY <1>3 DEF ScanInsert, HostTypes, HeldOK
  <2>3. QED
    BY <1>1, <2>1, <2>2, InsertKeeps DEF Insertable, StatusEnum, NoRowGoes
<1>4. CASE AddInsert(r)
  BY <1>1, <1>4, AddsNothing
<1>5. CASE NewRequest(r)
  BY <1>1, <1>5
  DEF NewRequest, ReportSelect, HeartbeatSelect, DeleteSelect, AddSelect, ScanSweep
<1>6. CASE \/ ReportMetrics(r) \/ ReportHistory(r) \/ DeleteMetrics(r) \/ DeleteHistory(r)
           \/ DeleteReply(r) \/ ScanSelect(r)
           \/ RegisterReply(r) \/ RegisterRefused(r) \/ RequestFails(r)
  BY <1>1, <1>6
  DEF ReportMetrics, ReportHistory, DeleteMetrics, DeleteHistory, DeleteReply, ScanSelect,
      RegisterReply, RegisterRefused, RequestFails
<1>7. QED
  BY <1>2, <1>3, <1>4, <1>5, <1>6 DEF Continue

LEMMA ChecksKeepRows ==
    ASSUME HostTypes,
           \/ \E c \in Checker : CheckStep(c) \/ CheckFails(c)
           \/ Reachability \/ UNCHANGED hostVars
           \/ \E h \in Hostname, ip \in Ip : UpdateHost(h, ip)
    PROVE  NoRowGoes /\ UNCHANGED call
<1>. USE DEF tables, ghosts
<1>1. ASSUME NEW c \in Checker, CheckWrite(c) PROVE NoRowGoes /\ UNCHANGED call
  <2>1. /\ hosts' = With(cur[c].id, "status", cur[c].new) /\ cur[c].new \in StatusEnum
        /\ UNCHANGED call
    BY <1>1 DEF CheckWrite, HostTypes, Change, StatusEnum
  <2>2. QED
    BY <2>1, WithTypes DEF HostTypes, NoRowGoes
<1>2. ASSUME NEW h \in Hostname, NEW ip \in Ip, UpdateHost(h, ip)
      PROVE  NoRowGoes /\ UNCHANGED call
  <2>1. /\ hosts' = [i \in Id |-> IF i \in Named(h) THEN [hosts[i] EXCEPT !.ip = ip] ELSE hosts[i]]
        /\ UNCHANGED call
    BY <1>2 DEF UpdateHost
  <2>2. \A i \in Stored : [hosts[i] EXCEPT !.ip = ip] \in Row
                          /\ [hosts[i] EXCEPT !.ip = ip].hostname = hosts[i].hostname
    BY DEF HostTypes, Stored, Row
  <2>3. QED
    BY <2>1, <2>2, HostAssumption DEF Stored, Named, NoRowGoes
<1>3. ASSUME NEW c \in Checker,
             \/ CheckStart(c) \/ CheckPing(c) \/ CheckEvent(c) \/ CheckNotify(c)
             \/ NotifyFails(c) \/ CheckFails(c)
      PROVE  UNCHANGED <<hosts, call>>
  BY <1>3 DEF CheckStart, CheckPing, CheckEvent, CheckNotify, NotifyFails, CheckFails
<1>4. ASSUME UNCHANGED <<hosts, call>> PROVE NoRowGoes /\ UNCHANGED call
  BY <1>4 DEF NoRowGoes, Stored
<1>5. QED
  BY <1>1, <1>2, <1>3, <1>4 DEF CheckStep, Reachability, hostVars

-----------------------------------------------------------------------------
Registered(m) == Waiting(m) /\ Believes(m)

\* What is true of a machine stays true while its agent, its row and the thread it
\* waits for do.
LEMMA MachineStays ==
    ASSUME NEW m \in Machine, Registered(m), NoRowGoes, m \in gone => m \in gone',
           agent'[m] = agent[m], thread'[m] = thread[m], known'[m] = known[m],
           thread[m] # None => call'[thread[m]] = call[thread[m]]
    PROVE  Registered(m)'
<1>1. Named(NameOf[m]) \subseteq Named(NameOf[m])'
  BY NamedGrows
<1>2. RowOrGone(m) => RowOrGone(m)'
  BY <1>1 DEF RowOrGone
<1>3. Waiting(m)'
  BY <1>1, <1>2 DEF Registered, Waiting
<1>4. QED
  BY <1>2, <1>3 DEF Registered, Believes

\* Steps that leave the agents and their registrations alone.
LEMMA AgentsStay ==
    ASSUME RegisterInv, NoRowGoes, UNCHANGED agentVars, NEW m \in Machine,
           thread[m] # None => call'[thread[m]] = call[thread[m]]
    PROVE  Registered(m)'
BY MachineStays DEF RegisterInv, Registered, agentVars

\* The request an agent waits for.
LEMMA AwaitedThread ==
    ASSUME RegisterInv, NEW m \in Machine, thread[m] # None
    PROVE  thread[m] \in Request /\ call[thread[m]].op \in RegisterOps
BY TypesAre DEF RegisterInv, DataInv, AgentTypes, Waiting

LEMMA OthersRegister ==
    ASSUME RegisterInv, NEW r \in Request, ServerStep(r), Continue(r) \/ NewRequest(r),
           UNCHANGED agentVars, NEW m \in Machine
    PROVE  Registered(m)'
<1>1. HostTypes /\ IdsAreFresh
  BY TypesAre DEF RegisterInv, DataInv
<1>2. NoRowGoes
  BY <1>1, RowsStay
<1>3. thread[m] # None => thread[m] \in Request \ {r}
  BY <1>1, NotRegistering, AwaitedThread
<1>4. thread[m] # None => call'[thread[m]] = call[thread[m]]
  BY <1>1, <1>3, OtherCallsStay
<1>5. QED
  BY <1>2, <1>4, AgentsStay

\* The row that a registration found or inserts is there when it answers.
LEMMA RegistrationStores ==
    ASSUME RegisterInv, NEW r \in Request, ServerStep(r), RegisterUpdate(r) \/ RegisterInsert(r),
           UNCHANGED agentVars, NEW m \in Machine
    PROVE  Registered(m)'
<1>1. HostTypes /\ IdsAreFresh /\ Registered(m)
  BY TypesAre DEF RegisterInv, DataInv, Registered
<1>2. /\ call[r].op = "register" /\ GoOn(r, "registered")
      /\ call[r].hostname \in Hostname /\ call[r].ip \in Ip
      /\ call[r].key \in Nat \cup {None}
  BY <1>1 DEF RegisterUpdate, RegisterInsert, HostTypes, HeldOK, RegisterOps, Call
<1>3. NoRowGoes
  <2>1. CASE RegisterUpdate(r)
    BY <1>1, <2>1, UpdateKeeps DEF NoRowGoes
  <2>2. CASE RegisterInsert(r)
    BY <1>1, <1>2, <2>2, InsertKeeps DEF RegisterInsert, Insertable, StatusEnum, NoRowGoes
  <2>3. QED
    BY <2>1, <2>2
<1>4. CASE thread[m] # r
  <2>1. thread[m] # None => call'[thread[m]] = call[thread[m]]
    BY <1>1, <1>4, AwaitedThread, OtherCallsStay
  <2>2. QED
    BY <1>3, <2>1, AgentsStay
<1>5. CASE thread[m] = r
  <2>1. thread[m] # None
    BY <1>5, FleetAssumption
  <2>2. /\ agent[m] = "waiting" /\ call[r].hostname = NameOf[m]
        /\ call[r].id # None => m \in gone \/ call[r].id \in Named(NameOf[m])
    BY <1>1, <1>2, <1>5, <2>1 DEF Registered, Waiting
  <2>3. /\ call'[r].op = "registered" /\ call'[r].hostname = call[r].hostname
    BY <1>1, <1>2, GoOnIs
  <2>4. Named(NameOf[m]) \subseteq Named(NameOf[m])'
    BY <1>3, NamedGrows
  <2>5. RowOrGone(m)'
    <3>1. CASE RegisterUpdate(r)
      BY <2>2, <2>4, <3>1 DEF RowOrGone, RegisterUpdate, agentVars
    <3>2. CASE RegisterInsert(r)
      <4>1. nextId \in Id /\ Insert(NameOf[m], call[r].ip, "UP", call[r].key)
        BY <2>2, <3>2 DEF RegisterInsert, Insertable
      <4>2. nextId \in Named(NameOf[m])'
        BY <1>1, <1>2, <4>1, FleetAssumption, InsertKeeps DEF StatusEnum
      <4>3. QED
        BY <4>2 DEF RowOrGone
    <3>3. QED
      BY <3>1, <3>2
  <2>6. UNCHANGED agentVars
    OBVIOUS
  <2>7. Waiting(m)'
    BY <1>5, <2>2, <2>3, <2>5, <2>6 DEF Waiting, RegisterOps, agentVars
  <2>8. Believes(m)'
    BY <1>1, <2>5, <2>6 DEF Registered, Believes, agentVars
  <2>9. QED
    BY <2>7, <2>8 DEF Registered
<1>6. QED
  BY <1>4, <1>5

\* An agent is told that it is registered only when its row is stored.
LEMMA AnswersAreTrue ==
    ASSUME RegisterInv, NEW r \in Request, ServerStep(r), NEW ok \in BOOLEAN, Answer(r, ok),
           \/ RegisterReply(r)
           \/ ok = FALSE /\ (RegisterRefused(r) \/ RequestFails(r)),
           NEW m \in Machine
    PROVE  Registered(m)'
<1>1. HostTypes /\ IdsAreFresh /\ AgentTypes /\ Registered(m)
  BY TypesAre DEF RegisterInv, DataInv, Registered
<1>2. NoRowGoes
  BY <1>1, RowsStay
<1>3. gone' = gone
  BY DEF Answer
<1>4. CASE thread[m] # r
  <2>1. agent'[m] = agent[m] /\ known'[m] = known[m] /\ thread'[m] = thread[m]
    BY <1>4 DEF Answer
  <2>2. thread[m] # None => call'[thread[m]] = call[thread[m]]
    BY <1>1, <1>4, AwaitedThread, OtherCallsStay
  <2>3. QED
    BY <1>1, <1>2, <1>3, <2>1, <2>2, MachineStays
<1>5. CASE thread[m] = r
  <2>1. agent'[m] = "running" /\ known'[m] = ok /\ thread'[m] = None
    BY <1>5 DEF Answer
  <2>2. ok => RowOrGone(m)
    BY <1>1, <1>5, FleetAssumption DEF Registered, Waiting, RegisterReply
  <2>3. RowOrGone(m) => RowOrGone(m)'
    BY <1>2, <1>3, NamedGrows DEF RowOrGone
  <2>4. QED
    BY <2>1, <2>2, <2>3 DEF Registered, Waiting, Believes
<1>6. QED
  BY <1>4, <1>5

\* A deletion makes the machines of its host gone.
LEMMA ForgottenAreGone ==
    ASSUME RegisterInv, NEW r \in Request, ServerStep(r), Forget(r), NEW m \in Machine
    PROVE  Registered(m)'
<1>1. HostTypes /\ IdsAreFresh /\ Registered(m) /\ DataInv
  BY TypesAre DEF RegisterInv, DataInv, Registered
<1>2. /\ DeleteRow(r)
      /\ gone' = gone \cup {n \in Machine : NameOf[n] = call[r].hostname}
      /\ UNCHANGED <<agent, thread, known>>
  BY DEF Forget
<1>3. thread[m] # None => thread[m] \in Request \ {r}
  BY <1>1, <1>2, NotRegistering, AwaitedThread
<1>4. thread[m] # None => call'[thread[m]] = call[thread[m]]
  BY <1>1, <1>3, OtherCallsStay
<1>5. m \in gone' \/ Named(NameOf[m])' = Named(NameOf[m])
  BY <1>1, <1>2, RowGoes
<1>6. gone \subseteq gone'
  BY <1>2
<1>7. RowOrGone(m) => RowOrGone(m)'
  BY <1>5, <1>6 DEF RowOrGone
<1>8. Waiting(m)'
  BY <1>1, <1>2, <1>4, <1>5, <1>6, <1>7 DEF Registered, Waiting
<1>9. Believes(m)'
  BY <1>1, <1>2, <1>7 DEF Registered, Believes
<1>10. QED
  BY <1>8, <1>9 DEF Registered

\* A registration begins with the row that is there, if one is.
LEMMA RegistrationBegins ==
    ASSUME RegisterInv, NEW n \in Machine, NEW r \in Request, Register(n, r), NEW m \in Machine
    PROVE  Registered(m)'
<1>1. HostTypes /\ AgentTypes /\ Registered(m)
  BY TypesAre DEF RegisterInv, DataInv, Registered
<1>2. PICK i \in OneOf(Named(NameOf[n])) :
         Begin(r, [Idle EXCEPT !.op = "register", !.hostname = NameOf[n], !.ip = AddressOf[n],
                               !.id = i, !.key = lastKey + 1])
  BY DEF Register, RegisterSelect
<1>. DEFINE c == [Idle EXCEPT !.op = "register", !.hostname = NameOf[n], !.ip = AddressOf[n],
                              !.id = i, !.key = lastKey + 1]
<1>3. c.op = "register" /\ c.hostname = NameOf[n] /\ c.id = i
  BY DEF Idle
<1>4. Idle.op = "idle"
  BY DEF Idle
<1>5. call[r] = Idle /\ call' = [call EXCEPT ![r] = c]
  BY <1>2 DEF Begin
<1>. HIDE DEF c
<1>6. call'[r] = c /\ \A q \in Request \ {r} : call'[q] = call[q]
  BY <1>1, <1>5, CallIs
<1>7. /\ agent[n] = "stopped" /\ UNCHANGED <<hosts, known>>
      /\ agent' = [agent EXCEPT ![n] = "waiting"]
      /\ thread' = [thread EXCEPT ![n] = r]
      /\ gone' = gone \ {n}
  BY DEF Register, RegisterSelect
<1>8. NoRowGoes /\ \A h : Named(h)' = Named(h)
  BY <1>7 DEF NoRowGoes, Stored, Named
<1>9. CASE m # n
  <2>1. thread[m] # None => thread[m] \in Request \ {r}
    BY <1>4, <1>5, AwaitedThread DEF RegisterOps
  <2>2. QED
    BY <1>1, <1>6, <1>7, <1>8, <1>9, <2>1, MachineStays DEF AgentTypes
<1>10. CASE m = n
  <2>1. agent'[m] = "waiting" /\ thread'[m] = r
    BY <1>1, <1>7, <1>10 DEF AgentTypes
  <2>2. ~known'[m]
    BY <1>1, <1>7, <1>10 DEF Registered, Believes
  <2>3. i # None => i \in Named(NameOf[m])'
    BY <1>8, <1>10 DEF OneOf
  <2>4. QED
    BY <1>3, <1>6, <1>10, <2>1, <2>2, <2>3 DEF Registered, Waiting, Believes, RegisterOps
<1>11. QED
  BY <1>9, <1>10

\* An agent that gives up, that goes on with its loop or that stops believes no more
\* than before.
LEMMA AgentsAlone ==
    ASSUME RegisterInv, NEW n \in Machine, NoServer(n) \/ TimeOut(n) \/ Turn(n) \/ Stop(n),
           NEW m \in Machine
    PROVE  Registered(m)'
<1>1. AgentTypes /\ HostTypes /\ Registered(m)
  BY TypesAre DEF RegisterInv, DataInv, Registered
<1>2. UNCHANGED hostVars /\ gone' = gone
  BY DEF NoServer, TimeOut, Turn, Stop
<1>3. NoRowGoes /\ UNCHANGED call
  BY <1>1, <1>2, ChecksKeepRows
<1>4. ASSUME agent'[m] = agent[m], thread'[m] = thread[m], known'[m] = known[m]
      PROVE  Registered(m)'
  BY <1>1, <1>2, <1>3, <1>4, MachineStays
<1>5. CASE n # m \/ Turn(n)
  BY <1>1, <1>4, <1>5 DEF AgentTypes, NoServer, TimeOut, Turn, Stop, EnterLoop
<1>6. CASE n = m /\ (NoServer(n) \/ TimeOut(n) \/ Stop(n))
  <2>1. thread'[m] = None /\ ~known'[m]
    BY <1>1, <1>6 DEF AgentTypes, NoServer, TimeOut, Stop, EnterLoop
  <2>2. QED
    BY <2>1 DEF Registered, Waiting, Believes
<1>7. QED
  BY <1>5, <1>6

LEMMA NextRegister == RegisterInv /\ [Next]_vars => RegisterInv'
<1>. SUFFICES ASSUME RegisterInv, [Next]_vars PROVE RegisterInv'
  OBVIOUS
<1>1. DataInv'
  BY NextData DEF RegisterInv
<1>2. HostTypes
  BY TypesAre DEF RegisterInv, DataInv
<1>3. ASSUME NEW m \in Machine PROVE Registered(m)'
  <2>1. ASSUME NEW r \in Request, ServerStep(r) PROVE Registered(m)'
    <3>1. CASE (RegisterUpdate(r) \/ RegisterInsert(r)) /\ UNCHANGED agentVars
      BY <2>1, <3>1, RegistrationStores
    <3>2. CASE \/ RegisterReply(r) /\ Answer(r, TRUE)
               \/ (RegisterRefused(r) \/ RequestFails(r)) /\ Answer(r, FALSE)
      BY <2>1, <3>2, AnswersAreTrue
    <3>3. CASE Forget(r)
      BY <2>1, <3>3, ForgottenAreGone
    <3>4. CASE (Continue(r) \/ NewRequest(r)) /\ UNCHANGED agentVars
      BY <2>1, <3>4, OthersRegister
    <3>5. QED
      BY <2>1, <3>1, <3>2, <3>3, <3>4 DEF ServerStep
  <2>2. ASSUME NEW n \in Machine, AgentStep(n) PROVE Registered(m)'
    BY <2>2, RegistrationBegins, AgentsAlone DEF AgentStep
  <2>3. CASE \/ \E c \in Checker : CheckStep(c) /\ UNCHANGED agentVars
             \/ Surroundings \/ UNCHANGED vars
    <3>1. NoRowGoes /\ UNCHANGED call /\ UNCHANGED agentVars
      BY <1>2, <2>3, ChecksKeepRows DEF Surroundings, vars
    <3>2. QED
      BY <3>1, AgentsStay
  <2>4. QED
    BY <2>1, <2>2, <2>3 DEF Next
<1>4. QED
  BY <1>1, <1>3 DEF RegisterInv, Registered

\* An agent that believes it is registered (syswatch_agent.py:142-157) has a row, or
\* its host was deleted since it began to register, for any number of agents,
\* requests, lost answers and failures: the server answers 201 only after the
\* UPDATE or the INSERT of the row (api_agent.py:36-51).
THEOREM BelievedRegistrationsAreStored == Spec => []RegisteredIsStored
<1>1. Init => RegisterInv
  BY InitData DEF Init, RegisterInv, Waiting, Believes
<1>2. RegisterInv => RegisteredIsStored
  BY DEF RegisterInv, Believes, RowOrGone, RegisteredIsStored
<1>3. QED
  BY <1>1, <1>2, NextRegister, PTL DEF Spec
=============================================================================
