------------------------------- MODULE Sessions -------------------------------
(***************************************************************************)
(* Logins, refresh tokens and accounts (src/backend/modules/api_users.py    *)
(* and security.py): failed attempts are counted in the database, a login   *)
(* stores a refresh token, admins change and delete accounts under both.    *)
(* Each database statement is an action of its own.  POST /auth/refresh is  *)
(* none: it answers 401 for a token it does not find, and for one it finds  *)
(* security.py:201 compares the TIMESTAMP, which the driver gives without a *)
(* zone, with utcnow(), which has one; Python raises and nothing changes.   *)
(***************************************************************************)
EXTENDS Naturals, FiniteSets

CONSTANTS
    Request,        \* server threads
    Email,          \* what somebody may log in as, the seeded admin apart
    Ip,             \* where from
    Token,          \* bound: rows of refresh_tokens, an INSERT beyond them raises
    None,           \* no row, NULL
    MaxAttempts,    \* Config.MAX_LOGIN_ATTEMPTS
    Lockout,        \* Config.LOCKOUT_MINUTES, in ticks
    MaxId           \* bound: ids of users, an INSERT beyond them raises

Account == [id : Nat, active : BOOLEAN]
TokenRow == [user : Nat, revoked : BOOLEAN, email : Email]

ASSUME SessionAssumption ==
    /\ None \notin Email \cup Ip \cup Nat \cup Account \cup TokenRow
    /\ MaxAttempts \in Nat \ {0} /\ Lockout \in Nat \ {0}
    /\ MaxId \in Nat /\ IsFiniteSet(Request)

VARIABLES
    users,      \* the table users, by e-mail, which is UNIQUE
    nextId,     \* its AUTO_INCREMENT
    failures,   \* the rows of login_attempts that failed, with their age in ticks
    tokens,     \* the table refresh_tokens, and of each row the name it was stored
                \* under; no code path gets to see whether it has expired
    call        \* the request each thread is at

vars == <<users, nextId, failures, tokens, call>>

Id == 1..MaxId
Age == 0..(Lockout - 1)
Idle == [op |-> "idle", email |-> None, ip |-> None, id |-> None]

\* Bound: failures of one source, name and age, numbered; more of them are alike.
MaxCount == MaxAttempts + Cardinality(Request)
Failure == [ip : Ip, email : Email, age : Age, no : 1..MaxCount]

Init ==
    /\ users = [e \in Email |-> None] /\ nextId = 1
    /\ failures = {}
    /\ tokens = [k \in Token |-> None]
    /\ call = [r \in Request |-> Idle]

-----------------------------------------------------------------------------
Begin(r, c) == call[r] = Idle /\ call' = [call EXCEPT ![r] = c]
GoOn(r, op) == call' = [call EXCEPT ![r].op = op]
Return(r) == call' = [call EXCEPT ![r] = Idle]

\* COUNT(*) of the failures of the last LOCKOUT_MINUTES.
OfIp(ip) == Cardinality({f \in failures : f.ip = ip})
OfName(e) == Cardinality({f \in failures : f.email = e})

\* The same rows one tick later, those of the last LOCKOUT_MINUTES.
Older(F) == {[f EXCEPT !.age = f.age + 1] : f \in {g \in F : g.age + 1 \in Age}}

Record(r) ==
    LET alike == {f \in failures : /\ f.ip = call[r].ip /\ f.email = call[r].email
                                  /\ f.age = 0}
        row == [ip |-> call[r].ip, email |-> call[r].email, age |-> 0,
                no |-> Cardinality(alike) + 1]
    IN  failures' = IF row.no \in 1..MaxCount THEN failures \cup {row} ELSE failures

\* Faulty variant: an attempt that is turned away counts as well.
RefuseAndRecord(r) == Return(r) /\ Record(r)

\* 429
Refuse(r) == Return(r) /\ UNCHANGED failures

\* Faulty variant: the table without its foreign key.
IssueAnyway(r) ==
    \E k \in Token :
        /\ tokens[k] = None
        /\ tokens' = [tokens EXCEPT ![k] = [user |-> call[r].id, revoked |-> FALSE,
                                          email |-> call[r].email]]

\* INSERT INTO refresh_tokens: user_id is a foreign key.
Issue(r) ==
    /\ \E e \in Email : users[e] # None /\ users[e].id = call[r].id
    /\ \E k \in Token :
           /\ tokens[k] = None
           /\ tokens' = [tokens EXCEPT ![k] = [user |-> call[r].id, revoked |-> FALSE,
                                             email |-> call[r].email]]

-----------------------------------------------------------------------------
\* POST /auth/login

Login(r, e, ip) ==
    /\ Begin(r, [Idle EXCEPT !.op = "by_ip", !.email = e, !.ip = ip])
    /\ UNCHANGED <<users, nextId, failures, tokens>>

\* Faulty variant: attempts are counted by name only.
CheckNoIp(r) ==
    /\ call[r].op = "by_ip"
    /\ GoOn(r, "by_name")
    /\ UNCHANGED <<users, nextId, failures, tokens>>

\* check_brute_force: the two counts are two statements.
CheckIp(r) ==
    /\ call[r].op = "by_ip"
    /\ IF OfIp(call[r].ip) >= MaxAttempts THEN Refuse(r)
       ELSE GoOn(r, "by_name") /\ UNCHANGED failures
    /\ UNCHANGED <<users, nextId, tokens>>

CheckName(r) ==
    /\ call[r].op = "by_name"
    /\ IF OfName(call[r].email) >= MaxAttempts THEN Refuse(r)
       ELSE GoOn(r, "user") /\ UNCHANGED failures
    /\ UNCHANGED <<users, nextId, tokens>>

\* 403 for an account that is not active; an unknown name is a failure like a
\* wrong password.
ReadUser(r) ==
    LET u == users[call[r].email]
    IN  /\ call[r].op = "user"
        /\ \/ GoOn(r, "fail")
           \/ /\ u # None
              /\ IF u.active
                 THEN call' = [call EXCEPT ![r] = [@ EXCEPT !.op = "token", !.id = u.id]]
                 ELSE Return(r)
        /\ UNCHANGED <<users, nextId, failures, tokens>>

\* 401; the row in audit_log that follows decides nothing.
Fail(r) ==
    /\ call[r].op = "fail"
    /\ Record(r)
    /\ Return(r)
    /\ UNCHANGED <<users, nextId, tokens>>

\* 200: the success and last_login are stored after it and decide nothing.
InsertToken(r) ==
    /\ call[r].op = "token"
    /\ Issue(r)
    /\ Return(r)
    /\ UNCHANGED <<users, nextId, failures>>

\* POST /auth/logout: the token need not be one of the caller's.
Logout(k) ==
    /\ tokens[k] # None
    /\ tokens' = [tokens EXCEPT ![k].revoked = TRUE]
    /\ UNCHANGED <<users, nextId, failures, call>>

-----------------------------------------------------------------------------
\* Accounts.  Statements go by id, and ids do not come back.

CreateSelect(r, e) ==
    /\ users[e] = None
    /\ Begin(r, [Idle EXCEPT !.op = "create", !.email = e])
    /\ UNCHANGED <<users, nextId, failures, tokens>>

CreateInsert(r) ==
    /\ call[r].op = "create"
    /\ IF users[call[r].email] = None /\ nextId \in Id
       THEN /\ users' = [users EXCEPT ![call[r].email] = [id |-> nextId, active |-> TRUE]]
            /\ nextId' = nextId + 1
       ELSE UNCHANGED <<users, nextId>>
    /\ Return(r)
    /\ UNCHANGED <<failures, tokens>>

UpdateUser(e) ==
    /\ users[e] # None
    /\ \E b \in BOOLEAN : users' = [users EXCEPT ![e].active = b]
    /\ UNCHANGED <<nextId, failures, tokens, call>>

\* The refresh tokens go with their user (ON DELETE CASCADE).
DeleteUser(e) ==
    /\ users[e] # None
    /\ users' = [users EXCEPT ![e] = None]
    /\ tokens' = [k \in Token |-> IF tokens[k] # None /\ tokens[k].user = users[e].id
                                  THEN None ELSE tokens[k]]
    /\ UNCHANGED <<nextId, failures, call>>

\* A statement raises, among them an INSERT of a token whose user is gone, or the
\* worker dies: the request is over.
RequestFails(r) ==
    /\ call[r] # Idle
    /\ Return(r)
    /\ UNCHANGED <<users, nextId, failures, tokens>>

\* Failures grow old.
Tick ==
    /\ failures' = Older(failures)
    /\ UNCHANGED <<users, nextId, tokens, call>>

Step(r) ==
    CheckIp(r) \/ CheckName(r) \/ ReadUser(r) \/ Fail(r) \/ InsertToken(r)
        \/ CreateInsert(r)

Next ==
    \/ \E r \in Request :
           \/ \E e \in Email, ip \in Ip : Login(r, e, ip)
           \/ \E e \in Email : CreateSelect(r, e)
           \/ Step(r) \/ RequestFails(r)
    \/ \E k \in Token : Logout(k)
    \/ \E e \in Email : UpdateUser(e) \/ DeleteUser(e)
    \/ Tick

\* Time goes on, and what a request has begun goes on or fails.
Fairness == WF_vars(Tick) /\ \A r \in Request : WF_vars(Step(r) \/ RequestFails(r))

Spec == Init /\ [][Next]_vars /\ Fairness

-----------------------------------------------------------------------------
\* Attempts are counted first and recorded later (security.py:216-245,
\* api_users.py:22-25): those under way at one time pass the limit together, and
\* by no more than their number, from one address and for one name.
FailuresBounded ==
    LET limit == MaxAttempts + Cardinality(Request) - 1
    IN  /\ \A ip \in Ip : OfIp(ip) <= limit
        /\ \A e \in Email : OfName(e) <= limit

\* No address and no name is locked out for good, however often somebody tries
\* during a lockout or fails again right after it (api_users.py:22,
\* security.py:217-232): the attempts that are turned away do not prolong it.
LockoutEnds ==
    /\ \A ip \in Ip : []<>(OfIp(ip) < MaxAttempts)
    /\ \A e \in Email : []<>(OfName(e) < MaxAttempts)

\* A session is that of the account whose password was checked (api_users.py:26-31,
\* 127-135): a login reads the account and stores the token two statements later,
\* and an admin may have deleted the account between them, or deleted it and
\* created another one of its name.
SessionsAreTheirs ==
    \A k \in Token : tokens[k] # None =>
        LET u == users[tokens[k].email]
        IN  u # None /\ u.id = tokens[k].user
=============================================================================
