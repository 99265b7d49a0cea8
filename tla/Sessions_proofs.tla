---------------------------- MODULE Sessions_proofs -----------------------------
(***************************************************************************)
(* Theorems about Sessions for every number of requests, sources and names.  *)
(* LimitInv counts, next to the failures that are recorded, the logins that  *)
(* have passed a check and may still record one.  OwnerInv says that the id   *)
(* a login holds is still that of the name it is about, or of nobody.         *)
(***************************************************************************)
EXTENDS Sessions, FiniteSetTheorems, TLAPS

LoginOps == {"by_ip", "by_name", "user", "fail"}
Op == LoginOps \cup {"idle", "token", "create"}
Call == [op : Op, email : Email \cup {None}, ip : Ip \cup {None}, id : Nat \cup {None}]

\* The logins from one source past the first check, and for one name past both.
FromIp(ip) == {r \in Request : call[r].op \in {"by_name", "user", "fail"} /\ call[r].ip = ip}
ForName(e) == {r \in Request : call[r].op \in {"user", "fail"} /\ call[r].email = e}

AccountTypes == users \in [Email -> Account \cup {None}] /\ nextId \in Nat
FailureTypes == failures \subseteq Failure /\ IsFiniteSet(failures)
CallTypes ==
    /\ call \in [Request -> Call]
    /\ \A r \in Request : call[r].op \in LoginOps => call[r].email \in Email /\ call[r].ip \in Ip

SessionTypes == AccountTypes /\ FailureTypes /\ CallTypes

\* Failures n that are recorded, and requests P that may record one more each.
Within(n, P) == n + Cardinality(P) <= MaxAttempts - 1 + Cardinality(Request)

IpInv(ip) == Within(OfIp(ip), FromIp(ip))
NameInv(e) == Within(OfName(e), ForName(e))

LimitInv ==
    /\ SessionTypes
    /\ \A ip \in Ip : IpInv(ip)
    /\ \A e \in Email : NameInv(e)

-----------------------------------------------------------------------------
\* Counting.
LEMMA RequestsAre ==
    ASSUME NEW S, S \subseteq Request
    PROVE  IsFiniteSet(S) /\ Cardinality(S) \in Nat /\ Cardinality(S) <= Cardinality(Request)
<1>1. IsFiniteSet(S) /\ Cardinality(S) <= Cardinality(Request)
  BY SessionAssumption, FS_Subset
<1>2. QED
  BY <1>1, FS_CardinalityType

LEMMA RowsAre ==
    ASSUME NEW F, IsFiniteSet(F), NEW ip, NEW e
    PROVE  /\ IsFiniteSet({f \in F : f.ip = ip}) /\ Cardinality({f \in F : f.ip = ip}) \in Nat
           /\ IsFiniteSet({f \in F : f.email = e}) /\ Cardinality({f \in F : f.email = e}) \in Nat
<1>1. IsFiniteSet({f \in F : f.ip = ip}) /\ IsFiniteSet({f \in F : f.email = e})
  BY FS_Subset
<1>2. QED
  BY <1>1, FS_CardinalityType

LEMMA CountsAre ==
    ASSUME FailureTypes, NEW ip, NEW e
    PROVE  /\ OfIp(ip) \in Nat /\ IsFiniteSet({f \in failures : f.ip = ip})
           /\ OfName(e) \in Nat /\ IsFiniteSet({f \in failures : f.email = e})
BY RowsAre DEF FailureTypes, OfIp, OfName

\* What keeps the count within the limit: nothing is added; one of those that may
\* record does; or the count itself was read below the limit.
LEMMA StaysWithin ==
    ASSUME NEW n \in Nat, NEW k \in Nat, NEW P \in SUBSET Request, NEW Q \in SUBSET Request,
           Within(n, P),
           \/ k <= n /\ Q \subseteq P
           \/ \E r \in P : k <= n + 1 /\ Q \subseteq P \ {r}
           \/ k < MaxAttempts
    PROVE  Within(k, Q)
<1>1. /\ Cardinality(P) \in Nat /\ Cardinality(Q) \in Nat /\ Cardinality(Request) \in Nat
      /\ Cardinality(Q) <= Cardinality(Request)
      /\ IsFiniteSet(P)
  BY RequestsAre
<1>2. MaxAttempts \in Nat
  BY SessionAssumption
<1>3. CASE k <= n /\ Q \subseteq P
  <2>1. Cardinality(Q) <= Cardinality(P)
    BY <1>1, <1>3, FS_Subset
  <2>2. QED
    BY <1>1, <1>2, <1>3, <2>1 DEF Within
<1>4. ASSUME NEW r \in P, k <= n + 1, Q \subseteq P \ {r} PROVE Within(k, Q)
  <2>1. IsFiniteSet(P \ {r}) /\ Cardinality(P \ {r}) = Cardinality(P) - 1
    BY <1>1, FS_RemoveElement
  <2>2. Cardinality(Q) <= Cardinality(P \ {r})
    BY <1>4, <2>1, FS_Subset
  <2>3. QED
    BY <1>1, <1>2, <1>4, <2>1, <2>2 DEF Within
<1>5. CASE k < MaxAttempts
  BY <1>1, <1>2, <1>5 DEF Within
<1>6. QED
  BY <1>3, <1>4, <1>5

\* A set that gains x, if x is one of its kind, grows by one at most.
LEMMA GainsOne ==
    ASSUME NEW S, IsFiniteSet(S), NEW x, NEW T, T \subseteq S \cup {x}
    PROVE  IsFiniteSet(T) /\ Cardinality(T) <= Cardinality(S) + 1
<1>1. IsFiniteSet(S \cup {x}) /\ Cardinality(S) \in Nat
  BY FS_AddElement, FS_CardinalityType
<1>2. /\ x \in S => Cardinality(S \cup {x}) = Cardinality(S)
      /\ x \notin S => Cardinality(S \cup {x}) = Cardinality(S) + 1
  BY FS_AddElement
<1>3. Cardinality(S \cup {x}) <= Cardinality(S) + 1
  BY <1>1, <1>2
<1>4. IsFiniteSet(T) /\ Cardinality(T) <= Cardinality(S \cup {x})
  BY <1>1, FS_Subset
<1>5. Cardinality(T) \in Nat /\ Cardinality(S \cup {x}) \in Nat
  BY <1>1, <1>4, FS_CardinalityType
<1>6. QED
  BY <1>1, <1>3, <1>4, <1>5

LEMMA RecordCounts ==
    ASSUME SessionTypes, NEW r \in Request, call[r].op = "fail", Record(r), NEW ip, NEW e
    PROVE  /\ FailureTypes'
           /\ OfIp(ip)' <= OfIp(ip) + 1 /\ (ip # call[r].ip => OfIp(ip)' <= OfIp(ip))
           /\ OfName(e)' <= OfName(e) + 1 /\ (e # call[r].email => OfName(e)' <= OfName(e))
<1>. DEFINE no == Cardinality({f \in failures : /\ f.ip = call[r].ip
                                                /\ f.email = call[r].email /\ f.age = 0}) + 1
            row == [ip |-> call[r].ip, email |-> call[r].email, age |-> 0, no |-> no]
<1>1. failures' = IF no \in 1..MaxCount THEN failures \cup {row} ELSE failures
  BY DEF Record
<1>2. call[r].ip \in Ip /\ call[r].email \in Email
  BY DEF SessionTypes, CallTypes, LoginOps
<1>3. 0 \in Age
  BY SessionAssumption DEF Age
<1>4. failures \subseteq Failure /\ IsFiniteSet(failures)
  BY DEF SessionTypes, FailureTypes
<1>. HIDE DEF no
<1>5. no \in 1..MaxCount => row \in Failure
  BY <1>2, <1>3 DEF Failure
<1>6. row.ip = call[r].ip /\ row.email = call[r].email
  OBVIOUS
<1>. HIDE DEF row
<1>7. FailureTypes'
  BY <1>1, <1>4, <1>5, FS_AddElement DEF FailureTypes
<1>8. /\ OfIp(ip) \in Nat /\ IsFiniteSet({f \in failures : f.ip = ip})
      /\ OfName(e) \in Nat /\ IsFiniteSet({f \in failures : f.email = e})
  BY <1>4, CountsAre DEF FailureTypes
<1>9. /\ {f \in failures' : f.ip = ip} \subseteq {f \in failures : f.ip = ip} \cup {row}
      /\ {f \in failures' : f.email = e} \subseteq {f \in failures : f.email = e} \cup {row}
  BY <1>1
<1>10. OfIp(ip)' <= OfIp(ip) + 1 /\ OfName(e)' <= OfName(e) + 1
  BY <1>8, <1>9, GainsOne DEF OfIp, OfName
<1>11. ip # call[r].ip => OfIp(ip)' = OfIp(ip)
  <2>1. ip # call[r].ip => {f \in failures' : f.ip = ip} = {f \in failures : f.ip = ip}
    BY <1>1, <1>6
  <2>2. QED
    BY <2>1 DEF OfIp
<1>12. e # call[r].email => OfName(e)' = OfName(e)
  <2>1. e # call[r].email => {f \in failures' : f.email = e} = {f \in failures : f.email = e}
    BY <1>1, <1>6
  <2>2. QED
    BY <2>1 DEF OfName
<1>13. QED
  BY <1>7, <1>8, <1>10, <1>11, <1>12

\* Rows only go as time goes on.
LEMMA OlderCounts ==
    ASSUME NEW F, F \subseteq Failure, IsFiniteSet(F)
    PROVE  /\ Older(F) \subseteq Failure /\ IsFiniteSet(Older(F))
           /\ Cardinality(Older(F)) <= Cardinality(F)
<1>. DEFINE S == {g \in F : g.age + 1 \in Age}
            fn == [g \in S |-> [g EXCEPT !.age = g.age + 1]]
<1>1. IsFiniteSet(S) /\ Cardinality(S) <= Cardinality(F)
  BY FS_Subset
<1>2. fn \in Surjection(S, Older(F))
  <2>1. Older(F) = {fn[g] : g \in S}
    BY DEF Older
  <2>2. fn \in [S -> Older(F)]
    BY DEF Older
  <2>. HIDE DEF fn, S
  <2>3. QED
    BY <2>1, <2>2 DEF Surjection
<1>3. Older(F) \subseteq Failure
  BY DEF Older, Failure
<1>. HIDE DEF fn, S
<1>4. IsFiniteSet(Older(F)) /\ Cardinality(Older(F)) <= Cardinality(S)
  BY <1>1, <1>2, FS_Surjection
<1>5. Cardinality(Older(F)) \in Nat /\ Cardinality(S) \in Nat /\ Cardinality(F) \in Nat
  BY <1>1, <1>4, FS_CardinalityType
<1>6. QED
  BY <1>1, <1>3, <1>4, <1>5

LEMMA TickCounts ==
    ASSUME FailureTypes, Tick, NEW ip, NEW e
    PROVE  FailureTypes' /\ OfIp(ip)' <= OfIp(ip) /\ OfName(e)' <= OfName(e)
<1>1. failures \subseteq Failure /\ IsFiniteSet(failures) /\ failures' = Older(failures)
  BY DEF FailureTypes, Tick
<1>2. FailureTypes'
  BY <1>1, OlderCounts DEF FailureTypes
<1>3. \A f \in Failure : /\ [f EXCEPT !.age = f.age + 1].ip = f.ip
                         /\ [f EXCEPT !.age = f.age + 1].email = f.email
  BY DEF Failure
<1>4. {f \in Older(failures) : f.ip = ip} = Older({f \in failures : f.ip = ip})
  BY <1>1, <1>3 DEF Older
<1>5. {f \in Older(failures) : f.email = e} = Older({f \in failures : f.email = e})
  BY <1>1, <1>3 DEF Older
<1>6. /\ IsFiniteSet({f \in failures : f.ip = ip}) /\ {f \in failures : f.ip = ip} \subseteq Failure
      /\ IsFiniteSet({f \in failures : f.email = e})
      /\ {f \in failures : f.email = e} \subseteq Failure
  BY <1>1, CountsAre DEF FailureTypes
<1>7. QED
  BY <1>1, <1>2, <1>4, <1>5, <1>6, OlderCounts DEF OfIp, OfName

-----------------------------------------------------------------------------
\* What a request holds; only r's call changes, to c.
CallFits(c) == c \in Call /\ (c.op \in LoginOps => c.email \in Email /\ c.ip \in Ip)

LEMMA CallStep ==
    ASSUME CallTypes, NEW r \in Request, NEW c, CallFits(c), call' = [call EXCEPT ![r] = c]
    PROVE  CallTypes' /\ call'[r] = c /\ \A q \in Request \ {r} : call'[q] = call[q]
BY DEF CallTypes, CallFits

LEMMA CallsFit == ASSUME CallTypes, NEW r \in Request PROVE CallFits(call[r])
BY DEF CallTypes, CallFits

LEMMA IdleFits == CallFits(Idle) /\ Idle.op = "idle"
BY DEF CallFits, Idle, Call, Op, LoginOps

\* Going on within a login.
LEMMA GoOnStep ==
    ASSUME CallTypes, NEW r \in Request, call[r].op \in LoginOps, NEW op \in LoginOps, GoOn(r, op)
    PROVE  /\ CallTypes' /\ \A q \in Request \ {r} : call'[q] = call[q]
           /\ call'[r].op = op /\ call'[r].ip = call[r].ip /\ call'[r].email = call[r].email
<1>. DEFINE c == [call[r] EXCEPT !.op = op]
<1>1. CallFits(call[r])
  BY CallsFit
<1>2. c.op = op /\ c.ip = call[r].ip /\ c.email = call[r].email /\ CallFits(c)
  BY <1>1 DEF CallFits, Call, Op
<1>3. call' = [call EXCEPT ![r] = c]
  BY DEF GoOn
<1>. HIDE DEF c
<1>4. QED
  BY <1>2, <1>3, CallStep

LEMMA ReturnStep ==
    ASSUME CallTypes, NEW r \in Request, Return(r)
    PROVE  CallTypes' /\ call'[r].op = "idle" /\ \A q \in Request \ {r} : call'[q] = call[q]
<1>1. call' = [call EXCEPT ![r] = Idle]
  BY DEF Return
<1>2. QED
  BY <1>1, IdleFits, CallStep

\* The logins that may still record: nobody joins them unless r does.
LEMMA LeavesIp ==
    ASSUME NEW r \in Request, \A q \in Request \ {r} : call'[q] = call[q], NEW ip
    PROVE  call'[r].op \notin {"by_name", "user", "fail"}
              => FromIp(ip)' \subseteq FromIp(ip) \ {r}
BY DEF FromIp

LEMMA LeavesName ==
    ASSUME NEW r \in Request, \A q \in Request \ {r} : call'[q] = call[q], NEW e
    PROVE  call'[r].op \notin {"user", "fail"} => ForName(e)' \subseteq ForName(e) \ {r}
BY DEF ForName

LEMMA StaysIp ==
    ASSUME NEW r \in Request, \A q \in Request \ {r} : call'[q] = call[q], NEW ip
    PROVE  call[r].op \in {"by_name", "user", "fail"} /\ call'[r].ip = call[r].ip
              => FromIp(ip)' \subseteq FromIp(ip)
BY DEF FromIp

LEMMA StaysName ==
    ASSUME NEW r \in Request, \A q \in Request \ {r} : call'[q] = call[q], NEW e
    PROVE  call[r].op \in {"user", "fail"} /\ call'[r].email = call[r].email
              => ForName(e)' \subseteq ForName(e)
BY DEF ForName

\* A step that adds no failure and no login that may record.
LEMMA NothingAdded ==
    ASSUME LimitInv, SessionTypes', NEW ip, NEW e,
           OfIp(ip)' <= OfIp(ip), OfName(e)' <= OfName(e)
    PROVE  /\ ip \in Ip /\ FromIp(ip)' \subseteq FromIp(ip) => IpInv(ip)'
           /\ e \in Email /\ ForName(e)' \subseteq ForName(e) => NameInv(e)'
<1>1. /\ OfIp(ip) \in Nat /\ OfName(e) \in Nat
  BY CountsAre DEF LimitInv, SessionTypes
<1>2. /\ OfIp(ip)' \in Nat /\ OfName(e)' \in Nat
  <2>1. IsFiniteSet(failures')
    BY DEF SessionTypes, FailureTypes
  <2>2. /\ Cardinality({f \in failures' : f.ip = ip}) \in Nat
        /\ Cardinality({f \in failures' : f.email = e}) \in Nat
    BY <2>1, RowsAre
  <2>3. QED
    BY <2>2 DEF OfIp, OfName
<1>3. /\ FromIp(ip) \in SUBSET Request /\ FromIp(ip)' \in SUBSET Request
      /\ ForName(e) \in SUBSET Request /\ ForName(e)' \in SUBSET Request
  BY DEF FromIp, ForName
<1>4. /\ ip \in Ip => Within(OfIp(ip), FromIp(ip))
      /\ e \in Email => Within(OfName(e), ForName(e))
  BY DEF LimitInv, IpInv, NameInv
<1>5. ip \in Ip /\ FromIp(ip)' \subseteq FromIp(ip) => Within(OfIp(ip)', FromIp(ip)')
  BY <1>1, <1>2, <1>3, <1>4, StaysWithin
<1>6. e \in Email /\ ForName(e)' \subseteq ForName(e) => Within(OfName(e)', ForName(e)')
  BY <1>1, <1>2, <1>3, <1>4, StaysWithin
<1>7. QED
  BY <1>5, <1>6 DEF IpInv, NameInv, Within

LEMMA CountsStay ==
    ASSUME FailureTypes, UNCHANGED failures, NEW ip, NEW e
    PROVE  FailureTypes' /\ OfIp(ip)' = OfIp(ip) /\ OfIp(ip)' <= OfIp(ip)
           /\ OfName(e)' = OfName(e) /\ OfName(e)' <= OfName(e)
<1>1. OfIp(ip)' = OfIp(ip) /\ OfName(e)' = OfName(e)
  BY DEF OfIp, OfName
<1>2. OfIp(ip) \in Nat /\ OfName(e) \in Nat
  BY CountsAre
<1>3. QED
  BY <1>1, <1>2 DEF FailureTypes

\* A request that begins, or that ends without a failure, records none.
LEMMA NoLogin ==
    ASSUME LimitInv, AccountTypes', CallTypes', UNCHANGED failures, NEW r \in Request,
           \A q \in Request \ {r} : call'[q] = call[q],
           call'[r].op \notin {"by_name", "user", "fail"}
    PROVE  LimitInv'
<1>1. SessionTypes'
  BY CountsStay DEF LimitInv, SessionTypes
<1>2. ASSUME NEW ip, NEW e
      PROVE  (ip \in Ip => IpInv(ip)') /\ (e \in Email => NameInv(e)')
  <2>1. FromIp(ip)' \subseteq FromIp(ip) /\ ForName(e)' \subseteq ForName(e)
    BY LeavesIp, LeavesName
  <2>2. OfIp(ip)' <= OfIp(ip) /\ OfName(e)' <= OfName(e)
    BY CountsStay DEF LimitInv, SessionTypes
  <2>3. QED
    BY <1>1, <2>1, <2>2, NothingAdded
<1>3. QED
  BY <1>1, <1>2 DEF LimitInv

\* Steps of nobody's login.
LEMMA CallsStay ==
    ASSUME LimitInv, AccountTypes', FailureTypes', UNCHANGED call,
           \A ip, e : OfIp(ip)' <= OfIp(ip) /\ OfName(e)' <= OfName(e)
    PROVE  LimitInv'
<1>1. SessionTypes'
  BY DEF LimitInv, SessionTypes, CallTypes
<1>2. ASSUME NEW ip, NEW e
      PROVE  (ip \in Ip => IpInv(ip)') /\ (e \in Email => NameInv(e)')
  <2>1. FromIp(ip)' = FromIp(ip) /\ ForName(e)' = ForName(e)
    BY DEF FromIp, ForName
  <2>2. QED
    BY <1>1, <2>1, NothingAdded
<1>3. QED
  BY <1>1, <1>2 DEF LimitInv

\* A login that passes the first check was counted below the limit.
LEMMA CheckIpStep ==
    ASSUME LimitInv, NEW r \in Request, CheckIp(r)
    PROVE  LimitInv'
<1>. USE DEF LimitInv, SessionTypes
<1>1. /\ call[r].op = "by_ip" /\ UNCHANGED failures /\ AccountTypes'
      /\ \/ Return(r)
         \/ ~(OfIp(call[r].ip) >= MaxAttempts) /\ GoOn(r, "by_name")
  BY DEF CheckIp, Refuse, AccountTypes
<1>2. CASE Return(r)
  BY <1>1, <1>2, ReturnStep, NoLogin
<1>3. CASE ~(OfIp(call[r].ip) >= MaxAttempts) /\ GoOn(r, "by_name")
  <2>1. /\ CallTypes' /\ \A q \in Request \ {r} : call'[q] = call[q]
        /\ call'[r].op = "by_name" /\ call'[r].ip = call[r].ip
    BY <1>1, <1>3, GoOnStep DEF LoginOps
  <2>2. SessionTypes'
    BY <1>1, <2>1, CountsStay
  <2>3. ASSUME NEW ip, NEW e
        PROVE  (ip \in Ip => IpInv(ip)') /\ (e \in Email => NameInv(e)')
    <3>1. /\ OfIp(ip)' = OfIp(ip) /\ OfIp(ip)' <= OfIp(ip) /\ OfName(e)' <= OfName(e)
          /\ OfIp(ip) \in Nat
      BY <1>1, CountsStay, CountsAre
    <3>2. ForName(e)' \subseteq ForName(e)
      BY <2>1, LeavesName, StaysName
    <3>3. CASE ip # call[r].ip
      <4>1. FromIp(ip)' \subseteq FromIp(ip)
        BY <2>1, <3>3 DEF FromIp
      <4>2. QED
        BY <2>2, <3>1, <3>2, <4>1, NothingAdded
    <3>4. CASE ip = call[r].ip /\ ip \in Ip
      <4>1. OfIp(ip)' < MaxAttempts
        BY <1>3, <3>1, <3>4, SessionAssumption
      <4>2. FromIp(ip) \in SUBSET Request /\ FromIp(ip)' \in SUBSET Request
        BY DEF FromIp
      <4>3. Within(OfIp(ip), FromIp(ip))
        BY <3>4 DEF IpInv
      <4>4. Within(OfIp(ip)', FromIp(ip)')
        BY <3>1, <4>1, <4>2, <4>3, StaysWithin
      <4>5. IpInv(ip)'
        BY <4>4 DEF IpInv, Within
      <4>6. QED
        BY <2>2, <3>1, <3>2, <4>5, NothingAdded
    <3>5. QED
      BY <2>2, <3>1, <3>2, <3>3, <3>4, NothingAdded
  <2>4. QED
    BY <2>2, <2>3
<1>4. QED
  BY <1>1, <1>2, <1>3

\* And one that passes the second.
LEMMA CheckNameStep ==
    ASSUME LimitInv, NEW r \in Request, CheckName(r)
    PROVE  LimitInv'
<1>. USE DEF LimitInv, SessionTypes
<1>1. /\ call[r].op = "by_name" /\ UNCHANGED failures /\ AccountTypes'
      /\ \/ Return(r)
         \/ ~(OfName(call[r].email) >= MaxAttempts) /\ GoOn(r, "user")
  BY DEF CheckName, Refuse, AccountTypes
<1>2. CASE Return(r)
  BY <1>1, <1>2, ReturnStep, NoLogin
<1>3. CASE ~(OfName(call[r].email) >= MaxAttempts) /\ GoOn(r, "user")
  <2>1. /\ CallTypes' /\ \A q \in Request \ {r} : call'[q] = call[q]
        /\ call'[r].op = "user" /\ call'[r].ip = call[r].ip
        /\ call'[r].email = call[r].email
    BY <1>1, <1>3, GoOnStep DEF LoginOps
  <2>2. SessionTypes'
    BY <1>1, <2>1, CountsStay
  <2>3. ASSUME NEW ip, NEW e
        PROVE  (ip \in Ip => IpInv(ip)') /\ (e \in Email => NameInv(e)')
    <3>1. /\ OfName(e)' = OfName(e) /\ OfIp(ip)' <= OfIp(ip) /\ OfName(e)' <= OfName(e)
          /\ OfName(e) \in Nat
      BY <1>1, CountsStay, CountsAre
    <3>2. FromIp(ip)' \subseteq FromIp(ip)
      BY <1>1, <2>1, LeavesIp, StaysIp
    <3>3. CASE e # call[r].email
      <4>1. ForName(e)' \subseteq ForName(e)
        BY <2>1, <3>3 DEF ForName
      <4>2. QED
        BY <2>2, <3>1, <3>2, <4>1, NothingAdded
    <3>4. CASE e = call[r].email /\ e \in Email
      <4>1. OfName(e)' < MaxAttempts
        BY <1>3, <3>1, <3>4, SessionAssumption
      <4>2. ForName(e) \in SUBSET Request /\ ForName(e)' \in SUBSET Request
        BY DEF ForName
      <4>3. Within(OfName(e), ForName(e))
        BY <3>4 DEF NameInv
      <4>4. Within(OfName(e)', ForName(e)')
        BY <3>1, <4>1, <4>2, <4>3, StaysWithin
      <4>5. NameInv(e)'
        BY <4>4 DEF NameInv, Within
      <4>6. QED
        BY <2>2, <3>1, <3>2, <4>5, NothingAdded
    <3>5. QED
      BY <2>2, <3>1, <3>2, <3>3, <3>4, NothingAdded
  <2>4. QED
    BY <2>2, <2>3
<1>4. QED
  BY <1>1, <1>2, <1>3

LEMMA ReadUserStep ==
    ASSUME LimitInv, NEW r \in Request, ReadUser(r)
    PROVE  LimitInv'
<1>. USE DEF LimitInv, SessionTypes
<1>. DEFINE u == users[call[r].email]
            c == [call[r] EXCEPT !.op = "token", !.id = u.id]
<1>1. /\ call[r].op = "user" /\ UNCHANGED failures /\ AccountTypes'
      /\ GoOn(r, "fail") \/ Return(r) \/ (u # None /\ call' = [call EXCEPT ![r] = c])
  BY DEF ReadUser, AccountTypes
<1>2. CASE Return(r)
  BY <1>1, <1>2, ReturnStep, NoLogin
<1>3. CASE u # None /\ call' = [call EXCEPT ![r] = c]
  <2>1. CallFits(call[r]) /\ call[r].email \in Email
    BY <1>1, CallsFit DEF CallTypes, LoginOps
  <2>2. u.id \in Nat
    BY <1>3, <2>1 DEF AccountTypes, Account
  <2>. HIDE DEF u
  <2>3. CallFits(c) /\ c.op = "token"
    BY <2>1, <2>2 DEF CallFits, Call, Op, LoginOps
  <2>. HIDE DEF c
  <2>4. CallTypes' /\ call'[r] = c /\ \A q \in Request \ {r} : call'[q] = call[q]
    BY <1>3, <2>3, CallStep
  <2>5. QED
    BY <1>1, <2>3, <2>4, NoLogin
<1>4. CASE GoOn(r, "fail")
  <2>1. /\ CallTypes' /\ \A q \in Request \ {r} : call'[q] = call[q]
        /\ call'[r].ip = call[r].ip /\ call'[r].email = call[r].email
    BY <1>1, <1>4, GoOnStep DEF LoginOps
  <2>2. SessionTypes'
    BY <1>1, <2>1, CountsStay
  <2>3. ASSUME NEW ip, NEW e
        PROVE  (ip \in Ip => IpInv(ip)') /\ (e \in Email => NameInv(e)')
    <3>1. OfIp(ip)' <= OfIp(ip) /\ OfName(e)' <= OfName(e)
      BY <1>1, CountsStay
    <3>2. FromIp(ip)' \subseteq FromIp(ip) /\ ForName(e)' \subseteq ForName(e)
      BY <1>1, <2>1, StaysIp, StaysName
    <3>3. QED
      BY <2>2, <3>1, <3>2, NothingAdded
  <2>4. QED
    BY <2>2, <2>3
<1>5. QED
  BY <1>1, <1>2, <1>3, <1>4

\* A failure is recorded by a login that was counted as one that may.
LEMMA FailStep ==
    ASSUME LimitInv, NEW r \in Request, Fail(r)
    PROVE  LimitInv'
<1>. USE DEF LimitInv, SessionTypes
<1>1. call[r].op = "fail" /\ Record(r) /\ Return(r) /\ AccountTypes'
  BY DEF Fail, AccountTypes
<1>2. CallTypes' /\ call'[r].op = "idle" /\ \A q \in Request \ {r} : call'[q] = call[q]
  BY <1>1, ReturnStep
<1>3. SessionTypes'
  BY <1>1, <1>2, RecordCounts
<1>4. ASSUME NEW ip, NEW e
      PROVE  (ip \in Ip => IpInv(ip)') /\ (e \in Email => NameInv(e)')
  <2>1. /\ OfIp(ip)' <= OfIp(ip) + 1 /\ (ip # call[r].ip => OfIp(ip)' <= OfIp(ip))
        /\ OfName(e)' <= OfName(e) + 1 /\ (e # call[r].email => OfName(e)' <= OfName(e))
    BY <1>1, RecordCounts
  <2>2. FromIp(ip)' \subseteq FromIp(ip) \ {r} /\ ForName(e)' \subseteq ForName(e) \ {r}
    BY <1>2, LeavesIp, LeavesName
  <2>3. /\ OfIp(ip) \in Nat /\ OfName(e) \in Nat
        /\ FromIp(ip) \in SUBSET Request /\ ForName(e) \in SUBSET Request
        /\ FromIp(ip)' \in SUBSET Request /\ ForName(e)' \in SUBSET Request
    BY CountsAre DEF FromIp, ForName
  <2>4. OfIp(ip)' \in Nat /\ OfName(e)' \in Nat
    <3>1. IsFiniteSet(failures')
      BY <1>3 DEF FailureTypes
    <3>2. /\ Cardinality({f \in failures' : f.ip = ip}) \in Nat
          /\ Cardinality({f \in failures' : f.email = e}) \in Nat
      BY <3>1, RowsAre
    <3>3. QED
      BY <3>2 DEF OfIp, OfName
  <2>5. ASSUME ip \in Ip PROVE IpInv(ip)'
    <3>1. ip = call[r].ip => r \in FromIp(ip)
      BY <1>1 DEF FromIp
    <3>2. Within(OfIp(ip), FromIp(ip))
      BY <2>5 DEF IpInv
    <3>3. Within(OfIp(ip)', FromIp(ip)')
      BY <2>1, <2>2, <2>3, <2>4, <3>1, <3>2, StaysWithin
    <3>4. QED
      BY <3>3 DEF IpInv, Within
  <2>6. ASSUME e \in Email PROVE NameInv(e)'
    <3>1. e = call[r].email => r \in ForName(e)
      BY <1>1 DEF ForName
    <3>2. Within(OfName(e), ForName(e))
      BY <2>6 DEF NameInv
    <3>3. Within(OfName(e)', ForName(e)')
      BY <2>1, <2>2, <2>3, <2>4, <3>1, <3>2, StaysWithin
    <3>4. QED
      BY <3>3 DEF NameInv, Within
  <2>7. QED
    BY <2>5, <2>6
<1>5. QED
  BY <1>3, <1>4

\* Requests begin with a call that is no login past a check.
LEMMA BeginSteps ==
    ASSUME LimitInv, NEW r \in Request,
           \/ \E e \in Email, ip \in Ip : Login(r, e, ip)
           \/ \E e \in Email : CreateSelect(r, e)
    PROVE  LimitInv'
<1>. USE DEF LimitInv, SessionTypes
<1>1. ASSUME NEW c, CallFits(c), c.op \in {"by_ip", "create"}, Begin(r, c),
             UNCHANGED <<users, nextId, failures>>
      PROVE  LimitInv'
  <2>1. CallTypes' /\ call'[r] = c /\ \A q \in Request \ {r} : call'[q] = call[q]
    BY <1>1, CallStep DEF Begin
  <2>2. AccountTypes'
    BY <1>1 DEF AccountTypes
  <2>3. QED
    BY <1>1, <2>1, <2>2, NoLogin
<1>2. ASSUME NEW e \in Email, NEW ip \in Ip, Login(r, e, ip) PROVE LimitInv'
  <2>. DEFINE c == [Idle EXCEPT !.op = "by_ip", !.email = e, !.ip = ip]
  <2>1. CallFits(c) /\ c.op = "by_ip"
    BY DEF CallFits, Call, Op, LoginOps, Idle
  <2>2. Begin(r, c)
    BY <1>2 DEF Login
  <2>. HIDE DEF c
  <2>3. QED
    BY <1>1, <1>2, <2>1, <2>2 DEF Login
<1>3. ASSUME NEW e \in Email, CreateSelect(r, e) PROVE LimitInv'
  <2>. DEFINE c == [Idle EXCEPT !.op = "create", !.email = e]
  <2>1. CallFits(c) /\ c.op = "create"
    BY DEF CallFits, Call, Op, LoginOps, Idle
  <2>2. Begin(r, c)
    BY <1>3 DEF CreateSelect
  <2>. HIDE DEF c
  <2>3. QED
    BY <1>1, <1>3, <2>1, <2>2 DEF CreateSelect
<1>4. QED
  BY <1>2, <1>3

LEMMA EndSteps ==
    ASSUME LimitInv, NEW r \in Request,
           InsertToken(r) \/ CreateInsert(r) \/ RequestFails(r)
    PROVE  LimitInv'
<1>. USE DEF LimitInv, SessionTypes
<1>1. Return(r) /\ UNCHANGED failures
  BY DEF InsertToken, CreateInsert, RequestFails
<1>2. AccountTypes'
  <2>1. CASE UNCHANGED <<users, nextId>>
    BY <2>1 DEF AccountTypes
  <2>2. CASE /\ users' = [users EXCEPT ![call[r].email] = [id |-> nextId, active |-> TRUE]]
             /\ nextId' = nextId + 1
    <3>1. [id |-> nextId, active |-> TRUE] \in Account
      BY DEF AccountTypes, Account
    <3>2. users' \in [Email -> Account \cup {None}]
      BY <2>2, <3>1 DEF AccountTypes
    <3>3. nextId' \in Nat
      BY <2>2 DEF AccountTypes
    <3>4. QED
      BY <3>2, <3>3 DEF AccountTypes
  <2>3. QED
    BY <2>1, <2>2 DEF InsertToken, CreateInsert, RequestFails
<1>3. QED
  BY <1>1, <1>2, ReturnStep, NoLogin

LEMMA QuietSteps ==
    ASSUME LimitInv,
           \/ \E k \in Token : Logout(k)
           \/ \E e \in Email : UpdateUser(e) \/ DeleteUser(e)
           \/ Tick \/ UNCHANGED vars
    PROVE  LimitInv'
<1>. USE DEF LimitInv, SessionTypes
<1>1. AccountTypes'
  <2>1. ASSUME NEW e \in Email, UpdateUser(e) PROVE AccountTypes'
    <3>1. PICK b \in BOOLEAN : users' = [users EXCEPT ![e].active = b]
      BY <2>1 DEF UpdateUser
    <3>2. QED
      BY <2>1, <3>1 DEF UpdateUser, AccountTypes, Account
  <2>2. QED
    BY <2>1 DEF Logout, DeleteUser, Tick, vars, AccountTypes
<1>2. UNCHANGED call
  BY DEF Logout, UpdateUser, DeleteUser, Tick, vars
<1>3. CASE Tick
  BY <1>1, <1>2, <1>3, TickCounts, CallsStay
<1>4. CASE UNCHANGED failures
  BY <1>1, <1>2, <1>4, CountsStay, CallsStay
<1>5. QED
  BY <1>3, <1>4 DEF Logout, UpdateUser, DeleteUser, vars

LEMMA NextLimit == LimitInv /\ [Next]_vars => LimitInv'
BY CheckIpStep, CheckNameStep, ReadUserStep, FailStep, BeginSteps, EndSteps, QuietSteps
DEF Next, Step

LEMMA InitLimit == Init => LimitInv
<1>. SUFFICES ASSUME Init PROVE LimitInv
  OBVIOUS
<1>1. SessionTypes
  <2>1. AccountTypes /\ FailureTypes
    BY FS_EmptySet DEF Init, AccountTypes, FailureTypes
  <2>2. CallTypes
    BY IdleFits DEF Init, CallTypes, CallFits, LoginOps
  <2>3. QED
    BY <2>1, <2>2 DEF SessionTypes
<1>2. ASSUME NEW ip, NEW e PROVE IpInv(ip) /\ NameInv(e)
  <2>1. {f \in failures : f.ip = ip} = {} /\ {f \in failures : f.email = e} = {}
    BY DEF Init
  <2>2. OfIp(ip) = 0 /\ OfName(e) = 0
    BY <2>1, FS_EmptySet DEF OfIp, OfName
  <2>3. /\ FromIp(ip) \subseteq Request /\ ForName(e) \subseteq Request
    BY DEF FromIp, ForName
  <2>4. /\ Cardinality(FromIp(ip)) \in Nat /\ Cardinality(ForName(e)) \in Nat
        /\ Cardinality(FromIp(ip)) <= Cardinality(Request)
        /\ Cardinality(ForName(e)) <= Cardinality(Request)
        /\ Cardinality(Request) \in Nat
    BY <2>3, RequestsAre
  <2>5. MaxAttempts \in Nat \ {0}
    BY SessionAssumption
  <2>6. QED
    BY <2>2, <2>4, <2>5 DEF IpInv, NameInv, Within
<1>3. QED
  BY <1>1, <1>2 DEF LimitInv

\* Attempts that are counted at one time (security.py:216-233) and recorded later
\* (security.py:236-245) pass the limit by less than the number of requests, from
\* one source and for one name, for every limit, lockout and number of threads.
THEOREM AttemptsAreLimited == Spec => []FailuresBounded
<1>1. LimitInv => FailuresBounded
  <2>. SUFFICES ASSUME LimitInv PROVE FailuresBounded
    OBVIOUS
  <2>1. ASSUME NEW n \in Nat, NEW P \in SUBSET Request, Within(n, P)
        PROVE  n <= MaxAttempts + Cardinality(Request) - 1
    <3>1. Cardinality(P) \in Nat /\ Cardinality(Request) \in Nat /\ MaxAttempts \in Nat
      BY RequestsAre, SessionAssumption
    <3>2. QED
      BY <2>1, <3>1 DEF Within
  <2>2. ASSUME NEW ip \in Ip PROVE OfIp(ip) <= MaxAttempts + Cardinality(Request) - 1
    BY <2>1, CountsAre DEF LimitInv, SessionTypes, IpInv, FromIp
  <2>3. ASSUME NEW e \in Email PROVE OfName(e) <= MaxAttempts + Cardinality(Request) - 1
    BY <2>1, CountsAre DEF LimitInv, SessionTypes, NameInv, ForName
  <2>4. QED
    BY <2>2, <2>3 DEF FailuresBounded
<1>2. QED
  BY InitLimit, NextLimit, <1>1, PTL DEF Spec

-----------------------------------------------------------------------------
\* Ids are new ones, and one account's.
IdsDiffer ==
    /\ \A e \in Email : users[e] # None => users[e].id < nextId
    /\ \A e, f \in Email :
           users[e] # None /\ users[f] # None /\ users[e].id = users[f].id => e = f

\* The id a login holds is that of the name it is about, or of nobody any more.
HeldId(c) ==
    c.op = "token" =>
        /\ c.email \in Email /\ c.id \in Nat /\ c.id < nextId
        /\ \A f \in Email : users[f] # None /\ users[f].id = c.id => f = c.email

OwnerInv ==
    /\ AccountTypes /\ CallTypes /\ IdsDiffer
    /\ tokens \in [Token -> TokenRow \cup {None}]
    /\ \A r \in Request : HeldId(call[r])
    /\ SessionsAreTheirs

LEMMA InitOwner == Init /\ LimitInv => OwnerInv
BY DEF Init, OwnerInv, LimitInv, SessionTypes, IdsDiffer, HeldId, Idle, SessionsAreTheirs

\* A step that changes no account, and after which requests hold what they held or
\* no id.
LEMMA IdsStay ==
    ASSUME OwnerInv, AccountTypes', CallTypes', UNCHANGED <<users, nextId>>,
           \A q \in Request : call'[q] = call[q] \/ call'[q].op # "token"
    PROVE  IdsDiffer' /\ \A q \in Request : HeldId(call[q])'
BY DEF OwnerInv, IdsDiffer, HeldId

LEMMA KeepsOwner ==
    ASSUME OwnerInv, AccountTypes', CallTypes', UNCHANGED <<users, nextId, tokens>>,
           \A q \in Request : call'[q] = call[q] \/ call'[q].op # "token"
    PROVE  OwnerInv'
<1>1. SessionsAreTheirs' /\ (tokens \in [Token -> TokenRow \cup {None}])'
  BY DEF OwnerInv, SessionsAreTheirs
<1>2. QED
  BY <1>1, IdsStay DEF OwnerInv

\* A login takes the id of the account it is about.
LEMMA ReadUserOwner ==
    ASSUME OwnerInv, AccountTypes', CallTypes', NEW r \in Request, ReadUser(r)
    PROVE  OwnerInv'
<1>. USE DEF OwnerInv
<1>1. UNCHANGED <<users, nextId, tokens>>
  BY DEF ReadUser
<1>2. CASE GoOn(r, "fail") \/ Return(r)
  <2>1. \A q \in Request : call'[q] = call[q] \/ call'[q].op # "token"
    BY <1>2 DEF GoOn, Return, Idle, CallTypes, Call
  <2>2. QED
    BY <1>1, <2>1, KeepsOwner
<1>3. CASE /\ users[call[r].email] # None
           /\ call' = [call EXCEPT ![r] = [@ EXCEPT !.op = "token",
                                                   !.id = users[call[r].email].id]]
  <2>1. call[r] \in Call /\ call[r].email \in Email
    BY DEF ReadUser, CallTypes, LoginOps
  <2>2. /\ \A q \in Request \ {r} : call'[q] = call[q]
        /\ call'[r].email = call[r].email /\ call'[r].id = users[call[r].email].id
    BY <1>3, <2>1 DEF CallTypes, Call
  <2>3. users[call[r].email] \in Account
    BY <1>3, <2>1 DEF AccountTypes
  <2>4. HeldId(call[r])'
    BY <1>1, <1>3, <2>1, <2>2, <2>3 DEF HeldId, IdsDiffer, Account
  <2>5. \A q \in Request : HeldId(call[q])'
    BY <1>1, <2>2, <2>4 DEF HeldId
  <2>6. IdsDiffer' /\ SessionsAreTheirs' /\ (tokens \in [Token -> TokenRow \cup {None}])'
    BY <1>1 DEF IdsDiffer, SessionsAreTheirs
  <2>7. QED
    BY <2>5, <2>6
<1>4. QED
  BY <1>2, <1>3 DEF ReadUser

\* The foreign key lets a token in only while the id is still somebody's.
LEMMA InsertTokenOwner ==
    ASSUME OwnerInv, AccountTypes', CallTypes', NEW r \in Request, InsertToken(r)
    PROVE  OwnerInv'
<1>. USE DEF OwnerInv
<1>1. /\ call[r].op = "token" /\ Issue(r) /\ Return(r) /\ UNCHANGED <<users, nextId>>
  BY DEF InsertToken
<1>2. \A q \in Request : call'[q] = call[q] \/ call'[q].op # "token"
  BY <1>1 DEF Return, Idle, CallTypes
<1>. DEFINE row == [user |-> call[r].id, revoked |-> FALSE, email |-> call[r].email]
<1>3. PICK e \in Email, k \in Token :
          /\ users[e] # None /\ users[e].id = call[r].id
          /\ tokens' = [tokens EXCEPT ![k] = row]
  BY <1>1 DEF Issue
<1>4. call[r].email = e /\ call[r].id \in Nat
  BY <1>1, <1>3 DEF HeldId
<1>5. row \in TokenRow /\ row.email = e /\ row.user = users[e].id
  BY <1>3, <1>4 DEF TokenRow
<1>. HIDE DEF row
<1>6. (tokens \in [Token -> TokenRow \cup {None}])'
  BY <1>3, <1>5
<1>7. SessionsAreTheirs'
  <2>1. ASSUME NEW t \in Token, tokens'[t] # None
        PROVE  users[tokens'[t].email] # None /\ users[tokens'[t].email].id = tokens'[t].user
    <3>1. CASE t = k
      BY <1>3, <1>5, <3>1
    <3>2. CASE t # k
      BY <1>3, <2>1, <3>2 DEF SessionsAreTheirs
    <3>3. QED
      BY <3>1, <3>2
  <2>2. QED
    BY <1>1, <2>1 DEF SessionsAreTheirs
<1>8. QED
  BY <1>1, <1>2, <1>6, <1>7, IdsStay

\* A new account has a new id, whatever name it has.
LEMMA CreateOwner ==
    ASSUME OwnerInv, AccountTypes', CallTypes', NEW r \in Request, CreateInsert(r)
    PROVE  OwnerInv'
<1>. USE DEF OwnerInv
<1>1. Return(r) /\ UNCHANGED tokens
  BY DEF CreateInsert
<1>2. \A q \in Request : call'[q] = call[q] \/ call'[q].op # "token"
  BY <1>1 DEF Return, Idle, CallTypes
<1>3. CASE UNCHANGED <<users, nextId>>
  BY <1>1, <1>2, <1>3, KeepsOwner
<1>4. CASE /\ users[call[r].email] = None
           /\ users' = [users EXCEPT ![call[r].email] = [id |-> nextId, active |-> TRUE]]
           /\ nextId' = nextId + 1
  <2>1. nextId \in Nat
    BY DEF AccountTypes
  <2>2. \A e \in Email :
           \/ users'[e] = users[e]
           \/ e = call[r].email /\ users'[e] # None /\ users'[e].id = nextId
    <3>1. [id |-> nextId, active |-> TRUE] # None
      <4>1. [id |-> nextId, active |-> TRUE] \in Account
        BY <2>1 DEF Account
      <4>2. QED
        BY <4>1, SessionAssumption
    <3>2. QED
      BY <1>4, <3>1 DEF AccountTypes
  <2>3. \A e \in Email : users[e] # None => users[e].id \in Nat /\ users[e].id < nextId
    BY DEF AccountTypes, Account, IdsDiffer
  <2>4. IdsDiffer'
    BY <1>4, <2>1, <2>2, <2>3 DEF IdsDiffer
  <2>5. \A q \in Request : HeldId(call[q])'
    BY <1>2, <1>4, <2>1, <2>2, <2>3 DEF HeldId
  <2>6. SessionsAreTheirs' /\ (tokens \in [Token -> TokenRow \cup {None}])'
    <3>1. \A k \in Token : tokens[k] # None => tokens[k].email \in Email
      BY DEF TokenRow
    <3>2. QED
      BY <1>1, <1>4, <2>2, <3>1 DEF SessionsAreTheirs
  <2>7. QED
    BY <2>4, <2>5, <2>6
<1>5. QED
  BY <1>3, <1>4 DEF CreateInsert

\* The tokens of an account that is deleted go with it, and those of the others stay.
LEMMA AdminOwner ==
    ASSUME OwnerInv, AccountTypes', CallTypes', NEW e \in Email,
           UpdateUser(e) \/ DeleteUser(e)
    PROVE  OwnerInv'
<1>. USE DEF OwnerInv
<1>1. UNCHANGED <<nextId, call>>
  BY DEF UpdateUser, DeleteUser
<1>2. \A f \in Email :
         /\ users'[f] # None => users[f] # None /\ users'[f].id = users[f].id
         /\ f # e => users'[f] = users[f]
  <2>1. CASE UpdateUser(e)
    <3>1. PICK b \in BOOLEAN : users' = [users EXCEPT ![e].active = b]
      BY <2>1 DEF UpdateUser
    <3>2. users[e] \in Account
      BY <2>1 DEF UpdateUser, AccountTypes
    <3>3. QED
      BY <2>1, <3>1, <3>2 DEF UpdateUser, AccountTypes, Account
  <2>2. CASE DeleteUser(e)
    BY <2>2 DEF DeleteUser, AccountTypes
  <2>3. QED
    BY <2>1, <2>2
<1>3. IdsDiffer'
  BY <1>1, <1>2 DEF IdsDiffer
<1>4. \A q \in Request : HeldId(call[q])'
  BY <1>1, <1>2 DEF HeldId
<1>5. SessionsAreTheirs' /\ (tokens \in [Token -> TokenRow \cup {None}])'
  <2>1. CASE UpdateUser(e)
    <3>1. PICK b \in BOOLEAN : users' = [users EXCEPT ![e].active = b]
      BY <2>1 DEF UpdateUser
    <3>2. users[e] \in Account /\ UNCHANGED tokens
      BY <2>1 DEF UpdateUser, AccountTypes
    <3>3. [users[e] EXCEPT !.active = b] \in Account
      BY <3>2 DEF Account
    <3>4. [users[e] EXCEPT !.active = b] # None
          /\ [users[e] EXCEPT !.active = b].id = users[e].id
      BY <3>2, <3>3, SessionAssumption DEF Account
    <3>5. \A f \in Email : users[f] # None => users'[f] # None /\ users'[f].id = users[f].id
      BY <3>1, <3>4 DEF AccountTypes
    <3>6. \A k \in Token : tokens[k] # None => tokens[k].email \in Email
      BY DEF TokenRow
    <3>7. QED
      BY <3>2, <3>5, <3>6 DEF SessionsAreTheirs
  <2>2. CASE DeleteUser(e)
    <3>1. \A k \in Token : tokens'[k] = tokens[k] \/ tokens'[k] = None
      BY <2>2 DEF DeleteUser
    <3>2. (tokens \in [Token -> TokenRow \cup {None}])'
      BY <2>2 DEF DeleteUser
    <3>3. ASSUME NEW k \in Token, tokens'[k] # None
          PROVE  /\ users'[tokens'[k].email] # None
                 /\ users'[tokens'[k].email].id = tokens'[k].user
      <4>1. tokens'[k] = tokens[k] /\ tokens[k].user # users[e].id
        BY <2>2, <3>3 DEF DeleteUser
      <4>2. /\ tokens[k].email \in Email /\ users[tokens[k].email] # None
            /\ users[tokens[k].email].id = tokens[k].user
        BY <3>3, <4>1 DEF TokenRow, SessionsAreTheirs
      <4>3. QED
        BY <1>2, <4>1, <4>2
    <3>4. QED
      BY <3>2, <3>3 DEF SessionsAreTheirs
  <2>3. QED
    BY <2>1, <2>2
<1>6. QED
  BY <1>3, <1>4, <1>5

LEMMA LogoutOwner ==
    ASSUME OwnerInv, AccountTypes', CallTypes', NEW k \in Token, Logout(k)
    PROVE  OwnerInv'
<1>. USE DEF OwnerInv
<1>1. /\ tokens[k] \in TokenRow /\ tokens' = [tokens EXCEPT ![k].revoked = TRUE]
      /\ UNCHANGED <<users, nextId, call>>
  BY DEF Logout
<1>2. [tokens[k] EXCEPT !.revoked = TRUE] \in TokenRow
  BY <1>1 DEF TokenRow
<1>3. (tokens \in [Token -> TokenRow \cup {None}])'
  BY <1>1, <1>2
<1>4. \A t \in Token : tokens'[t] # None =>
         /\ tokens[t] # None /\ tokens'[t].user = tokens[t].user
         /\ tokens'[t].email = tokens[t].email
  <2>1. tokens[k] # None
    BY DEF Logout
  <2>2. /\ [tokens[k] EXCEPT !.revoked = TRUE].user = tokens[k].user
        /\ [tokens[k] EXCEPT !.revoked = TRUE].email = tokens[k].email
    BY <1>1 DEF TokenRow
  <2>3. QED
    BY <1>1, <2>1, <2>2
<1>5. SessionsAreTheirs'
  BY <1>1, <1>4 DEF SessionsAreTheirs
<1>6. QED
  BY <1>1, <1>3, <1>5, IdsStay

LEMMA NextOwner == OwnerInv /\ AccountTypes' /\ CallTypes' /\ [Next]_vars => OwnerInv'
<1>. SUFFICES ASSUME OwnerInv, AccountTypes', CallTypes', [Next]_vars PROVE OwnerInv'
  OBVIOUS
<1>1. ASSUME NEW r \in Request,
             \/ \E e \in Email, ip \in Ip : Login(r, e, ip)
             \/ \E e \in Email : CreateSelect(r, e)
             \/ CheckIp(r) \/ CheckName(r) \/ Fail(r) \/ RequestFails(r)
      PROVE  OwnerInv'
  <2>1. UNCHANGED <<users, nextId, tokens>>
    BY <1>1 DEF Login, CreateSelect, CheckIp, CheckName, Fail, RequestFails
  <2>2. \A q \in Request : call'[q] = call[q] \/ call'[q].op # "token"
    <3>1. call \in [Request -> Call]
      BY DEF OwnerInv, CallTypes
    <3>2. CASE Return(r)
      BY <3>1, <3>2 DEF Return, Idle
    <3>3. ASSUME NEW op, GoOn(r, op), op # "token"
          PROVE  \A q \in Request : call'[q] = call[q] \/ call'[q].op # "token"
      BY <3>1, <3>3 DEF GoOn, Call
    <3>4. ASSUME NEW c, Begin(r, c), c.op # "token"
          PROVE  \A q \in Request : call'[q] = call[q] \/ call'[q].op # "token"
      BY <3>1, <3>4 DEF Begin
    <3>5. CASE \E e \in Email, ip \in Ip : Login(r, e, ip)
      BY <3>4, <3>5 DEF Login, Idle
    <3>6. CASE \E e \in Email : CreateSelect(r, e)
      BY <3>4, <3>6 DEF CreateSelect, Idle
    <3>7. QED
      BY <1>1, <3>2, <3>3, <3>5, <3>6
      DEF CheckIp, CheckName, Fail, RequestFails, Refuse
  <2>3. QED
    BY <2>1, <2>2, KeepsOwner
<1>2. CASE Tick \/ UNCHANGED vars
  BY <1>2, KeepsOwner DEF Tick, vars
<1>3. QED
  BY <1>1, <1>2, ReadUserOwner, InsertTokenOwner, CreateOwner, AdminOwner, LogoutOwner
  DEF Next, Step

\* A stored session is that of the account whose password was checked, however
\* logins, deletions and new accounts of the same name overlap (api_users.py:26-31,
\* 127-135; schema.sql:43).
THEOREM SessionsStayTheirs == Spec => []SessionsAreTheirs
<1>1. LimitInv => AccountTypes /\ CallTypes
  BY DEF LimitInv, SessionTypes
<1>2. OwnerInv => SessionsAreTheirs
  BY DEF OwnerInv
<1>3. Init => OwnerInv
  BY InitOwner, InitLimit
<1>4. QED
  BY InitLimit, NextLimit, NextOwner, <1>1, <1>2, <1>3, PTL DEF Spec
=============================================================================
