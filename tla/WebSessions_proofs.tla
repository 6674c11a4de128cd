-------------------------- MODULE WebSessions_proofs --------------------------
(***************************************************************************)
(* Browser sessions, for any sessions, browsers, requests and timeout.     *)
(***************************************************************************)
EXTENDS WebSessions, TLAPS

\* A request in one of these places has the id of a session that was made.
Holding == {"saved", "recorded", "lookup", "found", "alive", "removing", "removed", "leaving"}

IdsKnown ==
    /\ \A b \in Browsers : cookie[b] # None => cookie[b] \in Issued
    /\ \A r \in Requests : req[r].at \in Holding => req[r].id \in Issued

\* A logout that has removed its session.
LeftGone ==
    \A r \in Requests : req[r].at \in {"removed", "leaving"} => req[r].id \notin sessions

\* Each record tells where the request that wrote it has got to.
RecordsPlaced ==
    \A a \in audit :
       /\ a.event = "LOGIN" => req[a.by].at \in {"recorded", "done"}
       /\ a.event = "AUTH_FAILURE" => req[a.by].at \in {"refused", "error"}
       /\ a.event = "LOGOUT" => /\ req[a.by].at \in {"leaving", "done"}
                                /\ req[a.by].id \in Issued \ sessions

LoginsRecorded ==
    /\ \A r \in Requests : req[r].at = "recorded" => [event |-> "LOGIN", by |-> r] \in audit
    /\ \A b \in Browsers : cookie[b] # None =>
          \E a \in audit : a.event = "LOGIN" /\ req[a.by].id = cookie[b]

IInv == TypeOK /\ IdsKnown /\ LeftGone /\ RecordsPlaced /\ LoginsRecorded

-----------------------------------------------------------------------------
\* A step moves one request, or none, or the clock; StoreSteps are the effects
\* it may have on the store.
StoreStep ==
    \/ \E i \in Ids : Create(i) \/ Remove(i) \/ Expire(i) \/ Check(i) \/ Touch(i)
    \/ Tick
    \/ UNCHANGED storeVars

\* Every handler's effect on the store is an operation of the store, on an id.
LEMMA StepsOfStore == ASSUME TypeOK, IdsKnown, [Next]_vars PROVE StoreStep
<1> USE DEF storeVars
<1>1. ASSUME NEW r \in Requests, NEW b \in Browsers, PostLogin(r, b) PROVE StoreStep
  BY <1>1 DEF PostLogin, StoreStep
<1>2. ASSUME NEW r \in Requests, NEW b \in Browsers, NEW k \in {"page", "logout"}, Request(r, b, k)
      PROVE  StoreStep
  BY <1>2 DEF Request, StoreStep
<1>3. ASSUME NEW r \in Requests, Handling(r) PROVE StoreStep
  <2>1. CASE req[r].at \in Holding
    <3>1. req[r].id \in Ids
      BY <2>1 DEF IdsKnown, Issued
    <3>2. CASE LookupExpired(r)
      BY <3>1, <3>2 DEF LookupExpired, StoreStep
    <3>3. CASE Accepted(r)
      BY <3>1, <3>3 DEF Accepted, StoreStep
    <3>4. CASE RemoveSession(r)
      BY <3>1, <3>4 DEF RemoveSession, StoreStep
    <3> QED
      BY <1>3, <2>1, <3>2, <3>3, <3>4
         DEF Handling, LoginRefused, CreateSession, RecordLogin, LoginRaises, RespondLogin, Lookup,
             LookupAlive, Check, RecordLogout, RecordLogoutRaises, RespondLogout, StoreStep
  <2>2. CASE req[r].at \notin Holding
    BY <1>3, <2>2
       DEF Handling, LoginRefused, CreateSession, RecordLogin, LoginRaises, RespondLogin, Lookup,
           LookupExpired, LookupAlive, Accepted, RemoveSession, RecordLogout, RecordLogoutRaises, RespondLogout,
           StoreStep, Holding
  <2> QED
    BY <2>1, <2>2
<1>4. CASE Tick
  BY <1>4 DEF StoreStep
<1>5. CASE UNCHANGED vars
  BY <1>5 DEF vars, StoreStep
<1> QED
  BY <1>1, <1>2, <1>3, <1>4, <1>5 DEF Next

\* Sessions that were made stay made, and those that are gone stay gone.
LEMMA StoreForgets ==
    ASSUME StoreTypeOK, StoreStep
    PROVE  /\ StoreTypeOK'
           /\ Issued \subseteq Issued'
           /\ \A i \in Issued : i \notin sessions => i \notin sessions'
<1> USE StoreAssumption DEF StoreTypeOK, Issued
<1>1. ASSUME NEW i \in Ids, Create(i)
      PROVE  /\ StoreTypeOK'
             /\ Issued \subseteq Issued'
             /\ \A j \in Issued : j \notin sessions => j \notin sessions'
  BY <1>1 DEF Create
<1>2. ASSUME NEW i \in Ids, Touch(i)
      PROVE  /\ StoreTypeOK'
             /\ Issued \subseteq Issued'
             /\ \A j \in Issued : j \notin sessions => j \notin sessions'
  BY <1>2 DEF Touch
<1>3. ASSUME NEW i \in Ids, Remove(i) \/ Expire(i)
      PROVE  /\ StoreTypeOK'
             /\ Issued \subseteq Issued'
             /\ \A j \in Issued : j \notin sessions => j \notin sessions'
  BY <1>3 DEF Remove, Expire
<1>4. ASSUME Tick \/ UNCHANGED storeVars
      PROVE  /\ StoreTypeOK'
             /\ Issued \subseteq Issued'
             /\ \A j \in Issued : j \notin sessions => j \notin sessions'
  BY <1>4 DEF Tick, storeVars
<1> QED
  BY <1>1, <1>2, <1>3, <1>4 DEF StoreStep, Check

\* A session that expired stays so until it is touched.
LEMMA StoreKeepsExpired ==
    ASSUME StoreTypeOK, StoreStep, NEW i \in Issued, IsExpired(i), lastSeen'[i] = lastSeen[i]
    PROVE  IsExpired(i)'
<1> USE StoreAssumption DEF StoreTypeOK, Issued, IsExpired
<1>1. lastSeen[i] \in Nat /\ now \in Nat
  OBVIOUS
<1>2. now' = now \/ now' = now + 1
  BY DEF StoreStep, Create, Remove, Expire, Check, Touch, Tick, storeVars
<1> QED
  BY <1>1, <1>2

\* Only a request that checked a session touches it.
LEMMA OnlyAliveTouches ==
    ASSUME TypeOK, IdsKnown, [Next]_vars, NEW i \in Issued,
           \A r \in Requests : req[r].at = "alive" => req[r].id # i
    PROVE  lastSeen'[i] = lastSeen[i]
<1> USE DEF TypeOK, StoreTypeOK, Issued
<1>1. ASSUME NEW r \in Requests, CreateSession(r) PROVE lastSeen'[i] = lastSeen[i]
  BY <1>1 DEF CreateSession, Create
<1>2. ASSUME NEW r \in Requests, Accepted(r) PROVE lastSeen'[i] = lastSeen[i]
  BY <1>2 DEF Accepted, Touch
<1>3. CASE Tick \/ UNCHANGED vars
  BY <1>3 DEF Tick, vars
<1>4. CASE ~(Tick \/ UNCHANGED vars) /\ \A r \in Requests : ~CreateSession(r) /\ ~Accepted(r)
  BY <1>4 DEF Next, Handling, PostLogin, LoginRefused, RecordLogin, LoginRaises, RespondLogin,
              Request, Lookup, LookupExpired, LookupAlive, Expire, Check, Remove, RemoveSession,
              RecordLogout, RecordLogoutRaises, RespondLogout, storeVars
<1> QED
  BY <1>1, <1>2, <1>3, <1>4

\* And only a session that is alive passes the check.
LEMMA OnlyLivePass ==
    ASSUME TypeOK, [Next]_vars, NEW r \in Requests, req'[r].at = "alive"
    PROVE  /\ req'[r].id = req[r].id
           /\ req[r].at = "alive" \/ ~IsExpired(req[r].id)
<1> USE DEF TypeOK, Reqs
<1>1. ASSUME NEW q \in Requests, LookupAlive(q)
      PROVE  /\ req'[r].id = req[r].id
             /\ req[r].at = "alive" \/ ~IsExpired(req[r].id)
  BY <1>1 DEF LookupAlive, Check, Go
<1>2. ASSUME NEW q \in Requests,
             \/ \E b \in Browsers : \/ PostLogin(q, b)
                                    \/ \E k \in {"page", "logout"} : Request(q, b, k)
             \/ CreateSession(q)
      PROVE  req'[r] = req[r]
  <2>1. req'[q].at \in {"checking", "lookup", "saved"}
    <3>1. CASE CreateSession(q)
      <4>1. PICK i \in Ids : req' = [req EXCEPT ![q] = [req[q] EXCEPT !.at = "saved", !.id = i]]
        BY <3>1 DEF CreateSession
      <4> QED
        BY <4>1
    <3>2. ASSUME NEW b \in Browsers, PostLogin(q, b)
          PROVE  req'[q].at \in {"checking", "lookup", "saved"}
      BY <3>2 DEF PostLogin
    <3>3. ASSUME NEW b \in Browsers, NEW k \in {"page", "logout"}, Request(q, b, k)
          PROVE  req'[q].at \in {"checking", "lookup", "saved"}
      BY <3>3 DEF Request
    <3> QED
      BY <1>2, <3>1, <3>2, <3>3
  <2>2. q # r
    BY <2>1
  <2> QED
    BY <1>2, <2>2 DEF PostLogin, Request, CreateSession
<1>3. ASSUME NEW q \in Requests, Handling(q), ~LookupAlive(q), ~CreateSession(q)
      PROVE  req'[r] = req[r]
  <2>1. PICK p \in Places \ {"alive"} : Go(q, p)
    BY <1>3 DEF Handling, LoginRefused, RecordLogin, LoginRaises, RespondLogin, Lookup,
                LookupExpired, Accepted, RemoveSession, RecordLogout, RecordLogoutRaises,
                RespondLogout, Places
  <2>2. q # r
    BY <2>1 DEF Go
  <2> QED
    BY <2>1, <2>2 DEF Go
<1>4. CASE (Tick /\ UNCHANGED <<cookie, req, audit>>) \/ UNCHANGED vars
  BY <1>4 DEF vars
<1> QED
  BY <1>1, <1>2, <1>3, <1>4 DEF Next

-----------------------------------------------------------------------------
\* The store keeps its type, and every other variable is set within its own.
LEMMA TypeInvariant == ASSUME TypeOK, IdsKnown, [Next]_vars PROVE TypeOK'
<1>0. StoreTypeOK'
  BY StepsOfStore, StoreForgets DEF TypeOK
<1> USE DEF TypeOK
<1>1. ASSUME NEW r \in Requests, NEW p \in Places, Go(r, p)
      PROVE  req' \in [Requests -> Reqs]
  <2>1. [req[r] EXCEPT !.at = p] \in Reqs
    BY DEF Reqs
  <2> QED
    BY <1>1, <2>1 DEF Go
<1>2. ASSUME NEW r \in Requests, NEW e \in Events, Write(e, r)
      PROVE  audit' \subseteq [event : Events, by : Requests]
  BY <1>2 DEF Write
<1>3. ASSUME NEW r \in Requests, NEW b \in Browsers, PostLogin(r, b) PROVE TypeOK'
  <2>1. [req[r] EXCEPT !.at = "checking", !.kind = "login", !.browser = b] \in Reqs
    BY DEF Reqs, Places, Kinds
  <2>2. req' \in [Requests -> Reqs]
    BY <1>3, <2>1 DEF PostLogin
  <2> QED
    BY <1>0, <1>3, <2>2 DEF PostLogin
<1>4. ASSUME NEW r \in Requests, NEW b \in Browsers, NEW k \in {"page", "logout"}, Request(r, b, k)
      PROVE  TypeOK'
  <2>1. [at |-> "lookup", kind |-> k, browser |-> b, id |-> cookie[b]] \in Reqs
    BY DEF Reqs, Places, Kinds
  <2>2. req' \in [Requests -> Reqs]
    BY <1>4, <2>1 DEF Request
  <2> QED
    BY <1>0, <1>4, <2>2 DEF Request
<1>5. ASSUME NEW r \in Requests, Handling(r) PROVE TypeOK'
  <2>1. CASE CreateSession(r)
    <3>1. PICK i \in Ids : req' = [req EXCEPT ![r] = [req[r] EXCEPT !.at = "saved", !.id = i]]
      BY <2>1 DEF CreateSession
    <3>2. [req[r] EXCEPT !.at = "saved", !.id = i] \in Reqs
      BY DEF Reqs, Places
    <3>3. req' \in [Requests -> Reqs]
      BY <3>1, <3>2
    <3> QED
      BY <1>0, <2>1, <3>3 DEF CreateSession
  <2>2. CASE RespondLogin(r)
    <3>1. req[r].id \in Ids
      BY <2>2 DEF RespondLogin, IdsKnown, Issued, Holding
    <3>2. req[r].browser \in Browsers \cup {None}
      BY DEF Reqs
    <3>3. cookie' \in [Browsers -> Ids \cup {None}]
      BY <2>2, <3>1, <3>2 DEF RespondLogin
    <3>4. req' \in [Requests -> Reqs]
      BY <1>1, <2>2 DEF RespondLogin, Places
    <3> QED
      BY <1>0, <2>2, <3>3, <3>4 DEF RespondLogin
  <2>3. CASE RespondLogout(r)
    <3>1. cookie' \in [Browsers -> Ids \cup {None}]
      BY <2>3 DEF RespondLogout
    <3>2. req' \in [Requests -> Reqs]
      BY <1>1, <2>3 DEF RespondLogout, Places
    <3> QED
      BY <1>0, <2>3, <3>1, <3>2 DEF RespondLogout
  <2>4. CASE Lookup(r) \/ LookupExpired(r) \/ LookupAlive(r) \/ Accepted(r)
    <3>1. req' \in [Requests -> Reqs]
      BY <1>1, <2>4 DEF Lookup, LookupExpired, LookupAlive, Accepted, Places
    <3> QED
      BY <1>0, <2>4, <3>1 DEF Lookup, LookupExpired, LookupAlive, Accepted
  <2>5. CASE LoginRefused(r) \/ RecordLogin(r) \/ LoginRaises(r)
    <3>1. req' \in [Requests -> Reqs]
      BY <1>1, <2>5 DEF LoginRefused, RecordLogin, LoginRaises, Places
    <3>2. audit' \subseteq [event : Events, by : Requests]
      BY <1>2, <2>5 DEF LoginRefused, RecordLogin, LoginRaises, Events
    <3> QED
      BY <1>0, <2>5, <3>1, <3>2 DEF LoginRefused, RecordLogin, LoginRaises
  <2>6. CASE RemoveSession(r) \/ RecordLogout(r) \/ RecordLogoutRaises(r)
    <3>1. req' \in [Requests -> Reqs]
      BY <1>1, <2>6 DEF RemoveSession, RecordLogout, RecordLogoutRaises, Places
    <3>2. audit' \subseteq [event : Events, by : Requests]
      BY <1>2, <2>6 DEF RemoveSession, RecordLogout, RecordLogoutRaises, Events
    <3> QED
      BY <1>0, <2>6, <3>1, <3>2 DEF RemoveSession, RecordLogout, RecordLogoutRaises
  <2> QED
    BY <1>5, <2>1, <2>2, <2>3, <2>4, <2>5, <2>6 DEF Handling
<1>6. CASE Tick /\ UNCHANGED <<cookie, req, audit>>
  BY <1>0, <1>6
<1>7. CASE UNCHANGED vars
  BY <1>0, <1>7 DEF vars
<1> QED
  BY <1>3, <1>4, <1>5, <1>6, <1>7 DEF Next

-----------------------------------------------------------------------------
\* The part of the invariant that relates requests, cookies and records to the
\* store.
Placed == IdsKnown /\ LeftGone /\ RecordsPlaced /\ LoginsRecorded

\* Request r goes to place p with id i, and no other request moves.
Reaches(r, p, i) ==
    /\ req'[r].at = p
    /\ req'[r].id = i
    /\ \A q \in Requests \ {r} : req'[q] = req[q]

\* A request that only changes its place keeps its id.
LEMMA Goes == ASSUME TypeOK, NEW r \in Requests, NEW p, Go(r, p) PROVE Reaches(r, p, req[r].id)
BY DEF TypeOK, Reqs, Go, Reaches

\* A login: the request has no session, then a new one, then its record.
LEMMA LoginsKeepPlaces ==
    ASSUME TypeOK, TypeOK', Placed, NEW r \in Requests,
           Issued \subseteq Issued',
           \A i \in Issued : i \notin sessions => i \notin sessions',
           \/ \E b \in Browsers : PostLogin(r, b)
           \/ LoginRefused(r) \/ CreateSession(r) \/ RecordLogin(r) \/ LoginRaises(r)
           \/ RespondLogin(r)
    PROVE  Placed'
<1> USE DEF Placed, IdsKnown, LeftGone, RecordsPlaced, LoginsRecorded
<1>1. \A a \in audit : a.by \in Requests /\ a.event \in Events
  BY DEF TypeOK
<1>2. ASSUME NEW b \in Browsers, PostLogin(r, b) PROVE Placed'
  <2>1. Reaches(r, "checking", req[r].id) /\ req[r].at = "idle"
    BY <1>2 DEF PostLogin, TypeOK, Reqs, Reaches
  <2>2. UNCHANGED <<sessions, cookie, audit>>
    BY <1>2 DEF PostLogin
  <2> QED
    BY <1>1, <2>1, <2>2 DEF Reaches, Holding
<1>3. CASE LoginRefused(r)
  <2>1. Reaches(r, "refused", req[r].id) /\ req[r].at = "checking"
    BY <1>3, Goes DEF LoginRefused
  <2>2. /\ UNCHANGED <<sessions, cookie>>
        /\ audit' = audit \cup {[event |-> "AUTH_FAILURE", by |-> r]}
    BY <1>3 DEF LoginRefused, Write
  <2> QED
    BY <1>1, <2>1, <2>2 DEF Reaches, Holding
<1>4. CASE CreateSession(r)
  <2>1. PICK i \in Ids : /\ Create(i)
                         /\ req' = [req EXCEPT ![r] = [req[r] EXCEPT !.at = "saved", !.id = i]]
    BY <1>4 DEF CreateSession
  <2>2. Reaches(r, "saved", i) /\ req[r].at = "checking"
    BY <1>4, <2>1 DEF CreateSession, TypeOK, Reqs, Reaches
  <2>3. i \in Issued'
    BY <2>1, StoreAssumption DEF Create, Issued, TypeOK, StoreTypeOK
  <2>4. UNCHANGED <<cookie, audit>>
    BY <1>4 DEF CreateSession
  <2> QED
    BY <1>1, <2>2, <2>3, <2>4 DEF Reaches, Holding
<1>5. CASE RecordLogin(r)
  <2>1. Reaches(r, "recorded", req[r].id) /\ req[r].at = "saved"
    BY <1>5, Goes DEF RecordLogin
  <2>2. /\ UNCHANGED <<sessions, cookie>>
        /\ audit' = audit \cup {[event |-> "LOGIN", by |-> r]}
    BY <1>5 DEF RecordLogin, Write
  <2> QED
    BY <1>1, <2>1, <2>2 DEF Reaches, Holding
<1>6. CASE LoginRaises(r)
  <2>1. Reaches(r, "error", req[r].id) /\ req[r].at \in {"checking", "saved"}
    BY <1>6, Goes DEF LoginRaises
  <2>2. /\ UNCHANGED <<sessions, cookie>>
        /\ \/ audit' = audit \cup {[event |-> "AUTH_FAILURE", by |-> r]}
           \/ audit' = audit
    BY <1>6 DEF LoginRaises, Write
  <2> QED
    BY <1>1, <2>1, <2>2 DEF Reaches, Holding
<1>7. CASE RespondLogin(r)
  <2>1. Reaches(r, "done", req[r].id) /\ req[r].at = "recorded"
    BY <1>7, Goes DEF RespondLogin
  <2>2. /\ UNCHANGED <<sessions, audit>>
        /\ \A b \in Browsers : cookie'[b] \in {cookie[b], req[r].id}
    BY <1>7 DEF RespondLogin, TypeOK
  <2>3. req[r].id \in Issued /\ [event |-> "LOGIN", by |-> r] \in audit
    BY <2>1 DEF Holding
  <2> QED
    BY <1>1, <2>1, <2>2, <2>3 DEF Reaches, Holding
<1> QED
  BY <1>2, <1>3, <1>4, <1>5, <1>6, <1>7

\* A page or a logout: the id comes from the cookie, and is given up for good.
LEMMA PagesKeepPlaces ==
    ASSUME TypeOK, TypeOK', Placed, NEW r \in Requests,
           Issued \subseteq Issued',
           \A i \in Issued : i \notin sessions => i \notin sessions',
           \/ \E b \in Browsers, k \in {"page", "logout"} : Request(r, b, k)
           \/ Lookup(r) \/ LookupExpired(r) \/ LookupAlive(r) \/ Accepted(r)
           \/ RemoveSession(r) \/ RecordLogout(r) \/ RecordLogoutRaises(r) \/ RespondLogout(r)
    PROVE  Placed'
<1> USE DEF Placed, IdsKnown, LeftGone, RecordsPlaced, LoginsRecorded
<1>1. \A a \in audit : a.by \in Requests /\ a.event \in Events
  BY DEF TypeOK
<1>2. ASSUME NEW b \in Browsers, NEW k \in {"page", "logout"}, Request(r, b, k) PROVE Placed'
  <2>1. Reaches(r, "lookup", cookie[b]) /\ req[r].at = "idle" /\ cookie[b] # None
    BY <1>2 DEF Request, TypeOK, Reqs, Reaches
  <2>2. UNCHANGED <<sessions, cookie, audit>>
    BY <1>2 DEF Request
  <2> QED
    BY <1>1, <2>1, <2>2 DEF Reaches, Holding
<1>3. CASE Lookup(r)
  <2>1. PICK p \in {"found", "redirected"} : Reaches(r, p, req[r].id) /\ req[r].at = "lookup"
    BY <1>3, Goes DEF Lookup
  <2>2. UNCHANGED <<sessions, cookie, audit>>
    BY <1>3 DEF Lookup
  <2> QED
    BY <1>1, <2>1, <2>2 DEF Reaches, Holding
<1>4. CASE LookupExpired(r) \/ LookupAlive(r) \/ Accepted(r)
  <2>1. PICK p \in {"redirected", "alive", "removing", "done"} :
           Reaches(r, p, req[r].id) /\ req[r].at \in {"found", "alive"}
    BY <1>4, Goes DEF LookupExpired, LookupAlive, Accepted
  <2>2. UNCHANGED <<cookie, audit>>
    BY <1>4 DEF LookupExpired, LookupAlive, Accepted
  <2> QED
    BY <1>1, <2>1, <2>2 DEF Reaches, Holding
<1>5. CASE RemoveSession(r)
  <2>1. Reaches(r, "removed", req[r].id) /\ req[r].at = "removing"
    BY <1>5, Goes DEF RemoveSession
  <2>2. UNCHANGED <<cookie, audit>> /\ req[r].id \notin sessions'
    BY <1>5 DEF RemoveSession, Remove
  <2> QED
    BY <1>1, <2>1, <2>2 DEF Reaches, Holding
<1>6. CASE RecordLogout(r)
  <2>1. Reaches(r, "leaving", req[r].id) /\ req[r].at = "removed"
    BY <1>6, Goes DEF RecordLogout
  <2>2. /\ UNCHANGED <<sessions, cookie>>
        /\ audit' = audit \cup {[event |-> "LOGOUT", by |-> r]}
    BY <1>6 DEF RecordLogout, Write
  <2> QED
    BY <1>1, <2>1, <2>2 DEF Reaches, Holding
<1>7. CASE RecordLogoutRaises(r)
  <2>1. Reaches(r, "error", req[r].id) /\ req[r].at = "removed"
    BY <1>7, Goes DEF RecordLogoutRaises
  <2>2. UNCHANGED <<sessions, cookie, audit>>
    BY <1>7 DEF RecordLogoutRaises
  <2> QED
    BY <1>1, <2>1, <2>2 DEF Reaches, Holding
<1>8. CASE RespondLogout(r)
  <2>1. Reaches(r, "done", req[r].id) /\ req[r].at = "leaving"
    BY <1>8, Goes DEF RespondLogout
  <2>2. /\ UNCHANGED <<sessions, audit>>
        /\ \A b \in Browsers : cookie'[b] \in {cookie[b], None}
    BY <1>8 DEF RespondLogout, TypeOK
  <2> QED
    BY <1>1, <2>1, <2>2 DEF Reaches, Holding
<1> QED
  BY <1>2, <1>3, <1>4, <1>5, <1>6, <1>7, <1>8

-----------------------------------------------------------------------------
\* At first there is no session, cookie or record.
LEMMA InitIInv == Init => IInv
BY StoreAssumption
   DEF Init, StoreInit, IInv, TypeOK, StoreTypeOK, Reqs, Places, Kinds, IdsKnown, LeftGone,
       RecordsPlaced, LoginsRecorded, Holding

\* Every step keeps the invariant.
LEMMA NextIInv == IInv /\ [Next]_vars => IInv'
<1> SUFFICES ASSUME IInv, [Next]_vars PROVE IInv'
  OBVIOUS
<1>1. TypeOK /\ Placed
  BY DEF IInv, Placed
<1>2. TypeOK'
  BY <1>1, TypeInvariant DEF Placed
<1>3. /\ Issued \subseteq Issued'
      /\ \A i \in Issued : i \notin sessions => i \notin sessions'
  BY <1>1, StepsOfStore, StoreForgets DEF TypeOK, Placed
<1>4. ASSUME NEW r \in Requests,
             \/ \E b \in Browsers : \/ PostLogin(r, b)
                                    \/ \E k \in {"page", "logout"} : Request(r, b, k)
             \/ Handling(r)
      PROVE  Placed'
  BY <1>1, <1>2, <1>3, <1>4, LoginsKeepPlaces, PagesKeepPlaces DEF Handling
<1>5. ASSUME UNCHANGED <<cookie, req, audit>> PROVE Placed'
  BY <1>1, <1>3, <1>5
     DEF Placed, IdsKnown, LeftGone, RecordsPlaced, LoginsRecorded, Holding
<1>6. Placed'
  BY <1>4, <1>5 DEF Next, vars
<1> QED
  BY <1>2, <1>6 DEF IInv, Placed

\* A request that has reached a place has the id, cookie and records of that
\* place, in every reachable state.
THEOREM Invariance == Spec => []IInv
BY InitIInv, NextIInv, PTL DEF Spec

\* Every variable stays in its type (the store, the cookies, the requests and
\* the audit log of the web front end).
THEOREM TypeCorrect == Spec => []TypeOK
<1>1. IInv => TypeOK
  BY DEF IInv
<1> QED
  BY <1>1, Invariance, PTL

\* Once a logout is on record its session is in the store no more, whatever
\* other requests of that session are under way (logout, current_session).
THEOREM LogoutsAreFinal == Spec => []LogoutIsFinal
<1>1. IInv => LogoutIsFinal
  BY DEF IInv, RecordsPlaced, LogoutIsFinal
<1> QED
  BY <1>1, Invariance, PTL

\* A browser only holds a session whose login is on record, and no attempt is on
\* record as both a login and a failure (login, Host.login).
THEOREM CookiesAreRecorded == Spec => []CookieIsRecorded
<1>1. IInv => CookieIsRecorded
  BY DEF IInv, RecordsPlaced, LoginsRecorded, CookieIsRecorded
<1> QED
  BY <1>1, Invariance, PTL

\* A session that left the store never comes back (SessionStore.get and remove).
THEOREM SessionsGoneStayGone == Spec => GoneStaysGone
<1>1. IInv /\ [Next]_vars => [\A i \in Issued \ sessions : i \notin sessions']_vars
  BY StepsOfStore, StoreForgets DEF IInv, TypeOK
<1> QED
  BY <1>1, Invariance, PTL DEF Spec, GoneStaysGone

\* A session that expired while no request had it checked is never alive again:
\* nobody touches it, and nobody gets past the check (SessionStore.get).
THEOREM ExpiredSessionsStayExpired == Spec => ExpiredStaysExpired
<1>1. IInv /\ [Next]_vars => [\A i \in Issued : Lapsed(i) => Lapsed(i)']_vars
  <2> SUFFICES ASSUME IInv, [Next]_vars, NEW i \in Issued, Lapsed(i)
               PROVE  Lapsed(i)'
    OBVIOUS
  <2>1. TypeOK /\ IdsKnown /\ StoreTypeOK /\ StoreStep
    BY StepsOfStore DEF IInv, TypeOK
  <2>2. IsExpired(i)'
    BY <2>1, OnlyAliveTouches, StoreKeepsExpired DEF Lapsed
  <2>3. ASSUME NEW r \in Requests, req'[r].at = "alive" PROVE req'[r].id # i
    BY <2>1, <2>3, OnlyLivePass DEF Lapsed
  <2> QED
    BY <2>2, <2>3 DEF Lapsed
<1> QED
  BY <1>1, Invariance, PTL DEF Spec, ExpiredStaysExpired
=============================================================================
