----------------------------- MODULE WebSessions -----------------------------
(***************************************************************************)
(* Browser sessions: the login and logout handlers of                      *)
(* presentation/web/routes.py, current_session in dependencies.py, the     *)
(* login of application/host.py and AuthenticationService.                 *)
(*                                                                         *)
(* host.login, the removal of a session and the audit records run in       *)
(* worker threads; current_session runs on the event loop, so two requests *)
(* are never in it at once, but a thread may run in the middle of it.      *)
(***************************************************************************)
EXTENDS SessionStore

CONSTANTS
    Browsers,     \* each keeps one cookie and has any number of tabs
    Requests      \* HTTP requests

VARIABLES
    cookie,       \* Browsers -> the session cookie, or None
    req,          \* Requests -> where the request is and its locals
    audit         \* the records in audit_logs: the event and the request that wrote it

vars == <<sessions, lastSeen, now, cookie, req, audit>>

Kinds == {"login", "page", "logout"}
Places == {"idle", "checking", "saved", "recorded", "lookup", "found", "alive", "removing", "removed",
           "leaving", "done", "refused", "redirected", "error"}
Reqs == [at : Places, kind : Kinds \cup {None}, browser : Browsers \cup {None},
         id : Ids \cup {None}]
Events == {"LOGIN", "AUTH_FAILURE", "LOGOUT"}

\* Every variable stays in its type.
TypeOK ==
    /\ StoreTypeOK
    /\ cookie \in [Browsers -> Ids \cup {None}]
    /\ req \in [Requests -> Reqs]
    /\ audit \subseteq [event : Events, by : Requests]

Init ==
    /\ StoreInit
    /\ cookie = [b \in Browsers |-> None]
    /\ req = [r \in Requests |-> [at |-> "idle", kind |-> None, browser |-> None, id |-> None]]
    /\ audit = {}

Go(r, p) == req' = [req EXCEPT ![r].at = p]
Write(e, r) == audit' = audit \cup {[event |-> e, by |-> r]}

-----------------------------------------------------------------------------
\* POST /login: host.login starts in a thread.
PostLogin(r, b) ==
    /\ req[r].at = "idle"
    /\ req' = [req EXCEPT ![r] = [@ EXCEPT !.at = "checking", !.kind = "login",
                                           !.browser = b]]
    /\ UNCHANGED <<sessions, lastSeen, now, cookie, audit>>

\* No such active user, no password, or a wrong one: recorded, and answered 401.
LoginRefused(r) ==
    /\ req[r].at = "checking"
    /\ Go(r, "refused")
    /\ Write("AUTH_FAILURE", r)
    /\ UNCHANGED <<sessions, lastSeen, now, cookie>>

\* The password is right: the session is in the store before the row of the
\* login is committed.
CreateSession(r) ==
    /\ req[r].at = "checking"
    /\ \E i \in Ids : Create(i) /\ req' = [req EXCEPT ![r] = [@ EXCEPT !.at = "saved", !.id = i]]
    /\ UNCHANGED <<cookie, audit>>

RecordLogin(r) ==
    /\ req[r].at = "saved"
    /\ Go(r, "recorded")
    /\ Write("LOGIN", r)
    /\ UNCHANGED <<sessions, lastSeen, now, cookie>>

\* Mutant: a login that cannot be recorded goes on.
LoginRaisesSwallowed(r) ==
    /\ req[r].at = "saved"
    /\ Go(r, "recorded")
    /\ UNCHANGED <<sessions, lastSeen, now, cookie, audit>>

\* The database raises while the user is read, at the commit or at the record of
\* the login: host.login tries to record a failure, and the answer is a 500.
LoginRaises(r) ==
    /\ req[r].at \in {"checking", "saved"}
    /\ Go(r, "error")
    /\ Write("AUTH_FAILURE", r) \/ UNCHANGED audit
    /\ UNCHANGED <<sessions, lastSeen, now, cookie>>

\* Mutant: the cookie holds more than the id.
RespondLoginWhole(r) ==
    /\ req[r].at = "recorded"
    /\ Go(r, "done")
    /\ cookie' = [cookie EXCEPT ![req[r].browser] = req[r]]
    /\ UNCHANGED <<sessions, lastSeen, now, audit>>

RespondLogin(r) ==
    /\ req[r].at = "recorded"
    /\ Go(r, "done")
    /\ cookie' = [cookie EXCEPT ![req[r].browser] = req[r].id]
    /\ UNCHANGED <<sessions, lastSeen, now, audit>>

-----------------------------------------------------------------------------
\* A request with a cookie, for a page or POST /logout.
Request(r, b, k) ==
    /\ req[r].at = "idle"
    /\ cookie[b] # None
    /\ req' = [req EXCEPT ![r] = [at |-> "lookup", kind |-> k, browser |-> b, id |-> cookie[b]]]
    /\ UNCHANGED <<sessions, lastSeen, now, cookie, audit>>

\* SessionStore.get reads the dictionary.
Lookup(r) ==
    /\ req[r].at = "lookup"
    /\ \A q \in Requests : req[q].at \notin {"found", "alive"}
    /\ Go(r, IF req[r].id \in sessions THEN "found" ELSE "redirected")
    /\ UNCHANGED <<sessions, lastSeen, now, cookie, audit>>

\* A session that expired is forgotten and the browser sent to the login page.
LookupExpired(r) ==
    /\ req[r].at = "found"
    /\ Expire(req[r].id)
    /\ Go(r, "redirected")
    /\ UNCHANGED <<cookie, audit>>

\* The session has not expired, at the time of the check.
LookupAlive(r) ==
    /\ req[r].at = "found"
    /\ Check(req[r].id)
    /\ Go(r, "alive")
    /\ UNCHANGED <<cookie, audit>>

\* The session is touched: the page is served, or the logout goes on.
Accepted(r) ==
    /\ req[r].at = "alive"
    /\ Touch(req[r].id)
    /\ Go(r, IF req[r].kind = "logout" THEN "removing" ELSE "done")
    /\ UNCHANGED <<cookie, audit>>

-----------------------------------------------------------------------------
\* Mutant: the session is left to its expiry.
RemoveSessionLater(r) ==
    /\ req[r].at = "removing"
    /\ Go(r, "removed")
    /\ UNCHANGED <<sessions, lastSeen, now, cookie, audit>>

\* logout: the session is removed, then the record written, each in a thread.
RemoveSession(r) ==
    /\ req[r].at = "removing"
    /\ Remove(req[r].id)
    /\ Go(r, "removed")
    /\ UNCHANGED <<cookie, audit>>

RecordLogout(r) ==
    /\ req[r].at = "removed"
    /\ Go(r, "leaving")
    /\ Write("LOGOUT", r)
    /\ UNCHANGED <<sessions, lastSeen, now, cookie>>

\* The record fails: the answer is a 500, and the browser keeps its cookie.
RecordLogoutRaises(r) ==
    /\ req[r].at = "removed"
    /\ Go(r, "error")
    /\ UNCHANGED <<sessions, lastSeen, now, cookie, audit>>

RespondLogout(r) ==
    /\ req[r].at = "leaving"
    /\ Go(r, "done")
    /\ cookie' = [cookie EXCEPT ![req[r].browser] = None]
    /\ UNCHANGED <<sessions, lastSeen, now, audit>>

Handling(r) ==
    \/ LoginRefused(r) \/ CreateSession(r) \/ RecordLogin(r) \/ LoginRaises(r) \/ RespondLogin(r)
    \/ Lookup(r) \/ LookupExpired(r) \/ LookupAlive(r) \/ Accepted(r)
    \/ RemoveSession(r) \/ RecordLogout(r) \/ RecordLogoutRaises(r) \/ RespondLogout(r)

Next ==
    \/ \E r \in Requests :
          \/ \E b \in Browsers : PostLogin(r, b) \/ (\E k \in {"page", "logout"} : Request(r, b, k))
          \/ Handling(r)
    \/ Tick /\ UNCHANGED <<cookie, req, audit>>

Spec == Init /\ [][Next]_vars

-----------------------------------------------------------------------------
\* A session that left the store, by a logout or its expiry, never comes back,
\* whatever other requests of it are still under way (SessionStore.get, remove).
GoneStaysGone == [][\A i \in Issued \ sessions : i \notin sessions']_vars

\* Expired, and no request has it checked and not yet touched.  A request that
\* has revives a session that expires in between.
Lapsed(i) == IsExpired(i) /\ \A r \in Requests : req[r].at = "alive" => req[r].id # i

\* A lapsed session is never alive again: no request that found it before it
\* expired, or is yet to look it up, gets past the check (SessionStore.get).
ExpiredStaysExpired == [][\A i \in Issued : Lapsed(i) => Lapsed(i)']_vars

\* The record of a logout is only written when its session is gone (logout).
LogoutIsFinal == \A a \in audit : a.event = "LOGOUT" => req[a.by].id \notin sessions

\* A browser only ever holds a session whose login is on record, and no attempt
\* is on record both as a login and as a failure (Host.login).
CookieIsRecorded ==
    /\ \A b \in Browsers : cookie[b] # None =>
          \E a \in audit : a.event = "LOGIN" /\ req[a.by].id = cookie[b]
    /\ \A a, f \in audit : a.event = "LOGIN" /\ f.event = "AUTH_FAILURE" => a.by # f.by
=============================================================================
