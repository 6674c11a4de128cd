------------------------------ MODULE CliSession ------------------------------
(***************************************************************************)
(* The session of the command line:                                        *)
(*   presentation/main.py           async_main                             *)
(*   presentation/menu.py           MenuController                         *)
(*   application/session_manager.py the current session                    *)
(*   application/host.py            login, logout, refresh_discovery       *)
(*                                                                         *)
(* One user and one task, but time passes at every prompt and while a       *)
(* command runs.  A step ends where the program next waits.                *)
(***************************************************************************)
EXTENDS SessionStore

VARIABLES
    at,           \* where the program waits, or the branch it is in
    current,      \* SessionManager.current_session_id
    audit         \* the LOGIN and LOGOUT records: the event and the session

vars == <<sessions, lastSeen, now, at, current, audit>>

Places == {"login", "menu", "choice", "leaving", "command", "acting", "handling",
           "stopping", "stopped"}

\* Every variable stays in its type.
TypeOK ==
    /\ StoreTypeOK
    /\ at \in Places
    /\ current \in Ids \cup {None}
    /\ audit \subseteq {"LOGIN", "LOGOUT"} \X Ids

Init ==
    /\ StoreInit
    /\ at = "login"
    /\ current = None
    /\ audit = {}

Proceed(from, to) == at = from /\ at' = to
Unheld == UNCHANGED <<sessions, lastSeen, now>>

\* Host.audit: one more record.
Record(e, i) == audit' = audit \cup {<<e, i>>}

\* Mutant: the session is touched whether it expired or not.
UsesAlways(i) ==
    \E t \in now..MaxTime : now' = t /\ lastSeen' = [lastSeen EXCEPT ![i] = t]

\* get: the session is checked, and touched some time later.
Uses(i) ==
    /\ ~IsExpired(i)
    /\ \E t \in now..MaxTime : now' = t /\ lastSeen' = [lastSeen EXCEPT ![i] = t]

\* SessionManager.current: the session is alive and touched, or it is expired,
\* or was forgotten when it expired, and SessionExpiredError is raised.
Current == current \in sessions /\ Uses(current) /\ UNCHANGED sessions
CurrentRaises ==
    \/ current \in sessions /\ Expire(current)
    \/ current \notin sessions /\ Unheld

-----------------------------------------------------------------------------
\* Wrong credentials: the failure is on record and the user asked again.
LoginRefused ==
    /\ Proceed("login", "login")
    /\ UNCHANGED <<sessions, lastSeen, now, current, audit>>

\* Mutant: the session is kept in place of its id.
LoginSucceedsWhole ==
    /\ Proceed("login", "menu")
    /\ \E i \in Ids : Create(i) /\ current' = <<i, now>> /\ Record("LOGIN", i)

LoginSucceeds ==
    /\ Proceed("login", "menu")
    /\ \E i \in Ids : Create(i) /\ current' = i /\ Record("LOGIN", i)

\* The database raises before the session is made, at the commit (the session is
\* in the store, but not current) or at the record: async_main only catches a
\* refusal around login, so the program stops.
LoginRaises ==
    /\ Proceed("login", "stopping")
    /\ \/ Unheld /\ UNCHANGED current
       \/ \E i \in Ids : Create(i) /\ current' \in {current, i}
    /\ UNCHANGED audit

\* run: the status line needs the current session; an expired one ends the
\* program, which catches the error outside the menu.
RenderStatus ==
    /\ Proceed("menu", "choice") /\ Current
    /\ UNCHANGED <<current, audit>>

RenderStatusRaises ==
    /\ Proceed("menu", "stopping") /\ CurrentRaises
    /\ UNCHANGED <<current, audit>>

\* The user chooses to exit, to log out, or a command.
Choose ==
    /\ at = "choice" /\ at' \in {"stopping", "leaving", "command"}
    /\ UNCHANGED <<sessions, lastSeen, now, current, audit>>

-----------------------------------------------------------------------------
\* Mutant: logging out forgets the session without removing it.
LogoutForgets ==
    /\ Proceed("leaving", "login")
    /\ Current
    /\ Record("LOGOUT", current)
    /\ current' = None

\* Mutant: a logout that cannot be recorded goes on.
LogoutUnrecorded ==
    /\ Proceed("leaving", "login")
    /\ current \in sessions /\ Uses(current)
    /\ sessions' = sessions \ {current}
    /\ current' = None
    /\ UNCHANGED audit

\* Host.logout: the session is removed, the record written, current cleared.
Logout ==
    /\ Proceed("leaving", "login")
    /\ current \in sessions /\ Uses(current)
    /\ sessions' = sessions \ {current}
    /\ Record("LOGOUT", current)
    /\ current' = None

\* The record fails after the session is removed, or the session is expired.
LogoutRaises ==
    /\ Proceed("leaving", "stopping")
    /\ \/ current \in sessions /\ Uses(current) /\ sessions' = sessions \ {current}
       \/ CurrentRaises
    /\ UNCHANGED <<current, audit>>

-----------------------------------------------------------------------------
\* A command reads the user, or fails before it does (arguments that are not
\* JSON, an expired session).
ReadUser ==
    /\ Proceed("command", "acting") /\ Current
    /\ UNCHANGED <<current, audit>>

ReadUserRaises ==
    /\ Proceed("command", "handling") /\ (CurrentRaises \/ Unheld)
    /\ UNCHANGED <<current, audit>>

\* The command ends, reads the user again (connecting a server, the record of a
\* refresh), or raises what _dispatch catches or what it does not.
Act ==
    /\ at = "acting" /\ at' \in {"menu", "command", "handling", "stopping"}
    /\ UNCHANGED <<sessions, lastSeen, now, current, audit>>

\* _dispatch: the handler needs the current session for its record.
Handle ==
    /\ Proceed("handling", "menu") /\ Current
    /\ UNCHANGED <<current, audit>>

HandleRaises ==
    /\ Proceed("handling", "stopping") /\ (Current \/ CurrentRaises)
    /\ UNCHANGED <<current, audit>>

\* The user interrupts a prompt or a command.
Interrupt ==
    /\ at \in {"login", "choice", "command", "acting"} /\ at' = "stopping"
    /\ UNCHANGED <<sessions, lastSeen, now, current, audit>>

\* The finally clause of async_main.
Shutdown ==
    /\ Proceed("stopping", "stopped")
    /\ UNCHANGED <<sessions, lastSeen, now, current, audit>>

TickAtPrompt == at # "stopped" /\ Tick /\ UNCHANGED <<at, current, audit>>

Working ==
    \/ RenderStatus \/ RenderStatusRaises \/ Logout \/ LogoutRaises
    \/ ReadUser \/ ReadUserRaises \/ Act \/ Handle \/ HandleRaises \/ Shutdown

Next ==
    \/ LoginRefused \/ LoginSucceeds \/ LoginRaises \/ Choose \/ Interrupt \/ Working
    \/ TickAtPrompt

Spec == Init /\ [][Next]_vars

\* What needs no one at the keyboard goes on.
FairSpec == Spec /\ WF_vars(Working)

-----------------------------------------------------------------------------
\* While the program goes on there is at most one session in the store, that of
\* the user at the menu, and none at the login prompt (logout, run).
OneSession ==
    at \notin {"stopping", "stopped"} =>
       /\ sessions \subseteq {current}
       /\ at = "login" <=> current = None

\* Whoever is at the menu has a login on record, and whoever left it for the
\* login prompt has a logout on record (Host.login, Host.logout).
VisitsAreRecorded ==
    at \notin {"stopping", "stopped"} =>
       \A i \in Issued : /\ <<"LOGIN", i>> \in audit
                         /\ i # current => <<"LOGOUT", i>> \in audit

\* A session that expired while the program waited ends the program at its next
\* use: no command, handler or logout gets around it ("enforces session timeout",
\* README; _render_status, _dispatch).
ExpiredStops ==
    (at \in {"menu", "leaving", "command", "handling"} /\ IsExpired(current)) ~> at = "stopped"
=============================================================================
