-------------------------- MODULE CliSession_proofs ---------------------------
(***************************************************************************)
(* The session of the command line, for any sessions and timeout.  The two *)
(* invariants are inductive together with the types.  An expired session   *)
(* gets its user nowhere, and one that is gone stays gone.                 *)
(***************************************************************************)
EXTENDS CliSession, TLAPS

\* What is in the store was made: using a session makes none.
SessionsMade == sessions \subseteq Issued

IInv == TypeOK /\ SessionsMade /\ OneSession /\ VisitsAreRecorded

\* What using the current session may do to the store.
LEMMA UsesKeepStore ==
    ASSUME StoreTypeOK, SessionsMade, Current \/ CurrentRaises \/ Unheld
    PROVE  StoreTypeOK' /\ sessions' \subseteq sessions /\ Issued' = Issued
<1> USE StoreAssumption DEF StoreTypeOK, SessionsMade, Issued
<1>1. CASE Current
  <2>1. PICK t \in now..MaxTime :
           now' = t /\ lastSeen' = [lastSeen EXCEPT ![current] = t] /\ sessions' = sessions
    BY <1>1 DEF Current, Uses
  <2>3. t \in 0..MaxTime
    OBVIOUS
  <2>2. current \in Ids /\ lastSeen[current] # None
    BY <1>1 DEF Current
  <2> QED
    BY <2>1, <2>2, <2>3
<1>2. CASE CurrentRaises
  BY <1>2 DEF CurrentRaises, Expire, Remove, Unheld
<1>3. CASE Unheld
  BY <1>3 DEF Unheld
<1> QED
  BY <1>1, <1>2, <1>3

\* The program starts at the login prompt, with no session and no record.
LEMMA InitIInv == Init => IInv
BY StoreAssumption
   DEF Init, StoreInit, IInv, TypeOK, StoreTypeOK, Places, SessionsMade, OneSession, VisitsAreRecorded, Issued

\* A new session, at the login prompt where there is none.
LEMMA LoginsKeep ==
    ASSUME IInv, LoginRefused \/ LoginSucceeds \/ LoginRaises PROVE IInv'
<1> USE StoreAssumption DEF IInv, TypeOK, SessionsMade, OneSession, VisitsAreRecorded, Places, Proceed
<1>1. CASE LoginRefused
  BY <1>1 DEF LoginRefused, StoreTypeOK, Issued
<1>2. CASE LoginSucceeds
  <2>1. PICK i \in Ids : Create(i) /\ current' = i /\ Record("LOGIN", i)
    BY <1>2 DEF LoginSucceeds
  <2>2. StoreTypeOK' /\ Issued' = Issued \cup {i} /\ sessions' = sessions \cup {i}
    BY <2>1 DEF Create, StoreTypeOK, Issued
  <2>3. at = "login" /\ at' = "menu" /\ current = None
    BY <1>2 DEF LoginSucceeds
  <2>4. audit' = audit \cup {<<"LOGIN", i>>} /\ audit' \subseteq {"LOGIN", "LOGOUT"} \X Ids
    BY <2>1 DEF Record
  <2>5. sessions = {} /\ None \notin Issued
    BY <2>3 DEF StoreTypeOK, Issued
  <2> QED
    BY <2>1, <2>2, <2>3, <2>4, <2>5
<1>3. CASE LoginRaises
  <2>1. StoreTypeOK' /\ current' \in Ids \cup {None} /\ sessions' \subseteq Issued'
    BY <1>3 DEF LoginRaises, Create, Unheld, StoreTypeOK, Issued
  <2> QED
    BY <1>3, <2>1 DEF LoginRaises
<1> QED
  BY <1>1, <1>2, <1>3

\* The end of a visit: the session is removed and the record written, or the
\* program stops.
LEMMA LogoutsKeep == ASSUME IInv, Logout \/ LogoutRaises PROVE IInv'
<1> USE StoreAssumption DEF IInv, TypeOK, SessionsMade, OneSession, VisitsAreRecorded, Places, Proceed
<1>1. current \in sessions => current \in Ids /\ lastSeen[current] # None
  BY DEF Issued
<1>2. ASSUME current \in sessions, sessions' = sessions \ {current}, Uses(current)
      PROVE  StoreTypeOK' /\ Issued' = Issued
  <2>1. PICK t \in now..MaxTime : now' = t /\ lastSeen' = [lastSeen EXCEPT ![current] = t]
    BY <1>2 DEF Uses
  <2>2. t \in 0..MaxTime
    BY DEF StoreTypeOK
  <2> QED
    BY <1>1, <1>2, <2>1, <2>2 DEF StoreTypeOK, Issued
<1>3. CASE Logout
  <2>1. StoreTypeOK' /\ Issued' = Issued
    BY <1>2, <1>3 DEF Logout
  <2>2. sessions' = {} /\ current \in Ids
    BY <1>1, <1>3 DEF Logout
  <2>3. audit' = audit \cup {<<"LOGOUT", current>>}
    BY <1>3 DEF Logout, Record
  <2>4. at = "leaving" /\ at' = "login" /\ current' = None
    BY <1>3 DEF Logout
  <2> QED
    BY <2>1, <2>2, <2>3, <2>4
<1>4. CASE LogoutRaises
  <2>1. at' = "stopping" /\ UNCHANGED <<current, audit>>
    BY <1>4 DEF LogoutRaises
  <2>2. StoreTypeOK' /\ Issued' = Issued /\ sessions' \subseteq sessions
    <3>1. CASE CurrentRaises
      BY <3>1, UsesKeepStore
    <3>2. CASE ~CurrentRaises
      BY <1>2, <1>4, <3>2 DEF LogoutRaises
    <3> QED
      BY <3>1, <3>2
  <2> QED
    BY <2>1, <2>2
<1> QED
  BY <1>3, <1>4

\* Between login and logout the session is used, or nothing is, or time passes.
LEMMA OthersKeep ==
    ASSUME IInv,
           \/ RenderStatus \/ RenderStatusRaises \/ Choose \/ ReadUser \/ ReadUserRaises
           \/ Act \/ Handle \/ HandleRaises \/ Interrupt \/ Shutdown \/ TickAtPrompt
           \/ UNCHANGED vars
    PROVE  IInv'
<1> DEFINE Asked == Current \/ CurrentRaises \/ Unheld
           Stays == /\ UNCHANGED <<current, audit>>
                    /\ StoreTypeOK' /\ sessions' \subseteq sessions /\ Issued' = Issued
<1>1. ASSUME Asked, UNCHANGED <<current, audit>> PROVE Stays
  BY <1>1, UsesKeepStore DEF IInv, TypeOK
<1>2. ASSUME Stays, at' \in Places, at' = "login" => at = "login",
             at \in {"stopping", "stopped"} => at' \in {"stopping", "stopped"},
             at = "login" => at' \in {"login", "stopping"}
      PROVE  IInv'
  BY <1>2 DEF IInv, TypeOK, SessionsMade, OneSession, VisitsAreRecorded
<1>3. CASE RenderStatus \/ RenderStatusRaises \/ ReadUser \/ ReadUserRaises \/ Handle
           \/ HandleRaises
  <2>1. Stays
    BY <1>1, <1>3
       DEF RenderStatus, RenderStatusRaises, ReadUser, ReadUserRaises, Handle, HandleRaises
  <2> HIDE DEF Stays
  <2> QED
    BY <1>2, <1>3, <2>1
       DEF RenderStatus, RenderStatusRaises, ReadUser, ReadUserRaises, Handle, HandleRaises,
           Proceed, Places
<1>4. CASE Choose \/ Act \/ Interrupt \/ Shutdown
  <2>1. Stays
    BY <1>1, <1>4 DEF Choose, Act, Interrupt, Shutdown, Unheld
  <2> HIDE DEF Stays
  <2> QED
    BY <1>2, <1>4, <2>1 DEF Choose, Act, Interrupt, Shutdown, Proceed, Places
<1>5. CASE TickAtPrompt
  <2>1. Stays
    BY <1>5, StoreAssumption DEF TickAtPrompt, Tick, IInv, TypeOK, StoreTypeOK, Issued
  <2> HIDE DEF Stays
  <2> QED
    BY <1>2, <1>5, <2>1 DEF TickAtPrompt, IInv, TypeOK
<1>6. CASE UNCHANGED vars
  BY <1>6 DEF vars, IInv, TypeOK, StoreTypeOK, SessionsMade, OneSession, VisitsAreRecorded, Issued
<1> QED
  BY <1>3, <1>4, <1>5, <1>6

\* Every step keeps the invariant.
LEMMA NextIInv == IInv /\ [Next]_vars => IInv'
BY LoginsKeep, LogoutsKeep, OthersKeep DEF Next, Working

-----------------------------------------------------------------------------
\* The store, the prompt and the records agree in every reachable state.
THEOREM Invariance == Spec => []IInv
BY InitIInv, NextIInv, PTL DEF Spec

\* Every variable stays in its type (the state of the command line).
THEOREM TypeCorrect == Spec => []TypeOK
<1>1. IInv => TypeOK
  BY DEF IInv
<1> QED
  BY <1>1, Invariance, PTL

\* While the program goes on there is at most one session, that of the user at
\* the menu (MenuController.run, Host.logout).
THEOREM OneSessionAtATime == Spec => []OneSession
<1>1. IInv => OneSession
  BY DEF IInv
<1> QED
  BY <1>1, Invariance, PTL

\* Every visit to the menu has its login on record and, once over, its logout
\* (Host.login, Host.logout).
THEOREM VisitsRecorded == Spec => []VisitsAreRecorded
<1>1. IInv => VisitsAreRecorded
  BY DEF IInv
<1> QED
  BY <1>1, Invariance, PTL
-----------------------------------------------------------------------------
(* Expired sessions and sessions that are gone *)

CurrentMade == current # None => current \in Issued

\* Sessions are made by logins alone, and only sessions never made before.
LEMMA StepsForget ==
    ASSUME IInv, [Next]_vars
    PROVE  /\ Issued \subseteq Issued'
           /\ \A i \in Issued : i \notin sessions => i \notin sessions'
           /\ current' \in {current, None} \cup Issued'
<1> USE StoreAssumption DEF Issued
<1>1. StoreTypeOK /\ SessionsMade
  BY DEF IInv, TypeOK
<1>2. CASE LoginSucceeds \/ LoginRaises
  <2>1. \/ Unheld /\ UNCHANGED current
        \/ \E i \in Ids : Create(i) /\ current' \in {current, i}
    BY <1>2 DEF LoginSucceeds, LoginRaises
  <2>2. CASE Unheld /\ UNCHANGED current
    BY <2>2 DEF Unheld
  <2>3. ASSUME NEW i \in Ids, Create(i), current' \in {current, i}
        PROVE  /\ Issued \subseteq Issued'
               /\ \A j \in Issued : j \notin sessions => j \notin sessions'
               /\ current' \in {current, None} \cup Issued'
    BY <1>1, <2>3 DEF Create, StoreTypeOK
  <2> QED
    BY <2>1, <2>2, <2>3
<1>3. CASE Logout \/ LogoutRaises
  <2>1. current' \in {current, None}
    BY <1>3 DEF Logout, LogoutRaises
  <2>2. CASE CurrentRaises
    BY <1>1, <2>1, <2>2, UsesKeepStore
  <2>3. CASE ~CurrentRaises
    <3>1. current \in sessions /\ sessions' = sessions \ {current} /\ Uses(current)
      BY <1>3, <2>3 DEF Logout, LogoutRaises
    <3>2. PICK t \in now..MaxTime : lastSeen' = [lastSeen EXCEPT ![current] = t]
      BY <3>1 DEF Uses
    <3>3. t # None
      BY <1>1 DEF StoreTypeOK
    <3> QED
      BY <1>1, <2>1, <3>1, <3>2, <3>3 DEF StoreTypeOK, SessionsMade
  <2> QED
    BY <2>2, <2>3
<1>4. CASE \/ RenderStatus \/ RenderStatusRaises \/ ReadUser \/ ReadUserRaises
           \/ Handle \/ HandleRaises
  <2>1. (Current \/ CurrentRaises \/ Unheld) /\ current' = current
    BY <1>4 DEF RenderStatus, RenderStatusRaises, ReadUser, ReadUserRaises, Handle, HandleRaises
  <2> QED
    BY <1>1, <2>1, UsesKeepStore
<1>5. CASE LoginRefused \/ Choose \/ Act \/ Interrupt \/ Shutdown \/ UNCHANGED vars
  BY <1>5 DEF LoginRefused, Choose, Act, Interrupt, Shutdown, vars
<1>6. CASE TickAtPrompt
  BY <1>6 DEF TickAtPrompt, Tick
<1> QED
  BY <1>2, <1>3, <1>4, <1>5, <1>6 DEF Next, Working

\* Where the program is about to use the current session.
Using == {"menu", "leaving", "command", "handling"}

\* A use of an expired session: the program stays where it is, or turns to its
\* error handler, or to its end; the session stays the same, and expired.
Refused ==
    /\ at' = at \/ at' = "stopping" \/ (at = "command" /\ at' = "handling")
    /\ current' = current
    /\ IsExpired(current)'

\* Touching needs a session that is alive, so every use of an expired one raises.
LEMMA ExpiredIsRefused ==
    ASSUME IInv, CurrentMade, [Next]_vars, at \in Using, IsExpired(current)
    PROVE  Refused
<1> USE StoreAssumption
<1>1. /\ current \in Ids /\ lastSeen[current] \in 0..MaxTime
      /\ lastSeen \in [Ids -> 0..MaxTime \cup {None}] /\ now \in 0..MaxTime
  BY DEF IInv, TypeOK, StoreTypeOK, OneSession, Using, CurrentMade, Issued
<1>2. ~Current /\ ~Uses(current)
  BY DEF Current, Uses
<1>3. CASE CurrentRaises \/ Unheld
  <2>1. lastSeen' = lastSeen /\ now' = now
    BY <1>3 DEF CurrentRaises, Expire, Remove, Unheld
  <2>2. current' = current => IsExpired(current)'
    BY <2>1 DEF IsExpired
  <2>3. \/ RenderStatusRaises \/ LogoutRaises \/ ReadUserRaises \/ HandleRaises \/ Interrupt
        \/ TickAtPrompt \/ UNCHANGED vars
    BY <1>2 DEF Next, Working, LoginRefused, LoginSucceeds, LoginRaises, Choose, RenderStatus,
                Logout, ReadUser, Act, Handle, Shutdown, Proceed, Using
  <2> QED
    BY <2>2, <2>3 DEF RenderStatusRaises, LogoutRaises, ReadUserRaises, HandleRaises, Interrupt,
                      TickAtPrompt, vars, Proceed, Refused
<1>4. CASE TickAtPrompt
  <2>1. lastSeen' = lastSeen /\ now' = now + 1 /\ at' = at /\ current' = current
    BY <1>4 DEF TickAtPrompt, Tick
  <2>2. IsExpired(current)'
    BY <1>1, <2>1 DEF IsExpired
  <2> QED
    BY <2>1, <2>2 DEF Refused
<1>5. CurrentRaises \/ Unheld \/ TickAtPrompt
  BY <1>2 DEF Next, Working, LoginRefused, LoginSucceeds, LoginRaises, Choose, RenderStatus,
              RenderStatusRaises, Logout, LogoutRaises, ReadUser, ReadUserRaises, Act, Handle,
              HandleRaises, Interrupt, Shutdown, Proceed, Using, Unheld, vars
<1> QED
  BY <1>3, <1>4, <1>5

\* The current session was made by a login, and no operation unmakes it.
LEMMA CurrentStaysMade ==
    /\ Init => CurrentMade
    /\ IInv /\ CurrentMade /\ [Next]_vars => CurrentMade'
<1>1. Init => CurrentMade
  BY DEF Init, CurrentMade
<1>2. IInv /\ CurrentMade /\ [Next]_vars => CurrentMade'
  BY StepsForget DEF CurrentMade
<1> QED
  BY <1>1, <1>2

\* A session that has expired gets the user nothing more: the menu, a logout and
\* the error handler end the program, a command ends in the error handler, and
\* nothing revives the session or replaces it by another (_render_status,
\* _dispatch, Host.logout).  The program's fairness does the rest of ExpiredStops.
THEOREM ExpiredGetsNowhere ==
    Spec => [][IsExpired(current) /\ at \in Using => Refused]_vars
<1>1. IInv /\ CurrentMade /\ [Next]_vars => [IsExpired(current) /\ at \in Using => Refused]_vars
  BY ExpiredIsRefused
<1> QED
  BY <1>1, Invariance, CurrentStaysMade, PTL DEF Spec

\* A session that left the store, by a logout or its expiry, is never in it again
\* (SessionStore.get, remove), and none is unmade.
THEOREM SessionsGoneStayGone ==
    Spec => [][\A i \in Issued : i \in Issued' /\ (i \notin sessions => i \notin sessions')]_vars
<1>1. IInv /\ [Next]_vars =>
        [\A i \in Issued : i \in Issued' /\ (i \notin sessions => i \notin sessions')]_vars
  BY StepsForget
<1> QED
  BY <1>1, Invariance, PTL DEF Spec
=============================================================================
