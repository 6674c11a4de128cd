---------------------------- MODULE SessionStore ----------------------------
(***************************************************************************)
(* The in-memory sessions both front ends share (security/session_store.py *)
(* and domain/models.py).  A handler that fetched a session keeps the      *)
(* object, so the time it was last seen outlives its place in the store.   *)
(* get reads the clock twice, to check a session and to touch it, and time *)
(* may pass in between.                                                    *)
(***************************************************************************)
EXTENDS Naturals

CONSTANTS
    Ids,          \* session ids: uuid4 never repeats one
    Timeout,      \* session_timeout_minutes
    MaxTime,      \* bound of the clock
    None

ASSUME StoreAssumption ==
    /\ Timeout \in Nat /\ MaxTime \in Nat
    /\ None \notin Ids \cup Nat

VARIABLES
    sessions,     \* the keys of SessionStore._sessions
    lastSeen,     \* Ids -> UserSession.last_seen_at, None before the session exists
    now           \* datetime.now(timezone.utc), in minutes

storeVars == <<sessions, lastSeen, now>>

StoreTypeOK ==
    /\ sessions \subseteq Ids
    /\ lastSeen \in [Ids -> 0..MaxTime \cup {None}]
    /\ now \in 0..MaxTime

StoreInit ==
    /\ sessions = {}
    /\ lastSeen = [i \in Ids |-> None]
    /\ now = 0

Issued == {i \in Ids : lastSeen[i] # None}

\* _create_session: a session with a fresh id is made and saved.
Create(i) ==
    /\ i \notin Issued
    /\ sessions' = sessions \cup {i}
    /\ lastSeen' = [lastSeen EXCEPT ![i] = now]
    /\ UNCHANGED now

Remove(i) == sessions' = sessions \ {i} /\ UNCHANGED <<lastSeen, now>>

IsExpired(i) == lastSeen[i] + Timeout < now

\* What get does with a session it found: raise and forget it, or let it pass.
Expire(i) == IsExpired(i) /\ Remove(i)

\* Mutant: a session is checked against twice its time.
CheckLate(i) == ~(lastSeen[i] + 2 * Timeout < now) /\ UNCHANGED storeVars

Check(i) == ~IsExpired(i) /\ UNCHANGED storeVars

\* Mutant: a touched session is saved again.
TouchSaved(i) ==
    /\ sessions' = sessions \cup {i}
    /\ lastSeen' = [lastSeen EXCEPT ![i] = now]
    /\ UNCHANGED now

\* A session that passed is touched, whatever time it is by then.
Touch(i) ==
    /\ lastSeen' = [lastSeen EXCEPT ![i] = now]
    /\ UNCHANGED <<sessions, now>>

Tick ==
    /\ now < MaxTime
    /\ now' = now + 1
    /\ UNCHANGED <<sessions, lastSeen>>
=============================================================================
