----------------------------- MODULE RestAdapter -----------------------------
(***************************************************************************)
(* RestAdapter.invoke (services/adapters/rest_adapter.py), its retries, and *)
(* the deadline call_tool (infrastructure/mcp_client.py) sets on it.       *)
(*                                                                         *)
(* A request given up on may still reach the service, now or later: the    *)
(* strays.  Times are left out; a timeout may fire whenever its request is *)
(* under way.                                                              *)
(***************************************************************************)
EXTENDS Naturals

CONSTANTS
    Calls,      \* invocations
    Probes,     \* those of connect(), which have no deadline
    Retries     \* resilience.retry

ASSUME RestAssumption == Retries \in Nat /\ Probes \subseteq Calls

VARIABLES
    call,       \* Calls -> where invoke is: the attempt and how it ended
    stray,      \* Calls -> requests given up on that are still under way
    served      \* Calls -> requests the service has processed

vars == <<call, stray, served>>

\* mine is the request of the current attempt: under way, or processed.
CallStates == [at : {"idle", "sending", "sleeping", "returned", "raised", "cancelled"},
               attempt : 0..Retries, mine : {"none", "wire", "served"},
               error : {"none", "adapter", "service", "timeout"}]

\* Every variable stays in its type.
TypeOK ==
    /\ call \in [Calls -> CallStates]
    /\ stray \in [Calls -> Nat]
    /\ served \in [Calls -> Nat]

Init ==
    /\ call = [c \in Calls |-> [at |-> "idle", attempt |-> 0, mine |-> "none", error |-> "none"]]
    /\ stray = [c \in Calls |-> 0]
    /\ served = [c \in Calls |-> 0]

-----------------------------------------------------------------------------
\* The operation exists, has a method and a path and its required arguments.
Invoke(c) ==
    /\ call[c].at = "idle"
    /\ call' = [call EXCEPT ![c] = [@ EXCEPT !.at = "sending", !.mine = "wire"]]
    /\ UNCHANGED <<stray, served>>

\* _get_operation or _validate_payload raises, before any attempt.
Refuse(c) ==
    /\ call[c].at = "idle"
    /\ call' = [call EXCEPT ![c] = [@ EXCEPT !.at = "raised", !.error = "adapter"]]
    /\ UNCHANGED <<stray, served>>

\* The service processes the request of the attempt.
Serve(c) ==
    /\ call[c].mine = "wire"
    /\ call' = [call EXCEPT ![c].mine = "served"]
    /\ served' = [served EXCEPT ![c] = @ + 1]
    /\ UNCHANGED stray

\* Mutant: the last attempt is not the last.
AfterOneMore(c, e) ==
    IF call[c].attempt = Retries + 1
    THEN [call[c] EXCEPT !.at = "raised", !.mine = "none", !.error = e]
    ELSE [call[c] EXCEPT !.at = "sleeping", !.mine = "none"]

\* Sleep and try again, or raise e after the last attempt.
After(c, e) ==
    IF call[c].attempt = Retries
    THEN [call[c] EXCEPT !.at = "raised", !.mine = "none", !.error = e]
    ELSE [call[c] EXCEPT !.at = "sleeping", !.mine = "none"]

\* The attempt is abandoned; its request may be lost or still arrive.
GiveUp(c, next) ==
    /\ call' = [call EXCEPT ![c] = next]
    /\ stray' \in {stray} \cup (IF call[c].mine = "wire"
                                THEN {[stray EXCEPT ![c] = @ + 1]} ELSE {})
    /\ UNCHANGED served

\* Mutant: an attempt returns without an answer.
ReturnEarly(c) ==
    /\ call[c].at = "sending"
    /\ call' = [call EXCEPT ![c] = [@ EXCEPT !.at = "returned", !.mine = "none"]]
    /\ UNCHANGED <<stray, served>>

\* A success with a body that can be read, or with none.
Return(c) ==
    /\ call[c].at = "sending" /\ call[c].mine = "served"
    /\ call' = [call EXCEPT ![c] = [@ EXCEPT !.at = "returned", !.mine = "none"]]
    /\ UNCHANGED <<stray, served>>

\* An HTTP error other than 401 is raised at once.
HttpError(c) ==
    /\ call[c].at = "sending" /\ call[c].mine = "served"
    /\ call' = [call EXCEPT ![c] = [@ EXCEPT !.at = "raised", !.mine = "none", !.error = "service"]]
    /\ UNCHANGED <<stray, served>>

\* Mutant: an attempt is repeated at once and not counted.
UnusableUncounted(c) ==
    /\ call[c].at = "sending"
    /\ GiveUp(c, [call[c] EXCEPT !.mine = "wire"])

\* A 401 and a body that is not the JSON it says to be end in the last handler,
\* like a transport that fails: they are tried again.
Unusable(c) ==
    /\ call[c].at = "sending"
    /\ GiveUp(c, After(c, "adapter"))

TimesOut(c) ==
    /\ call[c].at = "sending"
    /\ GiveUp(c, After(c, "timeout"))

\* Mutant: every attempt counts as the first.
ResendFromFirst(c) ==
    /\ call[c].at = "sleeping"
    /\ call' = [call EXCEPT ![c] = [@ EXCEPT !.at = "sending", !.mine = "wire",
                                             !.attempt = 0]]
    /\ UNCHANGED <<stray, served>>

\* The delay is over: the next attempt sends its request.
Resend(c) ==
    /\ call[c].at = "sleeping"
    /\ call' = [call EXCEPT ![c] = [@ EXCEPT !.at = "sending", !.mine = "wire",
                                             !.attempt = call[c].attempt + 1]]
    /\ UNCHANGED <<stray, served>>

\* wait_for in call_tool cancels the invocation, asleep or not.
Deadline(c) ==
    /\ c \notin Probes
    /\ call[c].at \in {"sending", "sleeping"}
    /\ GiveUp(c, [call[c] EXCEPT !.at = "cancelled", !.mine = "none"])

\* A stray request is processed, or lost.
StrayServed(c) ==
    /\ stray[c] > 0
    /\ stray' = [stray EXCEPT ![c] = @ - 1]
    /\ served' = [served EXCEPT ![c] = @ + 1]
    /\ UNCHANGED call

StrayLost(c) ==
    /\ stray[c] > 0
    /\ stray' = [stray EXCEPT ![c] = @ - 1]
    /\ UNCHANGED <<call, served>>

Attempting(c) == Return(c) \/ HttpError(c) \/ Unusable(c) \/ TimesOut(c)

Next == \E c \in Calls :
    \/ Invoke(c) \/ Refuse(c) \/ Serve(c) \/ Attempting(c) \/ Resend(c) \/ Deadline(c)
    \/ StrayServed(c) \/ StrayLost(c)

Spec == Init /\ [][Next]_vars

\* httpx ends every attempt, at the latest by its timeout, and a sleep ends.
FairSpec == Spec /\ \A c \in Calls : WF_vars(Attempting(c)) /\ WF_vars(Resend(c))

-----------------------------------------------------------------------------
OnWire(c) == IF call[c].mine = "wire" THEN 1 ELSE 0

\* However often requests are given up on and arrive late, the service
\* processes no more of them than the retries allow (invoke).
EffectsBounded == \A c \in Calls : served[c] + stray[c] + OnWire(c) <= Retries + 1

\* An invocation returns only what the service answered, and an HTTP error is
\* raised only when it did answer; an error of the last attempt is raised only
\* after all attempts, unless nothing was sent (invoke).
OutcomeIsEarned ==
    \A c \in Calls :
       /\ call[c].at = "returned" \/ call[c].error = "service" => served[c] > 0
       /\ call[c].error = "timeout" => call[c].attempt = Retries
       /\ call[c].error = "adapter" =>
            call[c].attempt = Retries \/ served[c] + stray[c] = 0

\* A started invocation ends, even one of connect() that has no deadline.
InvocationsEnd ==
    \A c \in Calls : call[c].at = "sending" ~> call[c].at \in {"returned", "raised", "cancelled"}
=============================================================================
