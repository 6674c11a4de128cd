------------------------- MODULE RestAdapter_proofs -------------------------
(***************************************************************************)
(* Proofs about RestAdapter, for any calls and any number of retries.  The *)
(* invariant speaks of one call at a time: the requests it ever put on the *)
(* wire are at most its attempts, and it only advances.                    *)
(***************************************************************************)
EXTENDS RestAdapter, TLAPS

USE RestAssumption

\* What holds of a call x with st strays and sv processed requests.
Good(x, st, sv) ==
    /\ x \in CallStates /\ st \in Nat /\ sv \in Nat
    /\ x.at = "idle" => x.mine = "none" /\ x.attempt = 0 /\ st = 0 /\ sv = 0
    /\ x.at \in {"idle", "sending", "sleeping", "returned", "cancelled"} => x.error = "none"
    /\ x.at = "sleeping" => x.attempt < Retries
    /\ x.mine # "none" => x.at = "sending"
    /\ x.mine = "served" => sv > 0
    /\ sv + st + (IF x.mine = "wire" THEN 1 ELSE 0) <= x.attempt + 1
    /\ x.at = "returned" \/ x.error = "service" => sv > 0
    /\ x.error = "timeout" => x.attempt = Retries
    /\ x.error = "adapter" => x.attempt = Retries \/ sv + st = 0

IInv == /\ call \in [Calls -> CallStates]
        /\ stray \in [Calls -> Nat]
        /\ served \in [Calls -> Nat]
        /\ \A c \in Calls : Good(call[c], stray[c], served[c])

\* No invocation has begun and no request was made.
LEMMA InitInvariant == Init => IInv
  BY DEF Init, IInv, Good, CallStates

\* A step of one call keeps the invariant if it keeps what holds of that call.
LEMMA OneCall ==
  ASSUME IInv, NEW c \in Calls, NEW x, NEW st, NEW sv, Good(x, st, sv),
         call' = [call EXCEPT ![c] = x],
         stray' = [stray EXCEPT ![c] = st],
         served' = [served EXCEPT ![c] = sv]
  PROVE  IInv'
  <1>1. x \in CallStates /\ st \in Nat /\ sv \in Nat
    BY DEF Good
  <1>2. \A d \in Calls : Good(call'[d], stray'[d], served'[d])
    <2> TAKE d \in Calls
    <2>1. CASE d = c
      BY <2>1 DEF IInv
    <2>2. CASE d # c
      BY <2>2 DEF IInv
    <2> QED BY <2>1, <2>2
  <1> QED BY <1>1, <1>2 DEF IInv

\* Abandoning an attempt that is sent keeps what holds of the call, whether it
\* sleeps, raises or is cancelled, and whether its request is lost or strays.
LEMMA Abandoned ==
  ASSUME IInv, NEW c \in Calls, NEW x \in CallStates, GiveUp(c, x),
         call[c].at \in {"sending", "sleeping"}, x.mine = "none",
         x.attempt = call[c].attempt,
         \/ x.at = "sleeping" /\ x.error = "none" /\ x.attempt < Retries
         \/ x.at = "raised" /\ x.error \in {"adapter", "timeout"} /\ x.attempt = Retries
         \/ x.at = "cancelled" /\ x.error = "none"
  PROVE  IInv'
  <1>1. Good(call[c], stray[c], served[c])
    BY DEF IInv
  <1>2. stray \in [Calls -> Nat] /\ served \in [Calls -> Nat]
    BY DEF IInv
  <1>3. call' = [call EXCEPT ![c] = x] /\ served' = [served EXCEPT ![c] = served[c]]
    BY <1>2 DEF GiveUp
  <1>4. CASE stray' = stray
    <2>1. Good(x, stray[c], served[c])
      BY <1>1, <1>2, SMT DEF Good, CallStates
    <2>2. stray' = [stray EXCEPT ![c] = stray[c]]
      BY <1>2, <1>4
    <2> QED BY <1>3, <2>1, <2>2, OneCall
  <1>5. CASE call[c].mine = "wire" /\ stray' = [stray EXCEPT ![c] = stray[c] + 1]
    <2>1. Good(x, stray[c] + 1, served[c])
      BY <1>1, <1>2, <1>5, SMT DEF Good, CallStates
    <2> QED BY <1>3, <1>5, <2>1, OneCall
  <1> QED BY <1>4, <1>5 DEF GiveUp

\* Every step keeps the count of requests within the attempts begun.
LEMMA Invariance == IInv /\ [Next]_vars => IInv'
  <1> SUFFICES ASSUME IInv, [Next]_vars PROVE IInv'
    OBVIOUS
  <1>0. ASSUME NEW c \in Calls
        PROVE  /\ Good(call[c], stray[c], served[c])
               /\ call[c] \in CallStates /\ stray[c] \in Nat /\ served[c] \in Nat
               /\ stray = [stray EXCEPT ![c] = stray[c]]
               /\ served = [served EXCEPT ![c] = served[c]]
               /\ call = [call EXCEPT ![c] = call[c]]
    BY DEF IInv
  <1>1. ASSUME NEW c \in Calls, Invoke(c) PROVE IInv'
    <2> DEFINE x == [call[c] EXCEPT !.at = "sending", !.mine = "wire"]
    <2>1. call' = [call EXCEPT ![c] = x]
      BY <1>1 DEF Invoke
    <2>2. x \in CallStates /\ x.at = "sending" /\ x.mine = "wire"
          /\ x.attempt = call[c].attempt /\ x.error = call[c].error
      BY <1>0, <1>1 DEF CallStates
    <2> HIDE DEF x
    <2>3. Good(x, stray[c], served[c])
      BY <1>0, <1>1, <2>2, SMT DEF Invoke, Good
    <2>4. /\ stray' = [stray EXCEPT ![c] = stray[c]]
          /\ served' = [served EXCEPT ![c] = served[c]]
      BY <1>0, <1>1 DEF Invoke
    <2> QED BY <2>1, <2>3, <2>4, OneCall
  <1>2. ASSUME NEW c \in Calls, Refuse(c) PROVE IInv'
    <2> DEFINE x == [call[c] EXCEPT !.at = "raised", !.error = "adapter"]
    <2>1. call' = [call EXCEPT ![c] = x]
      BY <1>2 DEF Refuse
    <2>2. x \in CallStates /\ x.at = "raised" /\ x.error = "adapter"
          /\ x.attempt = call[c].attempt /\ x.mine = call[c].mine
      BY <1>0, <1>2 DEF CallStates
    <2> HIDE DEF x
    <2>3. Good(x, stray[c], served[c])
      BY <1>0, <1>2, <2>2, SMT DEF Refuse, Good
    <2>4. /\ stray' = [stray EXCEPT ![c] = stray[c]]
          /\ served' = [served EXCEPT ![c] = served[c]]
      BY <1>0, <1>2 DEF Refuse
    <2> QED BY <2>1, <2>3, <2>4, OneCall
  <1>3. ASSUME NEW c \in Calls, Serve(c) PROVE IInv'
    <2> DEFINE x == [call[c] EXCEPT !.mine = "served"]
    <2>1. call' = [call EXCEPT ![c] = x]
      BY <1>3 DEF Serve
    <2>2. x \in CallStates /\ x.mine = "served" /\ x.at = call[c].at
          /\ x.attempt = call[c].attempt /\ x.error = call[c].error
      BY <1>0, <1>3 DEF CallStates
    <2> HIDE DEF x
    <2>3. Good(x, stray[c], served[c] + 1)
      BY <1>0, <1>3, <2>2, SMT DEF Serve, Good
    <2>4. /\ stray' = [stray EXCEPT ![c] = stray[c]]
          /\ served' = [served EXCEPT ![c] = served[c] + 1]
      BY <1>0, <1>3 DEF Serve
    <2> QED BY <2>1, <2>3, <2>4, OneCall
  <1>4. ASSUME NEW c \in Calls, Return(c) PROVE IInv'
    <2> DEFINE x == [call[c] EXCEPT !.at = "returned", !.mine = "none"]
    <2>1. call' = [call EXCEPT ![c] = x]
      BY <1>4 DEF Return
    <2>2. x \in CallStates /\ x.at = "returned" /\ x.mine = "none"
          /\ x.attempt = call[c].attempt /\ x.error = call[c].error
      BY <1>0, <1>4 DEF CallStates
    <2> HIDE DEF x
    <2>3. Good(x, stray[c], served[c])
      BY <1>0, <1>4, <2>2, SMT DEF Return, Good
    <2>4. /\ stray' = [stray EXCEPT ![c] = stray[c]]
          /\ served' = [served EXCEPT ![c] = served[c]]
      BY <1>0, <1>4 DEF Return
    <2> QED BY <2>1, <2>3, <2>4, OneCall
  <1>5. ASSUME NEW c \in Calls, HttpError(c) PROVE IInv'
    <2> DEFINE x == [call[c] EXCEPT !.at = "raised", !.mine = "none", !.error = "service"]
    <2>1. call' = [call EXCEPT ![c] = x]
      BY <1>5 DEF HttpError
    <2>2. x \in CallStates /\ x.at = "raised" /\ x.mine = "none"
          /\ x.attempt = call[c].attempt /\ x.error = "service"
      BY <1>0, <1>5 DEF CallStates
    <2> HIDE DEF x
    <2>3. Good(x, stray[c], served[c])
      BY <1>0, <1>5, <2>2, SMT DEF HttpError, Good
    <2>4. /\ stray' = [stray EXCEPT ![c] = stray[c]]
          /\ served' = [served EXCEPT ![c] = served[c]]
      BY <1>0, <1>5 DEF HttpError
    <2> QED BY <2>1, <2>3, <2>4, OneCall
  <1>6. ASSUME NEW c \in Calls, Unusable(c) \/ TimesOut(c) PROVE IInv'
    <2>1. PICK e \in {"adapter", "timeout"} : GiveUp(c, After(c, e)) /\ call[c].at = "sending"
      BY <1>6 DEF Unusable, TimesOut
    <2> DEFINE x == After(c, e)
    <2>2. /\ x \in CallStates /\ x.mine = "none" /\ x.attempt = call[c].attempt
          /\ \/ x.at = "sleeping" /\ x.error = "none" /\ x.attempt < Retries
             \/ x.at = "raised" /\ x.error \in {"adapter", "timeout"} /\ x.attempt = Retries
      <3>1. call[c].error = "none" /\ call[c].attempt \in 0..Retries
        BY <1>0, <2>1 DEF Good, CallStates
      <3>2. CASE call[c].attempt = Retries
        <4>1. x = [call[c] EXCEPT !.at = "raised", !.mine = "none", !.error = e]
          BY <3>2 DEF After
        <4>2. /\ x \in CallStates /\ x.at = "raised" /\ x.mine = "none"
              /\ x.error = e /\ x.attempt = call[c].attempt
          BY <1>0, <4>1 DEF CallStates
        <4> QED BY <3>2, <4>2
      <3>3. CASE call[c].attempt # Retries
        <4>1. x = [call[c] EXCEPT !.at = "sleeping", !.mine = "none"]
          BY <3>3 DEF After
        <4>2. /\ x \in CallStates /\ x.at = "sleeping" /\ x.mine = "none"
              /\ x.error = call[c].error /\ x.attempt = call[c].attempt
          BY <1>0, <4>1 DEF CallStates
        <4>3. call[c].attempt < Retries
          BY <3>1, <3>3
        <4> QED BY <3>1, <4>2, <4>3
      <3> QED BY <3>2, <3>3
    <2> HIDE DEF x
    <2>3. GiveUp(c, x)
      BY <2>1 DEF x
    <2> QED BY <2>1, <2>2, <2>3, Abandoned
  <1>7. ASSUME NEW c \in Calls, Resend(c) PROVE IInv'
    <2>0. call[c].attempt + 1 \in 0..Retries
      BY <1>0, <1>7, SMT DEF Resend, Good, CallStates
    <2> DEFINE n == call[c].attempt + 1
    <2> DEFINE x == [call[c] EXCEPT !.at = "sending", !.mine = "wire", !.attempt = n]
    <2>1. call' = [call EXCEPT ![c] = x]
      BY <1>7, Zenon DEF Resend
    <2> HIDE DEF n
    <2>2. x \in CallStates /\ x.at = "sending" /\ x.mine = "wire"
          /\ x.attempt = n /\ x.error = call[c].error
      BY <1>0, <2>0 DEF n, CallStates
    <2> HIDE DEF x
    <2>3. Good(x, stray[c], served[c])
      <3>1. /\ served[c] + stray[c] <= call[c].attempt + 1
            /\ call[c].error = "none" /\ call[c].attempt \in Nat
        BY <1>0, <1>7, SMT DEF Resend, Good, CallStates
      <3>2. served[c] + stray[c] + 1 <= n + 1
        BY <1>0, <3>1, SMT DEF n
      <3> QED BY <1>0, <2>2, <3>1, <3>2, SMT DEF Good
    <2>4. /\ stray' = [stray EXCEPT ![c] = stray[c]]
          /\ served' = [served EXCEPT ![c] = served[c]]
      BY <1>0, <1>7 DEF Resend
    <2> QED BY <2>1, <2>3, <2>4, OneCall
  <1>8. ASSUME NEW c \in Calls, Deadline(c) PROVE IInv'
    <2> DEFINE x == [call[c] EXCEPT !.at = "cancelled", !.mine = "none"]
    <2>1. /\ x \in CallStates /\ x.mine = "none" /\ x.attempt = call[c].attempt
          /\ x.at = "cancelled" /\ x.error = "none"
      <3>1. call[c].error = "none"
        BY <1>0, <1>8 DEF Deadline, Good
      <3> QED BY <1>0, <3>1 DEF CallStates
    <2>2. GiveUp(c, x) /\ call[c].at \in {"sending", "sleeping"}
      BY <1>8 DEF Deadline
    <2> HIDE DEF x
    <2> QED BY <2>1, <2>2, Abandoned
  <1>9. ASSUME NEW c \in Calls, StrayServed(c) PROVE IInv'
    <2>1. Good(call[c], stray[c] - 1, served[c] + 1)
      BY <1>0, <1>9, SMT DEF StrayServed, Good, CallStates
    <2>2. /\ call' = [call EXCEPT ![c] = call[c]]
          /\ stray' = [stray EXCEPT ![c] = stray[c] - 1]
          /\ served' = [served EXCEPT ![c] = served[c] + 1]
      BY <1>0, <1>9 DEF StrayServed
    <2> QED BY <2>1, <2>2, OneCall
  <1>10. ASSUME NEW c \in Calls, StrayLost(c) PROVE IInv'
    <2>1. Good(call[c], stray[c] - 1, served[c])
      BY <1>0, <1>10, SMT DEF StrayLost, Good, CallStates
    <2>2. /\ call' = [call EXCEPT ![c] = call[c]]
          /\ stray' = [stray EXCEPT ![c] = stray[c] - 1]
          /\ served' = [served EXCEPT ![c] = served[c]]
      BY <1>0, <1>10 DEF StrayLost
    <2> QED BY <2>1, <2>2, OneCall
  <1>11. CASE UNCHANGED vars
    BY <1>11 DEF vars, IInv
  <1> QED BY <1>1, <1>2, <1>3, <1>4, <1>5, <1>6, <1>7, <1>8, <1>9, <1>10, <1>11
          DEF Next, Attempting

\* Every reachable state of the invocations is well typed.
THEOREM TypeCorrect == Spec => []TypeOK
  <1>1. IInv => TypeOK BY DEF IInv, TypeOK
  <1> QED BY <1>1, InitInvariant, Invariance, PTL DEF Spec

\* The service never processes more requests of one invocation than one and its
\* retries, however many were given up on and arrived late (invoke).
THEOREM EffectsAreBounded == Spec => []EffectsBounded
  <1>1. IInv => EffectsBounded
    <2> SUFFICES ASSUME IInv, NEW c \in Calls
                 PROVE  served[c] + stray[c] + OnWire(c) <= Retries + 1
      BY DEF EffectsBounded
    <2>1. Good(call[c], stray[c], served[c])
      BY DEF IInv
    <2>2. call[c].attempt \in 0..Retries
      BY <2>1 DEF Good, CallStates
    <2> QED BY <2>1, <2>2, SMT DEF Good, OnWire
  <1> QED BY <1>1, InitInvariant, Invariance, PTL DEF Spec

\* An invocation returns only what the service answered, and each kind of error
\* has its cause (invoke).
THEOREM OutcomesAreEarned == Spec => []OutcomeIsEarned
  <1>1. IInv => OutcomeIsEarned
    BY DEF IInv, Good, OutcomeIsEarned
  <1> QED BY <1>1, InitInvariant, Invariance, PTL DEF Spec
-----------------------------------------------------------------------------
Over == {"returned", "raised", "cancelled"}

\* How far an invocation has got: every attempt is sent, and slept after unless
\* it is the last one.
Stage(x) ==
  CASE x.at = "idle" -> 0
    [] x.at = "sending" -> 1 + 2 * x.attempt
    [] x.at = "sleeping" -> 2 + 2 * x.attempt
    [] OTHER -> 2 + 2 * Retries

Same(x, y) == x.at = y.at /\ x.attempt = y.attempt

\* Where the invocation c goes in a step of its own.
LEMMA StepAdvances ==
  ASSUME IInv, NEW c \in Calls,
         \/ Invoke(c) \/ Refuse(c) \/ Serve(c) \/ Attempting(c) \/ Resend(c) \/ Deadline(c)
         \/ StrayServed(c) \/ StrayLost(c)
  PROVE  /\ \A d \in Calls : d # c => call'[d] = call[d]
         /\ \/ Same(call'[c], call[c])
            \/ call[c].at \notin Over /\ Stage(call'[c]) > Stage(call[c])
  <1>0. /\ Good(call[c], stray[c], served[c]) /\ call[c] \in CallStates
        /\ call \in [Calls -> CallStates] /\ call[c].attempt \in 0..Retries
    BY DEF IInv, Good, CallStates
  <1>1. ASSUME NEW x, call' = [call EXCEPT ![c] = x],
               \/ Same(x, call[c])
               \/ call[c].at \notin Over /\ Stage(x) > Stage(call[c])
        PROVE  /\ \A d \in Calls : d # c => call'[d] = call[d]
               /\ \/ Same(call'[c], call[c])
                  \/ call[c].at \notin Over /\ Stage(call'[c]) > Stage(call[c])
    BY <1>0, <1>1
  <1>2. CASE Invoke(c) \/ Refuse(c)
    <2>1. PICK x : /\ call' = [call EXCEPT ![c] = x] /\ x.attempt = call[c].attempt
                   /\ x.at \in {"sending", "raised"} /\ call[c].at = "idle"
      BY <1>0, <1>2 DEF Invoke, Refuse, CallStates
    <2>2. Stage(x) > Stage(call[c])
      BY <1>0, <2>1 DEF Stage
    <2> QED BY <1>1, <2>1, <2>2 DEF Over
  <1>3. CASE Serve(c)
    <2> DEFINE x == [call[c] EXCEPT !.mine = "served"]
    <2>1. call' = [call EXCEPT ![c] = x]
      BY <1>3 DEF Serve
    <2>2. Same(x, call[c])
      BY <1>0 DEF CallStates, Same
    <2> QED BY <1>1, <2>1, <2>2
  <1>4. CASE Return(c) \/ HttpError(c) \/ Deadline(c)
    <2>1. PICK x : /\ call' = [call EXCEPT ![c] = x] /\ x.attempt = call[c].attempt
                   /\ x.at \in Over /\ call[c].at \in {"sending", "sleeping"}
      BY <1>0, <1>4 DEF Return, HttpError, Deadline, GiveUp, CallStates, Over
    <2>2. call[c].at = "sleeping" => call[c].attempt < Retries
      BY <1>0 DEF Good
    <2>3. Stage(x) > Stage(call[c])
      BY <1>0, <2>1, <2>2 DEF Stage, Over
    <2> QED BY <1>1, <2>1, <2>3 DEF Over
  <1>5. CASE Unusable(c) \/ TimesOut(c)
    <2>1. PICK e \in {"adapter", "timeout"} : call' = [call EXCEPT ![c] = After(c, e)]
      BY <1>5 DEF Unusable, TimesOut, GiveUp
    <2>2. /\ After(c, e).attempt = call[c].attempt
          /\ After(c, e).at \in {"sleeping", "raised"} /\ call[c].at = "sending"
      BY <1>0, <1>5 DEF Unusable, TimesOut, After, CallStates
    <2> DEFINE x == After(c, e)
    <2> HIDE DEF x
    <2>3. /\ call' = [call EXCEPT ![c] = x] /\ x.attempt = call[c].attempt
          /\ x.at \in {"sleeping", "raised"} /\ call[c].at = "sending"
      BY <2>1, <2>2 DEF x
    <2>4. Stage(x) > Stage(call[c])
      BY <1>0, <2>3 DEF Stage
    <2> QED BY <1>1, <2>3, <2>4 DEF Over
  <1>6. CASE Resend(c)
    <2>1. PICK x : /\ call' = [call EXCEPT ![c] = x] /\ x.attempt = call[c].attempt + 1
                   /\ x.at = "sending" /\ call[c].at = "sleeping"
      BY <1>0, <1>6 DEF Resend, CallStates
    <2>2. Stage(x) > Stage(call[c])
      BY <1>0, <2>1 DEF Stage
    <2> QED BY <1>1, <2>1, <2>2 DEF Over
  <1>7. CASE StrayServed(c) \/ StrayLost(c)
    BY <1>7 DEF StrayServed, StrayLost, Same
  <1> QED BY <1>2, <1>3, <1>4, <1>5, <1>6, <1>7 DEF Attempting

\* An invocation only goes forward, from attempt to attempt and to its end, in at
\* most two steps an attempt; once it returned or raised it stays so (invoke).  With
\* the timeouts of httpx and the end of every sleep this is why it ends.
THEOREM InvocationsOnlyAdvance ==
  Spec => [][\A c \in Calls :
               \/ Same(call'[c], call[c])
               \/ call[c].at \notin Over /\ Stage(call'[c]) > Stage(call[c])]_vars
  <1>1. IInv /\ [Next]_vars =>
          [\A c \in Calls :
             \/ Same(call'[c], call[c])
             \/ call[c].at \notin Over /\ Stage(call'[c]) > Stage(call[c])]_vars
    <2> SUFFICES ASSUME IInv, [Next]_vars, NEW c \in Calls
                 PROVE  \/ Same(call'[c], call[c])
                        \/ call[c].at \notin Over /\ Stage(call'[c]) > Stage(call[c])
      OBVIOUS
    <2>1. CASE UNCHANGED vars
      BY <2>1 DEF vars, Same
    <2>2. CASE Next
      <3>1. PICK d \in Calls : \/ Invoke(d) \/ Refuse(d) \/ Serve(d) \/ Attempting(d)
                               \/ Resend(d) \/ Deadline(d) \/ StrayServed(d) \/ StrayLost(d)
        BY <2>2 DEF Next
      <3> QED BY <3>1, StepAdvances DEF Same
    <2> QED BY <2>1, <2>2
  <1> QED BY <1>1, InitInvariant, Invariance, PTL DEF Spec
=============================================================================
