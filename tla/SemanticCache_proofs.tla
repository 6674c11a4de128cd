------------------------ MODULE SemanticCache_proofs ------------------------
(***************************************************************************)
(* Proofs about SemanticCache, for any requests, askers, texts, scores,    *)
(* times and limits.  The invariant says of each entry which turn it comes *)
(* from: an answered turn of the entry's owner about the entry's text.     *)
(* Answered turns no longer change, so neither does what was served.       *)
(***************************************************************************)
EXTENDS SemanticCache, FiniteSetTheorems, TLAPS

USE CacheAssumption

\* A turn that has begun knows its asker, its text and the context of its
\* lookup, and one that stores knows the context it stores under.
Filled ==
    \A r \in Requests :
       /\ turn[r].at # "idle" => /\ turn[r].asker \in Askers
                                 /\ turn[r].text \in Texts
                                 /\ turn[r].asked \in Contexts
       /\ turn[r].at = "storing" => turn[r].key \in Contexts

\* An entry holds what an answered turn of its owner got for its text, for a
\* time to live from the moment it was stored.
EntriesGiven ==
    \A e \in entries : /\ turn[e.value].at = "answered"
                       /\ turn[e.value].asker = e.owner
                       /\ turn[e.value].text = e.text
                       /\ e.expiry = turn[e.value].stored + TTL

IInv == TypeOK /\ Filled /\ EntriesGiven /\ ServedWasGiven

\* An empty cache satisfies the invariant.
LEMMA InitInvariant == Init => IInv
  BY DEF Init, IInv, TypeOK, Turns, Places, Idle, Filled, EntriesGiven, ServedWasGiven

\* Neither the sweep of expired entries nor the limit adds an entry.
LEMMA LimitKeeps ==
  ASSUME NEW s  PROVE EnforceLimit(s) \subseteq s
  BY DEF EnforceLimit

\* The sweep adds nothing and leaves no expired entry.
LEMMA LiveKeeps ==
  ASSUME NEW s  PROVE Live(s) \subseteq s /\ \A e \in Live(s) : e.expiry >= now
  BY DEF Live

\* What a turn becomes when it moves on.
LEMMA Moves ==
  ASSUME NEW t \in Turns, NEW p \in Places  PROVE
    LET u == [t EXCEPT !.at = p]
    IN  /\ u \in Turns /\ u.at = p /\ u.asker = t.asker /\ u.text = t.text
        /\ u.asked = t.asked /\ u.key = t.key /\ u.from = t.from /\ u.stored = t.stored
  BY DEF Turns

\* A step that leaves the entries alone and moves one turn that is neither
\* answered nor served keeps what is said of entries and of served turns.
LEMMA OtherTurnMoves ==
  ASSUME IInv, NEW r \in Requests, NEW t \in Turns,
         turn[r].at \notin {"answered", "served"}, t.at # "served",
         turn' = [turn EXCEPT ![r] = t], entries' = entries
  PROVE  EntriesGiven' /\ ServedWasGiven'
  <1>1. \A q \in Requests : q # r => turn'[q] = turn[q]
    BY DEF IInv, TypeOK
  <1>2. turn'[r] = t
    BY DEF IInv, TypeOK
  <1>3. EntriesGiven'
    <2> SUFFICES ASSUME NEW e \in entries
                 PROVE  /\ turn'[e.value].at = "answered"
                        /\ turn'[e.value].asker = e.owner
                        /\ turn'[e.value].text = e.text
                        /\ e.expiry = turn'[e.value].stored + TTL
      BY DEF EntriesGiven
    <2>1. e.value \in Requests /\ turn[e.value].at = "answered"
      BY DEF IInv, TypeOK, Entries, EntriesGiven
    <2> QED BY <2>1, <1>1 DEF IInv, EntriesGiven
  <1>4. ServedWasGiven'
    <2> SUFFICES ASSUME NEW q \in Requests, turn'[q].at = "served"
                 PROVE  /\ turn'[q].from \in Requests
                        /\ turn'[turn'[q].from].at = "answered"
                        /\ turn'[turn'[q].from].asker = turn'[q].asker
                        /\ Score[turn'[q].text][turn'[turn'[q].from].text] >= Threshold
      BY DEF ServedWasGiven
    <2>1. q # r /\ turn'[q] = turn[q]
      BY <1>1, <1>2
    <2>2. /\ turn[q].from \in Requests
          /\ turn[turn[q].from].at = "answered"
          /\ turn[turn[q].from].asker = turn[q].asker
          /\ Score[turn[q].text][turn[turn[q].from].text] >= Threshold
      BY <2>1 DEF IInv, ServedWasGiven
    <2>3. turn'[turn[q].from] = turn[turn[q].from]
      BY <2>2, <1>1
    <2> QED BY <2>1, <2>2, <2>3
  <1> QED BY <1>3, <1>4

\* A turn that takes another shape of the right kind keeps types and locals.
LEMMA TurnTyped ==
  ASSUME IInv, NEW r \in Requests, NEW t \in Turns,
         turn' = [turn EXCEPT ![r] = t],
         t.at # "idle" => t.asker \in Askers /\ t.text \in Texts /\ t.asked \in Contexts,
         t.at = "storing" => t.key \in Contexts
  PROVE  turn' \in [Requests -> Turns] /\ Filled'
  BY DEF IInv, TypeOK, Filled

\* Every step keeps the entries backed by the turns that stored them.
LEMMA Invariance == IInv /\ [Next]_vars => IInv'
  <1> SUFFICES ASSUME IInv, [Next]_vars PROVE IInv'
    OBVIOUS
  <1>1. ASSUME NEW r \in Requests, Ask(r) PROVE IInv'
    <2>1. PICK a \in Askers, t \in Texts :
             turn' = [turn EXCEPT ![r] = [Idle EXCEPT !.at = "looking", !.asker = a,
                                                      !.text = t, !.asked = context]]
      BY <1>1 DEF Ask
    <2> DEFINE u == [Idle EXCEPT !.at = "looking", !.asker = a, !.text = t, !.asked = context]
    <2>2. u \in Turns /\ u.at = "looking" /\ u.asker = a /\ u.text = t /\ u.asked = context
      BY DEF Idle, Turns, Places, IInv, TypeOK
    <2>3. turn[r].at = "idle" /\ turn' = [turn EXCEPT ![r] = u] /\ entries' = entries
      BY <1>1, <2>1 DEF Ask
    <2>4. context \in Contexts
      BY DEF IInv, TypeOK
    <2> HIDE DEF u
    <2>5. EntriesGiven' /\ ServedWasGiven'
      BY <2>2, <2>3, OtherTurnMoves
    <2>6. turn' \in [Requests -> Turns] /\ Filled'
      BY <2>2, <2>3, <2>4, TurnTyped
    <2> QED BY <1>1, <2>3, <2>5, <2>6 DEF Ask, IInv, TypeOK
  <1>2. ASSUME NEW r \in Requests, Hit(r) PROVE IInv'
    <2>1. PICK e \in Matches(r) :
             turn' = [turn EXCEPT ![r] = [@ EXCEPT !.at = "served", !.from = e.value]]
      BY <1>2 DEF Hit
    <2>2. /\ e \in entries /\ e \in Entries
          /\ e.owner = turn[r].asker
          /\ Score[turn[r].text][e.text] >= Threshold
      BY DEF Matches, SameKey, IInv, TypeOK
    <2>3. /\ e.value \in Requests /\ turn[e.value].at = "answered"
          /\ turn[e.value].asker = e.owner /\ turn[e.value].text = e.text
      BY <2>2 DEF IInv, EntriesGiven, Entries
    <2>4. turn[r].at = "looking" /\ e.value # r
      BY <1>2, <2>3 DEF Hit
    <2> DEFINE u == [turn[r] EXCEPT !.at = "served", !.from = e.value]
    <2>5. /\ turn' = [turn EXCEPT ![r] = u]
          /\ u \in Turns /\ u.at = "served" /\ u.asker = turn[r].asker
          /\ u.text = turn[r].text /\ u.asked = turn[r].asked /\ u.from = e.value
      <3>1. turn[r] \in Turns /\ "served" \in Places
        BY DEF IInv, TypeOK, Places
      <3>2. turn' = [turn EXCEPT ![r] = u]
        BY <2>1 DEF IInv, TypeOK
      <3>3. /\ u \in Turns /\ u.at = "served" /\ u.asker = turn[r].asker
            /\ u.text = turn[r].text /\ u.asked = turn[r].asked /\ u.from = e.value
        BY <3>1, <2>3 DEF Turns
      <3> QED BY <3>2, <3>3
    <2> HIDE DEF u
    <2>6. turn' \in [Requests -> Turns] /\ Filled'
      <3>1. turn[r].asker \in Askers /\ turn[r].text \in Texts /\ turn[r].asked \in Contexts
        BY <2>4 DEF IInv, Filled
      <3> QED BY <3>1, <2>5, TurnTyped
    <2>7. \A q \in Requests : q # r => turn'[q] = turn[q]
      BY <2>5 DEF IInv, TypeOK
    <2>8. /\ turn'[r].at = "served" /\ turn'[r].from = e.value
          /\ turn'[r].asker = turn[r].asker /\ turn'[r].text = turn[r].text
      BY <2>5 DEF IInv, TypeOK
    <2>9. entries' = entries
      BY <1>2 DEF Hit
    <2>10. EntriesGiven'
      <3> SUFFICES ASSUME NEW f \in entries
                   PROVE  /\ turn'[f.value].at = "answered"
                          /\ turn'[f.value].asker = f.owner
                          /\ turn'[f.value].text = f.text
                          /\ f.expiry = turn'[f.value].stored + TTL
        BY <2>9 DEF EntriesGiven
      <3>1. f.value \in Requests /\ turn[f.value].at = "answered" /\ f.value # r
        BY <2>4 DEF IInv, TypeOK, Entries, EntriesGiven
      <3> QED BY <3>1, <2>7 DEF IInv, EntriesGiven
    <2>11. ServedWasGiven'
      <3> SUFFICES ASSUME NEW q \in Requests, turn'[q].at = "served"
                   PROVE  /\ turn'[q].from \in Requests
                          /\ turn'[turn'[q].from].at = "answered"
                          /\ turn'[turn'[q].from].asker = turn'[q].asker
                          /\ Score[turn'[q].text][turn'[turn'[q].from].text] >= Threshold
        BY DEF ServedWasGiven
      <3>1. CASE q = r
        BY <3>1, <2>2, <2>3, <2>4, <2>7, <2>8
      <3>2. CASE q # r
        <4>1. /\ turn[q].from \in Requests
              /\ turn[turn[q].from].at = "answered"
              /\ turn[turn[q].from].asker = turn[q].asker
              /\ Score[turn[q].text][turn[turn[q].from].text] >= Threshold
          BY <3>2, <2>7 DEF IInv, ServedWasGiven
        <4>2. turn'[turn[q].from] = turn[turn[q].from] /\ turn'[q] = turn[q]
          BY <4>1, <3>2, <2>4, <2>7
        <4> QED BY <4>1, <4>2
      <3> QED BY <3>1, <3>2
    <2> QED BY <1>2, <2>6, <2>9, <2>10, <2>11 DEF Hit, IInv, TypeOK
  <1>3. ASSUME NEW r \in Requests, Miss(r) \/ Acted(r) \/ Answered(r) PROVE IInv'
    <2> DEFINE u == turn'[r]
    <2>1. /\ turn[r].at \in {"looking", "thinking"} /\ entries' = entries
          /\ UNCHANGED <<context, now, stores>>
      BY <1>3 DEF Miss, Acted, Answered
    <2>2. /\ turn' = [turn EXCEPT ![r] = u] /\ u \in Turns /\ u.at # "served" /\ u.at # "idle"
          /\ u.asker = turn[r].asker /\ u.text = turn[r].text /\ u.asked = turn[r].asked
          /\ u.at = "storing" => u.key \in Contexts
      <3>1. /\ turn[r] \in Turns /\ turn \in [Requests -> Turns] /\ context \in Contexts
            /\ {"thinking", "acted", "storing"} \subseteq Places
        BY DEF IInv, TypeOK, Places
      <3>2. CASE Miss(r)
        BY <3>1, <3>2, Moves DEF Miss
      <3>3. CASE Acted(r)
        BY <3>1, <3>3, Moves DEF Acted
      <3>4. CASE Answered(r)
        <4> DEFINE w == [turn[r] EXCEPT !.at = "storing", !.key = context]
        <4>1. /\ w \in Turns /\ w.at = "storing" /\ w.asker = turn[r].asker
              /\ w.text = turn[r].text /\ w.asked = turn[r].asked /\ w.key = context
          BY <3>1 DEF Turns
        <4>2. turn' = [turn EXCEPT ![r] = w]
          BY <3>1, <3>4 DEF Answered
        <4> HIDE DEF w
        <4> QED BY <3>1, <4>1, <4>2
      <3> QED BY <1>3, <3>2, <3>3, <3>4
    <2>3. turn[r].asker \in Askers /\ turn[r].text \in Texts /\ turn[r].asked \in Contexts
      BY <2>1 DEF IInv, Filled
    <2> HIDE DEF u
    <2>4. EntriesGiven' /\ ServedWasGiven'
      BY <2>1, <2>2, OtherTurnMoves
    <2>5. turn' \in [Requests -> Turns] /\ Filled'
      BY <2>2, <2>3, TurnTyped
    <2> QED BY <2>1, <2>4, <2>5 DEF IInv, TypeOK
  <1>4. ASSUME NEW r \in Requests, Store(r) \/ StoreSkipped(r) PROVE IInv'
    <2> DEFINE new == [owner |-> turn[r].asker, context |-> turn[r].key,
                       text |-> turn[r].text, value |-> r, expiry |-> now + TTL,
                       stamp |-> stores]
    <2> DEFINE u == turn'[r]
    <2>1. turn[r].at = "storing" /\ turn' = [turn EXCEPT ![r] = u] /\ UNCHANGED <<context, now>>
      BY <1>4 DEF Store, StoreSkipped, IInv, TypeOK
    <2>2. /\ turn[r].asker \in Askers /\ turn[r].text \in Texts
          /\ turn[r].asked \in Contexts /\ turn[r].key \in Contexts
      BY <2>1 DEF IInv, Filled
    <2>3. /\ u \in Turns /\ u.at = "answered" /\ u.asker = turn[r].asker
          /\ u.text = turn[r].text /\ u.asked = turn[r].asked
          /\ u.stored = IF Store(r) THEN now ELSE turn[r].stored
      <3>1. turn[r] \in Turns /\ turn \in [Requests -> Turns] /\ now \in Nat /\ "answered" \in Places
        BY DEF IInv, TypeOK, Places
      <3>2. CASE Store(r)
        <4> DEFINE w == [turn[r] EXCEPT !.at = "answered", !.stored = now]
        <4>1. /\ w \in Turns /\ w.at = "answered" /\ w.asker = turn[r].asker
              /\ w.text = turn[r].text /\ w.asked = turn[r].asked /\ w.stored = now
          BY <3>1 DEF Turns
        <4>2. turn' = [turn EXCEPT ![r] = w]
          BY <3>1, <3>2 DEF Store
        <4> HIDE DEF w
        <4> QED BY <3>1, <3>2, <4>1, <4>2
      <3>3. CASE StoreSkipped(r) /\ ~ Store(r)
        BY <3>1, <3>3, Moves DEF StoreSkipped
      <3> QED BY <1>4, <3>2, <3>3
    <2>4. /\ entries' \subseteq entries \cup {new} /\ stores' \in Nat
          /\ new \in entries' \ entries => Store(r)
      <3>1. CASE Store(r)
        BY <3>1, LimitKeeps, LiveKeeps, SMT DEF Store, IInv, TypeOK
      <3>2. CASE StoreSkipped(r)
        BY <3>2 DEF StoreSkipped, IInv, TypeOK
      <3> QED BY <1>4, <3>1, <3>2
    <2>5. /\ new \in Entries /\ new.value = r
          /\ new.owner = turn[r].asker /\ new.text = turn[r].text /\ new.expiry = now + TTL
      BY <2>2 DEF Entries, IInv, TypeOK
    <2> HIDE DEF new, u
    <2>6. turn' \in [Requests -> Turns] /\ Filled'
      BY <2>1, <2>2, <2>3, TurnTyped
    <2>7. (\A q \in Requests : q # r => turn'[q] = turn[q]) /\ turn'[r] = u
      BY <2>1 DEF IInv, TypeOK
    <2>8. EntriesGiven'
      <3> SUFFICES ASSUME NEW f \in entries'
                   PROVE  /\ turn'[f.value].at = "answered"
                          /\ turn'[f.value].asker = f.owner
                          /\ turn'[f.value].text = f.text
                          /\ f.expiry = turn'[f.value].stored + TTL
        BY DEF EntriesGiven
      <3>1. CASE f = new /\ f \notin entries
        BY <3>1, <2>3, <2>4, <2>5, <2>7
      <3>2. CASE f \in entries
        <4>1. /\ f.value \in Requests /\ turn[f.value].at = "answered" /\ f.value # r
              /\ turn[f.value].asker = f.owner /\ turn[f.value].text = f.text
              /\ f.expiry = turn[f.value].stored + TTL
          BY <3>2, <2>1 DEF IInv, TypeOK, Entries, EntriesGiven
        <4>2. turn'[f.value] = turn[f.value]
          BY <4>1, <2>7
        <4> QED BY <4>1, <4>2
      <3> QED BY <3>1, <3>2, <2>4
    <2>9. ServedWasGiven'
      <3> SUFFICES ASSUME NEW q \in Requests, turn'[q].at = "served"
                   PROVE  /\ turn'[q].from \in Requests
                          /\ turn'[turn'[q].from].at = "answered"
                          /\ turn'[turn'[q].from].asker = turn'[q].asker
                          /\ Score[turn'[q].text][turn'[turn'[q].from].text] >= Threshold
        BY DEF ServedWasGiven
      <3>1. q # r /\ turn'[q] = turn[q]
        BY <2>3, <2>7
      <3>2. /\ turn[q].from \in Requests
            /\ turn[turn[q].from].at = "answered"
            /\ turn[turn[q].from].asker = turn[q].asker
            /\ Score[turn[q].text][turn[turn[q].from].text] >= Threshold
        BY <3>1 DEF IInv, ServedWasGiven
      <3>3. turn'[turn[q].from] = turn[turn[q].from]
        BY <3>2, <2>1, <2>7
      <3> QED BY <3>1, <3>2, <3>3
    <2> QED BY <2>1, <2>4, <2>5, <2>6, <2>8, <2>9 DEF IInv, TypeOK
  <1>5. CASE Reconfigure
    BY <1>5 DEF Reconfigure, IInv, TypeOK, Filled, EntriesGiven, ServedWasGiven
  <1>6. CASE Tick
    BY <1>6 DEF Tick, IInv, TypeOK, Filled, EntriesGiven, ServedWasGiven
  <1>7. CASE UNCHANGED vars
    BY <1>7 DEF vars, IInv, TypeOK, Filled, EntriesGiven, ServedWasGiven
  <1> QED BY <1>1, <1>2, <1>3, <1>4, <1>5, <1>6, <1>7 DEF Next

\* Every reachable state of the cache and its turns is well typed.
THEOREM TypeCorrect == Spec => []TypeOK
  <1>1. IInv => TypeOK BY DEF IInv
  <1> QED BY <1>1, InitInvariant, Invariance, PTL DEF Spec

\* No turn is ever served an answer of another user or session, one that came
\* out of a tool, or one for a text that is not similar enough
\* (lookup_semantic, _store_semantic_cache).
THEOREM ServedAnswersWereGiven == Spec => []ServedWasGiven
  <1>1. IInv => ServedWasGiven BY DEF IInv
  <1> QED BY <1>1, InitInvariant, Invariance, PTL DEF Spec

\* No answer is served later than a time to live after it was stored, for any
\* number of hits before (store_semantic, lookup_semantic).
THEOREM ServedAnswersAreFresh == Spec => ServedFresh
  <1>1. IInv /\ [Next]_vars =>
          [\A r \in Requests : turn[r].at = "looking" /\ turn'[r].at = "served" =>
             now <= turn[turn'[r].from].stored + TTL]_vars
    <2> SUFFICES ASSUME IInv, Next, NEW r \in Requests,
                        turn[r].at = "looking", turn'[r].at = "served"
                 PROVE  now <= turn[turn'[r].from].stored + TTL
      OBVIOUS
    <2>1. ASSUME NEW q \in Requests, Hit(q)
          PROVE  now <= turn[turn'[r].from].stored + TTL
      <3>1. PICK e \in Matches(q) :
               turn' = [turn EXCEPT ![q] = [@ EXCEPT !.at = "served", !.from = e.value]]
        BY <2>1 DEF Hit
      <3>2. q = r
        BY <3>1 DEF IInv, TypeOK
      <3>3. turn'[r].from = e.value
        BY <3>1, <3>2 DEF IInv, TypeOK, Turns
      <3>4. e \in entries /\ e.expiry >= now
        BY <3>2 DEF Matches
      <3>5. e.expiry = turn[e.value].stored + TTL /\ e.expiry \in Nat /\ now \in Nat
        BY <3>4 DEF IInv, TypeOK, Entries, EntriesGiven
      <3> QED BY <3>3, <3>4, <3>5
    <2>2. ASSUME NEW q \in Requests,
                 Ask(q) \/ Miss(q) \/ Acted(q) \/ Answered(q) \/ Store(q) \/ StoreSkipped(q)
          PROVE  FALSE
      <3>1. turn \in [Requests -> Turns]
        BY DEF IInv, TypeOK
      <3>2. \A q0 \in Requests \ {q} : turn'[q0] = turn[q0]
        BY <2>2, <3>1 DEF Ask, Miss, Acted, Answered, Store, StoreSkipped
      <3>3. turn'[q].at # "served"
        <4>1. CASE Ask(q)
          BY <4>1, <3>1 DEF Ask, Idle
        <4>2. CASE Miss(q) \/ Acted(q)
          BY <4>2, <3>1, Moves DEF Miss, Acted, Places
        <4>3. CASE Answered(q)
          <5> DEFINE w == [turn[q] EXCEPT !.at = "storing", !.key = context]
          <5>1. w.at = "storing"
            <6>1. turn[q] \in Turns /\ "storing" \in Places /\ context \in Contexts
              BY <3>1 DEF IInv, TypeOK, Places
            <6> QED BY <6>1 DEF Turns
          <5>2. turn' = [turn EXCEPT ![q] = w]
            BY <4>3, <3>1 DEF Answered
          <5> HIDE DEF w
          <5> QED BY <3>1, <5>1, <5>2
        <4>4. CASE Store(q)
          BY <4>4, <3>1 DEF Store, Turns
        <4>5. CASE StoreSkipped(q)
          BY <4>5, <3>1, Moves DEF StoreSkipped, Places
        <4> QED BY <2>2, <4>1, <4>2, <4>3, <4>4, <4>5
      <3> QED BY <3>2, <3>3
    <2>3. CASE Reconfigure \/ Tick
      BY <2>3 DEF Reconfigure, Tick
    <2> QED BY <2>1, <2>2, <2>3 DEF Next
  <1> QED BY <1>1, InitInvariant, Invariance, PTL DEF Spec, ServedFresh

\* Whenever an answer is stored, no expired one remains (store_semantic).
THEOREM StoresSweepExpired == Spec => StoresSweep
  <1>1. IInv /\ [Next]_vars =>
          [stores' # stores => \A e \in entries' : e.expiry >= now]_vars
    <2> SUFFICES ASSUME IInv, Next, stores' # stores
                 PROVE  \A e \in entries' : e.expiry >= now
      OBVIOUS
    <2>1. PICK r \in Requests : Store(r)
      BY DEF Next, Ask, Hit, Miss, Acted, Answered, StoreSkipped, Reconfigure, Tick
    <2> DEFINE new == [owner |-> turn[r].asker, context |-> turn[r].key,
                       text |-> turn[r].text, value |-> r, expiry |-> now + TTL,
                       stamp |-> stores]
    <2>2. new.expiry >= now
      BY DEF IInv, TypeOK
    <2>3. entries' = EnforceLimit(Live(entries) \cup {new})
      BY <2>1 DEF Store
    <2> HIDE DEF new
    <2> QED BY <2>2, <2>3, LimitKeeps, LiveKeeps
  <1> QED BY <1>1, InitInvariant, Invariance, PTL DEF Spec, StoresSweep
-----------------------------------------------------------------------------
\* The entries of a set that the sort puts before e.
Before(s, e) == {f \in s : ExpiresBefore(f, e)}

\* The sort is a strict order of the entries.
LEMMA SortIsStrict ==
  ASSUME NEW e \in Entries, NEW f \in Entries, NEW g \in Entries
  PROVE  /\ ~ ExpiresBefore(e, e)
         /\ ExpiresBefore(e, f) /\ ExpiresBefore(f, g) => ExpiresBefore(e, g)
  <1>1. /\ e.expiry \in Nat /\ f.expiry \in Nat /\ g.expiry \in Nat
        /\ e.stamp \in Nat /\ f.stamp \in Nat /\ g.stamp \in Nat
    BY DEF Entries
  <1> QED BY <1>1 DEF ExpiresBefore

\* A finite list of entries that is not empty has one the sort puts first: a
\* smallest of the sets Before(s, e) can have no member.
LEMMA OneIsFirst ==
  ASSUME NEW s \in SUBSET Entries, IsFiniteSet(s), s # {}
  PROVE  \E e \in s : Before(s, e) = {}
  <1> DEFINE R == StrictSubsetOrdering(s)
             T == {Before(s, e) : e \in s}
  <1>1. T # {} /\ T \subseteq FiniteSubsetsOf(s)
    <2>1. \A e \in s : Before(s, e) \in FiniteSubsetsOf(s)
      <3>1. \A e \in s : Before(s, e) \in SUBSET s
        BY DEF Before
      <3> QED BY <3>1, FS_FiniteSubsetsOfFinite
    <2> QED BY <2>1
  <1>2. IsWellFoundedOn(R, FiniteSubsetsOf(s))
    BY FS_StrictSubsetOrderingWellFounded
  <1>3. PICK x \in T : \A y \in T : ~ (<<y, x>> \in R)
    <2> HIDE DEF R, T
    <2> QED BY <1>1, <1>2, WFMin
  <1>4. PICK e \in s : x = Before(s, e)
    OBVIOUS
  <1>5. ASSUME NEW f \in Before(s, e) PROVE FALSE
    <2>1. f \in s /\ ExpiresBefore(f, e)
      BY <1>5 DEF Before
    <2>2. Before(s, f) \subseteq Before(s, e)
      BY <2>1, SortIsStrict DEF Before
    <2>3. f \notin Before(s, f)
      BY <2>1, SortIsStrict DEF Before
    <2>4. <<Before(s, f), Before(s, e)>> \in R
      <3>1. /\ Before(s, f) \in SUBSET s /\ Before(s, e) \in SUBSET s
            /\ Before(s, f) # Before(s, e)
        BY <1>5, <2>3 DEF Before
      <3> HIDE DEF T
      <3> QED BY <2>2, <3>1 DEF StrictSubsetOrdering
    <2>5. Before(s, f) \in T
      BY <2>1
    <2> QED BY <1>3, <1>4, <2>4, <2>5
  <1> QED BY <1>4, <1>5

\* One entry beyond the limit is what the limit removes.
LEMMA LimitHolds ==
  ASSUME NEW s \in SUBSET Entries, IsFiniteSet(s), MaxEntries > 0,
         Cardinality(s) <= MaxEntries + 1
  PROVE  Cardinality(EnforceLimit(s)) <= MaxEntries
  <1>1. Cardinality(s) \in Nat
    BY FS_CardinalityType
  <1>2. EnforceLimit(s) \in SUBSET s
    BY LimitKeeps
  <1>3. IsFiniteSet(EnforceLimit(s)) /\ Cardinality(EnforceLimit(s)) <= Cardinality(s)
    BY <1>2, FS_Subset
  <1>4. Cardinality(EnforceLimit(s)) \in Nat
    BY <1>3, FS_CardinalityType
  <1>5. CASE Cardinality(s) <= MaxEntries
    BY <1>1, <1>3, <1>4, <1>5
  <1>6. CASE Cardinality(s) = MaxEntries + 1
    <2>1. s # {}
      BY <1>6, FS_EmptySet
    <2>2. PICK e \in s : Before(s, e) = {}
      BY <2>1, OneIsFirst
    <2>3. Cardinality(Before(s, e)) = 0
      BY <2>2, FS_EmptySet
    <2>4. e \notin EnforceLimit(s)
      BY <2>3, <1>6 DEF EnforceLimit, Before
    <2>5. EnforceLimit(s) # s
      BY <2>4
    <2>6. Cardinality(EnforceLimit(s)) # Cardinality(s)
      BY <1>2, <2>5, FS_Subset
    <2> QED BY <1>1, <1>3, <1>4, <1>6, <2>6
  <1> QED BY <1>1, <1>5, <1>6

\* The list of entries is finite and within its limit.
Fits == IsFiniteSet(entries) /\ Bounded

\* Only a store changes the entries, and it applies the limit to the entries it
\* found and one more.
LEMMA FitsStays == IInv /\ Fits /\ [Next]_vars => Fits'
  <1> SUFFICES ASSUME IInv, Fits, [Next]_vars PROVE Fits'
    OBVIOUS
  <1>1. ASSUME NEW r \in Requests, Store(r) PROVE Fits'
    <2> DEFINE new == [owner |-> turn[r].asker, context |-> turn[r].key,
                       text |-> turn[r].text, value |-> r, expiry |-> now + TTL,
                       stamp |-> stores]
               s == Live(entries) \cup {new}
    <2>1. entries' = EnforceLimit(s)
      BY <1>1 DEF Store
    <2>2. new \in Entries
      BY <1>1 DEF Store, Entries, IInv, TypeOK, Filled
    <2> HIDE DEF new
    <2>3. s \in SUBSET Entries
      BY <2>2, LiveKeeps DEF IInv, TypeOK
    <2>4. IsFiniteSet(entries) /\ Cardinality(entries) \in Nat
      BY FS_CardinalityType DEF Fits
    <2>5. Live(entries) \in SUBSET entries
      BY LiveKeeps
    <2>6. /\ IsFiniteSet(Live(entries)) /\ Cardinality(Live(entries)) \in Nat
          /\ Cardinality(Live(entries)) <= Cardinality(entries)
      BY <2>4, <2>5, FS_Subset, FS_CardinalityType
    <2>7. IsFiniteSet(s) /\ Cardinality(s) <= Cardinality(entries) + 1
      <3>1. \/ Cardinality(s) = Cardinality(Live(entries))
            \/ Cardinality(s) = Cardinality(Live(entries)) + 1
        BY <2>6, FS_AddElement
      <3>2. IsFiniteSet(s)
        BY <2>6, FS_AddElement
      <3> HIDE DEF s
      <3> QED BY <2>4, <2>6, <3>1, <3>2
    <2>8. Cardinality(s) \in Nat
      BY <2>7, FS_CardinalityType
    <2> HIDE DEF s
    <2>9. IsFiniteSet(entries')
      BY <2>1, <2>7, LimitKeeps, FS_Subset
    <2>10. CASE MaxEntries > 0
      <3>1. Cardinality(s) <= MaxEntries + 1
        BY <2>4, <2>7, <2>8, <2>10 DEF Fits, Bounded
      <3> QED BY <2>1, <2>3, <2>7, <2>9, <2>10, <3>1, LimitHolds DEF Fits, Bounded
    <2>11. CASE ~ (MaxEntries > 0)
      <3>1. entries' = {}
        BY <2>1, <2>11 DEF EnforceLimit
      <3>2. Cardinality(entries') = 0
        BY <3>1, FS_EmptySet
      <3> QED BY <2>9, <2>11, <3>2 DEF Fits, Bounded
    <2> QED BY <2>10, <2>11
  <1>2. ASSUME NEW r \in Requests,
               Ask(r) \/ Hit(r) \/ Miss(r) \/ Acted(r) \/ Answered(r) \/ StoreSkipped(r)
        PROVE  entries' = entries
    BY <1>2 DEF Ask, Hit, Miss, Acted, Answered, StoreSkipped
  <1>3. Reconfigure \/ Tick \/ UNCHANGED vars => entries' = entries
    BY DEF Reconfigure, Tick, vars
  <1>4. entries' = entries => Fits'
    BY DEF Fits, Bounded
  <1> QED BY <1>1, <1>2, <1>3, <1>4 DEF Next

\* The cache never holds more answers than its limit, whatever the order of the
\* stores, and none when the limit is zero or negative (_enforce_semantic_limit).
THEOREM CacheIsBounded == Spec => []Bounded
  <1>1. Init => Fits
    BY FS_EmptySet DEF Init, Fits, Bounded
  <1>2. Fits => Bounded
    BY DEF Fits
  <1> QED BY <1>1, <1>2, InitInvariant, Invariance, FitsStays, PTL DEF Spec
-----------------------------------------------------------------------------
\* Stamps tell entries apart, and no entry expires after one stored now would.
Stamped ==
    /\ \A e \in entries : e.stamp < stores /\ e.expiry <= now + TTL
    /\ \A e, f \in entries : e.stamp = f.stamp => e = f

\* A set that keeps only entries of the cache and perhaps one with the next
\* stamp, stored now, is stamped as well.
LEMMA StampsStay == IInv /\ Stamped /\ [Next]_vars => Stamped'
  <1> SUFFICES ASSUME IInv, Stamped, [Next]_vars PROVE Stamped'
    OBVIOUS
  <1>1. /\ stores \in Nat /\ now \in Nat /\ TTL \in Nat
        /\ \A e \in entries : e.stamp \in Nat /\ e.expiry \in Nat
    BY DEF IInv, TypeOK, Entries
  <1>2. ASSUME NEW r \in Requests, Store(r) PROVE Stamped'
    <2> DEFINE new == [owner |-> turn[r].asker, context |-> turn[r].key,
                       text |-> turn[r].text, value |-> r, expiry |-> now + TTL,
                       stamp |-> stores]
    <2>1. /\ entries' = EnforceLimit(Live(entries) \cup {new})
          /\ stores' = stores + 1 /\ now' = now
      BY <1>2 DEF Store
    <2>2. new.stamp = stores /\ new.expiry = now + TTL
      OBVIOUS
    <2> HIDE DEF new
    <2>3. entries' \subseteq entries \cup {new}
      BY <2>1, LimitKeeps, LiveKeeps
    <2>4. \A e \in entries' : e.stamp < stores + 1 /\ e.expiry <= now + TTL
      BY <1>1, <2>2, <2>3 DEF Stamped
    <2>5. \A e, f \in entries' : e.stamp = f.stamp => e = f
      BY <1>1, <2>2, <2>3 DEF Stamped
    <2> QED BY <2>1, <2>4, <2>5 DEF Stamped
  <1>3. ASSUME NEW r \in Requests,
               Ask(r) \/ Hit(r) \/ Miss(r) \/ Acted(r) \/ Answered(r) \/ StoreSkipped(r)
        PROVE  UNCHANGED <<entries, stores, now>>
    BY <1>3 DEF Ask, Hit, Miss, Acted, Answered, StoreSkipped
  <1>4. Reconfigure \/ UNCHANGED vars => UNCHANGED <<entries, stores, now>>
    BY DEF Reconfigure, vars
  <1>5. UNCHANGED <<entries, stores, now>> => Stamped'
    BY DEF Stamped
  <1>6. CASE Tick
    <2>1. entries' = entries /\ stores' = stores /\ now' = now + 1
      BY <1>6 DEF Tick
    <2> QED BY <1>1, <2>1 DEF Stamped
  <1> QED BY <1>2, <1>3, <1>4, <1>5, <1>6 DEF Next

\* At most is less or equal.
LEMMA AtMost == \A a, b \in Nat : a <= b => a < b \/ a = b
  OBVIOUS

\* What the limit does to a list that exceeds it by one at most: the entry that
\* is last in the order stays, and what leaves is first, alone and for room.
LEMMA LimitEvicts ==
  ASSUME NEW s \in SUBSET Entries, IsFiniteSet(s), MaxEntries > 0,
         Cardinality(s) <= MaxEntries + 1,
         \A e, f \in s : e.stamp = f.stamp => e = f,
         NEW new \in s,
         \A e \in s : e # new => e.stamp < new.stamp /\ e.expiry <= new.expiry
  PROVE  /\ new \in EnforceLimit(s)
         /\ \A e \in s \ EnforceLimit(s) :
               /\ Cardinality(EnforceLimit(s)) >= MaxEntries
               /\ \A f \in s : e.expiry <= f.expiry
  <1>1. Cardinality(s) \in Nat
    BY FS_CardinalityType
  <1>2. \A e \in s : e.stamp \in Nat /\ e.expiry \in Nat
    BY DEF Entries
  <1>3. \A e \in s : /\ IsFiniteSet(Before(s, e)) /\ Cardinality(Before(s, e)) \in Nat
    <2>1. \A e \in s : Before(s, e) \in SUBSET s
      BY DEF Before
    <2> QED BY <2>1, FS_Subset, FS_CardinalityType
  <1>4. new \in EnforceLimit(s)
    <2>1. Before(s, new) = s \ {new}
      <3>1. \A e \in s : e # new => ExpiresBefore(e, new)
        <4> SUFFICES ASSUME NEW e \in s, e # new PROVE ExpiresBefore(e, new)
          OBVIOUS
        <4>1. e.expiry \in Nat /\ new.expiry \in Nat
          BY <1>2
        <4>2. e.stamp < new.stamp /\ e.expiry <= new.expiry
          OBVIOUS
        <4>3. e.expiry < new.expiry \/ e.expiry = new.expiry
          BY <4>1, <4>2, AtMost, Zenon
        <4> QED BY <4>2, <4>3, Zenon DEF ExpiresBefore
      <3>2. ~ ExpiresBefore(new, new)
        BY SortIsStrict
      <3> QED BY <3>1, <3>2 DEF Before
    <2>2. Cardinality(Before(s, new)) = Cardinality(s) - 1
      BY <2>1, FS_RemoveElement
    <2>3. Cardinality(Before(s, new)) >= Cardinality(s) - MaxEntries
      BY <1>1, <2>2
    <2> QED BY <2>3 DEF EnforceLimit, Before
  <1>5. ASSUME NEW e \in s \ EnforceLimit(s)
        PROVE  /\ Cardinality(EnforceLimit(s)) >= MaxEntries
               /\ \A f \in s : e.expiry <= f.expiry
    <2>1. ~ (Cardinality(Before(s, e)) >= Cardinality(s) - MaxEntries)
      BY <1>5 DEF EnforceLimit, Before
    <2>2. Cardinality(Before(s, e)) = 0 /\ Cardinality(s) = MaxEntries + 1
      <3>1. Cardinality(Before(s, e)) \in Nat
        BY <1>3
      <3>2. MaxEntries \in Int
        OBVIOUS
      <3> QED BY <1>1, <2>1, <3>1, <3>2, SMT
    <2>3. Before(s, e) = {}
      BY <1>3, <2>2, FS_EmptySet
    <2>4. \A f \in s : e.expiry <= f.expiry
      BY <1>2, <2>3 DEF Before, ExpiresBefore
    <2>5. ASSUME NEW f \in s, f # e PROVE f \in EnforceLimit(s)
      <3>1. ExpiresBefore(e, f)
        <4>1. ~ ExpiresBefore(f, e)
          BY <2>3 DEF Before
        <4>2. e.stamp # f.stamp
          BY <2>5
        <4> QED BY <1>2, <4>1, <4>2 DEF ExpiresBefore
      <3>2. Before(s, f) # {}
        BY <3>1 DEF Before
      <3>3. Cardinality(Before(s, f)) # 0
        BY <1>3, <3>2, FS_EmptySet
      <3>4. Cardinality(Before(s, f)) >= Cardinality(s) - MaxEntries
        BY <1>3, <2>2, <3>3
      <3> QED BY <3>4 DEF EnforceLimit, Before
    <2>6. EnforceLimit(s) = s \ {e}
      BY <2>5, LimitKeeps
    <2>7. Cardinality(EnforceLimit(s)) = Cardinality(s) - 1
      BY <2>6, FS_RemoveElement
    <2> QED BY <2>2, <2>4, <2>7
  <1> QED BY <1>4, <1>5

\* A stored answer is kept, and an answer that has not expired makes room for
\* it only when the cache is full of answers that expire no earlier
\* (store_semantic, _enforce_semantic_limit).
THEOREM EvictionsTakeTheEarliest == Spec => EvictsEarliest
  <1> DEFINE Kept == MaxEntries > 0 => \E e \in entries' : e.stamp = stores
             Left == \A e \in entries \ entries' :
                        \/ e.expiry < now
                        \/ /\ Cardinality(entries') >= MaxEntries
                           /\ \A f \in entries' : e.expiry <= f.expiry
  <1>1. Init => Fits /\ Stamped
    BY FS_EmptySet DEF Init, Fits, Bounded, Stamped
  <1>2. IInv /\ Fits /\ Stamped /\ [Next]_vars => [stores' # stores => Kept /\ Left]_vars
    <2> SUFFICES ASSUME IInv, Fits, Stamped, Next, stores' # stores
                 PROVE  Kept /\ Left
      OBVIOUS
    <2>1. PICK r \in Requests : Store(r)
      BY DEF Next, Ask, Hit, Miss, Acted, Answered, StoreSkipped, Reconfigure, Tick
    <2> DEFINE new == [owner |-> turn[r].asker, context |-> turn[r].key,
                       text |-> turn[r].text, value |-> r, expiry |-> now + TTL,
                       stamp |-> stores]
               s == Live(entries) \cup {new}
    <2>2. entries' = EnforceLimit(s)
      BY <2>1 DEF Store
    <2>3. new \in Entries /\ new.stamp = stores /\ new.expiry = now + TTL
      BY <2>1 DEF Store, Entries, IInv, TypeOK, Filled
    <2> HIDE DEF new
    <2>4. /\ stores \in Nat /\ now \in Nat /\ TTL \in Nat
          /\ \A e \in entries : e.stamp \in Nat /\ e.expiry \in Nat
      BY DEF IInv, TypeOK, Entries
    <2>5. s \in SUBSET Entries /\ new \in s
      BY <2>3, LiveKeeps DEF IInv, TypeOK
    <2>6. \A e \in entries : e.expiry >= now => e \in s
      BY DEF Live
    <2>7. \A e \in s : e # new => e \in entries
      BY LiveKeeps
    <2>8. \A e \in s : e # new => e.stamp < new.stamp /\ e.expiry <= new.expiry
      BY <2>3, <2>7 DEF Stamped
    <2>9. \A e, f \in s : e.stamp = f.stamp => e = f
      BY <2>3, <2>4, <2>7 DEF Stamped
    <2>10. IsFiniteSet(s) /\ Cardinality(s) \in Nat /\ Cardinality(s) <= Cardinality(entries) + 1
      <3>1. IsFiniteSet(entries) /\ Cardinality(entries) \in Nat
        BY FS_CardinalityType DEF Fits
      <3>2. Live(entries) \in SUBSET entries
        BY LiveKeeps
      <3>3. /\ IsFiniteSet(Live(entries)) /\ Cardinality(Live(entries)) \in Nat
            /\ Cardinality(Live(entries)) <= Cardinality(entries)
        BY <3>1, <3>2, FS_Subset, FS_CardinalityType
      <3>4. /\ IsFiniteSet(s)
            /\ \/ Cardinality(s) = Cardinality(Live(entries))
               \/ Cardinality(s) = Cardinality(Live(entries)) + 1
        BY <3>3, FS_AddElement
      <3> HIDE DEF s
      <3> QED BY <3>1, <3>3, <3>4
    <2> HIDE DEF s
    <2>11. CASE MaxEntries > 0
      <3>1. Cardinality(entries) \in Nat /\ Cardinality(entries) <= MaxEntries
        BY <2>11, FS_CardinalityType DEF Fits, Bounded
      <3>2. Cardinality(s) <= MaxEntries + 1
        BY <2>10, <3>1
      <3>3. /\ new \in EnforceLimit(s)
            /\ \A e \in s \ EnforceLimit(s) :
                  /\ Cardinality(EnforceLimit(s)) >= MaxEntries
                  /\ \A f \in s : e.expiry <= f.expiry
        BY <2>5, <2>8, <2>9, <2>10, <2>11, <3>2, LimitEvicts
      <3>4. entries' \subseteq s
        BY <2>2, LimitKeeps
      <3>5. \A e \in entries : e.expiry < now \/ e \in s
        BY <2>4, <2>6
      <3> QED BY <2>2, <2>3, <3>3, <3>4, <3>5
    <2>12. CASE ~ (MaxEntries > 0)
      <3>1. entries' = {} /\ Cardinality(entries') = 0
        BY <2>2, <2>12, FS_EmptySet DEF EnforceLimit
      <3> QED BY <2>12, <3>1
    <2> QED BY <2>11, <2>12
  <1> QED BY <1>1, <1>2, InitInvariant, Invariance, FitsStays, StampsStay, PTL
          DEF Spec, EvictsEarliest
=============================================================================
