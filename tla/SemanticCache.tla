---------------------------- MODULE SemanticCache ----------------------------
(***************************************************************************)
(* The semantic response cache of the chat and the turns that use it:      *)
(*   application/cache_manager.py   lookup_semantic, store_semantic        *)
(*   application/chat_manager.py    _run_agent, _lookup_semantic_cache,    *)
(*                                  _store_semantic_cache                  *)
(*                                                                         *)
(* A turn is suspended while its text is embedded (in a thread), while the *)
(* agent answers, and while the text is embedded again for the store; what *)
(* lies between is one step of the event loop.  The key of the cache is    *)
(* the user and session (an asker) with the names of the connected servers *)
(* and listed tools (a context), and other handlers change the context.    *)
(***************************************************************************)
EXTENDS Integers, FiniteSets

CONSTANTS
    Requests,      \* chat requests, each one turn
    Askers,        \* pairs of a user and a session
    Contexts,      \* the sets of connected servers and listed tools, as one value
    Texts,         \* texts to embed, up to their similarities
    Score,         \* Score[s][t]: the cosine similarity of two texts, in percent
    Threshold,     \* semantic_cache_similarity_threshold, in percent
    TTL,           \* semantic_cache_ttl_seconds
    MaxEntries,    \* semantic_cache_max_entries, zero and below included
    MaxTime,       \* bound of the clock
    None

ASSUME CacheAssumption ==
    /\ Contexts # {}
    /\ Score \in [Texts -> [Texts -> 0..100]]
    /\ Threshold \in 0..100
    /\ TTL \in Nat
    /\ MaxEntries \in Int
    /\ MaxTime \in Nat
    /\ None \notin Requests \cup Askers \cup Contexts \cup Texts

VARIABLES
    entries,       \* CacheManager._semantic_cache; stamp is the order of appending
    turn,          \* Requests -> where the turn is and its locals
    context,       \* what the key would say of servers and tools now
    now,           \* time.time()
    stores         \* how many entries were ever appended

vars == <<entries, turn, context, now, stores>>

\* value is the turn whose response the entry holds.
Entries == [owner : Askers, context : Contexts, text : Texts, value : Requests,
            expiry : Nat, stamp : Nat]

Places == {"idle", "looking", "thinking", "storing", "answered", "acted", "served"}

\* asked and key are the context read for the lookup and for the store; from is
\* the turn whose response was served from the cache; stored is history, the
\* moment at which the turn's response went into the cache.
Turns == [at : Places,
          asker : Askers \cup {None}, text : Texts \cup {None},
          asked : Contexts \cup {None}, key : Contexts \cup {None},
          from : Requests \cup {None}, stored : Nat]

\* Every variable stays in its type.
TypeOK ==
    /\ entries \subseteq Entries
    /\ turn \in [Requests -> Turns]
    /\ context \in Contexts
    /\ now \in 0..MaxTime
    /\ stores \in Nat

Idle == [at |-> "idle", asker |-> None, text |-> None, asked |-> None, key |-> None,
         from |-> None, stored |-> 0]

Init ==
    /\ entries = {}
    /\ turn = [r \in Requests |-> Idle]
    /\ context \in Contexts
    /\ now = 0
    /\ stores = 0

-----------------------------------------------------------------------------
\* A turn begins: the key is computed, then the text is embedded.
Ask(r) ==
    /\ turn[r].at = "idle"
    /\ \E a \in Askers, t \in Texts :
          turn' = [turn EXCEPT ![r] = [Idle EXCEPT !.at = "looking", !.asker = a,
                                                   !.text = t, !.asked = context]]
    /\ UNCHANGED <<entries, context, now, stores>>

\* What the loop of lookup_semantic lets through; a score of 0 never beats
\* the best score it starts with.
SameKey(e, r) == e.owner = turn[r].asker /\ e.context = turn[r].asked
Matches(r) ==
    {e \in entries : /\ SameKey(e, r)
                     /\ e.expiry >= now
                     /\ Score[turn[r].text][e.text] >= Threshold
                     /\ Score[turn[r].text][e.text] > 0}

\* The loop keeps the first entry of the best score.
IsBest(e, r) ==
    \A f \in Matches(r) :
       \/ Score[turn[r].text][f.text] < Score[turn[r].text][e.text]
       \/ Score[turn[r].text][f.text] = Score[turn[r].text][e.text] /\ e.stamp <= f.stamp

\* Mutant: the entry is returned in place of its value.
HitUnpacked(r) ==
    /\ turn[r].at = "looking"
    /\ \E e \in Matches(r) :
          /\ IsBest(e, r)
          /\ turn' = [turn EXCEPT ![r] = [@ EXCEPT !.at = "served", !.from = e]]
    /\ UNCHANGED <<entries, context, now, stores>>

\* Mutant: a hit renews the entry, as in a cache whose lifetime slides.
HitRenews(r) ==
    /\ turn[r].at = "looking"
    /\ \E e \in Matches(r) :
          /\ IsBest(e, r)
          /\ turn' = [turn EXCEPT ![r] = [@ EXCEPT !.at = "served", !.from = e.value]]
          /\ entries' = (entries \ {e}) \cup {[e EXCEPT !.expiry = now + TTL]}
    /\ UNCHANGED <<context, now, stores>>

\* The embedding is there and an entry matches: the turn ends with its value.
Hit(r) ==
    /\ turn[r].at = "looking"
    /\ \E e \in Matches(r) :
          /\ IsBest(e, r)
          /\ turn' = [turn EXCEPT ![r] = [@ EXCEPT !.at = "served", !.from = e.value]]
    /\ UNCHANGED <<entries, context, now, stores>>

\* No entry matches, or the embedding failed: the agent is asked.
Miss(r) ==
    /\ turn[r].at = "looking"
    /\ turn' = [turn EXCEPT ![r].at = "thinking"]
    /\ UNCHANGED <<entries, context, now, stores>>

\* Mutant: an answer that used a tool is stored as well.
ActedStored(r) ==
    /\ turn[r].at = "thinking"
    /\ turn' = [turn EXCEPT ![r].at = "acted"]
    /\ entries' = entries \cup
          {[owner |-> turn[r].asker, context |-> context, text |-> turn[r].text,
            value |-> r, expiry |-> now + TTL, stamp |-> stores]}
    /\ stores' = stores + 1
    /\ UNCHANGED <<context, now>>

\* The agent answered with the help of a tool, or failed: nothing is stored.
Acted(r) ==
    /\ turn[r].at = "thinking"
    /\ turn' = [turn EXCEPT ![r].at = "acted"]
    /\ UNCHANGED <<entries, context, now, stores>>

\* The agent answered by itself: the key is computed again, from what is
\* connected and listed by now, and the text is embedded again.
Answered(r) ==
    /\ turn[r].at = "thinking"
    /\ turn' = [turn EXCEPT ![r] = [@ EXCEPT !.at = "storing", !.key = context]]
    /\ UNCHANGED <<entries, context, now, stores>>

-----------------------------------------------------------------------------
\* The entries cleanup leaves.
Live(s) == {e \in s : e.expiry >= now}

\* The sort by expiry is stable, so entries that expire together stay in the
\* order in which they were appended.
ExpiresBefore(e, f) == e.expiry < f.expiry \/ (e.expiry = f.expiry /\ e.stamp < f.stamp)

\* Mutant: the overflow is one short.
EnforceLimitLate(s) ==
    LET overflow == Cardinality(s) - MaxEntries - 1
    IN  IF MaxEntries <= 0 THEN {}
        ELSE {e \in s : Cardinality({f \in s : ExpiresBefore(f, e)}) >= overflow}

\* Mutant: the list is sorted the other way.
EnforceLimitNewest(s) ==
    LET overflow == Cardinality(s) - MaxEntries
    IN  IF MaxEntries <= 0 THEN {}
        ELSE {e \in s : Cardinality({f \in s : ExpiresBefore(e, f)}) >= overflow}

\* _enforce_semantic_limit deletes the first overflow entries of the sorted list.
EnforceLimit(s) ==
    LET overflow == Cardinality(s) - MaxEntries
    IN  IF MaxEntries <= 0 THEN {}
        ELSE {e \in s : Cardinality({f \in s : ExpiresBefore(f, e)}) >= overflow}

\* store_semantic: expired entries go, the new one is appended, the limit holds.
Store(r) ==
    LET new == [owner |-> turn[r].asker, context |-> turn[r].key, text |-> turn[r].text,
                value |-> r, expiry |-> now + TTL, stamp |-> stores]
    IN  /\ turn[r].at = "storing"
        /\ entries' = EnforceLimit(Live(entries) \cup {new})
        /\ stores' = stores + 1
        /\ turn' = [turn EXCEPT ![r] = [@ EXCEPT !.at = "answered", !.stored = now]]
        /\ UNCHANGED <<context, now>>

\* The second embedding failed: the turn is answered and nothing is stored.
StoreSkipped(r) ==
    /\ turn[r].at = "storing"
    /\ turn' = [turn EXCEPT ![r].at = "answered"]
    /\ UNCHANGED <<entries, context, now, stores>>

\* Another handler connects, disconnects or refreshes.
Reconfigure ==
    /\ context' \in Contexts \ {context}
    /\ UNCHANGED <<entries, turn, now, stores>>

Tick ==
    /\ now < MaxTime
    /\ now' = now + 1
    /\ UNCHANGED <<entries, turn, context, stores>>

Next ==
    \/ \E r \in Requests : \/ Ask(r) \/ Hit(r) \/ Miss(r) \/ Acted(r) \/ Answered(r)
                           \/ Store(r) \/ StoreSkipped(r)
    \/ Reconfigure
    \/ Tick

Spec == Init /\ [][Next]_vars

-----------------------------------------------------------------------------
\* What a turn is served from the cache was answered to the same user in the
\* same session, by the agent alone, for a text as similar as the threshold
\* asks (lookup_semantic, _store_semantic_cache).
ServedWasGiven ==
    \A r \in Requests : turn[r].at = "served" =>
       LET s == turn[r].from
       IN  /\ s \in Requests
           /\ turn[s].at = "answered"
           /\ turn[s].asker = turn[r].asker
           /\ Score[turn[r].text][turn[s].text] >= Threshold

\* The cache never holds more than its limit, and nothing when the limit is
\* zero or negative (_enforce_semantic_limit).
Bounded == Cardinality(entries) <= IF MaxEntries > 0 THEN MaxEntries ELSE 0

\* An answer is served at most a time to live after it went into the cache,
\* however late the embedding of the question comes back and however often the
\* answer was served before (store_semantic, lookup_semantic).
ServedFresh ==
    [][\A r \in Requests : turn[r].at = "looking" /\ turn'[r].at = "served" =>
          now <= turn[turn'[r].from].stored + TTL]_vars

\* A stored answer is kept, and another leaves the cache before it expires
\* only when the cache is full of answers that expire no earlier
\* (store_semantic, _enforce_semantic_limit).
EvictsEarliest ==
    [][stores' # stores =>
          /\ MaxEntries > 0 => \E e \in entries' : e.stamp = stores
          /\ \A e \in entries \ entries' :
                \/ e.expiry < now
                \/ /\ Cardinality(entries') >= MaxEntries
                   /\ \A f \in entries' : e.expiry <= f.expiry]_vars

\* Expired answers do not pile up: whenever an answer is stored, every answer
\* that had expired by then is gone (cleanup in store_semantic).
StoresSweep ==
    [][stores' # stores => \A e \in entries' : e.expiry >= now]_vars

\* "Scope cache entries by user, session, and connected service context"
\* (chat_manager.py): an entry's key names the context its answer was given in.
ContextScoped == \A e \in entries : e.context = turn[e.value].asked
=============================================================================
