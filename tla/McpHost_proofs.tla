--------------------------- MODULE McpHost_proofs ---------------------------
(***************************************************************************)
(* Proofs about McpHost: type correctness, that the connection table only  *)
(* ever offers open connections, each with one owner at most, that the     *)
(* catalogs at rest agree with the table, that handlers only advance, and  *)
(* that every connection lives as ConnectionLife promises.                 *)
(***************************************************************************)
EXTENDS McpHost, FiniteSetTheorems, TLAPS

Catalogs == [Kinds -> [Servers -> 0..2]]

USE DEF fixed

\* A connection that is opening or closing belongs to the handler that says so.
Owned ==
    \A r \in Requests :
        task[r].at \in Owning =>
            /\ task[r].conn \in Conns
            /\ status[task[r].conn] = IF task[r].at = "connecting" THEN "opening" ELSE "closing"

Exclusive ==
    \A r, q \in Requests :
        /\ task[r].at \in Owning
        /\ task[q].at \in Owning
        /\ task[r].conn = task[q].conn
        => r = q

HasOwner ==
    \A c \in Conns :
        status[c] \in {"opening", "closing"} =>
            \E r \in Requests : task[r].at \in Owning /\ task[r].conn = c

TrackedOpen ==
    stopping = "no" =>
        \A s \in Servers : connections[s] # None => status[connections[s]] = "open"

OneServer ==
    \A s, t \in Servers :
        connections[s] # None /\ connections[t] = connections[s] => t = s

Quiet == stopping # "no" => \A r \in Requests : task[r].at = "idle"

\* A handler that waits for a listing knows the server and the catalog, one
\* that waits for a handshake knows the server.
Proper(t) ==
    /\ t.at = "listing" => t.kind \in Kinds
    /\ t.at \in {"listing", "connecting"} => t.srv \in Servers
Asked == \A r \in Requests : Proper(task[r])

\* The inductive invariant.
IInv ==
    /\ TypeOK /\ Owned /\ Exclusive /\ HasOwner
    /\ TrackedOpen /\ OneServer /\ Quiet /\ Asked
-----------------------------------------------------------------------------
\* An idle task owns nothing.
LEMMA IdleTask == Idle \in Tasks /\ Idle.at = "idle" /\ Proper(Idle)
BY DEF Idle, Task, Tasks, Ops, Places, Proper

\* The fields of a task that starts.
LEMMA NewTask ==
    ASSUME NEW op \in Ops, NEW at \in Places, NEW s \in Servers \cup {None},
           NEW c \in Conns \cup {None}
    PROVE  /\ Task(op, at, s, c) \in Tasks
           /\ Task(op, at, s, c).at = at
           /\ Task(op, at, s, c).conn = c
           /\ Task(op, at, s, c).srv = s
BY DEF Task, Tasks

\* The keys of a dictionary are finitely many.
LEMMA Counts == \A B \in SUBSET Servers : IsFiniteSet(B) /\ Cardinality(B) \in Nat
BY HostAssumption, FS_Subset, FS_CardinalityType

LEMMA CountType == Cardinality(Tracked) \in Nat
BY Counts DEF Tracked

\* The head of a refresh loop.
LEMMA LoopTask ==
    ASSUME NEW op \in Ops, NEW k \in Kinds
    PROVE  /\ Loop(op, k) \in Tasks
           /\ Loop(op, k).op = op /\ Loop(op, k).at = "listing" /\ Loop(op, k).kind = k
           /\ Loop(op, k).seen = {}
           /\ Loop(op, k).size = Cardinality(Tracked) /\ Loop(op, k).len = Cardinality(Tracked)
BY CountType DEF Loop, Tasks, Places

\* A handler that waits for the list of s, having gone through the services B.
Asking(t, s, B) == [t EXCEPT !.srv = s, !.conn = connections[s],
                             !.seen = @ \cup B \cup {s},
                             !.len = @ - Cardinality(B) - 1]

LEMMA AskShape ==
    ASSUME TypeOK, NEW t \in Tasks, NEW s \in Servers, NEW B \in SUBSET Servers,
           Cardinality(B) < t.len
    PROVE  /\ Asking(t, s, B) \in Tasks
           /\ Asking(t, s, B).at = t.at /\ Asking(t, s, B).kind = t.kind
           /\ Asking(t, s, B).srv = s /\ Asking(t, s, B).conn = connections[s]
           /\ Asking(t, s, B).seen = t.seen \cup B \cup {s}
           /\ Asking(t, s, B).size = t.size
           /\ Asking(t, s, B).len = t.len - Cardinality(B) - 1
<1>1. Cardinality(B) \in Nat /\ t.len \in Nat
  BY Counts DEF Tasks
<1>2. t.len - Cardinality(B) - 1 \in Nat
  BY <1>1
<1>3. connections[s] \in Conns \cup {None}
  BY DEF TypeOK
<1> QED
  BY <1>2, <1>3 DEF Asking, Tasks

\* The catalog operations keep the catalogs' type.
LEMMA CatalogTypes ==
    ASSUME NEW cat \in Catalogs, NEW k \in Kinds, NEW B \in SUBSET Servers
    PROVE  /\ Cleared(cat, k) \in Catalogs
           /\ WithServices(cat, k, B) \in Catalogs
           /\ \A s \in Servers : WithAnswer(cat, k, s) \in Catalogs
<1>1. cat[k] \in [Servers -> 0..2]
  BY DEF Catalogs
<1>2. Empty \in [Servers -> 0..2]
  BY DEF Empty
<1>3. \A f \in [Servers -> 0..2] : [cat EXCEPT ![k] = f] \in Catalogs
  BY DEF Catalogs
<1>4. Cleared(cat, k) \in Catalogs
  BY <1>2, <1>3 DEF Cleared
<1>5. WithServices(cat, k, B) \in Catalogs
  <2>1. [x \in Servers |-> IF x \in B THEN 1 ELSE cat[k][x]] \in [Servers -> 0..2]
    BY <1>1
  <2> QED
    BY <2>1, <1>3 DEF WithServices, Catalogs
<1>6. ASSUME NEW s \in Servers PROVE WithAnswer(cat, k, s) \in Catalogs
  <2>1. [cat[k] EXCEPT ![s] = 1] \in [Servers -> 0..2]
    BY <1>1
  <2>2. [cat[k] EXCEPT ![s] = IF @ = 0 THEN 1 ELSE 2] \in [Servers -> 0..2]
    BY <1>1
  <2> QED
    BY <2>1, <2>2, <1>3 DEF WithAnswer, Catalogs
<1> QED
  BY <1>4, <1>5, <1>6

\* What a stretch of the refresh loop leaves behind: typed catalogs, and the
\* handler listing or ended.
Settled(r) ==
    /\ catalog' \in Catalogs
    /\ \E t \in Tasks : /\ t.at \notin Owning
                        /\ Proper(t)
                        /\ task' = [task EXCEPT ![r] = t]

\* A refresh that asks a server for its list keeps the types and owns nothing.
LEMMA AskSettles ==
    ASSUME TypeOK, NEW r \in Requests, NEW t \in Tasks, t.at = "listing", t.kind \in Kinds,
           NEW cat \in Catalogs, NEW s \in Servers, NEW B \in SUBSET Servers,
           Ask(r, t, cat, s, B)
    PROVE  Settled(r)
<1> DEFINE u == Asking(t, s, B)
<1>1. /\ catalog' = WithServices(cat, t.kind, B) /\ task' = [task EXCEPT ![r] = u]
      /\ u \in Tasks /\ u.at = "listing" /\ u.kind = t.kind /\ u.srv = s
  <2>1. catalog' = WithServices(cat, t.kind, B) /\ task' = [task EXCEPT ![r] = u] /\ Cardinality(B) < t.len
    BY DEF Ask, Asking, Becomes
  <2> QED
    BY <2>1, AskShape
<1> HIDE DEF u
<1>2. catalog' \in Catalogs
  BY <1>1, CatalogTypes
<1>3. u.at \notin Owning /\ Proper(u)
  BY <1>1 DEF Owning, Proper
<1> QED
  BY <1>1, <1>2, <1>3 DEF Settled

\* So does one that moves on to its next server, its next kind or its end.
LEMMA SweepSettles ==
    ASSUME TypeOK, NEW r \in Requests, NEW t \in Tasks, t.at = "listing", t.kind \in Kinds,
           NEW cat \in Catalogs, Sweep(r, t, cat)
    PROVE  Settled(r)
<1> DEFINE left  == Tracked \ t.seen
           swept == WithServices(cat, t.kind, left)
           next  == NextKind(t.kind)
<1>1. Tracked \subseteq Servers
  BY DEF Tracked
<1>2. swept \in Catalogs
  BY <1>1, CatalogTypes
<1>3. next \in Kinds /\ t.op \in Ops
  BY DEF NextKind, Kinds, Tasks
<1>4. \A j \in Kinds, c \in Catalogs : Cleared(c, j) \in Catalogs
  <2>1. Empty \in [Servers -> 0..2]
    BY DEF Empty
  <2> QED
    BY <2>1 DEF Cleared, Catalogs
<1> USE DEF Sweep
<1>5. CASE \E s \in left \cap stdio, B \in SUBSET (left \ stdio) : Ask(r, t, cat, s, B)
  BY <1>1, <1>5, AskSettles
<1>6. CASE \E s \in Tracked \cap stdio, B \in SUBSET (Tracked \ stdio) :
             Ask(r, Loop(t.op, next), Cleared(swept, next), s, B)
  <2>1. PICK s \in Tracked \cap stdio, B \in SUBSET (Tracked \ stdio) :
             Ask(r, Loop(t.op, next), Cleared(swept, next), s, B)
    BY <1>6
  <2>2. Cleared(swept, next) \in Catalogs
    BY <1>2, <1>3, <1>4
  <2>3. s \in Servers /\ B \in SUBSET Servers
    BY <1>1
  <2> HIDE DEF next, swept
  <2>4. Loop(t.op, next) \in Tasks /\ Loop(t.op, next).at = "listing" /\ Loop(t.op, next).kind \in Kinds
    BY <1>3, LoopTask
  <2> QED
    BY <2>1, <2>2, <2>3, <2>4, AskSettles
<1>7. CASE catalog' = swept /\ Becomes(r, Idle)
  BY <1>2, <1>7, IdleTask DEF Settled, Becomes, Owning
<1>8. CASE /\ catalog' = IF t.kind = "tools"
                         THEN Cleared(Cleared(swept, "resources"), "prompts")
                         ELSE Cleared(swept, "prompts")
           /\ Becomes(r, Idle)
  <2>1. catalog' \in Catalogs
    BY <1>2, <1>4, <1>8 DEF Kinds
  <2> QED
    BY <2>1, <1>8, IdleTask DEF Settled, Becomes, Owning
<1>9. CASE KeysChanged(r, t, cat)
  <2>1. \A B \in SUBSET (Tracked \ (t.seen \cup stdio)) : WithServices(cat, t.kind, B) \in Catalogs
    BY <1>1, CatalogTypes
  <2> QED
    BY <1>9, <2>1, IdleTask DEF KeysChanged, Settled, Becomes, Owning
<1> QED
  BY <1>5, <1>6, <1>7, <1>8, <1>9
-----------------------------------------------------------------------------
\* A step that moves one handler between places where it owns no connection,
\* and leaves the table and the connections alone.
LEMMA Neutral ==
    ASSUME IInv, NEW r \in Requests, stopping = "no", task[r].at \notin Owning,
           Settled(r), UNCHANGED <<status, connections, stopping>>, UNCHANGED fixed
    PROVE  IInv'
<1>1. PICK t \in Tasks :
           t.at \notin Owning /\ Proper(t) /\ task' = [task EXCEPT ![r] = t]
  BY DEF Settled
<1>2. \A q \in Requests : task'[q].at \in Owning => task'[q] = task[q]
  BY <1>1 DEF IInv, TypeOK
<1>3. \A q \in Requests : task[q].at \in Owning => task'[q] = task[q]
  BY <1>1 DEF IInv, TypeOK
<1>4. TypeOK'
  BY <1>1 DEF IInv, TypeOK, Settled, Catalogs
<1>5. Owned'
  BY <1>2 DEF IInv, Owned
<1>6. Exclusive'
  BY <1>2 DEF IInv, Exclusive
<1>7. HasOwner'
  BY <1>3 DEF IInv, HasOwner
<1>8. TrackedOpen' /\ OneServer' /\ Quiet'
  BY DEF IInv, TrackedOpen, OneServer, Quiet
<1>9. Asked'
  BY <1>1 DEF IInv, TypeOK, Asked
<1> QED
  BY <1>4, <1>5, <1>6, <1>7, <1>8, <1>9 DEF IInv

\* No connection, task or catalog entry exists at first.
LEMMA Initially == Init => IInv
<1> SUFFICES ASSUME Init PROVE IInv
  OBVIOUS
<1>1. TypeOK
  <2>1. [stdio |-> stdio, faults |-> faults] \in Deployments
    <3>1. PICK d \in Deployments : stdio = d.stdio /\ faults = d.faults
      BY DEF Init
    <3>2. d = [stdio |-> d.stdio, faults |-> d.faults]
      BY HostAssumption
    <3> QED
      BY <3>1, <3>2
  <2> QED
    BY <2>1, IdleTask DEF Init, TypeOK
<1>2. \A r \in Requests : task[r].at = "idle"
  BY IdleTask DEF Init
<1> QED
  BY <1>1, <1>2 DEF Init, IInv, Owned, Exclusive, HasOwner, TrackedOpen,
                    OneServer, Quiet, Asked, Proper, Owning

\* While a handler is away from idle, the application serves.
LEMMA Serving ==
    ASSUME IInv, NEW r \in Requests, task[r].at # "idle"
    PROVE  stopping = "no"
BY DEF IInv, Quiet

\* What a handler that owns a connection knows of it.
LEMMA OwnerKnows ==
    ASSUME IInv, NEW r \in Requests, task[r].at \in Owning
    PROVE  /\ task[r].conn \in Conns
           /\ stopping = "no"
           /\ status[task[r].conn] \in {"opening", "closing"}
           /\ \A s \in Servers : connections[s] # task[r].conn
           /\ \A q \in Requests :
                 task[q].at \in Owning /\ task[q].conn = task[r].conn => q = r
<1>1. task[r].conn \in Conns /\ status[task[r].conn] \in {"opening", "closing"}
  BY DEF IInv, Owned
<1>2. stopping = "no"
  BY Serving DEF Owning
<1>3. \A s \in Servers : connections[s] # task[r].conn
  BY <1>1, <1>2, HostAssumption DEF IInv, TrackedOpen
<1> QED
  BY <1>1, <1>2, <1>3 DEF IInv, Exclusive

\* The handler r moves on, and the other handlers stay where they are.
Moves(r, t) ==
    /\ task' \in [Requests -> Tasks]
    /\ task'[r] = t
    /\ \A q \in Requests : q # r =>
          /\ task'[q].at = task[q].at /\ task'[q].conn = task[q].conn
          /\ task'[q].srv = task[q].srv /\ task'[q].kind = task[q].kind

LEMMA BecomesMoves ==
    ASSUME IInv, NEW r \in Requests, NEW t \in Tasks, Becomes(r, t)
    PROVE  Moves(r, t)
BY DEF IInv, TypeOK, Becomes, Moves

LEMMA RegisterMoves ==
    ASSUME IInv, NEW r \in Requests, NEW s \in Servers, NEW t \in Tasks, Register(r, s, t)
    PROVE  /\ Moves(r, t)
           /\ \A q \in Requests : q # r =>
                 \E had \in SUBSET Servers : task'[q] = [task[q] EXCEPT !.seen = had]
<1>1. PICK passed \in [{q \in Requests : At(q, "listing")} -> SUBSET (Tracked \cup {s})] :
           /\ connections[s] # None => \A q \in DOMAIN passed : passed[q] = {}
           /\ task' = [q \in Requests |->
                         IF q = r THEN t
                         ELSE IF q \in DOMAIN passed
                         THEN [task[q] EXCEPT !.seen = @ \cup passed[q]]
                         ELSE task[q]]
  BY DEF Register
<1>2. \A q \in Requests : task[q] \in Tasks
  BY DEF IInv, TypeOK
<1>3. ASSUME NEW q \in Requests, NEW had \in SUBSET Servers
      PROVE  /\ [task[q] EXCEPT !.seen = had] \in Tasks
             /\ [task[q] EXCEPT !.seen = had].at = task[q].at
             /\ [task[q] EXCEPT !.seen = had].conn = task[q].conn
             /\ [task[q] EXCEPT !.seen = had].srv = task[q].srv
             /\ [task[q] EXCEPT !.seen = had].kind = task[q].kind
  BY <1>2 DEF Tasks
<1>4. ASSUME NEW q \in Requests, q # r
      PROVE  \E had \in SUBSET Servers : task'[q] = [task[q] EXCEPT !.seen = had]
  <2>1. CASE q \in DOMAIN passed
    <3> DEFINE had == task[q].seen \cup passed[q]
    <3>1. had \in SUBSET Servers
      BY <1>2, <2>1 DEF Tasks, Tracked
    <3>2. task'[q] = [task[q] EXCEPT !.seen = had]
      BY <1>1, <1>4, <2>1
    <3> QED
      BY <3>1, <3>2
  <2>2. CASE q \notin DOMAIN passed
    <3>1. task'[q] = task[q]
      BY <1>1, <1>4, <2>2
    <3>2. task[q] = [task[q] EXCEPT !.seen = task[q].seen] /\ task[q].seen \in SUBSET Servers
      BY <1>2 DEF Tasks
    <3> QED
      BY <3>1, <3>2
  <2> QED
    BY <2>1, <2>2
<1>5. task'[r] = t /\ DOMAIN task' = Requests /\ task' = [q \in Requests |-> task'[q]]
  BY <1>1
<1>6. ASSUME NEW q \in Requests, q # r
      PROVE  /\ task'[q] \in Tasks
             /\ task'[q].at = task[q].at /\ task'[q].conn = task[q].conn
             /\ task'[q].srv = task[q].srv /\ task'[q].kind = task[q].kind
  <2>1. PICK had \in SUBSET Servers : task'[q] = [task[q] EXCEPT !.seen = had]
    BY <1>4, <1>6
  <2> QED
    BY <1>3, <2>1
<1> QED
  BY <1>4, <1>5, <1>6 DEF Moves

\* A handler gives its connection up: it is open or free from now on, and the
\* handler goes on (or ends) owning none.
LEMMA GivesUp ==
    ASSUME IInv, NEW r \in Requests, task[r].at \in Owning,
           NEW t \in Tasks, t.at \notin Owning, Proper(t), Moves(r, t),
           NEW life \in {"open", "free"},
           status' = [status EXCEPT ![task[r].conn] = life],
           catalog' = catalog, stopping' = stopping, UNCHANGED fixed,
           \/ connections' = connections
           \/ /\ life = "open"
              /\ task[r].srv \in Servers \cup {None}
              /\ connections' = [connections EXCEPT ![task[r].srv] = task[r].conn]
    PROVE  IInv'
<1> DEFINE c == task[r].conn
<1>1. /\ c \in Conns
      /\ stopping = "no"
      /\ \A s \in Servers : connections[s] # c
      /\ \A q \in Requests : task[q].at \in Owning /\ task[q].conn = c => q = r
  BY OwnerKnows
<1>2. TypeOK'
  BY <1>1 DEF IInv, TypeOK, Moves
<1>3. \A q \in Requests : q # r =>
         /\ task'[q].at = task[q].at /\ task'[q].conn = task[q].conn
         /\ task'[q].srv = task[q].srv /\ task'[q].kind = task[q].kind
  BY DEF Moves
<1>4. task'[r].at \notin Owning /\ task'[r] = t
  BY DEF Moves
<1>5. \A d \in Conns : d # c => status'[d] = status[d]
  BY DEF IInv, TypeOK
<1>6. status'[c] = life
  BY <1>1 DEF IInv, TypeOK
<1>7. Owned'
  BY <1>1, <1>3, <1>4, <1>5 DEF IInv, Owned
<1>8. Exclusive'
  BY <1>3, <1>4 DEF IInv, Exclusive
<1>9. HasOwner'
  BY <1>3, <1>5, <1>6 DEF IInv, HasOwner
<1>10. \A s \in Servers : connections'[s] = connections[s] \/ (connections'[s] = c /\ s = task[r].srv /\ life = "open")
  BY DEF IInv, TypeOK
<1>11. TrackedOpen'
  BY <1>1, <1>5, <1>6, <1>10 DEF IInv, TrackedOpen, TypeOK
<1>12. OneServer'
  BY <1>1, <1>10, HostAssumption DEF IInv, OneServer
<1>13. Quiet'
  BY <1>1 DEF Quiet
<1>14. Asked'
  BY <1>3, <1>4 DEF IInv, Asked, Proper
<1> QED
  BY <1>2, <1>7, <1>8, <1>9, <1>11, <1>12, <1>13, <1>14 DEF IInv
-----------------------------------------------------------------------------
(* One lemma per group of handler actions *)

\* A request that moves to a place where it owns nothing keeps the types.
LEMMA BecomesSettles ==
    ASSUME IInv, NEW r \in Requests, NEW t \in Tasks, t.at \notin Owning,
           Proper(t), Becomes(r, t), catalog' = catalog
    PROVE  Settled(r)
BY DEF IInv, TypeOK, Settled, Becomes, Catalogs

\* A request that waits for its record or report owns nothing.
LEMMA Bystanding ==
    ASSUME NEW op \in Ops, NEW at \in {"auditing", "reporting"}
    PROVE  /\ Task(op, at, None, None) \in Tasks
           /\ Task(op, at, None, None).at \notin Owning
           /\ Proper(Task(op, at, None, None))
BY NewTask DEF Places, Owning, Proper

\* A connect makes a fresh connection and becomes its only owner.
LEMMA ConnectStep ==
    ASSUME IInv, NEW r \in Requests, Connect(r), UNCHANGED fixed
    PROVE  IInv'
<1>1. stopping = "no" /\ task[r].at = "idle"
  BY DEF Connect, Arrives, At
<1>2. UNCHANGED <<connections, catalog, stopping>>
  BY DEF Connect
<1>3. CASE Becomes(r, Task("none", "reporting", None, None)) /\ UNCHANGED status
  <2>1. \A op \in Ops : /\ Task(op, "reporting", None, None) \in Tasks
                        /\ Task(op, "reporting", None, None).at \notin Owning
                        /\ Proper(Task(op, "reporting", None, None))
                        /\ Task(op, "auditing", None, None) \in Tasks
                        /\ Task(op, "auditing", None, None).at \notin Owning
                        /\ Proper(Task(op, "auditing", None, None))
    BY Bystanding
  <2>2. Settled(r)
    BY <1>2, <1>3, <2>1, BecomesSettles DEF Ops
  <2> QED
    BY <1>1, <1>2, <1>3, <2>2, Neutral DEF Owning
<1>4. CASE \E s \in Servers : ConnectFresh(r, s)
  <2>1. PICK s \in Servers, c \in Conns :
             /\ Fresh(c)
             /\ status' = [status EXCEPT ![c] = "opening"]
             /\ Becomes(r, Task("change", "connecting", s, c))
    BY <1>4 DEF ConnectFresh
  <2> DEFINE t == Task("change", "connecting", s, c)
  <2>2. t \in Tasks /\ t.at = "connecting" /\ t.conn = c /\ t.srv = s
    BY NewTask DEF Ops, Places
  <2>3. task'[r] = t /\ \A q \in Requests : q # r => task'[q] = task[q]
    BY <2>1 DEF IInv, TypeOK, Becomes
  <2>4. status'[c] = "opening" /\ \A d \in Conns : d # c => status'[d] = status[d]
    BY <2>1 DEF IInv, TypeOK
  <2>5. \A q \in Requests : task[q].conn # c
    BY <2>1 DEF Fresh
  <2>6. TypeOK'
    BY <1>2, <2>1, <2>2 DEF IInv, TypeOK, Becomes
  <2>7. Owned'
    BY <2>2, <2>3, <2>4, <2>5 DEF IInv, Owned
  <2>8. Exclusive'
    BY <2>2, <2>3, <2>5 DEF IInv, Exclusive
  <2>9. HasOwner'
    BY <1>1, <2>2, <2>3, <2>4 DEF IInv, HasOwner, Owning
  <2>10. TrackedOpen' /\ OneServer' /\ Quiet'
    BY <1>1, <1>2, <2>1, <2>4 DEF IInv, TypeOK, TrackedOpen, OneServer, Quiet, Fresh
  <2>11. Asked'
    BY <2>2, <2>3 DEF IInv, Asked, Proper
  <2> QED
    BY <2>6, <2>7, <2>8, <2>9, <2>10, <2>11 DEF IInv
<1> QED
  BY <1>3, <1>4 DEF Connect

\* Fails ends a handler or leaves it reporting; it never keeps a connection.
LEMMA FailsInto ==
    ASSUME IInv, NEW r \in Requests, Fails(r)
    PROVE  \E t \in Tasks : t.at \notin Owning /\ Proper(t) /\ Becomes(r, t)
<1>1. task[r].op \in Ops
  BY DEF IInv, TypeOK, Tasks
<1> QED
  BY <1>1, IdleTask, Bystanding DEF Fails, Owning, Ops

\* The end of a handshake: the connection is open in the table, or being closed.
LEMMA HandshakeStep ==
    ASSUME IInv, NEW r \in Requests,
           Connected(r) \/ ConnectFails(r) \/ FailedCloses(r), UNCHANGED fixed
    PROVE  IInv'
<1>1. CASE Connected(r)
  <2>1. task[r].srv \in Servers
    BY <1>1 DEF Connected, At, IInv, Asked, Proper
  <2> DEFINE t == Task("change", "auditing", None, None)
  <2>2. t \in Tasks /\ t.at \notin Owning /\ Proper(t)
    BY Bystanding DEF Ops
  <2> HIDE DEF t
  <2>3. Register(r, task[r].srv, t)
    BY <1>1 DEF Connected, t
  <2>4. Moves(r, t)
    BY <2>1, <2>2, <2>3, RegisterMoves
  <2>5. connections' = [connections EXCEPT ![task[r].srv] = task[r].conn]
    BY <2>3 DEF Register
  <2> QED
    BY <1>1, <2>1, <2>2, <2>4, <2>5, GivesUp DEF Connected, At, Owning
<1>2. CASE ConnectFails(r) /\ task[r].srv \notin stdio
  <2>1. PICK t \in Tasks : t.at \notin Owning /\ Proper(t) /\ Becomes(r, t)
    BY <1>2, FailsInto DEF ConnectFails
  <2> QED
    BY <1>2, <2>1, BecomesMoves, GivesUp DEF ConnectFails, At, Owning
<1>3. CASE ConnectFails(r) /\ task[r].srv \in stdio
  <2> DEFINE c == task[r].conn
             t == [task[r] EXCEPT !.at = "failing"]
  <2>1. task[r].at = "connecting" /\ task[r].at \in Owning /\ task[r] \in Tasks
    BY <1>3 DEF ConnectFails, At, Owning, IInv, TypeOK
  <2>2. t \in Tasks /\ t.at = "failing" /\ t.conn = c
    BY <2>1 DEF Tasks, Places
  <2> HIDE DEF t
  <2>3. /\ c \in Conns /\ stopping = "no"
        /\ \A s \in Servers : connections[s] # c
        /\ \A q \in Requests : task[q].at \in Owning /\ task[q].conn = c => q = r
    BY <2>1, OwnerKnows
  <2>4. task' = [task EXCEPT ![r] = t] /\ status' = [status EXCEPT ![c] = "closing"]
    BY <1>3 DEF ConnectFails, Becomes, t
  <2>5. task'[r] = t /\ \A q \in Requests : q # r => task'[q] = task[q]
    BY <2>4 DEF IInv, TypeOK
  <2>6. status'[c] = "closing" /\ \A d \in Conns : d # c => status'[d] = status[d]
    BY <2>3, <2>4 DEF IInv, TypeOK
  <2>7. UNCHANGED <<connections, catalog, stopping>>
    BY <1>3 DEF ConnectFails
  <2>8. TypeOK'
    BY <2>2, <2>4, <2>7 DEF IInv, TypeOK
  <2>9. Owned'
    BY <2>1, <2>2, <2>3, <2>5, <2>6 DEF IInv, Owned
  <2>10. Exclusive'
    BY <2>1, <2>2, <2>5 DEF IInv, Exclusive, Owning
  <2>11. HasOwner'
    BY <2>1, <2>2, <2>5, <2>6 DEF IInv, HasOwner, Owning
  <2>12. TrackedOpen' /\ OneServer' /\ Quiet'
    BY <2>3, <2>6, <2>7, HostAssumption DEF IInv, TypeOK, TrackedOpen, OneServer, Quiet
  <2>13. Asked'
    BY <2>2, <2>5 DEF IInv, Asked, Proper
  <2> QED
    BY <2>8, <2>9, <2>10, <2>11, <2>12, <2>13 DEF IInv
<1>4. CASE FailedCloses(r)
  <2>1. PICK t \in Tasks : t.at \notin Owning /\ Proper(t) /\ Becomes(r, t)
    BY <1>4, FailsInto DEF FailedCloses
  <2> QED
    BY <1>4, <2>1, BecomesMoves, GivesUp DEF FailedCloses, At, Owning
<1> QED
  BY <1>1, <1>2, <1>3, <1>4

\* Pop changes the place of its own handler only.
LEMMA PopShape ==
    ASSUME IInv, NEW r \in Requests, NEW s \in Servers, NEW t \in Tasks, Pop(r, s, t)
    PROVE  /\ task' \in [Requests -> Tasks]
           /\ task'[r] = t
           /\ \A q \in Requests : q # r =>
                 /\ task'[q].at = task[q].at /\ task'[q].conn = task[q].conn
                 /\ task'[q].srv = task[q].srv /\ task'[q].kind = task[q].kind
           /\ connections' \in [Servers -> Conns \cup {None}]
           /\ connections'[s] = None
           /\ \A x \in Servers : x # s => connections'[x] = connections[x]
<1>1. \A q \in Requests : task[q] \in Tasks
  BY DEF IInv, TypeOK
<1>2. \A q \in Requests : [task[q] EXCEPT !.seen = @ \ {s}] \in Tasks
  BY <1>1 DEF Tasks
<1> QED
  BY <1>1, <1>2 DEF Pop, IInv, TypeOK, Tasks

\* A disconnect takes a connection out of the table and becomes its only owner.
LEMMA DisconnectStep ==
    ASSUME IInv, NEW r \in Requests, Disconnect(r), UNCHANGED fixed
    PROVE  IInv'
<1>1. stopping = "no" /\ task[r].at = "idle"
  BY DEF Disconnect, Arrives, At
<1>2. UNCHANGED <<catalog, stopping>>
  BY DEF Disconnect
<1>3. CASE /\ \/ Becomes(r, Task("none", "reporting", None, None))
              \/ Becomes(r, Task("change", "auditing", None, None))
           /\ UNCHANGED <<status, connections>>
  <2>1. \A op \in Ops : /\ Task(op, "reporting", None, None) \in Tasks
                        /\ Task(op, "reporting", None, None).at \notin Owning
                        /\ Proper(Task(op, "reporting", None, None))
                        /\ Task(op, "auditing", None, None) \in Tasks
                        /\ Task(op, "auditing", None, None).at \notin Owning
                        /\ Proper(Task(op, "auditing", None, None))
    BY Bystanding
  <2>2. Settled(r)
    BY <1>2, <1>3, <2>1, BecomesSettles DEF Ops
  <2> QED
    BY <1>1, <1>2, <1>3, <2>2, Neutral DEF Owning
<1>4. ASSUME NEW s \in Servers, connections[s] # None,
             NEW place \in {"auditing", "closing"}, NEW x \in Servers \cup {None},
             NEW c \in Conns \cup {None},
             place = "closing" => c = connections[s],
             Pop(r, s, Task("change", place, x, c)),
             status' = [status EXCEPT ![connections[s]] =
                           IF place = "closing" THEN "closing" ELSE "free"]
      PROVE  IInv'
  <2> DEFINE d == connections[s]
             t == Task("change", place, x, c)
  <2>1. d \in Conns /\ status[d] = "open"
    BY <1>1, <1>4 DEF IInv, TypeOK, TrackedOpen
  <2>2. t \in Tasks /\ t.at = place /\ t.conn = c
    BY NewTask DEF Ops, Places
  <2> HIDE DEF t
  <2>3. /\ task' \in [Requests -> Tasks]
        /\ task'[r] = t
        /\ \A q \in Requests : q # r =>
              /\ task'[q].at = task[q].at /\ task'[q].conn = task[q].conn
              /\ task'[q].srv = task[q].srv /\ task'[q].kind = task[q].kind
        /\ connections' \in [Servers -> Conns \cup {None}]
        /\ connections'[s] = None
        /\ \A y \in Servers : y # s => connections'[y] = connections[y]
    BY <1>4, <2>2, PopShape DEF t
  <2>4. /\ status'[d] = IF place = "closing" THEN "closing" ELSE "free"
        /\ \A e \in Conns : e # d => status'[e] = status[e]
    BY <1>4, <2>1 DEF IInv, TypeOK
  <2>5. \A q \in Requests : task[q].at \in Owning => task[q].conn # d
    BY <2>1 DEF IInv, Owned
  <2>6. TypeOK'
    BY <1>2, <1>4, <2>3 DEF IInv, TypeOK
  <2>7. Owned'
    BY <1>4, <2>1, <2>2, <2>3, <2>4, <2>5 DEF IInv, Owned, Owning
  <2>8. Exclusive'
    BY <1>4, <2>2, <2>3, <2>5 DEF IInv, Exclusive, Owning
  <2>9. HasOwner'
    BY <1>1, <1>4, <2>1, <2>2, <2>3, <2>4 DEF IInv, HasOwner, Owning
  <2>10. TrackedOpen'
    BY <1>1, <1>4, <2>1, <2>3, <2>4 DEF IInv, TypeOK, TrackedOpen, OneServer
  <2>11. OneServer' /\ Quiet'
    BY <1>1, <1>2, <2>3 DEF IInv, OneServer, Quiet
  <2>12. Asked'
    BY <1>4, <2>2, <2>3 DEF IInv, Asked, Proper
  <2> QED
    BY <2>6, <2>7, <2>8, <2>9, <2>10, <2>11, <2>12 DEF IInv
<1>5. CASE \E s \in Servers :
             /\ connections[s] # None
             /\ Pop(r, s, Task("change", "auditing", None, None))
             /\ status' = [status EXCEPT ![connections[s]] = "free"]
  BY <1>4, <1>5
<1>6. CASE \E s \in Servers :
             /\ connections[s] # None
             /\ Pop(r, s, Task("change", "closing", s, connections[s]))
             /\ status' = [status EXCEPT ![connections[s]] = "closing"]
  <2>1. \A s \in Servers : connections[s] \in Conns \cup {None}
    BY DEF IInv, TypeOK
  <2> QED
    BY <1>4, <1>6, <2>1
<1> QED
  BY <1>3, <1>5, <1>6 DEF Disconnect

\* The end of a close: the connection is closed and nobody owns it.
LEMMA CloseStep ==
    ASSUME IInv, NEW r \in Requests, Closed(r) \/ CloseRaises(r), UNCHANGED fixed
    PROVE  IInv'
<1>1. CASE Closed(r)
  <2>1. /\ Task("change", "auditing", None, None) \in Tasks
        /\ Task("change", "auditing", None, None).at \notin Owning
        /\ Proper(Task("change", "auditing", None, None))
    BY Bystanding DEF Ops
  <2> QED
    BY <1>1, <2>1, BecomesMoves, GivesUp DEF Closed, At, Owning
<1>2. CASE CloseRaises(r)
  BY <1>2, IdleTask, BecomesMoves, GivesUp DEF CloseRaises, At, Owning
<1> QED
  BY <1>1, <1>2

\* Every stretch of the refresh, whoever runs it.
LEMMA RefreshStep ==
    ASSUME IInv, NEW r \in Requests,
           Refresh(r) \/ AuditWritten(r) \/ AuditFails(r) \/ Listed(r) \/ ListFails(r),
           UNCHANGED fixed
    PROVE  IInv'
<1>1. TypeOK /\ task[r] \in Tasks /\ catalog \in Catalogs
  BY DEF IInv, TypeOK, Catalogs
<1>2. \A op \in Ops : StartRefresh(r, op) => Settled(r)
  <2>1. "tools" \in Kinds /\ {} \in SUBSET Servers
    BY DEF Kinds
  <2>2. Cleared(catalog, "tools") \in Catalogs
    BY <1>1, <2>1, CatalogTypes
  <2> QED
    BY <1>1, <2>1, <2>2, LoopTask, SweepSettles DEF StartRefresh
<1>3. CASE Refresh(r)
  <2>1. Settled(r)
    BY <1>2, <1>3 DEF Refresh, Ops
  <2> QED
    BY <1>3, <2>1, Neutral DEF Refresh, Arrives, At, Owning
<1>4. CASE AuditWritten(r)
  <2>1. Settled(r)
    BY <1>1, <1>2, <1>4 DEF AuditWritten, Tasks
  <2> QED
    BY <1>4, <2>1, Neutral, Serving DEF AuditWritten, At, Owning
<1>5. CASE AuditFails(r)
  <2>1. Settled(r)
    BY <1>5, IdleTask, BecomesSettles DEF AuditFails, Owning
  <2> QED
    BY <1>5, <2>1, Neutral, Serving DEF AuditFails, At, Owning
<1>6. CASE Listed(r)
  <2> DEFINE t   == task[r]
             cat == WithAnswer(catalog, t.kind, t.srv)
  <2>1. t.kind \in Kinds /\ cat \in Catalogs
    <3>1. t.kind \in Kinds /\ t.srv \in Servers
      BY <1>6 DEF Listed, At, IInv, Asked, Proper
    <3> QED
      BY <1>1, <3>1, CatalogTypes
  <2>2. t.at = "listing" /\ t \in Tasks
    BY <1>1, <1>6 DEF Listed, At
  <2>3. \/ catalog' = cat /\ Becomes(r, Idle)
        \/ Sweep(r, t, cat)
    BY <1>6 DEF Listed
  <2> HIDE DEF t, cat
  <2>4. Settled(r)
    BY <1>1, <2>1, <2>2, <2>3, IdleTask, SweepSettles DEF Settled, Becomes, Owning
  <2> QED
    BY <1>6, <2>4, Neutral, Serving DEF Listed, At, Owning
<1>7. CASE ListFails(r)
  <2>1. Settled(r)
    BY <1>7, IdleTask, FailsInto, BecomesSettles DEF ListFails, Owning
  <2> QED
    BY <1>7, <2>1, Neutral, Serving DEF ListFails, At, Owning
<1> QED
  BY <1>3, <1>4, <1>5, <1>6, <1>7

\* Running a tool owns no connection.
LEMMA ExecuteStep ==
    ASSUME IInv, NEW r \in Requests, Execute(r) \/ CallEnds(r) \/ Report(r), UNCHANGED fixed
    PROVE  IInv'
<1>1. /\ Task("none", "reporting", None, None) \in Tasks
      /\ Task("none", "reporting", None, None).at \notin Owning
      /\ Proper(Task("none", "reporting", None, None))
  BY Bystanding DEF Ops
<1>2. CASE Execute(r)
  <2>1. UNCHANGED <<status, connections, catalog, stopping>>
    BY <1>2 DEF Execute
  <2>2. stopping = "no" /\ task[r].at \notin Owning
    BY <1>2 DEF Execute, Arrives, At, Owning
  <2>3. \A s \in Servers : LET t == Task("none", "calling", s, connections[s])
                           IN  t \in Tasks /\ t.at \notin Owning /\ Proper(t)
    BY NewTask DEF IInv, TypeOK, Ops, Places, Owning, Proper
  <2>4. \/ Becomes(r, Task("none", "reporting", None, None))
        \/ \E s \in Servers : Becomes(r, Task("none", "calling", s, connections[s]))
    BY <1>2 DEF Execute
  <2>5. Settled(r)
    BY <1>1, <2>1, <2>3, <2>4, BecomesSettles
  <2> QED
    BY <2>1, <2>2, <2>5, Neutral
<1>3. CASE CallEnds(r)
  <2>1. Settled(r)
    BY <1>1, <1>3, BecomesSettles DEF CallEnds
  <2> QED
    BY <1>3, <2>1, Neutral, Serving DEF CallEnds, At, Owning
<1>4. CASE Report(r)
  <2>1. Settled(r)
    BY <1>4, IdleTask, BecomesSettles DEF Report, Owning
  <2> QED
    BY <1>4, <2>1, Neutral, Serving DEF Report, At, Owning
<1> QED
  BY <1>2, <1>3, <1>4

\* Shutdown begins with no handler running, and only closes what is in the table.
LEMMA LifespanStep ==
    ASSUME IInv, Lifespan, UNCHANGED fixed
    PROVE  IInv'
<1>1. CASE Relaunch
  <2>1. TypeOK'
    BY <1>1, IdleTask DEF Relaunch, TypeOK, IInv
  <2>2. \A r \in Requests : task'[r].at = "idle"
    BY <1>1, IdleTask DEF Relaunch
  <2> QED
    BY <1>1, <2>1, <2>2 DEF Relaunch, IInv, Owned, Exclusive, HasOwner, TrackedOpen,
                            OneServer, Quiet, Asked, Proper, Owning
<1>2. CASE /\ stopping' # "no"
           /\ stopping' \in {"yes", "done"}
           /\ UNCHANGED <<catalog, task>>
           /\ connections' = connections \/ connections' = [s \in Servers |-> None]
           /\ \/ status' = status
              \/ \E c \in Conns : status[c] = "open" /\ status' = [status EXCEPT ![c] = "free"]
           /\ \A r \in Requests : task[r].at = "idle"
  <2>1. TypeOK'
    BY <1>2 DEF IInv, TypeOK
  <2>2. Owned' /\ Exclusive' /\ Quiet' /\ Asked' /\ TrackedOpen'
    BY <1>2 DEF Owned, Exclusive, Quiet, Asked, Proper, TrackedOpen, Owning
  <2>3. HasOwner'
    <3>1. \A c \in Conns : status[c] \notin {"opening", "closing"}
      BY <1>2 DEF IInv, HasOwner, Owning
    <3>2. \A c \in Conns : status'[c] \notin {"opening", "closing"}
      BY <1>2, <3>1 DEF IInv, TypeOK
    <3> QED
      BY <3>2 DEF HasOwner
  <2>4. OneServer'
    BY <1>2 DEF IInv, OneServer
  <2> QED
    BY <2>1, <2>2, <2>3, <2>4 DEF IInv
<1>3. CASE ShutdownBegins
  BY <1>2, <1>3 DEF ShutdownBegins, At
<1>4. stopping = "yes" => \A r \in Requests : task[r].at = "idle"
  BY DEF IInv, Quiet
<1>5. \A s \in Tracked : connections[s] \in Conns
  BY DEF IInv, TypeOK, Tracked
<1>6. CASE ShutdownCloses
  BY <1>2, <1>4, <1>5, <1>6 DEF ShutdownCloses
<1>7. CASE ShutdownEnds
  BY <1>2, <1>4, <1>7 DEF ShutdownEnds
<1>8. CASE ShutdownRaises
  BY <1>2, <1>4, <1>5, <1>8 DEF ShutdownRaises
<1> QED
  BY <1>1, <1>3, <1>6, <1>7, <1>8 DEF Lifespan

\* Every step of the host keeps the invariant.
LEMMA Inductive == IInv /\ [Next]_vars => IInv'
<1> SUFFICES ASSUME IInv, [Next]_vars PROVE IInv'
  OBVIOUS
<1>1. ASSUME NEW r \in Requests, Handler(r), UNCHANGED fixed PROVE IInv'
  BY <1>1, ConnectStep, HandshakeStep, DisconnectStep, CloseStep, RefreshStep,
     ExecuteStep DEF Handler
<1>2. CASE Lifespan /\ UNCHANGED fixed
  BY <1>2, LifespanStep
<1>3. CASE UNCHANGED vars
  BY <1>3 DEF vars, IInv, TypeOK, Owned, Exclusive, HasOwner, TrackedOpen,
              OneServer, Quiet, Asked, Proper
<1> QED
  BY <1>1, <1>2, <1>3 DEF Next
-----------------------------------------------------------------------------
\* In every reachable state each half-open connection is owned by one handler, and
\* while the application serves the table holds open ones (ServerManager).
THEOREM Invariance == Spec => []IInv
BY Initially, Inductive, PTL DEF Spec

\* Type correctness of the host, for any sets of requests, servers,
\* connections and users, and any access rules.
THEOREM TypeCorrect == Spec => []TypeOK
<1>1. IInv => TypeOK
  BY DEF IInv
<1> QED
  BY <1>1, Invariance, PTL

\* While the application serves, every entry of ServerManager.connections is
\* an open connection, of that server alone: execute never meets a session
\* that is opening, closing or closed.
THEOREM TrackedConnectionsAreOpen == Spec => []TrackedIsOpen
<1>1. IInv => TrackedIsOpen
  BY DEF IInv, TrackedOpen, OneServer, TrackedIsOpen, Tracked
<1> QED
  BY <1>1, Invariance, PTL

\* A connection that is being opened or closed has exactly one handler that
\* does so.
THEOREM HalfOpenHasOneOwner == Spec => []SoleOwner
<1>1. ASSUME IInv PROVE SoleOwner
  <2>1. SUFFICES ASSUME NEW c \in Conns,
                        NEW owners, owners = {r \in Requests : task[r].at \in Owning /\ task[r].conn = c}
                 PROVE  /\ \A r, q \in owners : r = q
                        /\ status[c] \in {"opening", "closing"} <=> owners # {}
    BY DEF SoleOwner
  <2>2. \A r, q \in owners : r = q
    BY <1>1, <2>1 DEF IInv, Exclusive
  <2>3. status[c] \in {"opening", "closing"} => owners # {}
    BY <1>1, <2>1 DEF IInv, HasOwner
  <2>4. owners # {} => status[c] \in {"opening", "closing"}
    BY <1>1, <2>1 DEF IInv, Owned
  <2> QED
    BY <2>2, <2>3, <2>4
<1> QED
  BY <1>1, Invariance, PTL
-----------------------------------------------------------------------------
(* The catalogs: what they lack or list in excess, some handler will mend *)

Before(j, k) == j # k /\ (j = "tools" \/ k = "prompts")

\* A handler with a whole refresh still to come, and one whose refresh will not
\* be cut short unless the table changes first.
Restarts(r) == task[r].at \in {"closing", "auditing"}
Intact(t) ==
    /\ Cardinality(Tracked) = t.size
    /\ Cardinality(Tracked \ t.seen) <= t.len
OnCourse(r) ==
    /\ task[r].at = "listing"
    /\ Intact(task[r])
    /\ task[r].srv \in Tracked /\ connections[task[r].srv] = task[r].conn

WillList(r, k, s) ==
    \/ Restarts(r)
    \/ /\ OnCourse(r)
       /\ \/ Before(task[r].kind, k)
          \/ task[r].kind = k /\ (task[r].srv = s \/ s \notin task[r].seen)
WillClear(r, k) == Restarts(r) \/ (OnCourse(r) /\ Before(task[r].kind, k))

Due(k, s) == k = "tools" \/ s \in stdio

Completing ==
    \A s \in Tracked, k \in Kinds :
        Due(k, s) => catalog[k][s] > 0 \/ \E r \in Requests : WillList(r, k, s)

Pruning ==
    \A s \in Servers \ Tracked, k \in Kinds :
        catalog[k][s] > 0 => \E r \in Requests : WillClear(r, k)

\* A connection that is being listed was in the table when it was asked: it is
\* not one of a handshake, and if it is in the table it is its own server's.
Listens ==
    \A r \in Requests : task[r].at = "listing" =>
        /\ task[r].conn \in Conns
        /\ \A q \in Requests : task[q].at \in {"connecting", "failing"} => task[q].conn # task[r].conn
        /\ \A s \in Servers : connections[s] = task[r].conn => s = task[r].srv

\* Mending is for behaviours whose calls do not fail.
Mended ==
    stopping = "no" /\ faults = {} => Completing /\ (Leaked = {} => Pruning)

\* The entries of a catalog after each operation on it.
LEMMA Entries ==
    ASSUME NEW cat \in Catalogs, NEW k \in Kinds, NEW B \in SUBSET Servers,
           NEW x \in Servers, NEW j \in Kinds, NEW s \in Servers
    PROVE  /\ Cleared(cat, k)[j][s] = IF j = k THEN 0 ELSE cat[j][s]
           /\ WithServices(cat, k, B)[j][s] =
                IF k = "tools" /\ j = "tools" /\ s \in B THEN 1 ELSE cat[j][s]
           /\ WithAnswer(cat, k, x)[j][s] > 0 <=> cat[j][s] > 0 \/ (j = k /\ s = x)
<1>1. /\ cat \in [Kinds -> [Servers -> 0..2]] /\ cat[j] \in [Servers -> 0..2] /\ cat[j][s] \in 0..2
      /\ cat[k] \in [Servers -> 0..2] /\ cat[k][x] \in 0..2
  BY DEF Catalogs
<1>2. \A f : [cat EXCEPT ![k] = f][j] = IF j = k THEN f ELSE cat[j]
  BY <1>1
<1>3. Cleared(cat, k)[j][s] = IF j = k THEN 0 ELSE cat[j][s]
  BY <1>2 DEF Cleared, Empty
<1>4. WithServices(cat, k, B)[j][s] =
        IF k = "tools" /\ j = "tools" /\ s \in B THEN 1 ELSE cat[j][s]
  <2> DEFINE f == [y \in Servers |-> IF y \in B THEN 1 ELSE cat[k][y]]
  <2>1. WithServices(cat, k, B) = IF k # "tools" THEN cat ELSE [cat EXCEPT ![k] = f]
    BY DEF WithServices
  <2>2. f[s] = IF s \in B THEN 1 ELSE cat[k][s]
    OBVIOUS
  <2> HIDE DEF f
  <2> QED
    BY <1>2, <2>1, <2>2
<1>5. WithAnswer(cat, k, x)[j][s] > 0 <=> cat[j][s] > 0 \/ (j = k /\ s = x)
  <2> DEFINE g == [cat[k] EXCEPT ![x] = 1]
             h == [cat[k] EXCEPT ![x] = IF cat[k][x] = 0 THEN 1 ELSE 2]
  <2>1. WithAnswer(cat, k, x) = IF k = "tools" THEN [cat EXCEPT ![k] = g] ELSE [cat EXCEPT ![k] = h]
    BY DEF WithAnswer
  <2>2. g[s] = IF s = x THEN 1 ELSE cat[k][s]
    BY <1>1
  <2>3. h[s] = IF s = x THEN IF cat[k][x] = 0 THEN 1 ELSE 2 ELSE cat[k][s]
    BY <1>1
  <2> HIDE DEF g, h
  <2> QED
    BY <1>1, <1>2, <2>1, <2>2, <2>3
<1> QED
  BY <1>3, <1>4, <1>5

LEMMA ClearedEntries ==
    \A cat \in Catalogs, k, j \in Kinds, s \in Servers :
       Cleared(cat, k)[j][s] = IF j = k THEN 0 ELSE cat[j][s]
BY Entries, {} \in SUBSET Servers

\* What a stretch of a refresh that runs on with the table as it is does to the
\* catalogs: what it had still to list is listed or will be, it lists nothing
\* that is not tracked, and it has cleared the later catalogs or will.
Mends(r, k, cat, seen) ==
    /\ \A s \in Tracked, j \in Kinds :
          /\ Due(j, s)
          /\ Before(k, j) \/ (j = k /\ s \notin seen) \/ cat[j][s] > 0
          => catalog'[j][s] > 0 \/ WillList(r, j, s)'
    /\ \A s \in Servers \ Tracked, j \in Kinds : catalog'[j][s] > 0 =>
          cat[j][s] > 0 /\ (Before(k, j) => WillClear(r, j)')
    /\ task'[r].at \notin {"connecting", "failing"}
    /\ task'[r].at = "listing" =>
          task'[r].srv \in Tracked /\ task'[r].conn = connections[task'[r].srv]
    /\ \A q \in Requests : q # r => task'[q] = task[q]

\* What a loop has left after it has gone through B and s.
LEMMA LeftAfter ==
    ASSUME NEW seen \in SUBSET Servers, NEW s \in Tracked \ seen,
           NEW B \in SUBSET (Tracked \ (seen \cup {s})), NEW len \in Nat,
           Cardinality(Tracked \ seen) <= len
    PROVE  Cardinality(Tracked \ (seen \cup B \cup {s})) <= len - Cardinality(B) - 1
<1> DEFINE left == Tracked \ seen
           gone == B \cup {s}
<1>1. left \in SUBSET Servers /\ B \in SUBSET Servers /\ s \notin B
  BY DEF Tracked
<1>2. IsFiniteSet(left) /\ IsFiniteSet(B) /\ Cardinality(left) \in Nat /\ Cardinality(B) \in Nat
  BY <1>1, Counts
<1>3. IsFiniteSet(gone) /\ Cardinality(gone) = Cardinality(B) + 1
  BY <1>1, <1>2, FS_AddElement
<1>4. left \cap gone = gone
  BY <1>1
<1>5. Cardinality(left \ gone) = Cardinality(left) - Cardinality(left \cap gone)
  BY <1>2, FS_Difference
<1>6. left \ gone = Tracked \ (seen \cup B \cup {s})
  OBVIOUS
<1> HIDE DEF left, gone
<1>7. Cardinality(left) <= len
  BY DEF left
<1>8. Cardinality(left \ gone) = Cardinality(left) - (Cardinality(B) + 1)
  BY <1>3, <1>4, <1>5
<1>9. Cardinality(left \ gone) <= len - Cardinality(B) - 1
  BY <1>2, <1>7, <1>8
<1> QED
  BY <1>6, <1>9

\* A loop that asks the server s: what is left is listed later or is s.
LEMMA AskMends ==
    ASSUME TypeOK, NEW r \in Requests, NEW t \in Tasks, t.at = "listing", t.kind \in Kinds,
           NEW cat \in Catalogs, NEW s \in Tracked \ t.seen,
           NEW B \in SUBSET (Tracked \ (t.seen \cup stdio)), s \in stdio,
           UNCHANGED connections, Intact(t), Ask(r, t, cat, s, B)
    PROVE  Mends(r, t.kind, cat, t.seen) /\ OnCourse(r)' /\ task'[r].kind = t.kind
<1> DEFINE u == Asking(t, s, B)
           k == t.kind
           seen == t.seen
<1>1. Tracked \subseteq Servers /\ Tracked' = Tracked
  BY DEF Tracked
<1>2. /\ catalog' = WithServices(cat, k, B) /\ task' = [task EXCEPT ![r] = u]
      /\ u.at = "listing" /\ u.kind = k /\ u.srv = s /\ u.conn = connections[s]
      /\ u.seen = seen \cup B \cup {s} /\ u.size = t.size /\ u.len = t.len - Cardinality(B) - 1
  <2>1. s \in Servers /\ B \in SUBSET Servers
    BY <1>1
  <2>2. catalog' = WithServices(cat, k, B) /\ task' = [task EXCEPT ![r] = u] /\ Cardinality(B) < t.len
    BY DEF Ask, Asking, Becomes
  <2> QED
    BY <2>1, <2>2, AskShape
<1>3. task'[r] = u /\ \A q \in Requests : q # r => task'[q] = task[q]
  BY <1>2 DEF TypeOK
<1>4. Cardinality(Tracked \ u.seen) <= u.len /\ Cardinality(Tracked) = u.size
  <2>1. t.len \in Nat /\ seen \in SUBSET Servers
    BY DEF Tasks
  <2>2. Cardinality(Tracked \ (seen \cup B \cup {s})) <= t.len - Cardinality(B) - 1
    BY <2>1, LeftAfter DEF Intact
  <2> HIDE DEF u
  <2> QED
    BY <1>2, <2>2 DEF Intact
<1> HIDE DEF u
<1>5. OnCourse(r)' /\ task'[r].kind = k
  <2>1. Cardinality(Tracked)' = Cardinality(Tracked) /\ Cardinality(Tracked \ u.seen)' = Cardinality(Tracked \ u'.seen)
    BY <1>1
  <2>2. Cardinality(Tracked' \ u.seen) <= u.len /\ Cardinality(Tracked') = u.size
    BY <1>1, <1>4
  <2> QED
    BY <1>1, <1>2, <1>3, <2>2 DEF OnCourse, Intact
<1>6. \A j \in Kinds, x \in Servers :
         catalog'[j][x] = IF k = "tools" /\ j = "tools" /\ x \in B THEN 1 ELSE cat[j][x]
  BY <1>1, <1>2, Entries
<1>7. ASSUME NEW x \in Tracked, NEW j \in Kinds, Due(j, x),
             Before(k, j) \/ (j = k /\ x \notin seen) \/ cat[j][x] > 0
      PROVE  catalog'[j][x] > 0 \/ WillList(r, j, x)'
  <2>1. CASE cat[j][x] > 0
    BY <1>1, <1>6, <2>1
  <2>2. CASE Before(k, j)
    BY <1>5, <2>2 DEF WillList
  <2>3. CASE j = k /\ x \notin seen
    <3>1. CASE x \in B
      BY <1>1, <1>6, <1>7, <2>3, <3>1 DEF Due
    <3>2. CASE x \notin B
      BY <1>2, <1>3, <1>5, <2>3, <3>2 DEF WillList
    <3> QED
      BY <3>1, <3>2
  <2> QED
    BY <1>7, <2>1, <2>2, <2>3
<1>8. ASSUME NEW x \in Servers \ Tracked, NEW j \in Kinds, catalog'[j][x] > 0
      PROVE  cat[j][x] > 0 /\ (Before(k, j) => WillClear(r, j)')
  <2>1. x \notin B
    OBVIOUS
  <2> QED
    BY <1>5, <1>6, <1>8, <2>1 DEF WillClear
<1> QED
  BY <1>2, <1>3, <1>5, <1>7, <1>8 DEF Mends

\* So does one that moves on to its next server, its next kind or its end.
LEMMA SweepMends ==
    ASSUME TypeOK, NEW r \in Requests, NEW t \in Tasks, t.at = "listing", t.kind \in Kinds,
           NEW cat \in Catalogs, UNCHANGED connections, Intact(t), Sweep(r, t, cat)
    PROVE  Mends(r, t.kind, cat, t.seen)
<1> DEFINE k == t.kind
           seen == t.seen
           left  == Tracked \ seen
           swept == WithServices(cat, k, left)
           next  == NextKind(k)
<1>0. k \in Kinds /\ seen \in SUBSET Servers /\ t.op \in Ops
  BY DEF Tasks
<1>1. Tracked \subseteq Servers /\ left \in SUBSET Servers
  BY DEF Tracked
<1>2. next \in Kinds /\ (k # "prompts" => Before(k, next))
  BY DEF NextKind, Kinds, Before
<1>3. swept \in Catalogs
  BY <1>1, CatalogTypes
<1>4. \A j \in Kinds, x \in Servers :
         swept[j][x] = IF k = "tools" /\ j = "tools" /\ x \in left THEN 1 ELSE cat[j][x]
  BY <1>1, Entries
<1>5. ASSUME Becomes(r, Idle)
      PROVE  /\ task'[r].at \notin {"connecting", "failing", "listing"}
             /\ \A q \in Requests : q # r => task'[q] = task[q]
  BY <1>5, IdleTask DEF TypeOK, Becomes
<1>6. CASE \E s \in left \cap stdio, B \in SUBSET (left \ stdio) : Ask(r, t, cat, s, B)
  <2>1. PICK s \in left \cap stdio, B \in SUBSET (left \ stdio) : Ask(r, t, cat, s, B)
    BY <1>6
  <2>2. s \in Tracked \ seen /\ B \in SUBSET (Tracked \ (seen \cup stdio)) /\ s \in stdio
    OBVIOUS
  <2> QED
    BY <2>1, <2>2, AskMends
<1>7. CASE /\ left \cap stdio = {}
           /\ k # "prompts"
           /\ \E s \in Tracked \cap stdio, B \in SUBSET (Tracked \ stdio) :
                 Ask(r, Loop(t.op, next), Cleared(swept, next), s, B)
  <2> DEFINE l == Loop(t.op, next)
  <2>1. PICK s \in Tracked \cap stdio, B \in SUBSET (Tracked \ stdio) :
             Ask(r, l, Cleared(swept, next), s, B)
    BY <1>7
  <2>2. Cleared(swept, next) \in Catalogs
    BY <1>2, <1>3, {} \in SUBSET Servers, CatalogTypes
  <2>3. \A j \in Kinds, x \in Servers :
           Cleared(swept, next)[j][x] = IF j = next THEN 0 ELSE swept[j][x]
    <3> HIDE DEF swept, next
    <3> QED
      BY <1>2, <1>3, ClearedEntries
  <2>4. /\ l \in Tasks /\ l.at = "listing" /\ l.kind = next /\ l.seen = {} /\ Intact(l)
        /\ s \in Tracked \ l.seen /\ B \in SUBSET (Tracked \ (l.seen \cup stdio)) /\ s \in stdio
    <3>1. l \in Tasks /\ l.at = "listing" /\ l.kind = next /\ l.seen = {}
          /\ l.size = Cardinality(Tracked) /\ l.len = Cardinality(Tracked)
      BY <1>0, <1>2, LoopTask
    <3> HIDE DEF l, next
    <3>2. Tracked \ l.seen = Tracked /\ Cardinality(Tracked) \in Nat
      BY <3>1, CountType
    <3> QED
      BY <3>1, <3>2 DEF Intact
  <2> HIDE DEF swept, next, l
  <2>9. Mends(r, next, Cleared(swept, next), {}) /\ OnCourse(r)' /\ task'[r].kind = next
    BY <1>2, <2>1, <2>2, <2>4, AskMends
  <2>5. ASSUME NEW x \in Tracked, NEW j \in Kinds, Due(j, x),
               Before(k, j) \/ (j = k /\ x \notin seen) \/ cat[j][x] > 0
        PROVE  catalog'[j][x] > 0 \/ WillList(r, j, x)'
    <3>1. CASE j = next \/ Before(next, j)
      BY <1>1, <2>9, <2>5, <3>1 DEF Mends
    <3>2. CASE j # next /\ ~Before(next, j)
      <4>1. ~Before(k, j)
        BY <1>7, <3>2 DEF Before, next, NextKind, Kinds
      <4>2. swept[j][x] > 0
        BY <1>1, <1>4, <1>7, <2>5, <4>1 DEF Due
      <4> QED
        BY <1>1, <2>3, <2>9, <2>5, <3>2, <4>2 DEF Mends
    <3> QED
      BY <3>1, <3>2
  <2>6. ASSUME NEW x \in Servers \ Tracked, NEW j \in Kinds, catalog'[j][x] > 0
        PROVE  cat[j][x] > 0 /\ (Before(k, j) => WillClear(r, j)')
    <3>1. Cleared(swept, next)[j][x] > 0 /\ (Before(next, j) => WillClear(r, j)')
      BY <2>9, <2>6 DEF Mends
    <3>2. j # next /\ swept[j][x] > 0
      BY <2>3, <3>1
    <3>3. cat[j][x] > 0
      BY <1>4, <3>2
    <3>4. Before(k, j) => Before(next, j)
      BY <3>2 DEF Before, next, NextKind, Kinds
    <3> QED
      BY <3>1, <3>3, <3>4
  <2> QED
    BY <2>9, <2>5, <2>6 DEF Mends
<1>8. CASE left \cap stdio = {} /\ k = "prompts" /\ catalog' = swept /\ Becomes(r, Idle)
  <2>1. ASSUME NEW x \in Tracked, NEW j \in Kinds, Due(j, x),
               Before(k, j) \/ (j = k /\ x \notin seen) \/ cat[j][x] > 0
        PROVE  catalog'[j][x] > 0
    BY <1>1, <1>4, <1>8, <2>1 DEF Before, Due, Kinds
  <2>2. ASSUME NEW x \in Servers \ Tracked, NEW j \in Kinds, catalog'[j][x] > 0
        PROVE  cat[j][x] > 0 /\ ~Before(k, j)
    BY <1>4, <1>8, <2>2 DEF Before, Kinds
  <2> HIDE DEF left, swept
  <2>3. /\ task'[r].at \notin {"connecting", "failing", "listing"}
        /\ \A q \in Requests : q # r => task'[q] = task[q]
    BY <1>5, <1>8
  <2> QED
    BY <2>1, <2>2, <2>3 DEF Mends
<1>9. CASE /\ Tracked \cap stdio = {}
           /\ k # "prompts"
           /\ catalog' = IF k = "tools"
                         THEN Cleared(Cleared(swept, "resources"), "prompts")
                         ELSE Cleared(swept, "prompts")
           /\ Becomes(r, Idle)
  <2> DEFINE once == Cleared(swept, "resources")
  <2> HIDE DEF swept, next
  <2>0. ASSUME NEW c \in Catalogs, NEW i \in Kinds, NEW j \in Kinds, NEW x \in Servers
        PROVE  Cleared(c, i)[j][x] = IF j = i THEN 0 ELSE c[j][x]
    BY <2>0, ClearedEntries
  <2>1. once \in Catalogs
    BY <1>3, CatalogTypes, {} \in SUBSET Servers DEF Kinds
  <2>2. \A j \in Kinds, x \in Servers : once[j][x] = IF j = "resources" THEN 0 ELSE swept[j][x]
    BY <1>3, <2>0 DEF Kinds
  <2>3. \A j \in Kinds, x \in Servers :
           /\ Cleared(swept, "prompts")[j][x] = IF j = "prompts" THEN 0 ELSE swept[j][x]
           /\ Cleared(once, "prompts")[j][x] = IF j = "prompts" THEN 0 ELSE once[j][x]
    BY <1>3, <2>0, <2>1 DEF Kinds
  <2> HIDE DEF once
  <2>4. \A j \in Kinds, x \in Servers :
           catalog'[j][x] = IF Before(k, j) THEN 0 ELSE swept[j][x]
    <3>1. CASE k = "tools"
      BY <1>9, <2>2, <2>3, <3>1 DEF Before, Kinds, once
    <3>2. CASE k = "resources"
      BY <1>9, <2>3, <3>2 DEF Before, Kinds
    <3> QED
      BY <1>9, <3>1, <3>2 DEF Kinds
  <2>5. ASSUME NEW x \in Tracked, NEW j \in Kinds, Due(j, x),
               Before(k, j) \/ (j = k /\ x \notin seen) \/ cat[j][x] > 0
        PROVE  catalog'[j][x] > 0
    <3>1. j = "tools"
      BY <1>9, <2>5 DEF Due
    <3>2. ~Before(k, j)
      BY <1>9, <3>1 DEF Before
    <3> QED
      BY <1>1, <1>4, <2>4, <2>5, <3>1, <3>2
  <2>6. ASSUME NEW x \in Servers \ Tracked, NEW j \in Kinds, catalog'[j][x] > 0
        PROVE  cat[j][x] > 0 /\ ~Before(k, j)
    BY <1>4, <2>4, <2>6
  <2>7. /\ task'[r].at \notin {"connecting", "failing", "listing"}
        /\ \A q \in Requests : q # r => task'[q] = task[q]
    BY <1>5, <1>9
  <2> QED
    BY <2>5, <2>6, <2>7 DEF Mends
<1>10. ~KeysChanged(r, t, cat)
  <2>1. Cardinality(left) \in Nat /\ t.len \in Nat
    BY <1>1, Counts DEF Tasks
  <2> QED
    BY <2>1 DEF KeysChanged, Intact
<1> QED
  BY <1>6, <1>7, <1>8, <1>9, <1>10 DEF Sweep

\* A handler whose refresh is still to come will mend whatever is wrong.
LEMMA RestartMends ==
    ASSUME NEW r \in Requests, task'[r].at \in {"closing", "auditing"}
    PROVE  Mended'
<1>1. \A k, s : WillList(r, k, s)' /\ WillClear(r, k)'
  BY DEF WillList, WillClear, Restarts
<1> QED
  BY <1>1 DEF Mended, Completing, Pruning

\* With the table as it is, the other handlers mend what they would have mended.
LEMMA OthersMend ==
    ASSUME NEW q \in Requests, task'[q] = task[q], UNCHANGED connections,
           NEW k, NEW s
    PROVE  (WillList(q, k, s) => WillList(q, k, s)') /\ (WillClear(q, k) => WillClear(q, k)')
<1>1. Tracked' = Tracked
  BY DEF Tracked
<1>2. Intact(task[q]) => Intact(task[q])'
  BY <1>1 DEF Intact
<1> QED
  BY <1>1, <1>2 DEF WillList, WillClear, Restarts, OnCourse

\* A handler that would mend nothing may move without a change of the table or
\* the catalogs.
LEMMA BystanderMended ==
    ASSUME Mended, NEW r \in Requests, ~Restarts(r), ~OnCourse(r),
           \A q \in Requests : q # r => task'[q] = task[q],
           \A c \in Conns : status'[c] = "open" <=> status[c] = "open",
           UNCHANGED <<connections, catalog, stopping, fixed>>
    PROVE  Mended'
<1>1. Tracked' = Tracked /\ Leaked' = Leaked
  BY DEF Tracked, Leaked
<1>2. \A k, s : ~WillList(r, k, s) /\ ~WillClear(r, k)
  BY DEF WillList, WillClear
<1>3. \A q \in Requests : \A k, s :
         q # r => (WillList(q, k, s) => WillList(q, k, s)') /\ (WillClear(q, k) => WillClear(q, k)')
  BY OthersMend
<1>4. Completing => Completing'
  BY <1>1, <1>2, <1>3 DEF Completing, Due
<1>5. Pruning => Pruning'
  BY <1>1, <1>2, <1>3 DEF Pruning
<1> QED
  BY <1>1, <1>4, <1>5 DEF Mended

\* A stretch of a refresh keeps everything mended if it still lists what the
\* handler would have listed, and lists nothing untracked that it will not clear.
LEMMA SweepMended ==
    ASSUME Mended, NEW r \in Requests, NEW k \in Kinds, NEW cat, NEW seen,
           UNCHANGED <<status, connections, stopping, fixed>>,
           Mends(r, k, cat, seen),
           \A s \in Tracked, j \in Kinds :
               Due(j, s) /\ (catalog[j][s] > 0 \/ WillList(r, j, s))
               => Before(k, j) \/ (j = k /\ s \notin seen) \/ cat[j][s] > 0,
           stopping = "no" /\ faults = {} /\ Leaked = {} =>
               \A s \in Servers \ Tracked, j \in Kinds : cat[j][s] > 0 =>
                   \/ Before(k, j)
                   \/ catalog[j][s] > 0 /\ ~WillClear(r, j)
                   \/ \E q \in Requests : q # r /\ WillClear(q, j)
    PROVE  Mended'
<1>1. Tracked' = Tracked /\ Leaked' = Leaked
  BY DEF Tracked, Leaked
<1>2. \A q \in Requests : \A j, s :
         q # r => (WillList(q, j, s) => WillList(q, j, s)') /\ (WillClear(q, j) => WillClear(q, j)')
  BY OthersMend DEF Mends
<1>3. ASSUME Completing, NEW s \in Tracked, NEW j \in Kinds, Due(j, s)
      PROVE  catalog'[j][s] > 0 \/ \E q \in Requests : WillList(q, j, s)'
  <2>1. catalog[j][s] > 0 \/ \E q \in Requests : WillList(q, j, s)
    BY <1>3 DEF Completing
  <2>2. CASE catalog[j][s] > 0 \/ WillList(r, j, s)
    BY <1>3, <2>2 DEF Mends
  <2>3. CASE \E q \in Requests : q # r /\ WillList(q, j, s)
    BY <1>2, <2>3
  <2> QED
    BY <2>1, <2>2, <2>3
<1>4. ASSUME stopping = "no", faults = {}, Leaked = {}, Pruning,
             NEW s \in Servers \ Tracked, NEW j \in Kinds, catalog'[j][s] > 0
      PROVE  \E q \in Requests : WillClear(q, j)'
  <2>1. cat[j][s] > 0 /\ (Before(k, j) => WillClear(r, j)')
    BY <1>4 DEF Mends
  <2>2. CASE Before(k, j)
    BY <2>1, <2>2
  <2>3. CASE \E q \in Requests : q # r /\ WillClear(q, j)
    BY <1>2, <2>3
  <2>4. CASE catalog[j][s] > 0 /\ ~WillClear(r, j)
    <3>1. PICK q \in Requests : WillClear(q, j)
      BY <1>4, <2>4 DEF Pruning
    <3> QED
      BY <1>2, <2>4, <3>1
  <2> QED
    BY <1>4, <2>1, <2>2, <2>3, <2>4
<1>5. Completing => Completing'
  BY <1>1, <1>3 DEF Completing, Due
<1>6. stopping = "no" /\ faults = {} /\ Leaked = {} /\ Pruning => Pruning'
  BY <1>1, <1>4 DEF Pruning
<1> QED
  BY <1>1, <1>5, <1>6 DEF Mended

\* A whole refresh begins: everything will be listed, everything cleared.
LEMMA StartMended ==
    ASSUME IInv, Mended, NEW r \in Requests, NEW op \in Ops, StartRefresh(r, op),
           UNCHANGED <<status, connections, stopping, fixed>>
    PROVE  Mended' /\ Mends(r, "tools", Cleared(catalog, "tools"), {})
<1> DEFINE cat == Cleared(catalog, "tools")
<1>1. "tools" \in Kinds /\ {} \in SUBSET Servers /\ catalog \in Catalogs /\ TypeOK
  BY DEF Kinds, IInv, TypeOK, Catalogs
<1>2. cat \in Catalogs
  BY <1>1, CatalogTypes
<1>3. \A j \in Kinds, s \in Servers : cat[j][s] = IF j = "tools" THEN 0 ELSE catalog[j][s]
  BY <1>1, Entries
<1> DEFINE t == Loop(op, "tools")
<1>4. Sweep(r, t, cat)
  BY DEF StartRefresh
<1>9. /\ t \in Tasks /\ t.at = "listing" /\ t.kind = "tools" /\ t.seen = {} /\ Intact(t)
  <2>1. t \in Tasks /\ t.at = "listing" /\ t.kind = "tools" /\ t.seen = {}
        /\ t.size = Cardinality(Tracked) /\ t.len = Cardinality(Tracked)
    BY <1>1, LoopTask
  <2> HIDE DEF t
  <2>2. Tracked \ t.seen = Tracked /\ Cardinality(Tracked) \in Nat
    BY <2>1, CountType
  <2> QED
    BY <2>1, <2>2 DEF Intact
<1> HIDE DEF cat, t
<1>5. Mends(r, "tools", cat, {})
  BY <1>1, <1>2, <1>4, <1>9, SweepMends
<1>6. \A s \in Tracked, j \in Kinds : Before("tools", j) \/ (j = "tools" /\ s \notin {})
  BY DEF Before
<1>7. \A s \in Servers \ Tracked, j \in Kinds : cat[j][s] > 0 => Before("tools", j)
  BY <1>3 DEF Before
<1>8. Mended'
  BY <1>1, <1>5, <1>6, <1>7, SweepMended
<1> QED
  BY <1>5, <1>8 DEF cat

\* An answered listing.
LEMMA ListedMended ==
    ASSUME IInv, Listens, Mended, NEW r \in Requests, Listed(r), UNCHANGED fixed
    PROVE  Mended' /\ \E k, cat, seen : Mends(r, k, cat, seen)
<1> DEFINE t == task[r]
           cat == WithAnswer(catalog, t.kind, t.srv)
<1>1. /\ t.at = "listing" /\ t.kind \in Kinds /\ t.srv \in Servers
      /\ t \in Tasks /\ catalog \in Catalogs /\ TypeOK
  BY DEF Listed, At, IInv, Asked, Proper, TypeOK, Tasks, Catalogs
<1>2. cat \in Catalogs
  BY <1>1, CatalogTypes, {} \in SUBSET Servers
<1>3. \A j \in Kinds, s \in Servers :
         cat[j][s] > 0 <=> catalog[j][s] > 0 \/ (j = t.kind /\ s = t.srv)
  BY <1>1, Entries, {} \in SUBSET Servers
<1>4. UNCHANGED <<status, connections, stopping, fixed>> /\ status[t.conn] \in {"open", "closing"}
  BY DEF Listed
<1>5. Tracked \subseteq Servers
  BY DEF Tracked
<1>6. SizeChanged(r) <=> Cardinality(Tracked) # t.size
  BY DEF SizeChanged
<1>7. \/ SizeChanged(r) /\ catalog' = cat /\ Becomes(r, Idle)
      \/ ~SizeChanged(r) /\ Sweep(r, t, cat)
  BY DEF Listed
<1> HIDE DEF cat
\* What it adds of an untracked server is cleared by the handler that closes it.
<1>8. ASSUME stopping = "no", Leaked = {}, t.srv \notin Tracked
      PROVE  \E q \in Requests : q # r /\ Restarts(q)
  <2>1. /\ t.conn \in Conns
        /\ \A q \in Requests : task[q].at \in {"connecting", "failing"} => task[q].conn # t.conn
        /\ \A s \in Servers : connections[s] = t.conn => s = t.srv
    BY <1>1 DEF Listens
  <2>2. connections[t.srv] # t.conn
    BY <1>1, <1>8, <2>1, HostAssumption DEF Tracked
  <2>3. status[t.conn] # "open"
    BY <1>8, <2>1, <2>2 DEF Leaked
  <2>4. PICK q \in Requests : task[q].at \in Owning /\ task[q].conn = t.conn
    BY <1>4, <2>1, <2>3 DEF IInv, HasOwner
  <2>5. task[q].at = "closing"
    BY <2>1, <2>4 DEF Owning
  <2> QED
    BY <1>1, <2>5 DEF Restarts
<1>9. ~Restarts(r)
  BY <1>1 DEF Restarts
\* A loop whose table has changed under it mends nothing, and spoils nothing.
<1>10. ASSUME ~Intact(t),
              \A s \in Servers, j \in Kinds : cat[j][s] > 0 => catalog'[j][s] > 0,
              \A s \in Servers \ Tracked, j \in Kinds : catalog'[j][s] > 0 => cat[j][s] > 0,
              task'[r].at \notin {"connecting", "failing"},
              task'[r].at = "listing" =>
                  task'[r].srv \in Tracked /\ task'[r].conn = connections[task'[r].srv],
              \A q \in Requests : q # r => task'[q] = task[q]
       PROVE  Mended' /\ \E k, c, seen : Mends(r, k, c, seen)
  <2>1. ~OnCourse(r)
    BY <1>10 DEF OnCourse
  <2>3. Mends(r, "prompts", cat, Servers)
    <3>1. \A j : ~Before("prompts", j)
      BY DEF Before
    <3> QED
      BY <1>5, <1>10, <3>1 DEF Mends
  <2>4. \A j, s : ~WillList(r, j, s) /\ ~WillClear(r, j)
    BY <1>9, <2>1 DEF WillList, WillClear
  <2>5. \A s \in Tracked, j \in Kinds :
           Due(j, s) /\ (catalog[j][s] > 0 \/ WillList(r, j, s)) => cat[j][s] > 0
    BY <1>3, <1>5, <2>4
  <2>6. stopping = "no" /\ faults = {} /\ Leaked = {} =>
           \A s \in Servers \ Tracked, j \in Kinds : cat[j][s] > 0 =>
               \/ catalog[j][s] > 0 /\ ~WillClear(r, j)
               \/ \E q \in Requests : q # r /\ WillClear(q, j)
    BY <1>3, <1>8, <2>4 DEF WillClear
  <2>7. "prompts" \in Kinds
    BY DEF Kinds
  <2> QED
    BY <1>4, <2>3, <2>5, <2>6, <2>7, SweepMended
<1>12. ASSUME Becomes(r, Idle)
       PROVE  /\ task'[r].at \notin {"connecting", "failing", "listing"}
              /\ \A q \in Requests : q # r => task'[q] = task[q]
  BY <1>1, <1>12, IdleTask DEF TypeOK, Becomes
<1>13. CASE SizeChanged(r) /\ catalog' = cat /\ Becomes(r, Idle)
  <2>1. ~Intact(t)
    BY <1>6, <1>13 DEF Intact
  <2> HIDE DEF t
  <2> QED
    BY <1>10, <1>12, <1>13, <2>1
<1>14. CASE Sweep(r, t, cat) /\ ~SizeChanged(r) /\ ~Intact(t)
  <2> DEFINE left == Tracked \ t.seen
  <2>1. Cardinality(left) \in Nat /\ t.len \in Nat
    BY <1>1, <1>5, Counts DEF Tasks
  <2>2. ~(Cardinality(left) <= t.len)
    BY <1>6, <1>14 DEF Intact
  <2>3. \A B \in SUBSET Tracked : catalog' = WithServices(cat, t.kind, B) =>
           /\ \A s \in Servers, j \in Kinds : cat[j][s] > 0 => catalog'[j][s] > 0
           /\ \A s \in Servers \ Tracked, j \in Kinds : catalog'[j][s] > 0 => cat[j][s] > 0
    <3>1. \A B \in SUBSET Tracked, j \in Kinds, s \in Servers :
             WithServices(cat, t.kind, B)[j][s] =
                IF t.kind = "tools" /\ j = "tools" /\ s \in B THEN 1 ELSE cat[j][s]
      BY <1>1, <1>2, <1>5, Entries
    <3> QED
      BY <3>1
  <2>4. CASE \E s \in left \cap stdio, B \in SUBSET (left \ stdio) : Ask(r, t, cat, s, B)
    <3>1. PICK s \in left \cap stdio, B \in SUBSET (left \ stdio) : Ask(r, t, cat, s, B)
      BY <2>4
    <3>4. B \in SUBSET Tracked /\ s \in Tracked
      OBVIOUS
    <3>5. s \in Servers /\ B \in SUBSET Servers
      BY <3>4 DEF Tracked
    <3>6. /\ catalog' = WithServices(cat, t.kind, B) /\ task' = [task EXCEPT ![r] = Asking(t, s, B)]
          /\ Cardinality(B) < t.len
      BY <3>1 DEF Ask, Asking, Becomes
    <3>2. /\ catalog' = WithServices(cat, t.kind, B) /\ task' = [task EXCEPT ![r] = Asking(t, s, B)]
          /\ Asking(t, s, B).at = "listing" /\ Asking(t, s, B).srv = s
          /\ Asking(t, s, B).conn = connections[s]
      BY <1>1, <1>5, <3>5, <3>6, AskShape
    <3>3. task'[r] = Asking(t, s, B) /\ \A q \in Requests : q # r => task'[q] = task[q]
      BY <1>1, <3>2 DEF TypeOK
    <3> HIDE DEF t
    <3> QED
      BY <1>10, <1>14, <2>3, <3>2, <3>3, <3>4
  <2>5. CASE KeysChanged(r, t, cat)
    <3>1. \E B \in SUBSET Tracked : catalog' = WithServices(cat, t.kind, B)
      BY <2>5 DEF KeysChanged
    <3>2. Becomes(r, Idle)
      BY <2>5 DEF KeysChanged
    <3> HIDE DEF t
    <3> QED
      BY <1>10, <1>12, <1>14, <2>3, <3>1, <3>2
  <2> QED
    BY <1>14, <2>2, <2>4, <2>5 DEF Sweep
<1>11. CASE ~SizeChanged(r) /\ Sweep(r, t, cat) /\ Intact(t)
  <2>3. Mends(r, t.kind, cat, t.seen)
    BY <1>1, <1>2, <1>4, <1>11, SweepMends
  <2>4. \A s \in Tracked, j \in Kinds :
           Due(j, s) /\ (catalog[j][s] > 0 \/ WillList(r, j, s))
           => Before(t.kind, j) \/ (j = t.kind /\ s \notin t.seen) \/ cat[j][s] > 0
    BY <1>3, <1>5, <1>9 DEF WillList
  <2>5. stopping = "no" /\ faults = {} /\ Leaked = {} =>
           \A s \in Servers \ Tracked, j \in Kinds : cat[j][s] > 0 =>
               \/ Before(t.kind, j)
               \/ catalog[j][s] > 0 /\ ~WillClear(r, j)
               \/ \E q \in Requests : q # r /\ WillClear(q, j)
    BY <1>3, <1>8, <1>9 DEF WillClear
  <2> QED
    BY <1>1, <1>4, <2>3, <2>4, <2>5, SweepMended
<1> QED
  BY <1>7, <1>11, <1>13, <1>14

\* A handler that only moves leaves what the others listen to as it is.
LEMMA ListensOn ==
    ASSUME IInv, Listens, NEW r \in Requests,
           \A q \in Requests : q # r =>
               task'[q].at = task[q].at /\ task'[q].conn = task[q].conn /\ task'[q].srv = task[q].srv,
           \/ task'[r].at \notin {"connecting", "failing", "listing"}
           \/ /\ task'[r].at \in {"connecting", "failing"}
              /\ \A q \in Requests : q # r /\ task[q].at = "listing" => task[q].conn # task'[r].conn,
           \A s \in Servers :
               \/ connections'[s] \in {connections[s], None}
               \/ /\ connections'[s] = task[r].conn
                  /\ task[r].at = "connecting"
    PROVE  Listens'
BY HostAssumption DEF Listens

\* Nor does one that goes on to list the connection of a tracked server.
LEMMA MendsListens ==
    ASSUME IInv, Listens, NEW r \in Requests, UNCHANGED connections,
           NEW k, NEW cat, NEW seen, Mends(r, k, cat, seen)
    PROVE  Listens'
<1>1. \A q \in Requests : q # r => task'[q] = task[q]
  BY DEF Mends
<1>2. CASE task'[r].at # "listing"
  BY <1>1, <1>2, ListensOn DEF Mends
<1>3. CASE task'[r].at = "listing"
  <2>1. task'[r].srv \in Tracked /\ task'[r].conn = connections[task'[r].srv]
    BY <1>3 DEF Mends
  <2>2. task'[r].conn \in Conns /\ task'[r].srv \in Servers
    BY <2>1 DEF Tracked, IInv, TypeOK
  <2>3. \A q \in Requests :
           task[q].at \in {"connecting", "failing"} => task[q].conn # task'[r].conn
    BY <2>1, <2>2, OwnerKnows DEF Owning
  <2>4. \A s \in Servers : connections[s] = task'[r].conn => s = task'[r].srv
    BY <2>1, <2>2 DEF IInv, OneServer, Tracked
  <2> QED
    BY <1>1, <1>3, <2>2, <2>3, <2>4 DEF Listens
<1> QED
  BY <1>2, <1>3

\* Every step of a handler keeps the catalogs mended.
LEMMA HandlerMended ==
    ASSUME IInv, Listens, Mended, NEW r \in Requests, Handler(r), UNCHANGED fixed
    PROVE  Mended' /\ Listens'
<1>1. task \in [Requests -> Tasks] /\ task[r] \in Tasks
  BY DEF IInv, TypeOK
<1>2. ASSUME NEW t, Becomes(r, t)
      PROVE  task'[r] = t /\ \A q \in Requests : q # r => task'[q] = task[q]
  BY <1>1, <1>2 DEF Becomes
<1>3. \A op, at, s, c : Task(op, at, s, c).at = at /\ Task(op, at, s, c).conn = c
  BY DEF Task
<1>4. Fails(r) => \E t : Becomes(r, t) /\ t.at \in {"idle", "reporting"}
  BY <1>3, IdleTask DEF Fails
<1>5. task[r].at \notin {"closing", "auditing", "listing"} => ~Restarts(r) /\ ~OnCourse(r)
  BY DEF Restarts, OnCourse
\* What only moves this handler.
<1>6. ASSUME ~Restarts(r), ~OnCourse(r), NEW t, Becomes(r, t),
             \/ t.at \in {"idle", "reporting", "calling"}
             \/ /\ t.at \in {"connecting", "failing"}
                /\ \A q \in Requests : q # r /\ task[q].at = "listing" => task[q].conn # t.conn,
             \A c \in Conns : status'[c] = "open" <=> status[c] = "open",
             UNCHANGED <<connections, catalog, stopping>>
      PROVE  Mended' /\ Listens'
  <2>1. task'[r] = t /\ \A q \in Requests : q # r => task'[q] = task[q]
    BY <1>2, <1>6
  <2>2. Mended'
    BY <1>6, <2>1, BystanderMended
  <2>3. Listens'
    BY <1>6, <2>1, ListensOn
  <2> QED
    BY <2>2, <2>3
<1>7. CASE Connect(r)
  <2>1. task[r].at = "idle" /\ UNCHANGED <<connections, catalog, stopping>>
    BY <1>7 DEF Connect, Arrives, At
  <2>2. CASE Becomes(r, Task("none", "reporting", None, None)) /\ UNCHANGED status
    BY <1>3, <1>5, <1>6, <2>1, <2>2
  <2>3. CASE \E s \in Servers : ConnectFresh(r, s)
    <3>1. PICK s \in Servers, c \in Conns :
               /\ Fresh(c)
               /\ status' = [status EXCEPT ![c] = "opening"]
               /\ Becomes(r, Task("change", "connecting", s, c))
      BY <2>3 DEF ConnectFresh
    <3>2. \A d \in Conns : status'[d] = "open" <=> status[d] = "open"
      BY <3>1 DEF Fresh, IInv, TypeOK
    <3>3. \A q \in Requests : task[q].conn # c
      BY <3>1 DEF Fresh
    <3> QED
      BY <1>3, <1>5, <1>6, <2>1, <3>1, <3>2, <3>3
  <2> QED
    BY <1>7, <2>2, <2>3 DEF Connect
<1>8. CASE Connected(r)
  <2>1. /\ task[r].at = "connecting"
        /\ task[r].srv \in Servers
        /\ Register(r, task[r].srv, Task("change", "auditing", None, None))
        /\ connections' = [connections EXCEPT ![task[r].srv] = task[r].conn]
    BY <1>8 DEF Connected, At, Register, IInv, Asked, Proper
  <2>2. /\ task'[r].at = "auditing"
        /\ \A q \in Requests : q # r =>
              task'[q].at = task[q].at /\ task'[q].conn = task[q].conn /\ task'[q].srv = task[q].srv
    <3> DEFINE t == Task("change", "auditing", None, None)
    <3>1. t \in Tasks /\ t.at = "auditing" /\ Register(r, task[r].srv, t)
      BY <2>1, NewTask DEF Ops, Places
    <3> HIDE DEF t
    <3>2. Moves(r, t)
      BY <2>1, <3>1, RegisterMoves
    <3> QED
      BY <3>1, <3>2 DEF Moves
  <2>3. \A s \in Servers : connections'[s] \in {connections[s], task[r].conn}
    BY <2>1 DEF IInv, TypeOK
  <2> QED
    BY <2>1, <2>2, <2>3, RestartMends, ListensOn
<1>9. CASE ConnectFails(r) \/ FailedCloses(r)
  <2>1. /\ task[r].at \in {"connecting", "failing"}
        /\ UNCHANGED <<connections, catalog, stopping>>
        /\ \E life \in {"closing", "free"} : status' = [status EXCEPT ![task[r].conn] = life]
    BY <1>9 DEF ConnectFails, FailedCloses, At
  <2>2. \A c \in Conns : status'[c] = "open" <=> status[c] = "open"
    BY <2>1, OwnerKnows DEF IInv, TypeOK, Owning
  <2>3. CASE Fails(r)
    BY <1>4, <1>5, <1>6, <2>1, <2>2, <2>3
  <2>4. CASE Becomes(r, [task[r] EXCEPT !.at = "failing"])
    <3> DEFINE t == [task[r] EXCEPT !.at = "failing"]
    <3>1. t.at = "failing" /\ t.conn = task[r].conn
      BY <1>1 DEF Tasks
    <3>2. \A q \in Requests : task[q].at = "listing" => task[q].conn # task[r].conn
      BY <2>1 DEF Listens
    <3> HIDE DEF t
    <3>3. Becomes(r, t)
      BY <2>4 DEF t
    <3> QED
      BY <1>5, <1>6, <2>1, <2>2, <3>1, <3>2, <3>3
  <2> QED
    BY <1>9, <2>3, <2>4 DEF ConnectFails, FailedCloses
<1>10. CASE Disconnect(r)
  <2>1. task[r].at = "idle" /\ UNCHANGED <<catalog, stopping>>
    BY <1>10 DEF Disconnect, Arrives, At
  <2>2. CASE /\ Becomes(r, Task("none", "reporting", None, None))
             /\ UNCHANGED <<status, connections>>
    BY <1>3, <1>5, <1>6, <2>1, <2>2
  <2>3. CASE /\ Becomes(r, Task("change", "auditing", None, None))
             /\ UNCHANGED <<status, connections>>
    <3>1. task'[r].at = "auditing" /\ \A q \in Requests : q # r => task'[q] = task[q]
      BY <1>2, <1>3, <2>3
    <3> QED
      BY <2>3, <3>1, RestartMends, ListensOn
  <2>4. ASSUME NEW s \in Servers, NEW place \in {"auditing", "closing"},
               NEW x \in Servers \cup {None}, NEW c \in Conns \cup {None},
               Pop(r, s, Task("change", place, x, c))
        PROVE  Mended' /\ Listens'
    <3> DEFINE t == Task("change", place, x, c)
    <3>1. t \in Tasks /\ t.at = place
      BY NewTask DEF Ops, Places
    <3> HIDE DEF t
    <3>2. /\ task'[r] = t
          /\ \A q \in Requests : q # r =>
                task'[q].at = task[q].at /\ task'[q].conn = task[q].conn /\ task'[q].srv = task[q].srv
          /\ \A y \in Servers : connections'[y] \in {connections[y], None}
      BY <2>4, <3>1, PopShape DEF t
    <3> QED
      BY <2>4, <3>1, <3>2, RestartMends, ListensOn
  <2>5. \A s \in Servers : connections[s] \in Conns \cup {None}
    BY DEF IInv, TypeOK
  <2>6. CASE \E s \in Servers : \/ Pop(r, s, Task("change", "auditing", None, None))
                                \/ Pop(r, s, Task("change", "closing", s, connections[s]))
    BY <2>4, <2>5, <2>6
  <2> QED
    BY <1>10, <2>2, <2>3, <2>6 DEF Disconnect
<1>11. CASE Closed(r)
  <2>1. task'[r].at = "auditing" /\ \A q \in Requests : q # r => task'[q] = task[q]
    BY <1>2, <1>3, <1>11 DEF Closed
  <2> QED
    BY <1>11, <2>1, RestartMends, ListensOn DEF Closed
<1>12. CASE CloseRaises(r) \/ AuditFails(r)
  <2>1. faults # {} /\ UNCHANGED connections /\ Becomes(r, Idle)
    BY <1>12 DEF CloseRaises, AuditFails
  <2>2. task'[r] = Idle /\ \A q \in Requests : q # r => task'[q] = task[q]
    BY <1>2, <2>1
  <2>3. Mended'
    BY <2>1 DEF Mended
  <2> QED
    BY <2>1, <2>2, <2>3, IdleTask, ListensOn
<1>13. CASE Refresh(r) \/ AuditWritten(r)
  <2>1. UNCHANGED <<status, connections, stopping>>
    BY <1>13 DEF Refresh, AuditWritten
  <2>2. \E op \in Ops : StartRefresh(r, op)
    BY <1>1, <1>13 DEF Refresh, AuditWritten, Ops, Tasks
  <2> QED
    BY <2>1, <2>2, StartMended, MendsListens
<1>14. CASE Listed(r)
  BY <1>14, ListedMended, MendsListens DEF Listed
<1>15. CASE ListFails(r)
  <2>1. /\ UNCHANGED <<status, connections, catalog, stopping>> /\ task[r].at = "listing"
        /\ "list" \in faults \/ status[task[r].conn] # "open"
    BY <1>15 DEF ListFails, At
  <2>2. \E t : Becomes(r, t) /\ t.at \in {"idle", "reporting"}
    BY <1>4, <1>15, IdleTask DEF ListFails
  <2>3. CASE faults = {}
    <3>1. ~Restarts(r) /\ ~OnCourse(r)
      BY <2>1, <2>3, Serving DEF Restarts, OnCourse, IInv, TrackedOpen, Tracked
    <3> QED
      BY <1>6, <2>1, <2>2, <3>1
  <2>4. CASE faults # {}
    <3>1. Mended'
      BY <2>4 DEF Mended
    <3> QED
      BY <1>2, <2>1, <2>2, <3>1, ListensOn
  <2> QED
    BY <2>3, <2>4
<1>16. CASE Execute(r) \/ CallEnds(r) \/ Report(r)
  <2>1. /\ UNCHANGED <<status, connections, catalog, stopping>>
        /\ task[r].at \in {"idle", "calling", "reporting"}
    BY <1>16 DEF Execute, CallEnds, Report, Arrives, At
  <2>2. \E t : Becomes(r, t) /\ t.at \in {"idle", "reporting", "calling"}
    BY <1>3, <1>16, IdleTask DEF Execute, CallEnds, Report
  <2> QED
    BY <1>5, <1>6, <2>1, <2>2
<1> QED
  BY <1>7, <1>8, <1>9, <1>10, <1>11, <1>12, <1>13, <1>14, <1>15, <1>16 DEF Handler

\* So does every step of the host.
LEMMA InductiveMended == IInv /\ Listens /\ Mended /\ [Next]_vars => Mended' /\ Listens'
<1> SUFFICES ASSUME IInv, Listens, Mended, [Next]_vars PROVE Mended' /\ Listens'
  OBVIOUS
<1>1. ASSUME NEW r \in Requests, Handler(r), UNCHANGED fixed PROVE Mended' /\ Listens'
  BY <1>1, HandlerMended
<1>2. CASE Lifespan
  <2>1. CASE Relaunch
    <3>1. \A s \in Servers : connections'[s] = None /\ \A k \in Kinds : catalog'[k][s] = 0
      BY <2>1 DEF Relaunch
    <3>2. \A r \in Requests : task'[r].at = "idle"
      BY <2>1, IdleTask DEF Relaunch
    <3>3. Completing' /\ Pruning'
      BY <3>1 DEF Completing, Pruning, Tracked
    <3> QED
      BY <3>2, <3>3 DEF Mended, Listens
  <2>2. CASE stopping' # "no" /\ UNCHANGED task /\ \A r \in Requests : task[r].at = "idle"
    BY <2>2 DEF Mended, Listens
  <2>3. stopping = "yes" => \A r \in Requests : task[r].at = "idle"
    BY DEF IInv, Quiet
  <2> QED
    BY <1>2, <2>1, <2>2, <2>3 DEF Lifespan, ShutdownBegins, ShutdownCloses, ShutdownEnds,
                                  ShutdownRaises, At
<1>3. CASE UNCHANGED vars
  <2>1. UNCHANGED <<status, connections, catalog, task, stopping, stdio, faults>>
    BY <1>3 DEF vars
  <2>2. Tracked' = Tracked /\ Leaked' = Leaked /\ \A k \in Kinds, s \in Servers : Due(k, s)' = Due(k, s)
    BY <2>1 DEF Tracked, Leaked, Due
  <2>3. \A r \in Requests : OnCourse(r)' = OnCourse(r) /\ Restarts(r)' = Restarts(r)
    BY <2>1, <2>2 DEF OnCourse, Intact, Restarts
  <2>7. \A r \in Requests, k \in Kinds, s \in Servers : WillList(r, k, s)' = WillList(r, k, s)
    BY <2>1, <2>3 DEF WillList
  <2>4. Completing' = Completing
    <3>1. Tracked \subseteq Servers
      BY DEF Tracked
    <3> QED
      BY <2>1, <2>2, <2>7, <3>1 DEF Completing
  <2>5. Pruning' = Pruning
    BY <2>1, <2>2, <2>3 DEF Pruning, WillClear
  <2>6. Listens' = Listens
    BY <2>1 DEF Listens
  <2> QED
    BY <2>1, <2>2, <2>4, <2>5, <2>6 DEF Mended
<1> QED
  BY <1>1, <1>2, <1>3 DEF Next

\* At first nothing is tracked or listed.
LEMMA InitiallyMended == Init => Mended /\ Listens
<1> SUFFICES ASSUME Init PROVE Mended /\ Listens
  OBVIOUS
<1>1. Tracked = {} /\ \A k \in Kinds, s \in Servers : catalog[k][s] = 0
  BY DEF Init, Tracked
<1>2. \A r \in Requests : task[r].at = "idle"
  BY IdleTask DEF Init
<1> QED
  BY <1>1, <1>2 DEF Mended, Completing, Pruning, Listens
-----------------------------------------------------------------------------
\* In behaviours without failing calls, whatever is missing from a catalog or
\* listed too much has, at every moment, a handler that will mend it.
THEOREM AlwaysMended == Spec => [](Mended /\ Listens)
<1>1. Init => Mended /\ Listens
  BY InitiallyMended
<1>2. IInv /\ (Mended /\ Listens) /\ [Next]_vars => (Mended /\ Listens)'
  BY InductiveMended
<1> QED
  BY <1>1, <1>2, Invariance, PTL DEF Spec

\* Without failing calls, the tool catalog at rest has every tracked server, and
\* all three catalogs every stdio server (Host.refresh_discovery after each
\* change of the table), for any number of overlapping handlers.
THEOREM CatalogsAreComplete == Spec => []CatalogComplete
<1>1. ASSUME IInv, Mended PROVE CatalogComplete
  <2> SUFFICES ASSUME faults = {}, AllIdle, stopping = "no", NEW s \in Tracked, NEW k \in Kinds, Due(k, s)
               PROVE  catalog[k][s] > 0
    BY DEF CatalogComplete, Due, Kinds
  <2>1. \A r \in Requests : ~WillList(r, k, s)
    BY DEF AllIdle, At, WillList, Restarts, OnCourse
  <2> QED
    BY <1>1, <2>1 DEF Mended, Completing
<1> QED
  BY <1>1, Invariance, AlwaysMended, PTL

\* Without failing calls and overwritten connections, the catalogs at rest list
\* tracked servers only: no tool on offer ends in a KeyError (ToolManager.execute).
THEOREM CatalogsAreSound == Spec => []CatalogSound
<1>1. ASSUME Mended PROVE CatalogSound
  <2> SUFFICES ASSUME faults = {}, AllIdle, stopping = "no", Leaked = {},
                      NEW k \in Kinds, NEW s \in Servers, catalog[k][s] > 0, s \notin Tracked
               PROVE  FALSE
    BY DEF CatalogSound
  <2>1. \A r \in Requests : ~WillClear(r, k)
    BY DEF AllIdle, At, WillClear, Restarts, OnCourse
  <2> QED
    BY <1>1, <2>1 DEF Mended, Pruning
<1> QED
  BY <1>1, AlwaysMended, PTL
-----------------------------------------------------------------------------
(* How far a handler has got *)

\* How much a handler still has before it: a refresh goes through the kinds.
Level(t) ==
    CASE t.at = "connecting" -> 8
      [] t.at = "failing" -> 7
      [] t.at = "closing" -> 6
      [] t.at = "auditing" -> 5
      [] t.at = "listing" /\ t.kind = "tools" -> 4
      [] t.at = "listing" /\ t.kind = "resources" -> 3
      [] t.at = "listing" /\ t.kind = "prompts" -> 2
      [] t.at = "calling" -> 2
      [] t.at = "reporting" -> 1
      [] OTHER -> 0

\* u is further than t: it has less before it, or its iterator expects fewer keys.
Further(u, t) ==
    \/ Level(u) < Level(t)
    \/ t.at = "listing" /\ u.at = "listing" /\ u.kind = t.kind /\ u.len < t.len

\* A refresh that resumes asks one more of the servers its iterator expects, or
\* turns to a later kind, or ends.
LEMMA SweepAdvances ==
    ASSUME TypeOK, NEW r \in Requests, NEW t \in Tasks, t.at = "listing", t.kind \in Kinds,
           NEW cat, Sweep(r, t, cat)
    PROVE  \E u \in Tasks :
              /\ Becomes(r, u)
              /\ \/ u = Idle
                 \/ /\ u.at = "listing" /\ u.kind \in Kinds
                    /\ Before(t.kind, u.kind) \/ (u.kind = t.kind /\ u.len < t.len)
<1> DEFINE left == Tracked \ t.seen
           swept == WithServices(cat, t.kind, left)
           next == NextKind(t.kind)
<1>1. Tracked \subseteq Servers /\ t.op \in Ops /\ t.len \in Nat
  BY DEF Tracked, Tasks
<1>2. \A B \in SUBSET Servers : Cardinality(B) \in Nat
  BY Counts
<1>3. CASE \E s \in left \cap stdio, B \in SUBSET (left \ stdio) : Ask(r, t, cat, s, B)
  <2>1. PICK s \in left \cap stdio, B \in SUBSET (left \ stdio) : Ask(r, t, cat, s, B)
    BY <1>3
  <2> DEFINE u == Asking(t, s, B)
  <2>2. s \in Servers /\ B \in SUBSET Servers
    BY <1>1
  <2>5. task' = [task EXCEPT ![r] = u] /\ Cardinality(B) < t.len
    BY <2>1 DEF Ask, Asking, Becomes
  <2>3. u \in Tasks /\ u.at = "listing" /\ u.kind = t.kind /\ u.len = t.len - Cardinality(B) - 1
    BY <2>2, <2>5, AskShape
  <2> HIDE DEF u
  <2>4. u.len < t.len
    BY <1>1, <1>2, <2>2, <2>3
  <2> QED
    BY <2>3, <2>4, <2>5 DEF Becomes
<1>4. CASE /\ t.kind # "prompts"
           /\ \E s \in Tracked \cap stdio, B \in SUBSET (Tracked \ stdio) :
                 Ask(r, Loop(t.op, next), Cleared(swept, next), s, B)
  <2>1. PICK s \in Tracked \cap stdio, B \in SUBSET (Tracked \ stdio) :
             Ask(r, Loop(t.op, next), Cleared(swept, next), s, B)
    BY <1>4
  <2> DEFINE l == Loop(t.op, next)
             u == Asking(l, s, B)
  <2>2. s \in Servers /\ B \in SUBSET Servers
    BY <1>1
  <2>3. next \in Kinds /\ Before(t.kind, next)
    BY <1>4 DEF NextKind, Kinds, Before
  <2>4. l \in Tasks /\ l.at = "listing" /\ l.kind = next
    BY <1>1, <2>3, LoopTask
  <2> HIDE DEF l
  <2>6. task' = [task EXCEPT ![r] = u] /\ Cardinality(B) < l.len
    BY <2>1, <2>2 DEF Ask, Asking, Becomes, l
  <2>5. task' = [task EXCEPT ![r] = u] /\ u \in Tasks /\ u.at = "listing" /\ u.kind = next
    BY <2>2, <2>4, <2>6, AskShape
  <2> HIDE DEF u, next
  <2> QED
    BY <2>3, <2>5 DEF Becomes
<1>5. CASE Becomes(r, Idle)
  BY <1>5, IdleTask
<1> QED
  BY <1>3, <1>4, <1>5 DEF Sweep, KeysChanged

\* An error ends the handler, or leaves it at its last record.
LEMMA FailsAdvances ==
    ASSUME TypeOK, NEW r \in Requests, Fails(r)
    PROVE  \E t \in Tasks : Becomes(r, t) /\ t.at \in {"idle", "reporting"}
<1>1. task[r].op \in Ops
  BY DEF TypeOK, Tasks
<1> QED
  BY <1>1, IdleTask, Bystanding, NewTask DEF Fails, Places, Ops

\* What a step of the handler r makes of its task.
Advances(r) ==
    \E t \in Tasks :
       /\ task[r].at = "idle" \/ Further(t, task[r])
       /\ \/ Becomes(r, t)
          \/ \E s \in Servers : Pop(r, s, t) \/ Register(r, s, t)

\* Every step of a handler that is not at its beginning takes it further.
LEMMA HandlerAdvances ==
    ASSUME IInv, NEW r \in Requests, Handler(r)
    PROVE  Advances(r)
<1>1. TypeOK /\ task[r] \in Tasks
  BY DEF IInv, TypeOK
<1>2. \A op \in Ops, at \in Places, s \in Servers \cup {None}, c \in Conns \cup {None} :
         Task(op, at, s, c) \in Tasks /\ Task(op, at, s, c).at = at /\ Task(op, at, s, c).srv = s
  BY NewTask
<1> USE DEF Ops, Places
<1>3. ASSUME task[r].at = "idle", NEW t \in Tasks,
             \/ Becomes(r, t)
             \/ \E s \in Servers : Pop(r, s, t)
      PROVE  Advances(r)
  BY <1>3 DEF Advances
<1>4. ASSUME NEW t \in Tasks, Becomes(r, t), Level(t) < Level(task[r])
      PROVE  Advances(r)
  BY <1>4 DEF Advances, Further
<1>5. CASE Connect(r)
  <2>1. PICK s \in Servers : \/ ConnectFresh(r, s)
                             \/ Becomes(r, Task("none", "reporting", None, None))
    BY <1>5 DEF Connect
  <2>2. CASE ConnectFresh(r, s)
    <3>1. PICK c \in Conns : Becomes(r, Task("change", "connecting", s, c))
      BY <2>2 DEF ConnectFresh
    <3> QED
      BY <1>2, <1>3, <1>5, <3>1 DEF Connect, Arrives, At
  <2>3. CASE Becomes(r, Task("none", "reporting", None, None))
    <3>1. Task("none", "reporting", None, None) \in Tasks
      BY <1>2
    <3>2. task[r].at = "idle"
      BY <1>5 DEF Connect, Arrives, At
    <3> QED
      BY <1>3, <2>3, <3>1, <3>2
  <2> QED
    BY <2>1, <2>2, <2>3
<1>6. CASE Disconnect(r)
  <2>1. \E t \in Tasks : Becomes(r, t) \/ \E s \in Servers : Pop(r, s, t)
    <3>1. /\ Task("none", "reporting", None, None) \in Tasks
          /\ Task("change", "auditing", None, None) \in Tasks
      BY <1>2
    <3>2. \A s \in Servers : Task("change", "closing", s, connections[s]) \in Tasks
      BY <1>1, <1>2 DEF TypeOK
    <3> QED
      BY <1>6, <3>1, <3>2 DEF Disconnect
  <2> QED
    BY <1>3, <1>6, <2>1 DEF Disconnect, Arrives, At
<1>7. CASE Refresh(r)
  <2>1. Sweep(r, Loop("refresh", "tools"), Cleared(catalog, "tools"))
    BY <1>7 DEF Refresh, StartRefresh
  <2>2. PICK t \in Tasks : Becomes(r, t)
    BY <1>1, <2>1, SweepAdvances, LoopTask DEF Kinds
  <2> QED
    BY <1>3, <1>7, <2>2, IdleTask DEF Refresh, Arrives, At
<1>8. CASE Execute(r)
  <2>1. \E t \in Tasks : Becomes(r, t)
    <3>1. \A s \in Servers : Task("none", "calling", s, connections[s]) \in Tasks
      BY <1>1, <1>2 DEF TypeOK
    <3> QED
      BY <1>2, <1>8, <3>1 DEF Execute
  <2> QED
    BY <1>3, <1>8, <2>1 DEF Execute, Arrives, At
<1>9. CASE Connected(r) \/ Closed(r)
  <2>1. PICK t \in Tasks : t.at = "auditing" /\ (Becomes(r, t) \/ Register(r, task[r].srv, t))
    BY <1>2, <1>9 DEF Connected, Closed
  <2>2. Level(t) < Level(task[r])
    BY <1>9, <2>1 DEF Connected, Closed, At, Level
  <2>3. CASE Becomes(r, t)
    BY <1>4, <2>2, <2>3
  <2>4. CASE Register(r, task[r].srv, t) /\ Connected(r)
    <3>1. task[r].srv \in Servers
      BY <2>4 DEF Connected, At, IInv, Asked, Proper
    <3> QED
      BY <2>2, <2>4, <3>1 DEF Advances, Further
  <2>5. Closed(r) => Becomes(r, Task("change", "auditing", None, None))
    BY DEF Closed
  <2> QED
    BY <1>2, <1>4, <1>9, <2>3, <2>4, <2>5, <2>1, <2>2 DEF Level, Closed, At
<1>10. CASE ConnectFails(r)
  <2>1. CASE Becomes(r, [task[r] EXCEPT !.at = "failing"])
    <3> DEFINE t == [task[r] EXCEPT !.at = "failing"]
    <3>1. t \in Tasks /\ t.at = "failing"
      BY <1>1 DEF Tasks
    <3> HIDE DEF t
    <3>2. Becomes(r, t)
      BY <2>1 DEF t
    <3> QED
      BY <1>4, <1>10, <3>1, <3>2 DEF ConnectFails, At, Level
  <2>2. CASE Fails(r)
    <3>1. PICK t \in Tasks : Becomes(r, t) /\ t.at \in {"idle", "reporting"}
      BY <1>1, <2>2, FailsAdvances
    <3> QED
      BY <1>4, <1>10, <3>1 DEF ConnectFails, At, Level
  <2> QED
    BY <1>10, <2>1, <2>2 DEF ConnectFails
<1>11. CASE FailedCloses(r) \/ CloseRaises(r)
  <2>1. PICK t \in Tasks : Becomes(r, t) /\ t.at \in {"idle", "reporting"}
    BY <1>1, <1>11, FailsAdvances, IdleTask DEF FailedCloses, CloseRaises
  <2> QED
    BY <1>4, <1>11, <2>1 DEF FailedCloses, CloseRaises, At, Level
<1>12. CASE AuditWritten(r)
  <2>1. Sweep(r, Loop(task[r].op, "tools"), Cleared(catalog, "tools")) /\ task[r].op \in Ops
    BY <1>1, <1>12 DEF AuditWritten, StartRefresh, Tasks
  <2>2. PICK t \in Tasks : Becomes(r, t) /\ (t = Idle \/ (t.at = "listing" /\ t.kind \in Kinds))
    BY <1>1, <2>1, SweepAdvances, LoopTask DEF Kinds
  <2> QED
    BY <1>4, <1>12, <2>2, IdleTask DEF AuditWritten, At, Level, Kinds
<1>13. CASE AuditFails(r) \/ Report(r)
  BY <1>4, <1>13, IdleTask DEF AuditFails, Report, At, Level
<1>14. CASE Listed(r)
  <2>1. task[r].at = "listing" /\ task[r].kind \in Kinds
    BY <1>1, <1>14 DEF Listed, At, IInv, Asked, Proper
  <2>2. PICK t \in Tasks :
           /\ Becomes(r, t)
           /\ \/ t = Idle
              \/ /\ t.at = "listing" /\ t.kind \in Kinds
                 /\ Before(task[r].kind, t.kind) \/ (t.kind = task[r].kind /\ t.len < task[r].len)
    <3>1. CASE Becomes(r, Idle)
      BY <3>1, IdleTask
    <3>2. CASE ~Becomes(r, Idle)
      <4> DEFINE cat == WithAnswer(catalog, task[r].kind, task[r].srv)
      <4>1. Sweep(r, task[r], cat)
        BY <1>14, <3>2 DEF Listed
      <4> HIDE DEF cat
      <4> QED
        BY <1>1, <2>1, <4>1, SweepAdvances
    <3> QED
      BY <3>1, <3>2
  <2>3. CASE t = Idle
    BY <1>4, <2>1, <2>2, <2>3, IdleTask DEF Level, Kinds
  <2>4. CASE t.at = "listing" /\ Before(task[r].kind, t.kind)
    BY <1>4, <2>1, <2>2, <2>4 DEF Level, Kinds, Before
  <2>5. CASE t.at = "listing" /\ t.kind = task[r].kind /\ t.len < task[r].len
    BY <2>1, <2>2, <2>5 DEF Advances, Further
  <2> QED
    BY <2>2, <2>3, <2>4, <2>5
<1>15. CASE ListFails(r)
  <2>1. PICK t \in Tasks : Becomes(r, t) /\ t.at \in {"idle", "reporting"}
    BY <1>1, <1>15, FailsAdvances, IdleTask DEF ListFails
  <2>2. task[r].at = "listing" /\ task[r].kind \in Kinds
    BY <1>15 DEF ListFails, At, IInv, Asked, Proper
  <2> QED
    BY <1>4, <2>1, <2>2 DEF Level, Kinds
<1>16. CASE CallEnds(r)
  BY <1>2, <1>4, <1>16 DEF CallEnds, At, Level
<1> QED
  BY <1>5, <1>6, <1>7, <1>8, <1>9, <1>10, <1>11, <1>12, <1>13, <1>14, <1>15, <1>16 DEF Handler

\* What a step makes of any handler: it starts it, takes it further, or at most
\* changes the keys its iterator has passed.
Kept(r) ==
    \/ task[r].at = "idle"
    \/ Further(task'[r], task[r])
    \/ \E had \in SUBSET Servers : task'[r] = [task[r] EXCEPT !.seen = had]

LEMMA StepKeeps ==
    ASSUME IInv, [Next]_vars, NEW r \in Requests
    PROVE  Kept(r)
<1>1. TypeOK /\ task[r] \in Tasks
  BY DEF IInv, TypeOK
<1>2. CASE task'[r] = task[r]
  <2>1. task[r].seen \in SUBSET Servers /\ task[r] = [task[r] EXCEPT !.seen = task[r].seen]
    BY <1>1 DEF Tasks
  <2> QED
    BY <1>2, <2>1 DEF Kept
<1>3. ASSUME NEW q \in Requests, Handler(q)
      PROVE  Kept(r)
  <2>1. PICK t \in Tasks :
           /\ task[q].at = "idle" \/ Further(t, task[q])
           /\ \/ Becomes(q, t)
              \/ \E s \in Servers : Pop(q, s, t) \/ Register(q, s, t)
    BY <1>3, HandlerAdvances DEF Advances
  <2>2. CASE Becomes(q, t)
    <3>1. task'[r] = IF r = q THEN t ELSE task[r]
      BY <1>1, <2>2 DEF Becomes, TypeOK
    <3> QED
      BY <1>2, <2>1, <3>1 DEF Kept
  <2>3. ASSUME NEW s \in Servers, Pop(q, s, t)
        PROVE  Kept(r)
    <3> DEFINE had == task[r].seen \ {s}
    <3>1. task'[r] = IF r = q THEN t ELSE [task[r] EXCEPT !.seen = had]
      BY <2>3 DEF Pop
    <3>2. had \in SUBSET Servers
      BY <1>1 DEF Tasks
    <3> HIDE DEF had
    <3> QED
      BY <2>1, <3>1, <3>2 DEF Kept
  <2>4. ASSUME NEW s \in Servers, Register(q, s, t)
        PROVE  Kept(r)
    <3>1. CASE r = q
      BY <2>1, <2>4, <3>1, RegisterMoves DEF Moves, Kept
    <3>2. CASE r # q
      BY <2>4, <3>2, RegisterMoves DEF Kept
    <3> QED
      BY <3>1, <3>2
  <2> QED
    BY <2>1, <2>2, <2>3, <2>4
<1>4. CASE Relaunch
  BY <1>4 DEF Relaunch, IInv, Quiet, Kept
<1>5. CASE UNCHANGED task
  BY <1>2, <1>5
<1> QED
  BY <1>3, <1>4, <1>5 DEF Next, Lifespan, ShutdownBegins, ShutdownCloses, ShutdownEnds,
                          ShutdownRaises, vars

\* A handler only goes forward: from its handshake or close to its record, from
\* kind to kind of the catalogs, through as many servers of a kind as its iterator
\* found at first, to its response.  What the others do to the table changes at
\* most which keys its iterator has passed, never how many it still expects: a
\* refresh asks for finitely many lists, however often servers are reconnected.
THEOREM HandlersOnlyAdvance == Spec => [][\A r \in Requests : Kept(r)]_vars
<1>1. IInv /\ [Next]_vars => [\A r \in Requests : Kept(r)]_vars
  BY StepKeeps
<1> QED
  BY <1>1, Invariance, PTL DEF Spec
-----------------------------------------------------------------------------
(* The host implements ConnectionLife *)

\* The connections the table offers.
Offered == {connections[s] : s \in Tracked}

\* Putting a connection into the table, and taking one out, changes what the
\* table offers by that connection and by the one it replaces.
LEMMA TableChanges ==
    ASSUME IInv, NEW s \in Servers, NEW c \in Conns
    PROVE  /\ connections' = [connections EXCEPT ![s] = c] =>
                Offered' = (Offered \ ({connections[s]} \cap Offered)) \cup {c}
           /\ connections[s] # None /\ connections' = [connections EXCEPT ![s] = None] =>
                Offered' = Offered \ {connections[s]}
<1>1. /\ connections \in [Servers -> Conns \cup {None}]
      /\ None \notin Conns
      /\ \A x, y \in Servers : connections[x] # None /\ connections[x] = connections[y] => x = y
  BY HostAssumption DEF IInv, TypeOK, OneServer
<1>2. \A d : d \in Offered <=> \E x \in Servers : connections[x] # None /\ d = connections[x]
  BY DEF Offered, Tracked
<1>3. \A d : d \in Offered' <=> \E x \in Servers : connections'[x] # None /\ d = connections'[x]
  BY DEF Offered, Tracked
<1>4. ASSUME connections' = [connections EXCEPT ![s] = c]
      PROVE  Offered' = (Offered \ ({connections[s]} \cap Offered)) \cup {c}
  <2>1. \A x \in Servers : connections'[x] = IF x = s THEN c ELSE connections[x]
    BY <1>1, <1>4
  <2>2. ASSUME NEW d PROVE d \in Offered' <=> d = c \/ (d \in Offered /\ d # connections[s])
    BY <1>1, <1>2, <1>3, <2>1
  <2> QED
    BY <2>2
<1>5. ASSUME connections[s] # None, connections' = [connections EXCEPT ![s] = None]
      PROVE  Offered' = Offered \ {connections[s]}
  <2>1. \A x \in Servers : connections'[x] = IF x = s THEN None ELSE connections[x]
    BY <1>1, <1>5
  <2>2. ASSUME NEW d PROVE d \in Offered' <=> d \in Offered /\ d # connections[s]
    BY <1>1, <1>2, <1>3, <1>5, <2>1
  <2> QED
    BY <2>2
<1> QED
  BY <1>4, <1>5

\* Nothing of a connection changes.
Still == status' = status /\ Offered' = Offered /\ (stopping' = "no" <=> stopping = "no")

\* Each step of a handler is a step of one connection's life, or of none.
LEMMA HandlerLives ==
    ASSUME IInv, NEW r \in Requests, Handler(r)
    PROVE  Still \/ Life!Serve
<1>0. /\ status \in [Conns -> {"free", "opening", "open", "closing"}]
      /\ connections \in [Servers -> Conns \cup {None}]
      /\ task[r] \in Tasks
  BY DEF IInv, TypeOK
<1>1. connections' = connections => Offered' = Offered
  BY DEF Offered, Tracked
<1>2. stopping = "no" /\ stopping' = stopping
  BY Serving DEF Handler, Connect, Connected, ConnectFails, FailedCloses, Disconnect, Closed,
                 CloseRaises, Refresh, AuditWritten, AuditFails, Listed, ListFails, Execute,
                 CallEnds, Report, Arrives, At
<1> DEFINE Serves(c) == Life!Open(c) \/ Life!Offer(c) \/ Life!Abandon(c) \/ Life!Withdraw(c) \/ Life!Release(c)
<1>3. ASSUME NEW c \in Conns, Serves(c) PROVE Life!Serve
  BY <1>2, <1>3 DEF Life!Serve
<1>4. CASE Connect(r)
  <2>1. CASE status' = status
    BY <1>1, <1>2, <1>4, <2>1 DEF Connect, Still
  <2>2. CASE \E s \in Servers : ConnectFresh(r, s)
    <3>1. PICK c \in Conns : Fresh(c) /\ status' = [status EXCEPT ![c] = "opening"]
      BY <2>2 DEF ConnectFresh
    <3>2. c \notin Offered /\ Offered' = Offered
      BY <1>1, <1>4, <3>1 DEF Connect, Fresh, Offered, Tracked
    <3>3. Life!Open(c)
      BY <3>1, <3>2 DEF Life!Open, Life!Lives, Fresh, Offered
    <3> QED
      BY <1>3, <3>3
  <2> QED
    BY <1>4, <2>1, <2>2 DEF Connect
<1>5. CASE Connected(r)
  <2>0. PICK c \in Conns, s \in Servers : c = task[r].conn /\ s = task[r].srv
    BY <1>5 DEF Connected, At, IInv, Owned, Owning, Asked, Proper
  <2>1. status[c] = "opening"
    BY <1>5, <2>0 DEF Connected, At, IInv, Owned, Owning
  <2>2. Offered' = (Offered \ ({connections[s]} \cap Offered)) \cup {c}
    BY <1>5, <2>0, TableChanges DEF Connected, Register
  <2>3. Life!Offer(c)
    <3>1. \E D \in SUBSET Offered : /\ \A d, e \in D : d = e
                                    /\ Offered' = (Offered \ D) \cup {c}
      <4>1. \A d, e \in {connections[s]} \cap Offered : d = e
        OBVIOUS
      <4> QED
        BY <2>2, <4>1
    <3>2. Life!Lives(c, "opening", "open")
      BY <1>5, <2>0, <2>1 DEF Connected, Life!Lives
    <3> QED
      BY <3>1, <3>2 DEF Life!Offer, Offered
  <2> QED
    BY <1>3, <2>3
<1>6. CASE ConnectFails(r)
  <2>1. task[r].conn \in Conns /\ status[task[r].conn] = "opening"
    BY <1>6 DEF ConnectFails, At, IInv, Owned, Owning
  <2>2. Life!Abandon(task[r].conn)
    BY <1>1, <1>6, <2>1 DEF ConnectFails, Life!Abandon, Life!Lives, Offered
  <2> QED
    BY <1>3, <2>1, <2>2
<1>7. CASE FailedCloses(r) \/ Closed(r) \/ CloseRaises(r)
  <2>1. task[r].conn \in Conns /\ status[task[r].conn] = "closing"
    BY <1>7 DEF FailedCloses, Closed, CloseRaises, At, IInv, Owned, Owning
  <2>2. Life!Release(task[r].conn)
    BY <1>1, <1>7, <2>1 DEF FailedCloses, Closed, CloseRaises, Life!Release, Life!Lives, Offered
  <2> QED
    BY <1>3, <2>1, <2>2
<1>8. CASE Disconnect(r)
  <2>1. CASE status' = status /\ connections' = connections
    BY <1>1, <1>2, <2>1 DEF Still
  <2>2. ASSUME NEW s \in Servers, connections[s] # None, NEW life \in {"closing", "free"},
               connections' = [connections EXCEPT ![s] = None],
               status' = [status EXCEPT ![connections[s]] = life]
        PROVE  Life!Serve
    <3>0. PICK c \in Conns : c = connections[s]
      BY <1>0, <2>2
    <3>1. status[c] = "open" /\ c \in Offered
      BY <1>2, <2>2, <3>0 DEF IInv, TrackedOpen, Offered, Tracked
    <3>2. Offered' = Offered \ {c}
      BY <2>2, <3>0, TableChanges
    <3>3. Life!Withdraw(c)
      BY <2>2, <3>0, <3>1, <3>2 DEF Life!Withdraw, Life!Lives, Offered
    <3> QED
      BY <1>3, <3>3
  <2> QED
    BY <1>8, <2>1, <2>2 DEF Disconnect, Pop
<1>9. CASE \/ Refresh(r) \/ AuditWritten(r) \/ AuditFails(r) \/ Listed(r) \/ ListFails(r)
           \/ Execute(r) \/ CallEnds(r) \/ Report(r)
  BY <1>1, <1>2, <1>9 DEF Refresh, AuditWritten, AuditFails, Listed, ListFails, Execute,
                          CallEnds, Report, Still
<1> QED
  BY <1>4, <1>5, <1>6, <1>7, <1>8, <1>9 DEF Handler

\* The lifespan's exit stops with nothing half open, closes what the table offers
\* and clears it.
LEMMA LifespanLives ==
    ASSUME IInv, Lifespan
    PROVE  Still \/ Life!Stop \/ Life!Shut \/ Life!Clear \/ Life!Restart
<1>1. connections' = connections => Offered' = Offered
  BY DEF Offered, Tracked
<1>2. status \in [Conns -> {"free", "opening", "open", "closing"}]
  BY DEF IInv, TypeOK
<1>3. CASE ShutdownBegins
  <2>1. \A c \in Conns : status[c] \in {"free", "open"}
    BY <1>2, <1>3 DEF ShutdownBegins, At, IInv, HasOwner, Owning
  <2> QED
    BY <1>1, <1>3, <2>1 DEF ShutdownBegins, Life!Stop, Offered
<1>4. CASE ShutdownCloses \/ ShutdownRaises
  <2>1. PICK s \in Tracked : /\ status[connections[s]] = "open"
                             /\ status' = [status EXCEPT ![connections[s]] = "free"]
    BY <1>4 DEF ShutdownCloses, ShutdownRaises
  <2>2. connections[s] \in Offered
    BY DEF Offered
  <2>3. /\ stopping # "no" /\ stopping' # "no" /\ Offered' = Offered
        /\ Life!Lives(connections[s], "open", "free")
    BY <1>1, <1>4, <2>1 DEF ShutdownCloses, ShutdownRaises, Life!Lives
  <2> QED
    BY <2>2, <2>3 DEF Life!Shut, Offered
<1>5. CASE ShutdownEnds
  <2>1. Offered' = {}
    BY <1>5 DEF ShutdownEnds, Offered, Tracked
  <2>2. \A c \in Offered : status[c] = "free"
    BY <1>5 DEF ShutdownEnds, Offered
  <2> QED
    BY <1>5, <2>1, <2>2 DEF ShutdownEnds, Life!Clear, Offered
<1>6. CASE Relaunch
  <2>1. Offered' = {}
    BY <1>6 DEF Relaunch, Offered, Tracked
  <2> QED
    BY <1>6, <2>1 DEF Relaunch, Life!Restart, Offered
<1> QED
  BY <1>3, <1>4, <1>5, <1>6 DEF Lifespan

\* Every connection object lives as ConnectionLife promises: it is opened once,
\* offered by the table only when open, taken out of the table before it is closed
\* and opened again only after that; shutdown begins with none half open, and
\* closes what the table offers (ServerManager, MCPServerConnection).
THEOREM HostKeepsLives == Spec => LivesAreKept
<1>1. Init => Life!Init
  <2>1. Init => Offered = {}
    BY DEF Init, Offered, Tracked
  <2> QED
    BY <2>1 DEF Init, Life!Init, Offered
<1>2. IInv /\ [Next]_vars => [Life!Next]_(Life!lifeVars)
  <2> SUFFICES ASSUME IInv, [Next]_vars PROVE [Life!Next]_(Life!lifeVars)
    OBVIOUS
  <2>1. CASE Still
    BY <2>1 DEF Still, Life!lifeVars, Offered
  <2>2. CASE UNCHANGED vars
    BY <2>2 DEF vars, Life!lifeVars, Tracked
  <2>3. ASSUME NEW r \in Requests, Handler(r) PROVE [Life!Next]_(Life!lifeVars)
    BY <2>1, <2>3, HandlerLives DEF Life!Next
  <2>4. CASE Lifespan
    BY <2>1, <2>4, LifespanLives DEF Life!Next
  <2> QED
    BY <2>2, <2>3, <2>4 DEF Next
<1> QED
  BY <1>1, <1>2, Invariance, PTL DEF Spec, LivesAreKept, Life!Spec
=============================================================================
