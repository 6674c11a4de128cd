------------------------------ MODULE McpHost ------------------------------
(***************************************************************************)
(* The request handlers of the web host that share one table of MCP server *)
(* connections and one set of discovery catalogs:                          *)
(*   application/server_manager.py    connect, disconnect, shutdown        *)
(*   infrastructure/mcp_client.py     MCPServerConnection                  *)
(*   application/{tool,resource,prompt}_manager.py   refresh, execute      *)
(*   application/host.py              refresh_discovery, shutdown          *)
(*   presentation/web/routes.py       the handlers that call them          *)
(*                                                                         *)
(* Handlers are coroutines of one event loop: what lies between two awaits *)
(* that really suspend is one step.  A request is one execution of a       *)
(* handler; its record says where it is suspended and what its locals are. *)
(***************************************************************************)
EXTENDS Naturals, FiniteSets, Authorization

CONSTANTS
    Requests,      \* requests in flight together
    Users,         \* users of the requests
    Servers,       \* configured servers
    Conns,         \* MCPServerConnection objects (an unused one is reused)
    None,          \* Python's None
    Deployments,   \* what a behaviour may find: which servers are sessions over
                   \* a subprocess, and which of the calls may fail
    RolesOf,       \* user -> role names
    CodesOf,       \* user -> effective permission codes
    ServerRules,   \* server -> roles of the server_access table
    ServerRoles,   \* server -> ServerDefinition.allowed_roles
    ToolRules      \* server -> roles of the tool_permissions table (its tool)

Kinds == {"tools", "resources", "prompts"}
Codes == {"connect", "disconnect", "execute", "refresh"}

ASSUME HostAssumption ==
    /\ IsFiniteSet(Servers)
    /\ None \notin Conns \cup Servers
    /\ Deployments \subseteq [stdio : SUBSET Servers,
                              faults : SUBSET {"audit", "close", "list"}]

VARIABLES
    status,        \* Conns -> the life of a connection object
    connections,   \* ServerManager.connections: server -> connection or None
    catalog,       \* the three managers: kind -> server -> 0, 1, 2 (2: twice or more)
    task,          \* Requests -> where the handler is and its locals
    stopping,      \* the lifespan's exit: "no", "yes", "done"
    stdio,         \* the servers with no service: sessions over a subprocess
    faults         \* the calls that may fail: none, or of "audit", "close", "list"

fixed == <<stdio, faults>>
vars == <<status, connections, catalog, task, stopping, stdio, faults>>

\* Whose refresh a handler runs: connect_server's or disconnect_server's, which
\* report an error, or refresh_servers', which does not.
Ops == {"none", "change", "refresh"}
Places == {"idle", "connecting", "failing", "closing", "auditing", "listing",
           "calling", "reporting"}

\* seen, size and len are the dict iterator of the refresh loop: the keys it
\* has passed, the length of the dict when the loop began, and how many keys it
\* still expects to yield.
Tasks == [op : Ops, at : Places, srv : Servers \cup {None},
          conn : Conns \cup {None}, kind : Kinds \cup {"none"},
          seen : SUBSET Servers, size : Nat, len : Nat]

TypeOK ==
    /\ status \in [Conns -> {"free", "opening", "open", "closing"}]
    /\ connections \in [Servers -> Conns \cup {None}]
    /\ catalog \in [Kinds -> [Servers -> 0..2]]
    /\ task \in [Requests -> Tasks]
    /\ stopping \in {"no", "yes", "done"}
    /\ [stdio |-> stdio, faults |-> faults] \in Deployments
-----------------------------------------------------------------------------
Tracked == {s \in Servers : connections[s] # None}

Task(op, at, srv, conn) ==
    [op |-> op, at |-> at, srv |-> srv, conn |-> conn, kind |-> "none",
     seen |-> {}, size |-> 0, len |-> 0]
Idle == Task("none", "idle", None, None)

At(r, place) == task[r].at = place

\* An object the next MCPServerConnection() may be: nobody refers to it.
Fresh(c) ==
    /\ status[c] = "free"
    /\ \A s \in Servers : connections[s] # c
    /\ \A r \in Requests : task[r].conn # c

\* A request that suspends at a new place, or ends.
Becomes(r, t) == task' = [task EXCEPT ![r] = t]

\* The error path of connect_server, disconnect_server and execute_tool: the
\* error is audited in a thread before the response.  In refresh_servers the
\* exception goes straight to the application's exception handler.
Fails(r) ==
    IF task[r].op = "refresh" THEN Becomes(r, Idle)
    ELSE Becomes(r, Task("none", "reporting", None, None))

Init ==
    /\ status = [c \in Conns |-> "free"]
    /\ connections = [s \in Servers |-> None]
    /\ catalog = [k \in Kinds |-> [s \in Servers |-> 0]]
    /\ task = [r \in Requests |-> Idle]
    /\ stopping = "no"
    /\ \E d \in Deployments : stdio = d.stdio /\ faults = d.faults

\* A request arrives: the handler starts while the application serves.
Arrives(r) == stopping = "no" /\ At(r, "idle")
-----------------------------------------------------------------------------
(* connect_server *)

MayConnect(u, s) ==
    /\ HasPermission(CodesOf[u], "connect")
    /\ Admits(RolesOf[u], ServerRules[s], ServerRoles[s])

\* ServerManager.connect up to its await: a denied user is reported, else a
\* new connection object starts to open.  A server that is connected already
\* is not looked for.
ConnectFresh(r, s) ==
    \E c \in Conns :
        /\ Fresh(c)
        /\ status' = [status EXCEPT ![c] = "opening"]
        /\ Becomes(r, Task("change", "connecting", s, c))

Connect(r) ==
    /\ Arrives(r)
    /\ \E u \in Users, s \in Servers :
          IF MayConnect(u, s)
          THEN ConnectFresh(r, s)
          ELSE Becomes(r, Task("none", "reporting", None, None)) /\ UNCHANGED status
    /\ UNCHANGED <<connections, catalog, stopping>>

\* Mutant: the server is stored in place of its connection.
RegisterServer(r, s, t) ==
    /\ connections' = [connections EXCEPT ![s] = s]
    /\ Becomes(r, t)

\* `self.connections[server.name] = connection`.  Inserting a new key may make
\* the dict move its entries together; an iterator keeps its position and then
\* passes over keys it has not yielded.
Register(r, s, t) ==
    /\ connections' = [connections EXCEPT ![s] = task[r].conn]
    /\ \E passed \in [{q \in Requests : At(q, "listing")} -> SUBSET (Tracked \cup {s})] :
          /\ connections[s] # None => \A q \in DOMAIN passed : passed[q] = {}
          /\ task' = [q \in Requests |->
                        IF q = r THEN t
                        ELSE IF q \in DOMAIN passed
                        THEN [task[q] EXCEPT !.seen = @ \cup passed[q]]
                        ELSE task[q]]

\* The connection is open: it takes the server's place in the table, then the
\* handler waits for the audit record.
Connected(r) ==
    /\ At(r, "connecting")
    /\ status' = [status EXCEPT ![task[r].conn] = "open"]
    /\ Register(r, task[r].srv, Task("change", "auditing", None, None))
    /\ UNCHANGED <<catalog, stopping>>

\* Mutant: a failed handshake is not followed by close().
ConnectFailsUnclosed(r) ==
    /\ At(r, "connecting")
    /\ Fails(r)
    /\ UNCHANGED <<status, connections, catalog, stopping>>

\* The server does not answer the handshake: connect() closes what it opened.
\* A service holds nothing open, so closing it does not suspend.
ConnectFails(r) ==
    /\ At(r, "connecting")
    /\ IF task[r].srv \in stdio
       THEN /\ status' = [status EXCEPT ![task[r].conn] = "closing"]
            /\ Becomes(r, [task[r] EXCEPT !.at = "failing"])
       ELSE /\ status' = [status EXCEPT ![task[r].conn] = "free"]
            /\ Fails(r)
    /\ UNCHANGED <<connections, catalog, stopping>>

\* close() of the half-open connection returns: ServerUnavailableError.
FailedCloses(r) ==
    /\ At(r, "failing")
    /\ status' = [status EXCEPT ![task[r].conn] = "free"]
    /\ Fails(r)
    /\ UNCHANGED <<connections, catalog, stopping>>
-----------------------------------------------------------------------------
(* disconnect_server *)

\* Mutant: the connection is looked up and stays in the table while it closes.
PopNothing(r, s, t) ==
    /\ connections' = connections
    /\ task' = [q \in Requests |->
                  IF q = r THEN t ELSE [task[q] EXCEPT !.seen = @ \ {s}]]

\* `self.connections.pop(server_name, None)`: an iterator that has passed the
\* key yields it again if it is inserted again, at the end.
Pop(r, s, t) ==
    /\ connections' = [connections EXCEPT ![s] = None]
    /\ task' = [q \in Requests |->
                  IF q = r THEN t ELSE [task[q] EXCEPT !.seen = @ \ {s}]]

\* ServerManager.disconnect up to its await.  An untracked server is only a
\* warning, and closing a service does not suspend.
Disconnect(r) ==
    /\ Arrives(r)
    /\ \E u \in Users, s \in Servers :
         \/ /\ ~HasPermission(CodesOf[u], "disconnect")
            /\ Becomes(r, Task("none", "reporting", None, None))
            /\ UNCHANGED <<status, connections>>
         \/ /\ HasPermission(CodesOf[u], "disconnect")
            /\ connections[s] = None
            /\ Becomes(r, Task("change", "auditing", None, None))
            /\ UNCHANGED <<status, connections>>
         \/ /\ HasPermission(CodesOf[u], "disconnect")
            /\ connections[s] # None
            /\ s \notin stdio
            /\ Pop(r, s, Task("change", "auditing", None, None))
            /\ status' = [status EXCEPT ![connections[s]] = "free"]
         \/ /\ HasPermission(CodesOf[u], "disconnect")
            /\ connections[s] # None
            /\ s \in stdio
            /\ Pop(r, s, Task("change", "closing", s, connections[s]))
            /\ status' = [status EXCEPT ![connections[s]] = "closing"]
    /\ UNCHANGED <<catalog, stopping>>

Closed(r) ==
    /\ At(r, "closing")
    /\ status' = [status EXCEPT ![task[r].conn] = "free"]
    /\ Becomes(r, Task("change", "auditing", None, None))
    /\ UNCHANGED <<connections, catalog, stopping>>

\* The exit stack of the MCP library raises while it unwinds (it was entered
\* by another task).  Not an EnterpriseMCPError: the handler ends, without the
\* audit record and without the refresh.
CloseRaises(r) ==
    /\ "close" \in faults
    /\ \/ At(r, "closing")
       \/ At(r, "failing")
    /\ status' = [status EXCEPT ![task[r].conn] = "free"]
    /\ Becomes(r, Idle)
    /\ UNCHANGED <<connections, catalog, stopping>>
-----------------------------------------------------------------------------
(* Host.refresh_discovery: tools, then resources, then prompts, then audit *)

NextKind(k) == IF k = "tools" THEN "resources" ELSE "prompts"
Empty == [s \in Servers |-> 0]
\* Mutant: a refresh adds to what the last one found.
ClearedNot(cat, k) == cat

Cleared(cat, k) == [cat EXCEPT ![k] = Empty]

\* list_x of the services in B is done: their operations are tools, and they
\* have no resources and no prompts.
WithServices(cat, k, B) ==
    IF k # "tools" THEN cat
    ELSE [cat EXCEPT ![k] = [s \in Servers |-> IF s \in B THEN 1 ELSE @[s]]]

\* list_x of the stdio server s has answered: tools are a dict by qualified
\* name, resources and prompts a list that is extended.
WithAnswer(cat, k, s) ==
    IF k = "tools" THEN [cat EXCEPT ![k][s] = 1]
    ELSE [cat EXCEPT ![k][s] = IF @ = 0 THEN 1 ELSE 2]

\* The handler of operation op at the head of the loop over kind k: a new
\* iterator over the table.
Loop(op, k) ==
    [op |-> op, at |-> "listing", srv |-> None, conn |-> None, kind |-> k,
     seen |-> {}, size |-> Cardinality(Tracked), len |-> Cardinality(Tracked)]

\* Mutant: the iterator does not count what it has yielded.
AskUncounted(r, t, cat, s, B) ==
    /\ Cardinality(B) < t.len
    /\ catalog' = WithServices(cat, t.kind, B)
    /\ Becomes(r, [t EXCEPT !.srv = s, !.conn = connections[s],
                            !.seen = @ \cup B \cup {s}])

\* The loop of t reaches the stdio server s, having gone through the services
\* B since it last resumed, and waits for the server's answer.
Ask(r, t, cat, s, B) ==
    /\ Cardinality(B) < t.len
    /\ catalog' = WithServices(cat, t.kind, B)
    /\ Becomes(r, [t EXCEPT !.srv = s, !.conn = connections[s],
                            !.seen = @ \cup B \cup {s},
                            !.len = @ - Cardinality(B) - 1])

\* Keys that were taken out and put in again leave the dict's length as it was:
\* the iterator finds a key after as many as it expected, the services B last,
\* and raises RuntimeError, which no handler catches.
KeysChanged(r, t, cat) ==
    /\ Cardinality(Tracked \ t.seen) > t.len
    /\ \E B \in SUBSET (Tracked \ (t.seen \cup stdio)) :
          /\ Cardinality(B) = t.len
          /\ catalog' = WithServices(cat, t.kind, B)
    /\ Becomes(r, Idle)

\* The loop of t goes on with the keys it has not passed.  When none is left it
\* ends, and the next kind's loop starts on a cleared catalog; when no stdio
\* server is tracked the later loops do not suspend at all, and the audit
\* record, written on the event loop, ends the handler (or raises: the same for
\* the host's state).
Sweep(r, t, cat) ==
    LET left  == Tracked \ t.seen
        swept == WithServices(cat, t.kind, left)
        next  == NextKind(t.kind)
        ended == left \cap stdio = {} /\ Cardinality(left) <= t.len
    IN  \/ \E s \in left \cap stdio, B \in SUBSET (left \ stdio) : Ask(r, t, cat, s, B)
        \/ KeysChanged(r, t, cat)
        \/ /\ ended /\ t.kind # "prompts"
           /\ \E s \in Tracked \cap stdio, B \in SUBSET (Tracked \ stdio) :
                 Ask(r, Loop(t.op, next), Cleared(swept, next), s, B)
        \/ /\ ended /\ t.kind = "prompts"
           /\ catalog' = swept
           /\ Becomes(r, Idle)
        \/ /\ ended /\ t.kind # "prompts"
           /\ Tracked \cap stdio = {}
           /\ catalog' = IF t.kind = "tools"
                         THEN Cleared(Cleared(swept, "resources"), "prompts")
                         ELSE Cleared(swept, "prompts")
           /\ Becomes(r, Idle)

StartRefresh(r, op) == Sweep(r, Loop(op, "tools"), Cleared(catalog, "tools"))

\* refresh_servers
Refresh(r) ==
    /\ Arrives(r)
    /\ \E u \in Users : HasPermission(CodesOf[u], "refresh")
    /\ StartRefresh(r, "refresh")
    /\ UNCHANGED <<status, connections, stopping>>

\* Mutant: no refresh is started while another one runs.
AuditWrittenOnce(r) ==
    /\ At(r, "auditing")
    /\ IF \E q \in Requests : At(q, "listing")
       THEN Becomes(r, Idle) /\ UNCHANGED catalog
       ELSE StartRefresh(r, task[r].op)
    /\ UNCHANGED <<status, connections, stopping>>

\* The audit record of a connect or disconnect is written: refresh.
AuditWritten(r) ==
    /\ At(r, "auditing")
    /\ StartRefresh(r, task[r].op)
    /\ UNCHANGED <<status, connections, stopping>>

\* The database fails: not an EnterpriseMCPError, the handler ends.
AuditFails(r) ==
    /\ "audit" \in faults
    /\ At(r, "auditing")
    /\ Becomes(r, Idle)
    /\ UNCHANGED <<status, connections, catalog, stopping>>

\* The stdio server answers.  The dict iterator raises RuntimeError when the
\* dict's length is not what it was; the handler ends there.
SizeChanged(r) == Cardinality(Tracked) # task[r].size

Listed(r) ==
    LET t   == task[r]
        cat == WithAnswer(catalog, t.kind, t.srv)
    IN  /\ At(r, "listing")
        /\ status[t.conn] \in {"open", "closing"}
        /\ IF SizeChanged(r)
           THEN catalog' = cat /\ Becomes(r, Idle)
           ELSE Sweep(r, t, cat)
        /\ UNCHANGED <<status, connections, stopping>>

\* The listing fails: the session was closed under it, or the server or its
\* pipe failed.  A missing session is an EnterpriseMCPError, the library's own
\* errors are not.
ListFails(r) ==
    /\ At(r, "listing")
    /\ "list" \in faults \/ status[task[r].conn] # "open"
    /\ Fails(r) \/ Becomes(r, Idle)
    /\ UNCHANGED <<status, connections, catalog, stopping>>
-----------------------------------------------------------------------------
(* execute_tool and ToolManager.execute; one tool stands for a server's *)

\* Tools of a service inherit the server's roles, tools of a session none.
FallbackRoles(s) == IF s \in stdio THEN {} ELSE ServerRoles[s]

MayExecute(u, s) == Admits(RolesOf[u], ToolRules[s], FallbackRoles(s))

Untracked(s) == connections[s] = None

\* A tool that is still in the catalog while its server is no longer in the
\* table ends the handler with a KeyError, in no way audited.
Execute(r) ==
    /\ Arrives(r)
    /\ \E u \in Users, s \in Servers :
         IF \/ ~HasPermission(CodesOf[u], "execute")
            \/ catalog["tools"][s] = 0
            \/ ~MayExecute(u, s)
         THEN Becomes(r, Task("none", "reporting", None, None))
         ELSE /\ ~Untracked(s)
              /\ Becomes(r, Task("none", "calling", s, connections[s]))
    /\ UNCHANGED <<status, connections, catalog, stopping>>

\* The call returns or fails, and either is audited in a thread.
CallEnds(r) ==
    /\ At(r, "calling")
    /\ Becomes(r, Task("none", "reporting", None, None))
    /\ UNCHANGED <<status, connections, catalog, stopping>>

\* The last audit record is written, or raises: the response goes out.
Report(r) ==
    /\ At(r, "reporting")
    /\ Becomes(r, Idle)
    /\ UNCHANGED <<status, connections, catalog, stopping>>
-----------------------------------------------------------------------------
(* The lifespan's exit: the server has let every request end *)

ShutdownBegins ==
    /\ stopping = "no"
    /\ \A r \in Requests : At(r, "idle")
    /\ stopping' = "yes"
    /\ UNCHANGED <<status, connections, catalog, task>>

\* One iteration of ServerManager.shutdown's loop over the table's values.
ShutdownCloses ==
    /\ stopping = "yes"
    /\ \E s \in Tracked :
          /\ status[connections[s]] = "open"
          /\ status' = [status EXCEPT ![connections[s]] = "free"]
    /\ UNCHANGED <<connections, catalog, task, stopping>>

ShutdownEnds ==
    /\ stopping = "yes"
    /\ \A s \in Tracked : status[connections[s]] = "free"
    /\ connections' = [s \in Servers |-> None]
    /\ stopping' = "done"
    /\ UNCHANGED <<status, catalog, task>>

\* A close that raises leaves the loop: the rest stays open, nothing cleared.
ShutdownRaises ==
    /\ "close" \in faults
    /\ stopping = "yes"
    /\ \E s \in Tracked \cap stdio :
          /\ status[connections[s]] = "open"
          /\ status' = [status EXCEPT ![connections[s]] = "free"]
    /\ stopping' = "done"
    /\ UNCHANGED <<connections, catalog, task>>

\* The process has exited (its subprocesses with it) and is started again.
Relaunch ==
    /\ stopping = "done"
    /\ status' = [c \in Conns |-> "free"]
    /\ connections' = [s \in Servers |-> None]
    /\ catalog' = [k \in Kinds |-> [s \in Servers |-> 0]]
    /\ task' = [r \in Requests |-> Idle]
    /\ stopping' = "no"
-----------------------------------------------------------------------------
Handler(r) ==
    \/ Connect(r) \/ Connected(r) \/ ConnectFails(r) \/ FailedCloses(r)
    \/ Disconnect(r) \/ Closed(r) \/ CloseRaises(r)
    \/ Refresh(r) \/ AuditWritten(r) \/ AuditFails(r) \/ Listed(r) \/ ListFails(r)
    \/ Execute(r) \/ CallEnds(r) \/ Report(r)

Lifespan ==
    \/ ShutdownBegins \/ ShutdownCloses \/ ShutdownEnds \/ ShutdownRaises
    \/ Relaunch

Next == ((\E r \in Requests : Handler(r)) \/ Lifespan) /\ UNCHANGED fixed

Spec == Init /\ [][Next]_vars
-----------------------------------------------------------------------------
(* Properties *)

Owning == {"connecting", "failing", "closing"}
AllIdle == \A r \in Requests : At(r, "idle")
Leaked == {c \in Conns : status[c] = "open" /\ \A s \in Servers : connections[s] # c}

\* What the table offers while requests are served is an open connection of
\* one server only: ToolManager.execute's lookup in `connections` never hands
\* out a session that is opening, closing or closed, so the `is not connected`
\* error of _require_session is unreachable from execute.
TrackedIsOpen ==
    stopping = "no" =>
        \A s \in Tracked :
            /\ status[connections[s]] = "open"
            /\ \A t \in Tracked : connections[t] = connections[s] => t = s

\* Of all handlers, at most one opens or closes a given connection object, so
\* no exit stack is unwound twice, and a half-open or half-closed connection
\* always has a handler that will finish with it.
SoleOwner ==
    \A c \in Conns :
        LET owners == {r \in Requests : task[r].at \in Owning /\ task[r].conn = c}
        IN  /\ \A r, q \in owners : r = q
            /\ status[c] \in {"opening", "closing"} <=> owners # {}

\* With calls that do not fail: when every handler has ended, whatever the
\* overlap of connects, disconnects and refreshes was, each tracked server is
\* in the tool catalog, and each stdio server in all three.  An aborted or
\* outdated refresh is always repaired by the refresh of a later handler.
CatalogComplete ==
    faults = {} /\ AllIdle /\ stopping = "no" =>
        \A s \in Tracked :
            /\ catalog["tools"][s] > 0
            /\ s \in stdio => \A k \in Kinds : catalog[k][s] > 0

\* With calls that do not fail and no connection overwritten in the table:
\* when every handler has ended, the catalogs list tracked servers only, so
\* that no tool is offered whose execution ends in a KeyError.
CatalogSound ==
    faults = {} /\ AllIdle /\ stopping = "no" /\ Leaked = {} =>
        \A k \in Kinds, s \in Servers : catalog[k][s] > 0 => s \in Tracked

\* The life of every connection object is the one ConnectionLife promises.
Life == INSTANCE ConnectionLife WITH
    Connections <- Conns,
    life <- status,
    offered <- {connections[s] : s \in Tracked},
    serving <- stopping = "no"
LivesAreKept == Life!Spec

\* "Disconnect all active servers." (server_manager.py:65): after shutdown no
\* connection is left open.
ShutdownClosesAll ==
    stopping = "done" => \A c \in Conns : status[c] = "free"
-----------------------------------------------------------------------------
(* Liveness *)

\* The event loop runs every ready handler, database threads finish, and
\* call_tool has a timeout.  Nothing bounds a handshake, a listing or the
\* closing of a session, so these have no fairness.
Fairness ==
    \A r \in Requests :
        /\ WF_vars((AuditWritten(r) \/ AuditFails(r)) /\ UNCHANGED fixed)
        /\ WF_vars(CallEnds(r) /\ UNCHANGED fixed)
        /\ WF_vars(Report(r) /\ UNCHANGED fixed)

FairSpec == Spec /\ Fairness

\* A handler that is past its handshake or its close, and any refresh and any
\* execution, ends if the listings it waits for itself end, each with an answer
\* or a failure: however often other handlers change the table under its loops.
HandlersEnd ==
    \A r \in Requests :
        WF_vars((Listed(r) \/ ListFails(r)) /\ UNCHANGED fixed) =>
            (task[r].at \in {"auditing", "listing", "calling", "reporting"} ~> At(r, "idle"))
=============================================================================
