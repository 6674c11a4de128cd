----------------------------- MODULE MCMcpHost -----------------------------
(* Values for McpHost: an operator role and a viewer role, one user of each.  *)
EXTENDS McpHost, TLC

CONSTANTS git, erp, op, guest, operator, viewer

MCServers == {git, erp}
MCUsers == {op, guest}

\* The operator holds every code; the guest may only execute.
MCRolesOf == op :> {operator} @@ guest :> {viewer}
MCCodesOf == op :> Codes @@ guest :> {"execute"}

\* git has a rule in the database, erp falls back on its definition; the tool
\* of the stdio server is open to all, the service's is not.
MCServerRules == git :> {operator} @@ erp :> {}
MCServerRoles == git :> {viewer} @@ erp :> {operator}
MCToolRules == [s \in MCServers |-> {}]

\* Calls that fail while erp is a service; with no failing calls, both servers
\* may also be sessions: the iterators of two handlers then outlive each other.
Sessions(s, f) == [stdio |-> s, faults |-> f]
MCDeployments ==
    {Sessions({git}, {"audit", "close", "list"}), Sessions({git}, {}), Sessions({git, erp}, {})}
Calm == {Sessions({git}, {})}

Permuted == Permutations(Requests) \cup Permutations(Conns)
=============================================================================
