--------------------------- MODULE ConnectionLife ---------------------------
(***************************************************************************)
(* What the server manager promises of MCPServerConnection objects          *)
(* (application/server_manager.py, infrastructure/mcp_client.py): each is   *)
(* opened once, offered in the table only from the end of its handshake,    *)
(* taken out of the table before it is closed, and opened again only after  *)
(* it was closed.  It does not promise that one that was replaced in the    *)
(* table is ever closed.                                                    *)
(***************************************************************************)
CONSTANTS Connections

VARIABLES
    life,          \* Connections -> "free", "opening", "open", "closing"
    offered,       \* the connections in the table
    serving        \* requests are served: the lifespan has not ended

lifeVars == <<life, offered, serving>>

Init ==
    /\ life = [c \in Connections |-> "free"]
    /\ offered = {}
    /\ serving = TRUE

Lives(c, from, to) == life[c] = from /\ life' = [life EXCEPT ![c] = to]

\* An object that is not in the table starts its handshake.
Open(c) ==
    /\ c \notin offered
    /\ Lives(c, "free", "opening")
    /\ UNCHANGED offered

\* The handshake succeeds: the connection enters the table, where it may take
\* the place of another.
Offer(c) ==
    /\ Lives(c, "opening", "open")
    /\ \E replaced \in SUBSET offered :
          /\ \A d, e \in replaced : d = e
          /\ offered' = (offered \ replaced) \cup {c}

\* The handshake fails: closing what was opened may take time, or does not.
Abandon(c) ==
    /\ Lives(c, "opening", "closing") \/ Lives(c, "opening", "free")
    /\ UNCHANGED offered

\* An open connection is taken out of the table, and closed.
Withdraw(c) ==
    /\ c \in offered
    /\ Lives(c, "open", "closing") \/ Lives(c, "open", "free")
    /\ offered' = offered \ {c}

Release(c) ==
    /\ Lives(c, "closing", "free")
    /\ UNCHANGED offered

Serve ==
    /\ serving
    /\ \E c \in Connections : Open(c) \/ Offer(c) \/ Abandon(c) \/ Withdraw(c) \/ Release(c)
    /\ UNCHANGED serving

\* The lifespan ends with nothing half open.
Stop ==
    /\ serving
    /\ \A c \in Connections : life[c] \in {"free", "open"}
    /\ serving' = FALSE
    /\ UNCHANGED <<life, offered>>

\* Shutdown closes what is in the table, then clears the table.
Shut ==
    /\ ~serving
    /\ \E c \in offered : Lives(c, "open", "free")
    /\ UNCHANGED <<offered, serving>>

Clear ==
    /\ ~serving
    /\ \A c \in offered : life[c] = "free"
    /\ offered' = {}
    /\ UNCHANGED <<life, serving>>

\* A new process.
Restart ==
    /\ ~serving
    /\ life' = [c \in Connections |-> "free"]
    /\ offered' = {}
    /\ serving' = TRUE

Next == Serve \/ Stop \/ Shut \/ Clear \/ Restart

Spec == Init /\ [][Next]_lifeVars
=============================================================================
