--------------------------- MODULE KnowledgeBase ---------------------------
(***************************************************************************)
(* What the document knowledge base promises its users: a document becomes *)
(* searchable at once and stays so, an upload is acknowledged only for a   *)
(* searchable document, and what is listed can be searched.  It does not   *)
(* promise that a listed document stays listed.                            *)
(***************************************************************************)
CONSTANTS
    Documents,
    Unreadable     \* the list of documents cannot be read

VARIABLES searchable, listed, acknowledged

Init == searchable = {} /\ listed = {} /\ acknowledged = {}

Learn(d) ==
    /\ d \notin searchable
    /\ searchable' = searchable \cup {d}
    /\ UNCHANGED <<listed, acknowledged>>

Relist ==
    /\ listed' \in {Unreadable} \cup SUBSET searchable
    /\ UNCHANGED <<searchable, acknowledged>>

\* The new document is listed, unless the list cannot be read.
Acknowledge(d) ==
    /\ d \in searchable
    /\ \/ listed' = Unreadable
       \/ listed' \in SUBSET searchable /\ d \in listed'
    /\ acknowledged' = acknowledged \cup {d}
    /\ UNCHANGED searchable

Next == Relist \/ \E d \in Documents : Learn(d) \/ Acknowledge(d)

Spec == Init /\ [][Next]_<<searchable, listed, acknowledged>>
=============================================================================
