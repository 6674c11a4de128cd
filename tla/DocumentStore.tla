--------------------------- MODULE DocumentStore ---------------------------
(***************************************************************************)
(* application/document_store.py: uploads and queries run in worker        *)
(* threads (asyncio.to_thread), so every file operation, transaction and   *)
(* lock operation is a step of its own.  The state on disk is the upload   *)
(* directory, the sqlite vectors and the JSON index; only the embedding    *)
(* model has a lock.  An upload is one call of add_document and its        *)
(* document; ids (timestamps in microseconds) are taken to be distinct.    *)
(***************************************************************************)
EXTENDS Naturals

CONSTANTS
    Uploads,       \* calls of add_document, each with its document
    Queries,       \* threads that search or embed a query
    None,          \* the embedding lock is free
    Torn,          \* the index file does not hold a JSON document
    MaxCrashes,    \* bound on the crashes of the process
    Faults         \* which calls may fail: "save", "extract", "embed", "insert", "write"

ASSUME StoreAssumption ==
    /\ None \notin Uploads \cup Queries
    /\ Uploads \cap Queries = {}
    /\ MaxCrashes \in Nat
    /\ Faults \subseteq {"save", "extract", "embed", "insert", "write"}

VARIABLES
    files,         \* documents in the upload directory
    vectors,       \* documents with committed rows in document_vectors
    index,         \* index.json: the documents it lists, or Torn
    lock,          \* holder of _embeddings_lock
    up,            \* Uploads -> place and locals
    query,         \* Queries -> place and the rows read
    crashes

vars == <<files, vectors, index, lock, up, query, crashes>>

Places == {"new", "saved", "extracted", "loaded", "embedding", "embedded",
           "unlinking", "deleting", "inserted", "writing", "done", "failed", "lost"}
Ended == {"done", "failed", "lost"}

\* known is the index read at line 91; clash says that another thread had the
\* index file open for writing at the same time.
UpType == [at : Places, known : SUBSET Uploads, clash : BOOLEAN]
QueryType == [at : {"idle", "waiting", "embedding"}, rows : SUBSET Uploads]

TypeOK ==
    /\ files \in SUBSET Uploads
    /\ vectors \in SUBSET Uploads
    /\ index \in {Torn} \cup SUBSET Uploads
    /\ lock \in Uploads \cup Queries \cup {None}
    /\ up \in [Uploads -> UpType]
    /\ query \in [Queries -> QueryType]
    /\ crashes \in 0..MaxCrashes

NoQuery == [at |-> "idle", rows |-> {}]

Init ==
    /\ files = {}
    /\ vectors = {}
    /\ index = {}
    /\ lock = None
    /\ up = [u \in Uploads |-> [at |-> "new", known |-> {}, clash |-> FALSE]]
    /\ query = [q \in Queries |-> NoQuery]
    /\ crashes = 0

At(u, place) == up[u].at = place
Moves(u, place) == up' = [up EXCEPT ![u].at = place]

\* Every step of an upload leaves the queries alone.
Upload(u, from, to) ==
    /\ At(u, from)
    /\ Moves(u, to)
    /\ UNCHANGED <<query, crashes>>

Fail(fault) == fault \in Faults
-----------------------------------------------------------------------------
(* add_document *)

\* The file is copied into the upload directory; a type that is not supported
\* is refused before that and changes nothing.
Save(u) ==
    /\ Upload(u, "new", "saved")
    /\ files' = files \cup {u}
    /\ UNCHANGED <<vectors, index, lock>>

\* The upload directory cannot be written, or the copy fails in the middle, and
\* nothing removes the part that was written.
SaveRaises(u) ==
    /\ Fail("save")
    /\ Upload(u, "new", "failed")
    /\ \E part \in SUBSET {u} : files' = files \cup part
    /\ UNCHANGED <<vectors, index, lock>>

Extract(u) ==
    /\ Upload(u, "saved", "extracted")
    /\ UNCHANGED <<files, vectors, index, lock>>

\* No readable text: the file is removed.
ExtractsNothing(u) ==
    /\ Upload(u, "saved", "failed")
    /\ files' = files \ {u}
    /\ UNCHANGED <<vectors, index, lock>>

\* The extractor raises, and nothing removes the file.
ExtractRaises(u) ==
    /\ Fail("extract")
    /\ Upload(u, "saved", "failed")
    /\ UNCHANGED <<files, vectors, index, lock>>

\* _load_index, outside the try: on a torn index the file stays behind.
LoadIndex(u) ==
    /\ At(u, "extracted")
    /\ up' = IF index = Torn
             THEN [up EXCEPT ![u].at = "failed"]
             ELSE [up EXCEPT ![u] = [@ EXCEPT !.at = "loaded", !.known = index]]
    /\ UNCHANGED <<files, vectors, index, lock, query, crashes>>

\* Mutant: the lock is a flag.
TakeFlag(u) ==
    /\ lock = None
    /\ Upload(u, "loaded", "embedding")
    /\ lock' = TRUE
    /\ UNCHANGED <<files, vectors, index>>

TakeLock(u) ==
    /\ lock = None
    /\ Upload(u, "loaded", "embedding")
    /\ lock' = u
    /\ UNCHANGED <<files, vectors, index>>

Embed(u) ==
    /\ Upload(u, "embedding", "embedded")
    /\ lock' = None
    /\ UNCHANGED <<files, vectors, index>>

\* Mutant: a failed embedding is tried again, without a bound.
EmbedRetries(u) ==
    /\ Fail("embed")
    /\ Upload(u, "embedding", "loaded")
    /\ lock' = None
    /\ UNCHANGED <<files, vectors, index>>

EmbedRaises(u) ==
    /\ Fail("embed")
    /\ Upload(u, "embedding", "unlinking")
    /\ lock' = None
    /\ UNCHANGED <<files, vectors, index>>

\* Mutant: the connection is closed without a commit.
InsertUncommitted(u) ==
    /\ Upload(u, "embedded", "inserted")
    /\ UNCHANGED <<files, vectors, index, lock>>

\* The rows of the document are committed together.
Insert(u) ==
    /\ Upload(u, "embedded", "inserted")
    /\ vectors' = vectors \cup {u}
    /\ UNCHANGED <<files, index, lock>>

InsertRaises(u) ==
    /\ Fail("insert")
    /\ Upload(u, "embedded", "unlinking")
    /\ UNCHANGED <<files, vectors, index, lock>>

\* The except clause: unlink, then _delete_vectors, then raise.
Unlink(u) ==
    /\ Upload(u, "unlinking", "deleting")
    /\ files' = files \ {u}
    /\ UNCHANGED <<vectors, index, lock>>

\* Mutant: the DELETE has no WHERE clause.
DeleteAllVectors(u) ==
    /\ Upload(u, "deleting", "failed")
    /\ vectors' = {}
    /\ UNCHANGED <<files, index, lock>>

DeleteVectors(u) ==
    /\ Upload(u, "deleting", "failed")
    /\ vectors' = vectors \ {u}
    /\ UNCHANGED <<files, index, lock>>

Writers == {u \in Uploads : At(u, "writing")}

\* _save_index opens the file with "w": it is empty until the buffer is
\* flushed.  Threads that have it open together write over each other.
OpenIndex(u) ==
    /\ At(u, "inserted")
    /\ index' = Torn
    /\ up' = [x \in Uploads |->
                [up[x] EXCEPT !.at = IF x = u THEN "writing" ELSE @,
                              !.clash = IF x = u THEN Writers # {} ELSE @ \/ x \in Writers]]
    /\ UNCHANGED <<files, vectors, lock, query, crashes>>

\* Mutant: the document is not appended.
WrittenBack(u) == up[u].known

\* What a thread writes: the index it read before it embedded, and its own.
Written(u) == up[u].known \cup {u}

\* The buffer reaches the file.  With another writer the file ends up with
\* this text, or with the remains of two.
WriteIndex(u) ==
    /\ Upload(u, "writing", "done")
    /\ \/ index' = Written(u)
       \/ up[u].clash /\ index' = Torn
    /\ UNCHANGED <<files, vectors, lock>>

OpenRaises(u) ==
    /\ Fail("write")
    /\ Upload(u, "inserted", "failed")
    /\ UNCHANGED <<files, vectors, index, lock>>

\* Nothing undoes the committed vectors.
WriteRaises(u) ==
    /\ Fail("write")
    /\ Upload(u, "writing", "failed")
    /\ index' = Torn
    /\ UNCHANGED <<files, vectors, lock>>
-----------------------------------------------------------------------------
(* search and embed_query *)

Asks(q, to) == query' = [query EXCEPT ![q] = to]

\* search reads the rows, then embeds the query; without rows it returns.
Search(q) ==
    /\ query[q].at = "idle"
    /\ vectors # {}
    /\ Asks(q, [at |-> "waiting", rows |-> vectors])
    /\ UNCHANGED <<files, vectors, index, lock, up, crashes>>

EmbedQuery(q) ==
    /\ query[q].at = "idle"
    /\ Asks(q, [at |-> "waiting", rows |-> {}])
    /\ UNCHANGED <<files, vectors, index, lock, up, crashes>>

QueryLock(q) ==
    /\ query[q].at = "waiting"
    /\ lock = None
    /\ lock' = q
    /\ Asks(q, [query[q] EXCEPT !.at = "embedding"])
    /\ UNCHANGED <<files, vectors, index, up, crashes>>

\* The rows are scored and returned, or the embedding raises.
QueryEnds(q) ==
    /\ query[q].at = "embedding"
    /\ lock' = None
    /\ Asks(q, NoQuery)
    /\ UNCHANGED <<files, vectors, index, up, crashes>>
-----------------------------------------------------------------------------
\* The process dies: every thread with it.  What is on disk stays, an index
\* that was open for writing as it was left.
Crash ==
    /\ crashes < MaxCrashes
    /\ crashes' = crashes + 1
    /\ lock' = None
    /\ up' = [u \in Uploads |->
                IF up[u].at \in Ended \cup {"new"} THEN up[u]
                ELSE [up[u] EXCEPT !.at = "lost"]]
    /\ query' = [q \in Queries |-> NoQuery]
    /\ UNCHANGED <<files, vectors, index>>

UploadStep(u) ==
    \/ Save(u) \/ SaveRaises(u) \/ Extract(u) \/ ExtractsNothing(u)
    \/ ExtractRaises(u) \/ LoadIndex(u) \/ TakeLock(u) \/ Embed(u) \/ EmbedRaises(u)
    \/ Insert(u) \/ InsertRaises(u) \/ Unlink(u) \/ DeleteVectors(u)
    \/ OpenIndex(u) \/ WriteIndex(u) \/ OpenRaises(u) \/ WriteRaises(u)

QueryStep(q) == Search(q) \/ EmbedQuery(q) \/ QueryLock(q) \/ QueryEnds(q)

Next ==
    \/ \E u \in Uploads : UploadStep(u)
    \/ \E q \in Queries : QueryStep(q)
    \/ Crash

Spec == Init /\ [][Next]_vars
-----------------------------------------------------------------------------
(* Properties *)

\* Through crashes, failing calls and writers that overwrite each other, a
\* document the index lists has its vectors and its file: list_documents
\* never shows a document that search cannot find or that was removed.
IndexedIsBacked == index # Torn => index \subseteq vectors \cap files

\* An upload that was acknowledged can be searched, whatever happens later.
AckedIsSearchable == \A u \in Uploads : At(u, "done") => u \in vectors \cap files

\* A search in progress holds rows that are still in the store, with a file:
\* the clean-up of a failed upload never removes what a search has read.
SearchIsBacked == \A q \in Queries : query[q].rows \subseteq vectors \cap files

\* Committed vectors are never taken back: the clean-up of an upload deletes
\* no rows that another thread could have seen.
VectorsOnlyGrow == [][vectors \subseteq vectors']_vars

\* The store implements the promises of KnowledgeBase.
Promise == INSTANCE KnowledgeBase WITH
    Documents <- Uploads,
    Unreadable <- Torn,
    searchable <- vectors,
    listed <- index,
    acknowledged <- {u \in Uploads : At(u, "done")}
Implements == Promise!Spec

\* "Persist an uploaded document and add extracted text to the index."
\* (document_store.py:68): an acknowledged document is in every later index.
AckedStaysListed ==
    index # Torn => \A u \in Uploads : At(u, "done") => u \in index
-----------------------------------------------------------------------------
(* Liveness *)

\* Every thread runs on; the embedding model answers.  An upload competes for
\* the lock with the queries, which threading.Lock does not order.
Fairness ==
    /\ \A u \in Uploads : WF_vars(UploadStep(u) /\ ~At(u, "new"))
    /\ \A q \in Queries : WF_vars(QueryLock(q) \/ QueryEnds(q))

FairSpec == Spec /\ Fairness

\* When queries stop coming, every upload that was started ends: no failure
\* leaves the embedding lock taken.
UploadsEnd ==
    <>[](\A q \in Queries : query[q].at = "idle") =>
        \A u \in Uploads : At(u, "saved") ~> up[u].at \in Ended
=============================================================================
