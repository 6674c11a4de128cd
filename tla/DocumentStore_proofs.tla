------------------------ MODULE DocumentStore_proofs ------------------------
(***************************************************************************)
(* Proofs about DocumentStore, for any number of uploads, queries and      *)
(* crashes: what is listed, acknowledged or being searched is backed by    *)
(* vectors and files, and the store implements KnowledgeBase; the lock is  *)
(* held by whoever embeds, and uploads only advance.                       *)
(***************************************************************************)
EXTENDS DocumentStore, TLAPS

\* Where an upload has committed its vectors, and where it keeps its file.
Committed == {"inserted", "writing", "done"}
Keeping == {"saved", "extracted", "loaded", "embedding", "embedded"} \cup Committed

\* A place decides what the store holds of the document.
Placed ==
    \A u \in Uploads :
        /\ up[u].at \in Committed => u \in vectors
        /\ up[u].at \in Keeping => u \in files
        /\ u \in vectors => up[u].at \in Committed \cup {"failed", "lost"}

\* Whatever names documents names documents with vectors.
Backed ==
    /\ vectors \subseteq files
    /\ index # Torn => index \subseteq vectors
    /\ \A u \in Uploads : up[u].known \subseteq vectors
    /\ \A q \in Queries : query[q].rows \subseteq vectors

\* The inductive invariant.
IInv == TypeOK /\ Placed /\ Backed
-----------------------------------------------------------------------------
\* An empty disk and idle requests satisfy the invariant.
LEMMA Initially == Init => IInv
<1> SUFFICES ASSUME Init PROVE IInv
  OBVIOUS
<1>1. TypeOK
  BY StoreAssumption DEF Init, TypeOK, UpType, QueryType, Places, NoQuery
<1>2. Placed
  BY DEF Init, Placed, Committed, Keeping
<1>3. Backed
  BY DEF Init, Backed, NoQuery
<1> QED
  BY <1>1, <1>2, <1>3 DEF IInv

\* Moves changes the place of one upload, to a place that exists.
LEMMA MovesShape ==
    ASSUME TypeOK, NEW u \in Uploads, NEW from, NEW to \in Places, Upload(u, from, to)
    PROVE  /\ up' \in [Uploads -> UpType]
           /\ up[u].at = from
           /\ up'[u].at = to
           /\ \A x \in Uploads : x # u => up'[x] = up[x]
           /\ \A x \in Uploads : up'[x].known = up[x].known
           /\ query' = query /\ crashes' = crashes
BY DEF Upload, Moves, At, TypeOK, UpType

\* A step of one upload that only adds to the vectors, and takes away only a
\* file that has no vectors.
LEMMA Moving ==
    ASSUME IInv, NEW u \in Uploads, NEW from, NEW to \in Places, Upload(u, from, to),
           lock' \in Uploads \cup Queries \cup {None},
           files' \in SUBSET Uploads,
           vectors' \in SUBSET Uploads,
           index' \in {Torn} \cup SUBSET Uploads,
           vectors \subseteq vectors', vectors' \subseteq files',
           \A x \in Uploads : x # u => /\ x \in files' <=> x \in files
                                       /\ x \in vectors' <=> x \in vectors,
           to \in Committed => u \in vectors',
           to \in Keeping => u \in files',
           u \in vectors' => to \in Committed \cup {"failed", "lost"},
           index' # Torn => index' \subseteq vectors'
    PROVE  IInv'
<1>1. /\ up' \in [Uploads -> UpType]
      /\ up'[u].at = to
      /\ \A x \in Uploads : x # u => up'[x] = up[x]
      /\ \A x \in Uploads : up'[x].known = up[x].known
      /\ query' = query /\ crashes' = crashes
  BY MovesShape DEF IInv
<1>2. TypeOK'
  BY <1>1 DEF IInv, TypeOK
<1>3. Placed'
  BY <1>1 DEF IInv, Placed
<1>4. Backed'
  BY <1>1 DEF IInv, Backed
<1> QED
  BY <1>2, <1>3, <1>4 DEF IInv

\* Up to the embedding, and after a failure, no vectors are at stake.
LEMMA BeforeInsert ==
    ASSUME IInv, NEW u \in Uploads,
           \/ Save(u) \/ SaveRaises(u) \/ Extract(u) \/ ExtractsNothing(u)
           \/ ExtractRaises(u) \/ TakeLock(u) \/ Embed(u) \/ EmbedRaises(u)
           \/ InsertRaises(u) \/ Unlink(u) \/ DeleteVectors(u)
    PROVE  IInv' /\ vectors' = vectors
<1>1. /\ files \in SUBSET Uploads /\ vectors \in SUBSET Uploads
      /\ index \in {Torn} \cup SUBSET Uploads
      /\ lock \in Uploads \cup Queries \cup {None}
      /\ vectors \subseteq files
      /\ index # Torn => index \subseteq vectors
  BY DEF IInv, TypeOK, Backed
<1>2. up[u].at \notin Committed \cup {"failed", "lost"} => u \notin vectors
  BY DEF IInv, Placed
<1>3. up[u].at \in Keeping => u \in files
  BY DEF IInv, Placed
<1> USE DEF Places, Committed, Keeping
<1>4. CASE Save(u)
  BY <1>1, <1>2, <1>4, Moving, MovesShape DEF Save, IInv, Upload, At
<1>14. CASE SaveRaises(u)
  BY <1>1, <1>2, <1>14, Moving DEF SaveRaises, Upload, At
<1>5. CASE Extract(u)
  BY <1>1, <1>2, <1>3, <1>5, Moving DEF Extract, Upload, At
<1>6. CASE ExtractsNothing(u)
  BY <1>1, <1>2, <1>6, Moving DEF ExtractsNothing, Upload, At
<1>7. CASE ExtractRaises(u)
  BY <1>1, <1>2, <1>7, Moving DEF ExtractRaises, Upload, At
<1>8. CASE TakeLock(u)
  BY <1>1, <1>2, <1>3, <1>8, Moving DEF TakeLock, Upload, At
<1>9. CASE Embed(u)
  BY <1>1, <1>2, <1>3, <1>9, Moving DEF Embed, Upload, At
<1>10. CASE EmbedRaises(u)
  BY <1>1, <1>2, <1>10, Moving DEF EmbedRaises, Upload, At
<1>11. CASE InsertRaises(u)
  BY <1>1, <1>2, <1>11, Moving DEF InsertRaises, Upload, At
<1>12. CASE Unlink(u)
  BY <1>1, <1>2, <1>12, Moving DEF Unlink, Upload, At
<1>13. CASE DeleteVectors(u)
  <2>1. vectors \ {u} = vectors
    BY <1>2, <1>13 DEF DeleteVectors, Upload, At
  <2> QED
    BY <1>1, <1>2, <1>13, <2>1, Moving DEF DeleteVectors, Upload, At
<1> QED
  BY <1>4, <1>5, <1>6, <1>7, <1>8, <1>9, <1>10, <1>11, <1>12, <1>13, <1>14

\* The commit of an upload's vectors: its file is there, and nobody lists it yet.
LEMMA InsertStep ==
    ASSUME IInv, NEW u \in Uploads, Insert(u)
    PROVE  IInv' /\ vectors' = vectors \cup {u} /\ u \notin vectors
<1>1. u \in files /\ u \notin vectors
  BY DEF IInv, Placed, Insert, Upload, At, Keeping, Committed
<1>2. index # Torn => index \subseteq vectors
  BY DEF IInv, Backed
<1>3. IInv'
  BY <1>1, <1>2, Moving DEF Insert, IInv, TypeOK, Backed, Committed, Places
<1> QED
  BY <1>1, <1>3 DEF Insert

\* What loading the index does to the uploads.
LEMMA LoadShape ==
    ASSUME IInv, NEW u \in Uploads, LoadIndex(u)
    PROVE  /\ up' \in [Uploads -> UpType]
           /\ up'[u].at \in {"loaded", "failed"}
           /\ up'[u].known = up[u].known \/ (index # Torn /\ up'[u].known = index)
           /\ \A x \in Uploads : x # u => up'[x] = up[x]
<1>1. up \in [Uploads -> UpType] /\ up[u] \in UpType
  BY DEF IInv, TypeOK
<1>2. CASE index = Torn
  BY <1>1, <1>2 DEF LoadIndex, UpType, Places
<1>3. CASE index # Torn
  <2> DEFINE t == [up[u] EXCEPT !.at = "loaded", !.known = index]
  <2>1. index \in SUBSET Uploads
    BY <1>3 DEF IInv, TypeOK
  <2>2. t \in UpType /\ t.at = "loaded" /\ t.known = index
    BY <1>1, <2>1 DEF UpType, Places
  <2>3. up' = [up EXCEPT ![u] = t]
    BY <1>3 DEF LoadIndex
  <2> HIDE DEF t
  <2> QED
    BY <1>1, <1>3, <2>2, <2>3
<1> QED
  BY <1>2, <1>3

\* The copy an upload loads lies within the vectors, as the index does.
LEMMA LoadStep ==
    ASSUME IInv, NEW u \in Uploads, LoadIndex(u)
    PROVE  IInv'
<1>1. /\ up' \in [Uploads -> UpType]
      /\ up'[u].at \in {"loaded", "failed"}
      /\ up'[u].known = up[u].known \/ (index # Torn /\ up'[u].known = index)
      /\ \A x \in Uploads : x # u => up'[x] = up[x]
  BY LoadShape
<1>2. up[u].at = "extracted" /\ u \notin vectors /\ u \in files
  BY DEF LoadIndex, At, IInv, Placed, Committed, Keeping
<1>3. TypeOK'
  BY <1>1 DEF LoadIndex, IInv, TypeOK
<1>4. Placed'
  BY <1>1, <1>2 DEF LoadIndex, IInv, Placed, Committed, Keeping
<1>5. Backed'
  BY <1>1 DEF LoadIndex, IInv, Backed
<1> QED
  BY <1>3, <1>4, <1>5 DEF IInv

\* What opening the index does to the uploads, all of which may now clash.
LEMMA OpenShape ==
    ASSUME IInv, NEW u \in Uploads, OpenIndex(u)
    PROVE  /\ up' \in [Uploads -> UpType]
           /\ up'[u].at = "writing"
           /\ \A x \in Uploads : x # u => up'[x].at = up[x].at
           /\ \A x \in Uploads : up'[x].known = up[x].known
<1>1. \A x \in Uploads : up[x] \in UpType
  BY DEF IInv, TypeOK
<1> DEFINE next(x) == [up[x] EXCEPT !.at = IF x = u THEN "writing" ELSE @,
                          !.clash = IF x = u THEN Writers # {} ELSE @ \/ x \in Writers]
<1>2. ASSUME NEW x \in Uploads
      PROVE  (IF x = u THEN Writers # {} ELSE up[x].clash \/ x \in Writers) \in BOOLEAN
  BY Zenon
<1>3. ASSUME NEW x \in Uploads
      PROVE  next(x) \in UpType /\ next(x).known = up[x].known
             /\ next(x).at = IF x = u THEN "writing" ELSE up[x].at
  <2> DEFINE place == IF x = u THEN "writing" ELSE up[x].at
             flag  == IF x = u THEN Writers # {} ELSE up[x].clash \/ x \in Writers
  <2>1. up[x] \in UpType /\ place \in Places
    BY <1>1 DEF UpType, Places
  <2>2. flag = TRUE \/ flag = FALSE
    BY <1>2, Zenon
  <2>3. next(x) = [up[x] EXCEPT !.at = place, !.clash = flag]
    BY Zenon
  <2>4. place = IF x = u THEN "writing" ELSE up[x].at
    OBVIOUS
  <2> HIDE DEF place, flag, next
  <2>5. \/ next(x) = [up[x] EXCEPT !.at = place, !.clash = TRUE]
        \/ next(x) = [up[x] EXCEPT !.at = place, !.clash = FALSE]
    BY <2>2, <2>3, Zenon
  <2> QED
    BY <2>1, <2>4, <2>5 DEF UpType
<1>4. up' = [x \in Uploads |-> next(x)]
  BY DEF OpenIndex
<1> HIDE DEF next
<1> QED
  BY <1>3, <1>4

\* The index is torn while it is open, and lists nothing.
LEMMA OpenStep ==
    ASSUME IInv, NEW u \in Uploads, OpenIndex(u)
    PROVE  IInv'
<1>1. /\ up' \in [Uploads -> UpType]
      /\ up'[u].at = "writing"
      /\ \A x \in Uploads : x # u => up'[x].at = up[x].at
      /\ \A x \in Uploads : up'[x].known = up[x].known
  BY OpenShape
<1>2. up[u].at = "inserted"
  BY DEF OpenIndex, At
<1>3. TypeOK'
  BY <1>1 DEF OpenIndex, IInv, TypeOK
<1>4. Placed'
  BY <1>1, <1>2 DEF OpenIndex, IInv, Placed, Committed, Keeping
<1>5. Backed'
  BY <1>1 DEF OpenIndex, IInv, Backed
<1> QED
  BY <1>3, <1>4, <1>5 DEF IInv

\* The end of a write: the index is torn, or lists what its writers knew and added.
LEMMA WriteStep ==
    ASSUME IInv, NEW u \in Uploads, WriteIndex(u) \/ OpenRaises(u) \/ WriteRaises(u)
    PROVE  IInv'
<1>1. up[u].at \in Committed /\ u \in vectors /\ u \in files
  BY DEF WriteIndex, OpenRaises, WriteRaises, Upload, At, IInv, Placed, Committed, Keeping
<1>2. /\ files \in SUBSET Uploads /\ vectors \in SUBSET Uploads
      /\ index \in {Torn} \cup SUBSET Uploads
      /\ lock \in Uploads \cup Queries \cup {None}
      /\ vectors \subseteq files
      /\ index # Torn => index \subseteq vectors
  BY DEF IInv, TypeOK, Backed
<1>3. Written(u) \subseteq vectors
  BY <1>1 DEF Written, IInv, Backed
<1> USE DEF Places, Committed, Keeping
<1>4. CASE WriteIndex(u)
  <2>1. Upload(u, "writing", "done") /\ UNCHANGED <<files, vectors, lock>>
    BY <1>4 DEF WriteIndex
  <2>2. index' \in {Torn} \cup SUBSET Uploads /\ (index' # Torn => index' \subseteq vectors)
    BY <1>2, <1>3, <1>4 DEF WriteIndex
  <2> QED
    BY <1>1, <1>2, <2>1, <2>2, Moving
<1>5. CASE OpenRaises(u)
  BY <1>1, <1>2, <1>5, Moving DEF OpenRaises
<1>6. CASE WriteRaises(u)
  BY <1>1, <1>2, <1>6, Moving DEF WriteRaises
<1> QED
  BY <1>4, <1>5, <1>6

\* A query only reads: its rows lie within the vectors, which stay.
LEMMA QueryTypes ==
    ASSUME IInv, NEW q \in Queries, QueryStep(q)
    PROVE  IInv' /\ vectors' = vectors
<1>1. UNCHANGED <<files, vectors, index, up, crashes>>
  BY DEF QueryStep, Search, EmbedQuery, QueryLock, QueryEnds
<1>2. lock' \in Uploads \cup Queries \cup {None}
  BY DEF QueryStep, Search, EmbedQuery, QueryLock, QueryEnds, IInv, TypeOK
<1>3. \E t \in QueryType : t.rows \subseteq vectors /\ query' = [query EXCEPT ![q] = t]
  <2>1. query[q] \in QueryType /\ query[q].rows \subseteq vectors /\ vectors \in SUBSET Uploads
    BY DEF IInv, TypeOK, Backed
  <2>2. CASE Search(q)
    BY <2>1, <2>2 DEF Search, Asks, QueryType
  <2>3. CASE EmbedQuery(q)
    BY <2>1, <2>3 DEF EmbedQuery, Asks, QueryType
  <2>4. CASE QueryLock(q)
    <3> DEFINE t == [query[q] EXCEPT !.at = "embedding"]
    <3>1. t \in QueryType /\ t.rows = query[q].rows
      BY <2>1 DEF QueryType
    <3> QED
      BY <2>1, <2>4, <3>1 DEF QueryLock, Asks
  <2>5. CASE QueryEnds(q)
    BY <2>1, <2>5 DEF QueryEnds, Asks, QueryType, NoQuery
  <2> QED
    BY <2>2, <2>3, <2>4, <2>5 DEF QueryStep
<1>4. TypeOK' /\ Placed' /\ Backed'
  BY <1>1, <1>2, <1>3 DEF IInv, TypeOK, Placed, Backed
<1> QED
  BY <1>1, <1>4 DEF IInv

\* A crash loses the threads and leaves the disk as it is.
LEMMA CrashStep ==
    ASSUME IInv, Crash
    PROVE  IInv'
<1>1. \A u \in Uploads : /\ up'[u] \in UpType
                         /\ up'[u].known = up[u].known
                         /\ up'[u] = up[u] \/ up'[u].at = "lost"
                         /\ up[u].at \in Committed => up'[u].at \in Committed \cup {"lost"}
  BY DEF Crash, IInv, TypeOK, UpType, Places, Ended, Committed
<1>2. TypeOK'
  BY <1>1, StoreAssumption DEF Crash, IInv, TypeOK, QueryType, NoQuery
<1>3. Placed'
  BY <1>1 DEF Crash, IInv, Placed, Committed, Keeping
<1>4. Backed'
  BY <1>1 DEF Crash, IInv, Backed, NoQuery
<1> QED
  BY <1>2, <1>3, <1>4 DEF IInv

\* Every step of the store keeps the invariant.
LEMMA Inductive == IInv /\ [Next]_vars => IInv'
<1> SUFFICES ASSUME IInv, [Next]_vars PROVE IInv'
  OBVIOUS
<1>1. ASSUME NEW u \in Uploads, UploadStep(u) PROVE IInv'
  BY <1>1, BeforeInsert, InsertStep, LoadStep, OpenStep, WriteStep DEF UploadStep
<1>2. ASSUME NEW q \in Queries, QueryStep(q) PROVE IInv'
  BY <1>2, QueryTypes
<1>3. CASE Crash
  BY <1>3, CrashStep
<1>4. CASE UNCHANGED vars
  BY <1>4 DEF vars, IInv, TypeOK, Placed, Backed
<1> QED
  BY <1>1, <1>2, <1>3, <1>4 DEF Next

\* In every reachable state the stage of each upload tells whether its file and
\* vectors exist, and every copy of the index lies within the vectors (add_document).
THEOREM Invariance == Spec => []IInv
BY Initially, Inductive, PTL DEF Spec

\* Type correctness of the store, for any uploads, queries and crashes.
THEOREM TypeCorrect == Spec => []TypeOK
<1>1. IInv => TypeOK
  BY DEF IInv
<1> QED
  BY <1>1, Invariance, PTL

\* A document that the index lists has its vectors and its file, through
\* crashes, failures and overlapping writers.
THEOREM ListedDocumentsAreBacked == Spec => []IndexedIsBacked
<1>1. IInv => IndexedIsBacked
  BY DEF IInv, Backed, IndexedIsBacked
<1> QED
  BY <1>1, Invariance, PTL

\* An acknowledged upload can be searched from then on.
THEOREM AcknowledgedUploadsAreSearchable == Spec => []AckedIsSearchable
<1>1. IInv => AckedIsSearchable
  BY DEF IInv, Backed, Placed, Committed, AckedIsSearchable, At
<1> QED
  BY <1>1, Invariance, PTL

\* What a search has read stays in the store while the search runs.
THEOREM SearchesAreBacked == Spec => []SearchIsBacked
<1>1. IInv => SearchIsBacked
  BY DEF IInv, Backed, SearchIsBacked
<1> QED
  BY <1>1, Invariance, PTL

\* What each step does to the vectors and to the acknowledged uploads.
LEMMA VectorsStep ==
    ASSUME IInv, Next
    PROVE  vectors \subseteq vectors'
<1>1. ASSUME NEW u \in Uploads, UploadStep(u) PROVE vectors \subseteq vectors'
  BY <1>1, BeforeInsert, InsertStep
     DEF UploadStep, LoadIndex, OpenIndex, WriteIndex, OpenRaises, WriteRaises
<1>2. ASSUME NEW q \in Queries, QueryStep(q) PROVE vectors \subseteq vectors'
  BY <1>2, QueryTypes
<1>3. CASE Crash
  BY <1>3 DEF Crash
<1> QED
  BY <1>1, <1>2, <1>3 DEF Next

\* No step takes committed vectors back: the clean-up of a failed upload only
\* ever deletes rows that were never committed.
THEOREM VectorsAreNeverTakenBack == Spec => VectorsOnlyGrow
<1>1. IInv /\ [Next]_vars => [vectors \subseteq vectors']_vars
  BY VectorsStep
<1> QED
  BY <1>1, Invariance, PTL DEF Spec, VectorsOnlyGrow
-----------------------------------------------------------------------------
(* The store implements KnowledgeBase *)

Acked == {u \in Uploads : At(u, "done")}

\* An empty store is an empty knowledge base.
LEMMA InitiallyPromised == Init => Promise!Init
BY DEF Init, Promise!Init, At

\* A step that acknowledges nothing and adds no vectors is a relisting.
LEMMA Relists ==
    ASSUME IInv, IInv', vectors' = vectors, Acked' = Acked
    PROVE  Promise!Next
<1>1. index' \in {Torn} \cup SUBSET vectors
  BY DEF IInv, TypeOK, Backed
<1> QED
  BY <1>1 DEF Promise!Next, Promise!Relist, Acked

\* Nothing is acknowledged between the start and the end of an upload.
LEMMA AckedKeeps ==
    ASSUME IInv, NEW u \in Uploads, NEW from \in Places \ {"done"},
           NEW to \in Places \ {"done"}, Upload(u, from, to)
    PROVE  Acked' = Acked
<1>1. \A x \in Uploads : At(x, "done")' <=> At(x, "done")
  BY MovesShape DEF At, IInv
<1> QED
  BY <1>1 DEF Acked

\* To the knowledge base, the commit of the vectors makes a document searchable.
LEMMA InsertLearns ==
    ASSUME IInv, NEW u \in Uploads, Insert(u)
    PROVE  Promise!Next
<1>1. Acked' = Acked
  BY AckedKeeps DEF Insert, Places
<1>2. vectors' = vectors \cup {u} /\ u \notin vectors /\ index' = index
  BY InsertStep DEF Insert
<1> QED
  BY <1>1, <1>2 DEF Promise!Next, Promise!Learn, Acked

\* To it, the save of the index lists and acknowledges a searchable document.
LEMMA WriteAcknowledges ==
    ASSUME IInv, NEW u \in Uploads, WriteIndex(u)
    PROVE  Promise!Next
<1>1. up[u].at = "writing" /\ u \in vectors /\ vectors' = vectors
  BY DEF WriteIndex, Upload, At, IInv, Placed, Committed
<1>2. Acked' = Acked \cup {u}
  <2>1. \A x \in Uploads : At(x, "done")' <=> x = u \/ At(x, "done")
    BY MovesShape DEF WriteIndex, At, IInv, Places
  <2> QED
    BY <2>1 DEF Acked
<1>3. index' = Torn \/ (index' \in SUBSET vectors /\ u \in index')
  <2>1. Written(u) \subseteq vectors /\ u \in Written(u)
    BY <1>1 DEF Written, IInv, Backed
  <2> QED
    BY <2>1 DEF WriteIndex
<1> QED
  BY <1>1, <1>2, <1>3 DEF Promise!Next, Promise!Acknowledge, Acked

\* Every step of the store is a step of KnowledgeBase or leaves it as it is.
LEMMA Refines ==
    ASSUME IInv, IInv', [Next]_vars
    PROVE  [Promise!Next]_<<vectors, index, Acked>>
<1>1. ASSUME NEW u \in Uploads, UploadStep(u)
      PROVE  [Promise!Next]_<<vectors, index, Acked>>
  <2>1. CASE Insert(u)
    BY <2>1, InsertLearns
  <2>2. CASE WriteIndex(u)
    BY <2>2, WriteAcknowledges
  <2>3. CASE \/ Save(u) \/ SaveRaises(u) \/ Extract(u) \/ ExtractsNothing(u) \/ ExtractRaises(u)
             \/ TakeLock(u) \/ Embed(u) \/ EmbedRaises(u) \/ InsertRaises(u)
             \/ Unlink(u) \/ DeleteVectors(u)
    <3>1. vectors' = vectors
      BY <2>3, BeforeInsert
    <3>2. Acked' = Acked
      BY <2>3, AckedKeeps
         DEF Save, SaveRaises, Extract, ExtractsNothing, ExtractRaises, TakeLock, Embed,
             EmbedRaises, InsertRaises, Unlink, DeleteVectors, Places
    <3> QED
      BY <3>1, <3>2, Relists
  <2>4. CASE OpenRaises(u) \/ WriteRaises(u)
    <3>1. vectors' = vectors
      BY <2>4 DEF OpenRaises, WriteRaises
    <3>2. Acked' = Acked
      BY <2>4, AckedKeeps DEF OpenRaises, WriteRaises, Places
    <3> QED
      BY <3>1, <3>2, Relists
  <2>5. CASE LoadIndex(u) \/ OpenIndex(u)
    <3>1. vectors' = vectors
      BY <2>5 DEF LoadIndex, OpenIndex
    <3>2. \A x \in Uploads : At(x, "done")' <=> At(x, "done")
      BY <2>5, LoadShape, OpenShape DEF LoadIndex, OpenIndex, At
    <3>3. Acked' = Acked
      BY <3>2 DEF Acked
    <3> QED
      BY <3>1, <3>3, Relists
  <2> QED
    BY <1>1, <2>1, <2>2, <2>3, <2>4, <2>5 DEF UploadStep
<1>2. ASSUME NEW q \in Queries, QueryStep(q)
      PROVE  [Promise!Next]_<<vectors, index, Acked>>
  BY <1>2, Relists DEF QueryStep, Search, EmbedQuery, QueryLock, QueryEnds, Acked, At
<1>3. CASE Crash
  <2>1. \A x \in Uploads : At(x, "done")' <=> At(x, "done")
    BY <1>3 DEF Crash, At, IInv, TypeOK, UpType, Ended
  <2> QED
    BY <1>3, <2>1, Relists DEF Crash, Acked
<1>4. CASE UNCHANGED vars
  BY <1>4 DEF vars, Acked, At
<1> QED
  BY <1>1, <1>2, <1>3, <1>4 DEF Next

\* The document store implements the abstract knowledge base.
THEOREM StoreImplementsPromise == Spec => Implements
<1>1. Init => Promise!Init
  BY InitiallyPromised
<1>2. IInv /\ IInv' /\ [Next]_vars => [Promise!Next]_<<vectors, index, Acked>>
  BY Refines
<1> QED
  BY <1>1, <1>2, Invariance, PTL DEF Spec, Implements, Promise!Spec, Acked
-----------------------------------------------------------------------------
(* The embedding lock, and how far an upload has got *)

\* The lock has a holder exactly while somebody embeds, and it is that one.
LockIsHeld ==
    /\ \A u \in Uploads : lock = u <=> At(u, "embedding")
    /\ \A q \in Queries : lock = q <=> query[q].at = "embedding"

\* The order in which add_document goes through its places; a failure joins the
\* way of the ones that succeed at its end.
Stage(place) ==
    CASE place = "new" -> 0
      [] place = "saved" -> 1
      [] place = "extracted" -> 2
      [] place = "loaded" -> 3
      [] place = "embedding" -> 4
      [] place = "embedded" -> 5
      [] place \in {"unlinking", "inserted"} -> 6
      [] place \in {"deleting", "writing"} -> 7
      [] OTHER -> 8

\* What the steps of an upload do to the lock and to the other threads.
LockKept(u) ==
    \/ lock' = lock /\ up[u].at # "embedding" /\ up'[u].at # "embedding"
    \/ lock = None /\ lock' = u /\ up'[u].at = "embedding"
    \/ lock' = None /\ up[u].at = "embedding" /\ up'[u].at # "embedding"

\* Each step takes one upload a stage further; only at the embedding does it
\* touch the lock.
LEMMA UploadAdvances ==
    ASSUME IInv, NEW u \in Uploads, UploadStep(u)
    PROVE  /\ Stage(up'[u].at) > Stage(up[u].at)
           /\ LockKept(u)
           /\ \A x \in Uploads : x # u => up'[x].at = up[x].at
           /\ query' = query
<1>1. ASSUME NEW from, NEW to \in Places, Upload(u, from, to), Stage(to) > Stage(from),
             \/ lock' = lock /\ from # "embedding" /\ to # "embedding"
             \/ lock = None /\ lock' = u /\ to = "embedding"
             \/ lock' = None /\ from = "embedding" /\ to # "embedding"
      PROVE  /\ Stage(up'[u].at) > Stage(up[u].at)
             /\ LockKept(u)
             /\ \A x \in Uploads : x # u => up'[x].at = up[x].at
             /\ query' = query
  BY <1>1, MovesShape DEF IInv, LockKept
<1>2. CASE LoadIndex(u)
  <2>1. up[u].at = "extracted" /\ lock' = lock /\ query' = query
    BY <1>2 DEF LoadIndex, At
  <2>2. up'[u].at \in {"loaded", "failed"} /\ \A x \in Uploads : x # u => up'[x] = up[x]
    BY <1>2, LoadShape
  <2> QED
    BY <2>1, <2>2 DEF Stage, LockKept
<1>3. CASE OpenIndex(u)
  <2>1. up[u].at = "inserted" /\ lock' = lock /\ query' = query
    BY <1>3 DEF OpenIndex, At
  <2>2. up'[u].at = "writing" /\ \A x \in Uploads : x # u => up'[x].at = up[x].at
    BY <1>3, OpenShape
  <2> QED
    BY <2>1, <2>2 DEF Stage, LockKept
<1>4. CASE Save(u) \/ SaveRaises(u) \/ Extract(u) \/ ExtractsNothing(u) \/ ExtractRaises(u)
  BY <1>1, <1>4 DEF Save, SaveRaises, Extract, ExtractsNothing, ExtractRaises, Places, Stage
<1>5. CASE TakeLock(u) \/ Embed(u) \/ EmbedRaises(u)
  BY <1>1, <1>5 DEF TakeLock, Embed, EmbedRaises, Places, Stage
<1>6. CASE Insert(u) \/ InsertRaises(u) \/ Unlink(u) \/ DeleteVectors(u)
  BY <1>1, <1>6 DEF Insert, InsertRaises, Unlink, DeleteVectors, Places, Stage
<1>7. CASE WriteIndex(u) \/ OpenRaises(u) \/ WriteRaises(u)
  BY <1>1, <1>7 DEF WriteIndex, OpenRaises, WriteRaises, Places, Stage
<1> QED
  BY <1>2, <1>3, <1>4, <1>5, <1>6, <1>7 DEF UploadStep

\* Nobody embeds before the first call.
LEMMA LockInitially == Init => LockIsHeld
BY StoreAssumption DEF Init, LockIsHeld, At, NoQuery

\* Whoever stops embedding, whatever ends it, lets go of the lock.
LEMMA LockInductive == IInv /\ LockIsHeld /\ [Next]_vars => LockIsHeld'
<1> SUFFICES ASSUME IInv, LockIsHeld, [Next]_vars PROVE LockIsHeld'
  OBVIOUS
<1> USE StoreAssumption
<1>1. ASSUME NEW u \in Uploads, UploadStep(u) PROVE LockIsHeld'
  <2>1. /\ LockKept(u)
        /\ \A x \in Uploads : x # u => up'[x].at = up[x].at
        /\ query' = query
    BY <1>1, UploadAdvances
  <2> QED
    BY <2>1 DEF LockIsHeld, LockKept, At
<1>2. ASSUME NEW q \in Queries, QueryStep(q) PROVE LockIsHeld'
  <2>1. up' = up /\ query \in [Queries -> QueryType]
    BY <1>2 DEF QueryStep, Search, EmbedQuery, QueryLock, QueryEnds, IInv, TypeOK
  <2>2. CASE Search(q) \/ EmbedQuery(q)
    BY <2>1, <2>2 DEF Search, EmbedQuery, Asks, LockIsHeld, At
  <2>3. CASE QueryLock(q)
    <3>1. /\ query'[q].at = "embedding" /\ lock = None /\ lock' = q
          /\ \A p \in Queries : p # q => query'[p] = query[p]
      BY <2>1, <2>3 DEF QueryLock, Asks, QueryType
    <3> QED
      BY <2>1, <3>1 DEF LockIsHeld, At
  <2>4. CASE QueryEnds(q)
    <3>1. /\ query'[q].at = "idle" /\ lock' = None /\ lock = q
          /\ \A p \in Queries : p # q => query'[p] = query[p]
      BY <2>1, <2>4 DEF QueryEnds, Asks, NoQuery, LockIsHeld
    <3> QED
      BY <2>1, <3>1 DEF LockIsHeld, At
  <2> QED
    BY <1>2, <2>2, <2>3, <2>4 DEF QueryStep
<1>3. CASE Crash
  BY <1>3 DEF Crash, LockIsHeld, At, NoQuery, IInv, TypeOK, UpType, Ended
<1>4. CASE UNCHANGED vars
  BY <1>4 DEF vars, LockIsHeld, At
<1> QED
  BY <1>1, <1>2, <1>3, <1>4 DEF Next

\* The embedding lock is held by the one thread that embeds and by nobody else:
\* no failing embedding, no failing upload and no crash leaves it taken, and two
\* threads never embed together (the `with` blocks on _embeddings_lock).
THEOREM LockFollowsEmbedding == Spec => []LockIsHeld
BY Invariance, LockInitially, LockInductive, PTL DEF Spec

\* An upload only goes forward, to its end in at most eight steps, and after its
\* end it never moves again; a crash ends it (add_document retries nothing).
\* With the fairness of its thread this is why it ends.
THEOREM UploadsOnlyAdvance ==
    Spec => [][\A u \in Uploads : up'[u].at # up[u].at =>
                  up[u].at \notin Ended /\ Stage(up'[u].at) > Stage(up[u].at)]_vars
<1>1. IInv /\ [Next]_vars =>
        [\A u \in Uploads : up'[u].at # up[u].at =>
            up[u].at \notin Ended /\ Stage(up'[u].at) > Stage(up[u].at)]_vars
  <2> SUFFICES ASSUME IInv, [Next]_vars, NEW u \in Uploads, up'[u].at # up[u].at
               PROVE  up[u].at \notin Ended /\ Stage(up'[u].at) > Stage(up[u].at)
    OBVIOUS
  <2>1. \A p \in Places : Stage(p) \in 0..8 /\ (p \in Ended <=> Stage(p) = 8)
    BY DEF Places, Stage, Ended
  <2>2. up[u].at \in Places /\ up'[u].at \in Places
    BY Inductive DEF IInv, TypeOK, UpType
  <2>3. ASSUME NEW x \in Uploads, UploadStep(x) PROVE Stage(up'[u].at) > Stage(up[u].at)
    BY <2>3, UploadAdvances
  <2>4. CASE \E q \in Queries : QueryStep(q)
    BY <2>4 DEF QueryStep, Search, EmbedQuery, QueryLock, QueryEnds
  <2>5. CASE Crash
    <3>1. up[u].at \notin Ended \cup {"new"} /\ up'[u].at = "lost"
      BY <2>5 DEF Crash, IInv, TypeOK, UpType
    <3> QED
      BY <2>1, <2>2, <3>1 DEF Ended
  <2>6. CASE UNCHANGED vars
    BY <2>6 DEF vars
  <2>7. Stage(up'[u].at) > Stage(up[u].at)
    BY <2>3, <2>4, <2>5, <2>6 DEF Next
  <2> QED
    BY <2>1, <2>2, <2>7
<1> QED
  BY <1>1, Invariance, PTL DEF Spec
=============================================================================
