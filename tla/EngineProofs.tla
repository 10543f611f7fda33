---------------------------- MODULE EngineProofs ----------------------------
(***************************************************************************)
(* Proofs, for every value of the constants, that the engine keeps its     *)
(* types and that the primary index and the stored collection agree.       *)
(* EngineContractProofs and EngineApiProofs build on its lemmas about the  *)
(* steps of insert, update and delete.                                     *)
(***************************************************************************)
EXTENDS Engine, TLAPS

-----------------------------------------------------------------------------
(* The operators on documents return documents.                             *)

(* Serializing a document gives a JSON document.                            *)
LEMMA ToJsonType ==
    ASSUME NEW d \in Doc
    PROVE  ToJson(d) \in JDoc
BY DEF ToJson, JDoc, Doc

(* An updated JSON document is a JSON document.                             *)
LEMMA UpdatedType ==
    ASSUME NEW j \in JDoc, NEW q, NEW u \in UpdateDoc, NEW s
    PROVE  Updated(j, q, u, s) \in JDoc
<1>1. Merge(j, u) \in JDoc
  BY DEF Merge, JDoc, UpdateDoc
<1> QED
  BY <1>1 DEF Updated

(* The collection that update writes back consists of documents.            *)
LEMMA BatchType ==
    ASSUME NEW m \in Index, NEW q, NEW u \in UpdateDoc, NEW s
    PROVE  Batch(m, q, u, s) \subseteq Doc
<1> SUFFICES ASSUME NEW e \in Batch(m, q, u, s) PROVE e \in Doc
  OBVIOUS
<1>1. PICK d \in DocsOf(m) : /\ Updated(ToJson(d), q, u, s).id # NonString
                             /\ e = FromJson(Updated(ToJson(d), q, u, s))
  BY DEF Batch
<1>2. d \in Doc
  BY DEF DocsOf, Index
<1>3. Updated(ToJson(d), q, u, s) \in JDoc
  BY <1>2, ToJsonType, UpdatedType
<1> QED
  BY <1>1, <1>3 DEF FromJson, JDoc, Doc

(* Adding a document to a primary index gives one, with the document under  *)
(* its _id unless that is empty, and everything else as before.             *)
LEMMA AddPrimaryFacts ==
    ASSUME NEW m \in Index, NEW d \in Doc
    PROVE  /\ AddPrimary(m, d) \in Index
           /\ \A k \in Ids : AddPrimary(m, d)[k] = IF k = d.id THEN d ELSE m[k]
BY DocumentsAssumption DEF AddPrimary, ExtractId, Index, Doc, AllIds

(* What is stored and cached for a schema passed to set_schema.             *)
LEMMA SchemaSets ==
    /\ NoSchema \in StoredSchemas
    /\ StoredSchemas \subseteq CachedSchemas
    /\ NewSchemas \subseteq CachedSchemas
    /\ \A s \in NewSchemas : StoredForm(s) \in StoredSchemas
BY DEF StoredSchemas, CachedSchemas

(* No request is a request.                                                 *)
LEMMA NoRequestType == NoRequest \in Request /\ NoRequest.built = EmptyIndex
BY SchemaSets DEF NoRequest, Request, EmptyIndex, Index

-----------------------------------------------------------------------------
(* The invariant holds when the data directory is new.                      *)
LEMMA InitIInv == Init => IInv
<1> SUFFICES ASSUME Init PROVE IInv
  OBVIOUS
<1> USE DEF Init
<1>1. TypeOK
  BY NoRequestType, SchemaSets, EngineAssumption, DocumentsAssumption, Zenon
  DEF TypeOK, FreshImage, Image, EmptyTable, Table, EmptyIndex, Index, Steps
<1>2. LockInv
  BY EngineAssumption DEF LockInv, Locked, Steps
<1>3. KeyInv
  BY NoRequestType DEF KeyInv, FreshImage, EmptyTable, EmptyIndex
<1>4. RequestInv
  BY DEF RequestInv
<1>5. CopyInv
  BY DEF CopyInv, MirrorInv, StoredInv
<1> QED
  BY <1>1, <1>2, <1>3, <1>4, <1>5 DEF IInv, BaseInv

-----------------------------------------------------------------------------
(* Steps of control that several actions share.                             *)

(* Admitting a request preserves the invariant: nothing is stored or        *)
(* indexed yet.                                                             *)
LEMMA AdmitStep ==
    ASSUME BaseInv, NEW t \in Threads, NEW step \in {"put", "drop", "remove"},
           NEW r \in Request, r.built = EmptyIndex, step = "put" => r.doc \in Doc,
           Admit(t, step, r)
    PROVE  BaseInv' /\ (CopyInv => CopyInv')
<1> USE DEF BaseInv, Admit, Goto
<1>1. TypeOK'
  BY DEF TypeOK, Steps, store, memory
<1>2. LockInv'
  BY EngineAssumption DEF LockInv, Locked, Steps, TypeOK
<1>3. KeyInv'
  BY DEF KeyInv, TypeOK, EmptyIndex, store, memory
<1>4. RequestInv'
  BY DEF RequestInv, TypeOK
<1>5. \A k \in Ids : Expected(k) = prim[k] /\ Expected(k)' = prim[k]
  BY EngineAssumption DEF Expected, TypeOK, memory
<1>6. CopyInv => CopyInv'
  BY <1>5 DEF CopyInv, MirrorInv, StoredInv, store
<1> QED
  BY <1>1, <1>2, <1>3, <1>4, <1>6

(* Locals that are kept or dropped leave every document under its own _id.  *)
LEMMA KeyKept ==
    ASSUME KeyInv, live' = live, disk' = disk, prim' = prim,
           \A w \in Threads : req'[w].built = req[w].built \/ req'[w].built = EmptyIndex
    PROVE  KeyInv'
<1>1. ASSUME NEW w \in Threads, NEW k \in Ids, req'[w].built[k] # Missing
      PROVE  req'[w].built[k].id = k
  <2>1. EmptyIndex[k] = Missing
    BY DEF EmptyIndex
  <2>2. req'[w].built = req[w].built
    BY <1>1, <2>1
  <2>3. req[w].built[k] # Missing => req[w].built[k].id = k
    BY Zenon DEF KeyInv
  <2> QED
    BY <1>1, <2>2, <2>3
<1> QED
  BY <1>1, Zenon DEF KeyInv

(* Returning releases the lock and leaves no locals behind.                 *)
LEMMA ReturnStep ==
    ASSUME TypeOK, LockInv, RequestInv, NEW t \in Threads, lock = t, Return(t), up' = up
    PROVE  /\ pc' \in [Threads -> Steps] /\ req' \in [Threads -> Request]
           /\ lock' = NoThread
           /\ LockInv' /\ RequestInv'
           /\ \A w \in Threads : req'[w].built = req[w].built \/ req'[w].built = EmptyIndex
           /\ \A k \in Ids : Expected(k)' = prim'[k]
<1> USE NoRequestType DEF Return, Goto
<1>1. /\ pc' \in [Threads -> Steps] /\ req' \in [Threads -> Request]
      /\ lock' = NoThread
      /\ \A w \in Threads : req'[w].built = req[w].built \/ req'[w].built = EmptyIndex
  BY DEF TypeOK, Steps
<1>2. up
  BY DEF LockInv, Locked, Steps, TypeOK
<1>3. LockInv'
  BY <1>1, <1>2, EngineAssumption DEF LockInv, Locked, Steps, TypeOK
<1>4. RequestInv'
  BY <1>1 DEF RequestInv, TypeOK
<1>5. \A k \in Ids : Expected(k)' = prim'[k]
  BY <1>1 DEF Expected
<1> QED
  BY <1>1, <1>3, <1>4, <1>5

-----------------------------------------------------------------------------
(* The steps of insert preserve the invariant.                              *)

(* The write to storage, done or failed.                                    *)
LEMMA InsertPutStep ==
    ASSUME BaseInv, NEW t \in Threads, InsertPut(t)
    PROVE  BaseInv' /\ (CopyInv => CopyInv')
<1> USE DEF BaseInv
<1>1. /\ lock = t /\ up /\ t # NoThread /\ up' = up /\ disk' = disk
      /\ prim' = prim /\ sec' = sec /\ indexed' = indexed /\ schema' = schema
      /\ req[t].doc \in Doc /\ pc[t] = "put"
  BY EngineAssumption DEF InsertPut, LockInv, Locked, Steps, RequestInv, memory, TypeOK
<1>2. \A k \in Ids : Expected(k) = prim[k]
  BY <1>1 DEF Expected
<1>3. CASE /\ live' = [live EXCEPT !.docs[req[t].doc.id] = req[t].doc]
           /\ Goto(t, "index")
           /\ UNCHANGED <<lock, req, faults>>
  <2> DEFINE d == req[t].doc
  <2>1. /\ live' \in Image
        /\ \A k \in AllIds : live'.docs[k] = IF k = d.id THEN d ELSE live.docs[k]
    BY <1>1, <1>3 DEF TypeOK, Image, Table, Doc
  <2>2. pc' \in [Threads -> Steps] /\ pc'[t] = "index"
        /\ \A w \in Threads : w # t => pc'[w] = pc[w]
    BY <1>3 DEF Goto, TypeOK, Steps
  <2>3. TypeOK'
    BY <1>1, <1>3, <2>1, <2>2 DEF TypeOK
  <2>4. LockInv'
    BY <1>1, <1>3, <2>2 DEF LockInv, Locked, Steps
  <2>5. KeyInv'
    BY <1>1, <1>3, <2>1 DEF KeyInv
  <2>6. RequestInv'
    BY <1>1, <1>3, <2>2 DEF RequestInv
  <2>7. \A k \in Ids : Expected(k)' = IF k = d.id THEN d ELSE prim[k]
    BY <1>1, <1>3, <2>2 DEF Expected
  <2>8. CopyInv => CopyInv'
    BY <1>1, <1>2, <1>3, <2>1, <2>7, MissingAssumption DEF CopyInv, MirrorInv, StoredInv, AllIds
  <2> QED
    BY <2>3, <2>4, <2>5, <2>6, <2>8
<1>4. CASE Fails("put") /\ Return(t) /\ UNCHANGED live
  <2>1. faults' = faults \cup {"put"} /\ faults' \subseteq FaultsAllowed
    BY <1>4 DEF Fails, TypeOK
  <2>2. TypeOK' /\ KeyInv' /\ LockInv' /\ RequestInv'
    BY <1>1, <1>4, <2>1, ReturnStep DEF TypeOK, KeyInv, EmptyIndex
  <2>3. CopyInv => CopyInv'
    BY <1>1, <1>2, <1>4, <2>1, ReturnStep DEF CopyInv, MirrorInv, StoredInv
  <2> QED
    BY <2>2, <2>3
<1> QED
  BY <1>3, <1>4 DEF InsertPut

(* The new document reaches the indexes.                                    *)
LEMMA InsertIndexStep ==
    ASSUME BaseInv, NEW t \in Threads, InsertIndex(t)
    PROVE  BaseInv' /\ (CopyInv => CopyInv')
<1> USE DEF BaseInv
<1>1. /\ lock = t /\ up /\ t # NoThread /\ up' = up /\ disk' = disk /\ live' = live
      /\ indexed' = indexed /\ schema' = schema /\ faults' = faults
      /\ req[t].doc \in Doc /\ pc[t] = "index" /\ Return(t)
  BY EngineAssumption DEF InsertIndex, LockInv, Locked, Steps, RequestInv, store, TypeOK
<1>2. /\ prim' \in Index
      /\ \A k \in Ids : prim'[k] = IF k = req[t].doc.id THEN req[t].doc ELSE prim[k]
  BY <1>1, AddPrimaryFacts DEF InsertIndex, TypeOK
<1>3. sec' \subseteq Doc
  BY <1>1 DEF InsertIndex, AddSecondary, Bucketed, TypeOK
<1>4. \A k \in Ids : Expected(k) = prim'[k]
  BY <1>1, <1>2 DEF Expected
<1>5. TypeOK' /\ KeyInv' /\ LockInv' /\ RequestInv'
  BY <1>1, <1>2, <1>3, ReturnStep DEF TypeOK, KeyInv, EmptyIndex
<1>6. CopyInv => CopyInv'
  BY <1>1, <1>4, ReturnStep DEF CopyInv, MirrorInv, StoredInv
<1> QED
  BY <1>5, <1>6

-----------------------------------------------------------------------------
(* The steps of update preserve the invariant.                              *)

(* The table is dropped, or the drop fails and changes nothing.             *)
LEMMA SyncDropStep ==
    ASSUME BaseInv, NEW t \in Threads, SyncDrop(t)
    PROVE  BaseInv' /\ (CopyInv => CopyInv')
<1> USE DEF BaseInv
<1>1. /\ lock = t /\ up /\ t # NoThread /\ up' = up
      /\ prim' = prim /\ sec' = sec /\ indexed' = indexed /\ schema' = schema
      /\ pc[t] = "drop" /\ req[t].built = EmptyIndex
  BY EngineAssumption DEF SyncDrop, LockInv, Locked, Steps, RequestInv, memory, TypeOK
<1>2. \A k \in Ids : Expected(k) = prim[k]
  BY <1>1 DEF Expected
<1>3. CASE /\ live' = [live EXCEPT !.docs = EmptyTable]
           /\ disk' = [disk EXCEPT !.docs = EmptyTable]
           /\ Goto(t, "open")
           /\ UNCHANGED <<lock, req, faults>>
  <2>1. /\ live' \in Image /\ disk' \in Image
        /\ \A k \in AllIds : live'.docs[k] = Missing /\ disk'.docs[k] = Missing
    BY <1>3 DEF TypeOK, Image, Table, EmptyTable
  <2>2. pc' \in [Threads -> Steps] /\ pc'[t] = "open"
        /\ \A w \in Threads : w # t => pc'[w] = pc[w]
    BY <1>3 DEF Goto, TypeOK, Steps
  <2>3. TypeOK'
    BY <1>1, <1>3, <2>1, <2>2 DEF TypeOK
  <2>4. LockInv'
    BY <1>1, <1>3, <2>2 DEF LockInv, Locked, Steps
  <2>5. KeyInv'
    BY <1>1, <1>3, <2>1 DEF KeyInv
  <2>6. RequestInv'
    BY <1>1, <1>3, <2>2 DEF RequestInv
  <2>7. \A k \in Ids : Expected(k)' = Missing
    BY <1>1, <1>3, <2>2 DEF Expected
  <2>8. CopyInv => CopyInv'
    <3>1. \A k \in Ids : live'.docs[k] = Expected(k)' /\ live'.docs[k] = Missing
      BY <2>1, <2>7 DEF AllIds
    <3> QED
      BY <3>1, Zenon DEF CopyInv, MirrorInv, StoredInv
  <2> QED
    BY <2>3, <2>4, <2>5, <2>6, <2>8
<1>4. CASE Fails("drop") /\ Return(t) /\ UNCHANGED store
  <2>1. faults' = faults \cup {"drop"} /\ faults' \subseteq FaultsAllowed
    BY <1>4 DEF Fails, TypeOK
  <2>2. TypeOK' /\ KeyInv' /\ LockInv' /\ RequestInv'
    BY <1>1, <1>4, <2>1, ReturnStep DEF TypeOK, KeyInv, EmptyIndex, store
  <2>3. CopyInv => CopyInv'
    BY <1>1, <1>2, <1>4, <2>1, ReturnStep DEF CopyInv, MirrorInv, StoredInv, store
  <2> QED
    BY <2>2, <2>3
<1> QED
  BY <1>3, <1>4 DEF SyncDrop

(* The empty table is opened for writing; a failure here leaves storage     *)
(* empty, which excuses Mirror and satisfies StoredIsVisible.               *)
LEMMA SyncOpenStep ==
    ASSUME BaseInv, NEW t \in Threads, SyncOpen(t)
    PROVE  BaseInv' /\ (CopyInv => CopyInv')
<1> USE DEF BaseInv
<1>1. /\ lock = t /\ up /\ t # NoThread /\ up' = up /\ live' = live /\ disk' = disk
      /\ prim' = prim /\ sec' = sec /\ indexed' = indexed /\ schema' = schema
      /\ pc[t] = "open" /\ req[t].built = EmptyIndex
  BY EngineAssumption DEF SyncOpen, LockInv, Locked, Steps, RequestInv, memory, store, TypeOK
<1>2. \A k \in Ids : Expected(k) = Missing
  BY <1>1 DEF Expected
<1>3. CASE Goto(t, "fill") /\ UNCHANGED <<lock, req, faults>>
  <2>1. pc' \in [Threads -> Steps] /\ pc'[t] = "fill"
        /\ \A w \in Threads : w # t => pc'[w] = pc[w]
    BY <1>3, Zenon DEF Goto, TypeOK, Steps
  <2>2. TypeOK' /\ KeyInv'
    BY <1>1, <1>3, <2>1, Zenon DEF TypeOK, KeyInv
  <2>3. LockInv'
    BY <1>1, <1>3, <2>1 DEF LockInv, Locked, Steps
  <2>4. RequestInv'
    BY <1>1, <1>3, <2>1 DEF RequestInv
  <2>5. \A k \in Ids : Expected(k)' = Missing
    BY <1>1, <1>3, <2>1 DEF Expected, EmptyIndex
  <2>6. CopyInv => CopyInv'
    BY <1>1, <1>2, <1>3, <2>5 DEF CopyInv, MirrorInv, StoredInv
  <2> QED
    BY <2>2, <2>3, <2>4, <2>6
<1>4. CASE Fails("open") /\ Return(t)
  <2>1. faults' = faults \cup {"open"} /\ faults' \subseteq FaultsAllowed
    BY <1>4, Zenon DEF Fails, TypeOK
  <2>2. TypeOK' /\ KeyInv' /\ LockInv' /\ RequestInv'
    BY <1>1, <1>4, <2>1, ReturnStep DEF TypeOK, KeyInv, EmptyIndex
  <2>3. CopyInv => MirrorInv'
    BY <1>1, <1>2, <2>1 DEF CopyInv, MirrorInv
  <2>4. CopyInv => StoredInv'
    BY <1>1, <1>2, <2>1 DEF CopyInv, StoredInv
  <2> QED
    BY <2>2, <2>3, <2>4 DEF CopyInv
<1> QED
  BY <1>3, <1>4 DEF SyncOpen

(* One document of the batch is written, or its write fails; either way it  *)
(* enters the index that update is going to install.                        *)
LEMMA SyncInsertStep ==
    ASSUME BaseInv, NEW t \in Threads, SyncInsert(t)
    PROVE  BaseInv' /\ (CopyInv => CopyInv')
<1> USE DEF BaseInv
<1>1. /\ lock = t /\ up /\ t # NoThread /\ up' = up /\ disk' = disk /\ lock' = lock
      /\ prim' = prim /\ sec' = sec /\ indexed' = indexed /\ schema' = schema
      /\ pc[t] = "fill" /\ pc' = pc
  BY EngineAssumption DEF SyncInsert, LockInv, Locked, Steps, memory, TypeOK
<1>2. PICK d \in req[t].todo :
        /\ req' = [req EXCEPT ![t].todo = @ \ {d}, ![t].built = AddPrimary(@, d)]
        /\ \/ live' = [live EXCEPT !.docs[d.id] = d] /\ UNCHANGED faults
           \/ Fails("insert") /\ UNCHANGED live
  BY Zenon DEF SyncInsert
<1>3. d \in Doc /\ req[t] \in Request /\ req[t].built \in Index
  BY DEF TypeOK, Request
<1>4. /\ req' \in [Threads -> Request]
      /\ \A w \in Threads : w # t => req'[w] = req[w]
      /\ \A k \in Ids : req'[t].built[k] = IF k = d.id THEN d ELSE req[t].built[k]
  <2>1. /\ AddPrimary(req[t].built, d) \in Index
        /\ \A k \in Ids : AddPrimary(req[t].built, d)[k]
                             = IF k = d.id THEN d ELSE req[t].built[k]
    BY <1>3, AddPrimaryFacts, Zenon
  <2> QED
    BY <1>2, <1>3, <2>1, Zenon DEF TypeOK, Request
<1>5. RequestInv' /\ LockInv'
  BY <1>1, <1>4, Zenon DEF RequestInv, LockInv
<1>6. /\ \A k \in Ids : Expected(k) = req[t].built[k]
      /\ \A k \in Ids : Expected(k)' = IF k = d.id THEN d ELSE req[t].built[k]
  BY <1>1, <1>4 DEF Expected
<1>7. CASE live' = [live EXCEPT !.docs[d.id] = d] /\ UNCHANGED faults
  <2>1. /\ live' \in Image
        /\ \A k \in AllIds : live'.docs[k] = IF k = d.id THEN d ELSE live.docs[k]
    BY <1>3, <1>7 DEF TypeOK, Image, Table, Doc
  <2>2. TypeOK'
    BY <1>1, <1>4, <1>7, <2>1 DEF TypeOK
  <2>3. KeyInv'
    BY <1>1, <1>4, <2>1 DEF KeyInv
  <2>4. CopyInv => CopyInv'
    BY <1>1, <1>3, <1>6, <1>7, <2>1, MissingAssumption DEF CopyInv, MirrorInv, StoredInv, AllIds
  <2> QED
    BY <1>5, <2>2, <2>3, <2>4
<1>8. CASE Fails("insert") /\ UNCHANGED live
  <2>1. faults' = faults \cup {"insert"} /\ faults' \subseteq FaultsAllowed
    BY <1>8 DEF Fails, TypeOK
  <2>2. TypeOK'
    BY <1>1, <1>4, <1>8, <2>1, Zenon DEF TypeOK
  <2>3. KeyInv'
    <3>1. ASSUME NEW w \in Threads, NEW k \in Ids, req'[w].built[k] # Missing
          PROVE  req'[w].built[k].id = k
      <4>1. req[w].built[k] # Missing => req[w].built[k].id = k
        BY Zenon DEF KeyInv
      <4> QED
        BY <1>4, <3>1, <4>1
    <3> QED
      BY <1>1, <1>8, <3>1, Zenon DEF KeyInv
  <2>4. CopyInv => MirrorInv'
    BY <2>1 DEF CopyInv, MirrorInv
  <2>5. CopyInv => StoredInv'
    BY <1>1, <1>3, <1>6, <1>8, <2>1, MissingAssumption DEF CopyInv, StoredInv
  <2> QED
    BY <1>5, <2>2, <2>3, <2>4, <2>5 DEF CopyInv
<1> QED
  BY <1>2, <1>7, <1>8

(* The index of the batch replaces the primary index.                       *)
LEMMA UpdateRebuildStep ==
    ASSUME BaseInv, NEW t \in Threads, UpdateRebuild(t)
    PROVE  BaseInv' /\ (CopyInv => CopyInv')
<1> USE DEF BaseInv
<1>1. /\ lock = t /\ up /\ t # NoThread /\ up' = up /\ disk' = disk /\ live' = live
      /\ indexed' = indexed /\ schema' = schema /\ faults' = faults
      /\ pc[t] = "fill" /\ Return(t) /\ prim' = req[t].built
  BY EngineAssumption DEF UpdateRebuild, LockInv, Locked, Steps, store, TypeOK
<1>2. req[t].batch \subseteq Doc /\ prim' \in Index
  BY <1>1, Zenon DEF TypeOK, Request
<1>3. sec' \subseteq Doc
  BY <1>2 DEF UpdateRebuild, AddSecondary, Bucketed
<1>4. \A k \in Ids : Expected(k) = prim'[k]
  BY <1>1, Zenon DEF Expected
<1>5. /\ pc' \in [Threads -> Steps] /\ req' \in [Threads -> Request] /\ lock' = NoThread
      /\ LockInv' /\ RequestInv'
      /\ \A w \in Threads : req'[w].built = req[w].built \/ req'[w].built = EmptyIndex
      /\ \A k \in Ids : Expected(k)' = prim'[k]
  BY <1>1, ReturnStep
<1>6. TypeOK'
  BY <1>1, <1>2, <1>3, <1>5, Zenon DEF TypeOK
<1>7. KeyInv'
  <2>1. ASSUME NEW w \in Threads, NEW k \in Ids, req'[w].built[k] # Missing
        PROVE  req'[w].built[k].id = k
    <3>1. EmptyIndex[k] = Missing
      BY DEF EmptyIndex
    <3>2. req[w].built[k] # Missing => req[w].built[k].id = k
      BY Zenon DEF KeyInv
    <3> QED
      BY <1>5, <2>1, <3>1, <3>2
  <2>2. \A k \in Ids : prim'[k] # Missing => prim'[k].id = k
    BY <1>1, Zenon DEF KeyInv
  <2> QED
    BY <1>1, <2>1, <2>2, Zenon DEF KeyInv
<1>8. CopyInv => MirrorInv'
  BY <1>1, <1>4, <1>5, Zenon DEF CopyInv, MirrorInv
<1>9. CopyInv => StoredInv'
  BY <1>1, <1>4, <1>5, Zenon DEF CopyInv, StoredInv
<1> QED
  BY <1>5, <1>6, <1>7, <1>8, <1>9 DEF CopyInv

-----------------------------------------------------------------------------
(* The steps of remove preserve the invariant.                              *)

(* One match leaves storage, or is passed over.                             *)
LEMMA RemoveStoredStep ==
    ASSUME BaseInv, NEW t \in Threads, RemoveStored(t)
    PROVE  BaseInv' /\ (CopyInv => CopyInv')
<1> USE DEF BaseInv
<1>1. /\ lock = t /\ up /\ t # NoThread /\ up' = up /\ disk' = disk /\ lock' = lock
      /\ prim' = prim /\ sec' = sec /\ indexed' = indexed /\ schema' = schema
      /\ pc[t] = "remove"
  BY EngineAssumption DEF RemoveStored, LockInv, Locked, Steps, memory, TypeOK
<1>2. \A k \in Ids : Expected(k) = prim[k]
  BY <1>1 DEF Expected
<1>3. req[t] \in Request
  BY DEF TypeOK
<1>4. ASSUME NEW k \in req[t].ids, prim[k] # Missing,
             live' = [live EXCEPT !.docs[k] = Missing],
             req' = [req EXCEPT ![t].ids = @ \ {k}, ![t].doc = prim[k]],
             Goto(t, "unindex"), UNCHANGED faults
      PROVE  BaseInv' /\ (CopyInv => CopyInv')
  <2>1. k \in Ids /\ prim[k] \in Doc /\ prim[k].id = k
    BY <1>3, <1>4 DEF Request, TypeOK, Index, KeyInv
  <2>2. /\ live' \in Image
        /\ \A i \in AllIds : live'.docs[i] = IF i = k THEN Missing ELSE live.docs[i]
    BY <1>4, <2>1 DEF TypeOK, Image, Table, AllIds
  <2>3. pc' \in [Threads -> Steps] /\ pc'[t] = "unindex"
        /\ \A w \in Threads : w # t => pc'[w] = pc[w]
    BY <1>4 DEF Goto, TypeOK, Steps
  <2>4. /\ req' \in [Threads -> Request] /\ req'[t].doc = prim[k]
        /\ req'[t].built = req[t].built
        /\ \A w \in Threads : w # t => req'[w] = req[w]
    BY <1>3, <1>4, <2>1, Zenon DEF TypeOK, Request
  <2>5. TypeOK'
    BY <1>1, <1>4, <2>2, <2>3, <2>4 DEF TypeOK
  <2>6. LockInv'
    BY <1>1, <2>3, Zenon DEF LockInv, Locked, Steps
  <2>7. KeyInv'
    <3>1. \A w \in Threads : req'[w].built = req[w].built
      BY <2>4
    <3>2. \A i \in AllIds : live'.docs[i] # Missing => live'.docs[i].id = i
      BY <2>2 DEF KeyInv
    <3>3. \A w \in Threads, i \in Ids : req'[w].built[i] # Missing => req'[w].built[i].id = i
      BY <3>1 DEF KeyInv
    <3> QED
      BY <1>1, <3>2, <3>3, Zenon DEF KeyInv
  <2>8. RequestInv'
    BY <2>1, <2>3, <2>4, Zenon DEF RequestInv
  <2>9. \A i \in Ids : Expected(i)' = IF i = k THEN Missing ELSE prim[i]
    BY <1>1, <2>1, <2>3, <2>4 DEF Expected
  <2>10. CopyInv => CopyInv'
    BY <1>1, <1>2, <1>4, <2>2, <2>9, SMTT(30) DEF CopyInv, MirrorInv, StoredInv, AllIds
  <2> QED
    BY <2>5, <2>6, <2>7, <2>8, <2>10
<1>5. ASSUME NEW k \in req[t].ids,
             IF prim[k] = Missing THEN UNCHANGED faults ELSE Fails("remove"),
             req' = [req EXCEPT ![t].ids = @ \ {k}],
             UNCHANGED <<live, pc>>
      PROVE  BaseInv' /\ (CopyInv => CopyInv')
  <2>1. /\ faults' \subseteq FaultsAllowed /\ faults \subseteq faults'
        /\ faults' \subseteq faults \cup {"remove"}
    BY <1>5 DEF Fails, TypeOK
  <2>2. /\ req' \in [Threads -> Request]
        /\ \A w \in Threads : req'[w].built = req[w].built /\ req'[w].doc = req[w].doc
    BY <1>3, <1>5 DEF TypeOK, Request
  <2>3. TypeOK' /\ KeyInv' /\ LockInv' /\ RequestInv'
    BY <1>1, <1>5, <2>1, <2>2 DEF TypeOK, KeyInv, LockInv, RequestInv
  <2>4. \A i \in Ids : Expected(i)' = prim[i]
    BY <1>1, <1>5 DEF Expected
  <2>5. CopyInv => CopyInv'
    BY <1>1, <1>2, <1>5, <2>1, <2>4 DEF CopyInv, MirrorInv, StoredInv
  <2> QED
    BY <2>3, <2>5
<1> QED
  BY <1>4, <1>5 DEF RemoveStored

(* The removed document leaves the indexes.                                 *)
LEMMA RemoveIndexedStep ==
    ASSUME BaseInv, NEW t \in Threads, RemoveIndexed(t)
    PROVE  BaseInv' /\ (CopyInv => CopyInv')
<1> USE DEF BaseInv
<1>1. /\ lock = t /\ up /\ t # NoThread /\ up' = up /\ disk' = disk /\ live' = live
      /\ indexed' = indexed /\ schema' = schema /\ faults' = faults
      /\ lock' = lock /\ req' = req /\ pc[t] = "unindex"
      /\ req[t].doc \in Doc /\ req[t].doc.id \in Ids
  BY EngineAssumption, Zenon DEF RemoveIndexed, LockInv, Locked, Steps, store, RequestInv, TypeOK
<1>2. /\ prim' \in Index
      /\ \A k \in Ids : prim'[k] = IF k = req[t].doc.id THEN Missing ELSE prim[k]
  BY <1>1 DEF RemoveIndexed, RemovePrimary, TypeOK, Index
<1>3. sec' \subseteq Doc
  BY DEF RemoveIndexed, RemoveSecondary, TypeOK
<1>4. pc' \in [Threads -> Steps] /\ pc'[t] = "remove"
      /\ \A w \in Threads : w # t => pc'[w] = pc[w]
  BY Zenon DEF RemoveIndexed, Goto, TypeOK, Steps
<1>5. TypeOK' /\ KeyInv'
  BY <1>1, <1>2, <1>3, <1>4, Zenon DEF TypeOK, KeyInv
<1>6. LockInv'
  BY <1>1, <1>4 DEF LockInv, Locked, Steps
<1>7. RequestInv'
  BY <1>1, <1>4, Zenon DEF RequestInv
<1>8. \A k \in Ids : Expected(k) = prim'[k] /\ Expected(k)' = prim'[k]
  BY <1>1, <1>2, <1>4, Zenon DEF Expected
<1>9. CopyInv => CopyInv'
  BY <1>1, <1>8 DEF CopyInv, MirrorInv, StoredInv
<1> QED
  BY <1>5, <1>6, <1>7, <1>9

(* All matches are done with.                                               *)
LEMMA RemoveEndStep ==
    ASSUME BaseInv, NEW t \in Threads, RemoveEnd(t)
    PROVE  BaseInv' /\ (CopyInv => CopyInv')
<1> USE DEF BaseInv
<1>1. /\ up' = up /\ live' = live /\ disk' = disk /\ prim' = prim /\ sec' = sec
      /\ indexed' = indexed /\ schema' = schema /\ faults' = faults
      /\ pc[t] = "remove" /\ Return(t)
  BY DEF RemoveEnd, store, memory
<1>2. lock = t /\ up /\ t # NoThread
  BY <1>1, EngineAssumption, Zenon DEF LockInv, Locked, Steps, TypeOK
<1>3. \A k \in Ids : Expected(k) = prim[k]
  BY <1>1, <1>2, Zenon DEF Expected
<1>4. /\ pc' \in [Threads -> Steps] /\ req' \in [Threads -> Request] /\ lock' = NoThread
      /\ LockInv' /\ RequestInv'
      /\ \A w \in Threads : req'[w].built = req[w].built \/ req'[w].built = EmptyIndex
      /\ \A k \in Ids : Expected(k)' = prim'[k]
  BY <1>1, <1>2, ReturnStep, Zenon
<1>5. TypeOK'
  BY <1>1, <1>4, Zenon DEF TypeOK
<1>6. KeyInv'
  BY <1>1, <1>4, KeyKept, Zenon
<1>7. CopyInv => MirrorInv'
  BY <1>1, <1>3, <1>4, Zenon DEF CopyInv, MirrorInv
<1>8. CopyInv => StoredInv'
  BY <1>1, <1>3, <1>4 DEF CopyInv, StoredInv
<1> QED
  BY <1>4, <1>5, <1>6, <1>7, <1>8 DEF CopyInv

-----------------------------------------------------------------------------
(* The calls, set_schema, and the life of the process preserve the          *)
(* invariant.                                                               *)

(* A call is admitted, or set_schema writes its schema.                     *)
LEMMA CallStep ==
    ASSUME BaseInv, NEW t \in Threads, Call(t)
    PROVE  BaseInv' /\ (CopyInv => CopyInv')
<1>1. ASSUME NEW d \in Inserts, InsertBegin(t, d) PROVE BaseInv' /\ (CopyInv => CopyInv')
  <2>1. d \in Doc
    BY EngineAssumption
  <2>2. LET r == [NoRequest EXCEPT !.doc = d]
        IN  r \in Request /\ r.built = EmptyIndex /\ r.doc = d
    BY <2>1, NoRequestType DEF NoRequest, Request
  <2> QED
    BY <1>1, <2>1, <2>2, AdmitStep, Zenon DEF InsertBegin
<1>2. ASSUME NEW q \in Queries, NEW u \in Updates, UpdateBegin(t, q, u)
      PROVE  BaseInv' /\ (CopyInv => CopyInv')
  <2> DEFINE b == Batch(prim, q, u, schema)
  <2>1. b \subseteq Doc
    BY BatchType, EngineAssumption DEF BaseInv, TypeOK
  <2>2. LET r == [NoRequest EXCEPT !.batch = b, !.todo = b]
        IN  r \in Request /\ r.built = EmptyIndex
    BY <2>1, NoRequestType, Zenon DEF NoRequest, Request
  <2> HIDE DEF b
  <2> QED
    BY <1>2, <2>2, AdmitStep, Zenon DEF UpdateBegin, b
<1>3. ASSUME NEW q \in Queries, RemoveBegin(t, q) PROVE BaseInv' /\ (CopyInv => CopyInv')
  <2>1. PICK m \in SUBSET Ids : Admit(t, "remove", [NoRequest EXCEPT !.ids = m])
    BY <1>3, Zenon DEF RemoveBegin
  <2>2. LET r == [NoRequest EXCEPT !.ids = m]
        IN  r \in Request /\ r.built = EmptyIndex
    BY NoRequestType DEF NoRequest, Request
  <2> QED
    BY <2>1, <2>2, AdmitStep, Zenon
<1>4. ASSUME NEW s \in NewSchemas, SchemaPut(t, s) PROVE BaseInv' /\ (CopyInv => CopyInv')
  <2> USE DEF BaseInv
  <2>1. /\ up' = up /\ disk' = disk /\ prim' = prim /\ sec' = sec /\ indexed' = indexed
        /\ schema' = schema /\ lock' = lock /\ faults' = faults
        /\ pc[t] = "idle" /\ up /\ lock # t
    BY <1>4 DEF SchemaPut, memory, LockInv, Locked, Steps, TypeOK
  <2>2. live' \in Image /\ live'.docs = live.docs
    BY <1>4, SchemaSets DEF SchemaPut, TypeOK, Image
  <2>3. pc' \in [Threads -> Steps] /\ pc'[t] = "cache"
        /\ \A w \in Threads : w # t => pc'[w] = pc[w]
    BY <1>4 DEF SchemaPut, Goto, TypeOK, Steps
  <2>4. /\ req' \in [Threads -> Request]
        /\ req'[t].built = req[t].built
        /\ \A w \in Threads : w # t => req'[w] = req[w]
    BY <1>4, SchemaSets, SMTT(30) DEF SchemaPut, TypeOK, Request
  <2>5. TypeOK'
    BY <2>1, <2>2, <2>3, <2>4 DEF TypeOK
  <2>6. KeyInv'
    <3>1. \A w \in Threads : req'[w].built = req[w].built
      BY <2>4
    <3>2. \A k \in AllIds : live'.docs[k] # Missing => live'.docs[k].id = k
      BY <2>2 DEF KeyInv
    <3>3. \A w \in Threads, k \in Ids : req'[w].built[k] # Missing => req'[w].built[k].id = k
      BY <3>1 DEF KeyInv
    <3> QED
      BY <2>1, <3>2, <3>3, Zenon DEF KeyInv
  <2>7. LockInv'
    BY <2>1, <2>3 DEF LockInv, Locked, Steps
  <2>8. RequestInv'
    BY <2>3, <2>4, Zenon DEF RequestInv
  <2>9. \A k \in Ids : Expected(k)' = Expected(k)
    BY <2>1, <2>3, <2>4 DEF Expected, TypeOK
  <2>10. CopyInv => MirrorInv'
    BY <2>1, <2>2, <2>9 DEF CopyInv, MirrorInv
  <2>11. CopyInv => StoredInv'
    BY <2>1, <2>2, <2>9 DEF CopyInv, StoredInv
  <2> QED
    BY <2>5, <2>6, <2>7, <2>8, <2>10, <2>11 DEF CopyInv
<1> QED
  BY <1>1, <1>2, <1>3, <1>4 DEF Call

(* set_schema updates the cache.                                            *)
LEMMA SchemaCacheStep ==
    ASSUME BaseInv, NEW t \in Threads, SchemaCache(t)
    PROVE  BaseInv' /\ (CopyInv => CopyInv')
<1> USE DEF BaseInv
<1>1. /\ up' = up /\ live' = live /\ disk' = disk /\ prim' = prim /\ sec' = sec
      /\ indexed' = indexed /\ lock' = lock /\ faults' = faults
      /\ pc[t] = "cache" /\ lock # t /\ up
  BY DEF SchemaCache, store, LockInv, Locked, Steps, TypeOK
<1>2. pc' \in [Threads -> Steps] /\ pc'[t] = "idle"
      /\ \A w \in Threads : w # t => pc'[w] = pc[w]
  BY DEF SchemaCache, Goto, TypeOK, Steps
<1>3. /\ req' \in [Threads -> Request] /\ req'[t].built = EmptyIndex
      /\ \A w \in Threads : w # t => req'[w] = req[w]
      /\ schema' \in CachedSchemas
  BY NoRequestType DEF SchemaCache, TypeOK, Request
<1>4. TypeOK'
  BY <1>1, <1>2, <1>3, Zenon DEF TypeOK
<1>5. KeyInv'
  BY <1>1, <1>3, KeyKept, Zenon
<1>6. LockInv'
  BY <1>1, <1>2, Zenon DEF LockInv, Locked, Steps
<1>7. RequestInv'
  BY <1>2, <1>3, Zenon DEF RequestInv
<1>8. \A k \in Ids : Expected(k)' = Expected(k)
  BY <1>1, <1>2, <1>3, Zenon DEF Expected, TypeOK
<1>9. CopyInv => MirrorInv'
  BY <1>1, <1>8 DEF CopyInv, MirrorInv
<1>10. CopyInv => StoredInv'
  BY <1>1, <1>8 DEF CopyInv, StoredInv
<1> QED
  BY <1>4, <1>5, <1>6, <1>7, <1>9, <1>10 DEF CopyInv

(* The process starts: the indexes are loaded from storage.                 *)
LEMMA StartStep ==
    ASSUME BaseInv, NEW read \in SUBSET AllIds, NEW b \in BOOLEAN, NEW c \in BOOLEAN,
           Start(read, b, c)
    PROVE  BaseInv' /\ (CopyInv => CopyInv')
<1> USE DEF BaseInv
<1> DEFINE docs == LoadCollection(read, disk.docs)
<1>1. /\ ~up /\ up' /\ live = disk /\ pc = [t \in Threads |-> "idle"] /\ lock = NoThread
      /\ UNCHANGED <<live, disk, lock, pc, req>>
  BY DEF Start, store, control, LockInv, Locked, Steps, TypeOK
<1>2. /\ docs \in Table
      /\ \A k \in AllIds : docs[k] # Missing => docs[k].id = k
      /\ read = AllIds => \A k \in AllIds : docs[k] = disk.docs[k]
  BY DEF TypeOK, Image, KeyInv, LoadCollection, Table
<1> HIDE DEF docs
<1>3. /\ prim' \in Index
      /\ \A k \in Ids : prim'[k] = docs[k]
      /\ sec' \subseteq Doc
  BY <1>2 DEF Start, docs, Bucketed, Index, Table, AllIds
<1>4. indexed' \in BOOLEAN /\ schema' \in CachedSchemas
  <2>1. disk.schema \in StoredSchemas /\ disk.defs \in BOOLEAN
    BY DEF TypeOK, Image
  <2>2. indexed' \in BOOLEAN
    BY <2>1 DEF Start, LoadIndexDefinitions
  <2>3. schema' \in CachedSchemas
    BY <2>1, SchemaSets DEF Start
  <2> QED
    BY <2>2, <2>3
<1>5. faults' \subseteq FaultsAllowed /\ (read # AllIds => faults' = {"load"})
  BY Zenon DEF Start
<1>6. TypeOK'
  BY <1>1, <1>3, <1>4, <1>5 DEF TypeOK
<1>7. LockInv' /\ RequestInv'
  BY <1>1, Zenon DEF LockInv, RequestInv
<1>8. KeyInv'
  BY <1>1, <1>2, <1>3 DEF KeyInv, AllIds
<1>9. \A k \in Ids : Expected(k)' = prim'[k]
  BY <1>1 DEF Expected
<1>10. CopyInv => CopyInv'
  <2>1. "load" \notin faults' => \A k \in Ids : live'.docs[k] = Expected(k)'
    BY <1>1, <1>2, <1>3, <1>5, <1>9 DEF AllIds
  <2> QED
    BY <2>1 DEF CopyInv, MirrorInv, StoredInv
<1> QED
  BY <1>6, <1>7, <1>8, <1>10

(* The process ends, by itself or by a crash.                               *)
LEMMA StopStep ==
    ASSUME BaseInv, Shutdown \/ Crash
    PROVE  BaseInv' /\ (CopyInv => CopyInv')
<1> USE DEF BaseInv
<1>1. up' = FALSE /\ NoMemory /\ live' = disk' /\ live' \in {live, disk}
  BY DEF Shutdown, Crash
<1>2. TypeOK'
  BY <1>1, NoRequestType, SchemaSets, Zenon DEF TypeOK, NoMemory, EmptyIndex, Index, Steps
<1>3. LockInv' /\ RequestInv'
  BY <1>1, EngineAssumption, Zenon DEF LockInv, RequestInv, NoMemory, Locked, Steps
<1>4. KeyInv'
  <2>1. ASSUME NEW k \in Ids PROVE prim'[k] = Missing
    BY <1>1, Zenon DEF NoMemory, EmptyIndex
  <2>2. ASSUME NEW t \in Threads, NEW k \in Ids PROVE req'[t].built[k] = Missing
    <3> HIDE DEF BaseInv
    <3>1. req'[t] = NoRequest
      BY <1>1, Zenon DEF NoMemory
    <3>2. \A q : q = NoRequest => q.built[k] = Missing
      BY DEF NoRequest, EmptyIndex
    <3> QED BY <3>1, <3>2, Zenon
  <2>3. ASSUME NEW k \in AllIds, live'.docs[k] # Missing PROVE live'.docs[k].id = k
    <3>1. CASE live' = live
      BY <2>3, <3>1, Zenon DEF KeyInv
    <3>2. CASE live' = disk
      BY <2>3, <3>2, Zenon DEF KeyInv
    <3> QED BY <1>1, <3>1, <3>2, Zenon
  <2>4. ASSUME NEW k \in AllIds, disk'.docs[k] # Missing PROVE disk'.docs[k].id = k
    <3>1. disk' = live'
      BY <1>1, Zenon
    <3> QED BY <2>3, <2>4, <3>1
  <2> QED BY <2>1, <2>2, <2>3, <2>4, Zenon DEF KeyInv
<1>5. CopyInv => CopyInv'
  BY <1>1 DEF CopyInv, MirrorInv, StoredInv
<1> QED
  BY <1>2, <1>3, <1>4, <1>5

-----------------------------------------------------------------------------
(* Every step keeps the types, the lock, the keys and the locals in order,  *)
(* and, whatever else may have happened before, the two copies of the       *)
(* collection in agreement.                                                 *)
LEMMA NextBase == BaseInv /\ [Next]_vars => BaseInv' /\ (CopyInv => CopyInv')
<1> SUFFICES ASSUME BaseInv, [Next]_vars PROVE BaseInv' /\ (CopyInv => CopyInv')
  OBVIOUS
<1>1. ASSUME NEW t \in Threads, Call(t) PROVE BaseInv' /\ (CopyInv => CopyInv')
  BY <1>1, CallStep
<1>2. ASSUME NEW t \in Threads, Work(t) PROVE BaseInv' /\ (CopyInv => CopyInv')
  BY <1>2, InsertPutStep, InsertIndexStep, SyncDropStep, SyncOpenStep, SyncInsertStep,
     UpdateRebuildStep, RemoveStoredStep, RemoveIndexedStep, RemoveEndStep,
     SchemaCacheStep DEF Work
<1>3. ASSUME NEW read \in SUBSET AllIds, NEW b \in BOOLEAN, NEW c \in BOOLEAN,
             Start(read, b, c)
      PROVE  BaseInv' /\ (CopyInv => CopyInv')
  BY <1>3, StartStep
<1>4. CASE Shutdown \/ Crash
  BY <1>4, StopStep, Zenon
<1>5. CASE UNCHANGED vars
  BY <1>5, ZenonT(40)
     DEF vars, store, memory, control, BaseInv, TypeOK, LockInv, KeyInv, RequestInv,
              CopyInv, MirrorInv, StoredInv, Expected
<1> QED
  BY <1>1, <1>2, <1>3, <1>4, <1>5 DEF Next

(* The invariant is inductive.                                              *)
LEMMA NextIInv == IInv /\ [Next]_vars => IInv'
BY NextBase DEF IInv

(* In every reachable state the invariant holds.                            *)
THEOREM Invariance == Spec => []IInv
BY InitIInv, NextIInv, PTL DEF Spec

(* The variables of the engine keep their types.                            *)
THEOREM TypeCorrect == Spec => []TypeOK
<1>1. IInv => TypeOK
  BY DEF IInv, BaseInv
<1> QED
  BY <1>1, Invariance, PTL

(* What the copies agree on, between writes.                                *)
LEMMA CopyFacts == CopyInv => Mirror /\ StoredIsVisible
<1>1. CopyInv => Mirror
  BY Zenon DEF CopyInv, MirrorInv, Mirror, Settled, Expected
<1>2. CopyInv => StoredIsVisible
  BY DEF CopyInv, StoredInv, StoredIsVisible, Settled, Expected
<1> QED
  BY <1>1, <1>2

(* Between writes the primary index, from which all reads are served, holds *)
(* exactly the stored documents, whichever put, remove or drop has failed.  *)
THEOREM MirrorHolds == Spec => []Mirror
<1>1. IInv => Mirror
  BY CopyFacts DEF IInv
<1> QED
  BY <1>1, Invariance, PTL

(* No failure of a write hides a stored document from readers.              *)
THEOREM StoredVisible == Spec => []StoredIsVisible
<1>1. IInv => StoredIsVisible
  BY CopyFacts DEF IInv
<1> QED
  BY <1>1, Invariance, PTL
=============================================================================
