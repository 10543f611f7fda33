------------------------ MODULE EngineContractProofs ------------------------
(***************************************************************************)
(* Proofs, for every value of the constants, that the secondary index is   *)
(* complete and that the engine implements DocumentStore.                  *)
(***************************************************************************)
EXTENDS EngineProofs

-----------------------------------------------------------------------------
(* The locals of insert and update stay as they are described, in steps     *)
(* that change neither the primary index nor those locals.                  *)
LEMMA LocalsFrame ==
    ASSUME BuiltInv, prim' = prim,
           \A t \in Threads :
              pc'[t] \in {"put", "index", "drop", "open", "fill"} =>
                 /\ req'[t] = req[t]
                 /\ pc'[t] \in {"put", "index"} => pc[t] \in {"put", "index"}
                 /\ pc'[t] \in {"drop", "open", "fill"} => pc[t] \in {"drop", "open", "fill"}
    PROVE  BuiltInv' /\ (SourceInv => SourceInv')
<1>1. BuiltInv'
  BY DEF BuiltInv
<1>2. ASSUME SourceInv, NEW t \in Threads
      PROVE  /\ pc'[t] \in {"put", "index"} => req'[t].doc \in Inserts
             /\ pc'[t] \in {"drop", "open", "fill"} =>
                  \E q \in Queries, u \in Updates, s \in CachedSchemas :
                     req'[t].batch = Batch(prim', q, u, s)
  <2>1. CASE pc'[t] \in {"put", "index"}
    BY <1>2, <2>1 DEF SourceInv
  <2>2. CASE pc'[t] \in {"drop", "open", "fill"}
    BY <1>2, <2>2 DEF SourceInv
  <2> QED
    BY <2>1, <2>2
<1> QED
  BY <1>1, <1>2 DEF SourceInv

(* They need no description when no thread is inside insert or update.      *)
LEMMA LocalsIdle ==
    ASSUME \A t \in Threads : pc'[t] \notin {"put", "index", "drop", "open", "fill"}
    PROVE  BuiltInv' /\ SourceInv'
BY DEF BuiltInv, SourceInv

(* A thread that gives the lock back leaves nobody inside a write.          *)
LEMMA ReturnIdle ==
    ASSUME TypeOK, LockInv, NEW t \in Threads, lock = t, Return(t)
    PROVE  \A w \in Threads : pc'[w] \notin {"put", "index", "drop", "open", "fill"}
BY EngineAssumption DEF TypeOK, LockInv, Return, Goto, Locked, Steps

(* An admitted thread is the only one inside a write.                       *)
LEMMA AdmitAlone ==
    ASSUME TypeOK, LockInv, NEW t \in Threads, NEW step, NEW r, Admit(t, step, r)
    PROVE  /\ pc'[t] = step /\ req'[t] = r /\ prim' = prim
           /\ \A w \in Threads : w # t => pc'[w] \notin Locked
BY EngineAssumption DEF TypeOK, LockInv, Admit, Goto, memory

(* Admitting a request establishes what is said of its locals.              *)
LEMMA CallLocals ==
    ASSUME BaseInv, BuiltInv, NEW t \in Threads, Call(t)
    PROVE  BuiltInv' /\ (SourceInv => SourceInv')
<1> USE DEF BaseInv
<1>1. ASSUME NEW d \in Inserts, InsertBegin(t, d)
      PROVE  BuiltInv' /\ (SourceInv => SourceInv')
  <2>1. [NoRequest EXCEPT !.doc = d].doc = d
    BY DEF NoRequest
  <2>2. /\ pc'[t] = "put" /\ req'[t].doc = d
        /\ \A w \in Threads : w # t => pc'[w] \notin Locked
    BY <1>1, <2>1, AdmitAlone, Zenon DEF InsertBegin
  <2> QED
    BY <2>2 DEF BuiltInv, SourceInv, Locked, Steps
<1>2. ASSUME NEW q \in Queries, NEW u \in Updates, UpdateBegin(t, q, u)
      PROVE  BuiltInv' /\ (SourceInv => SourceInv')
  <2> DEFINE b == Batch(prim, q, u, schema)
             r == [NoRequest EXCEPT !.batch = b, !.todo = b]
  <2>1. r.batch = b /\ r.todo = b /\ r.built = EmptyIndex
    <3> HIDE DEF b
    <3> QED
      BY DEF NoRequest
  <2>2. /\ pc'[t] = "drop" /\ req'[t] = r /\ prim' = prim
        /\ \A w \in Threads : w # t => pc'[w] \notin Locked
    <3>1. Admit(t, "drop", r)
      BY <1>2 DEF UpdateBegin
    <3> HIDE DEF r
    <3> QED
      BY <3>1, AdmitAlone
  <2>3. schema \in CachedSchemas
    BY DEF TypeOK
  <2>4. \E p \in Queries, v \in Updates, s \in CachedSchemas :
           req'[t].batch = Batch(prim', p, v, s)
    BY <2>1, <2>2, <2>3
  <2> HIDE DEF b, r
  <2> QED
    BY <2>1, <2>2, <2>4 DEF BuiltInv, SourceInv, Locked, Steps, EmptyIndex
<1>3. ASSUME NEW q \in Queries, RemoveBegin(t, q)
      PROVE  BuiltInv' /\ (SourceInv => SourceInv')
  <2>1. PICK r : Admit(t, "remove", r)
    BY <1>3 DEF RemoveBegin
  <2> QED
    BY <2>1, AdmitAlone, LocalsIdle DEF Locked, Steps
<1>4. ASSUME NEW s \in NewSchemas, SchemaPut(t, s)
      PROVE  BuiltInv' /\ (SourceInv => SourceInv')
  <2>1. /\ pc'[t] = "cache" /\ prim' = prim
        /\ \A w \in Threads : w # t => pc'[w] = pc[w] /\ req'[w] = req[w]
    BY <1>4 DEF SchemaPut, Goto, TypeOK, memory
  <2> QED
    BY <2>1, LocalsFrame
<1> QED
  BY <1>1, <1>2, <1>3, <1>4 DEF Call

(* A written document enters the index that update is building.             *)
LEMMA SyncInsertLocals ==
    ASSUME BaseInv, BuiltInv, NEW t \in Threads, SyncInsert(t)
    PROVE  BuiltInv' /\ (SourceInv => SourceInv')
<1> USE DEF BaseInv
<1>1. /\ pc[t] = "fill" /\ lock = t /\ pc' = pc /\ prim' = prim
      /\ \A w \in Threads : w # t => pc[w] \notin Locked
  BY DEF SyncInsert, LockInv, Locked, Steps, memory, TypeOK
<1>2. PICK d \in req[t].todo :
        req' = [req EXCEPT ![t].todo = @ \ {d}, ![t].built = AddPrimary(@, d)]
  BY Zenon DEF SyncInsert
<1>3. d \in Doc /\ req[t] \in Request /\ req[t].built \in Index /\ req[t].batch \subseteq Doc
  BY DEF TypeOK, Request
<1>4. /\ req'[t].batch = req[t].batch
      /\ req'[t].todo = req[t].todo \ {d}
      /\ req'[t].built = AddPrimary(req[t].built, d)
  BY <1>2, <1>3 DEF TypeOK, Request
<1>5. \A k \in Ids : req'[t].built[k] = IF k = d.id THEN d ELSE req[t].built[k]
  BY <1>3, <1>4, AddPrimaryFacts
<1>6. /\ req[t].todo \subseteq req[t].batch
      /\ \A k \in Ids : req[t].built[k] # Missing => req[t].built[k] \in req[t].batch
      /\ \A e \in req[t].batch \ req[t].todo : e.id \in Ids => req[t].built[e.id] # Missing
  BY <1>1 DEF BuiltInv
<1>7. SourceInv => \E q \in Queries, u \in Updates, s \in CachedSchemas :
                      req'[t].batch = Batch(prim', q, u, s)
  BY <1>1, <1>4 DEF SourceInv
<1>8. /\ req'[t].todo \subseteq req'[t].batch
      /\ \A k \in Ids : req'[t].built[k] # Missing => req'[t].built[k] \in req'[t].batch
  BY <1>4, <1>5, <1>6
<1>9. \A e \in req'[t].batch \ req'[t].todo : e.id \in Ids => req'[t].built[e.id] # Missing
  BY <1>3, <1>4, <1>5, <1>6, MissingAssumption
<1> QED
  BY <1>1, <1>7, <1>8, <1>9 DEF BuiltInv, SourceInv, Locked, Steps

(* The other steps of a request keep it too.                                *)
LEMMA WorkLocals ==
    ASSUME BaseInv, BuiltInv, NEW t \in Threads, Work(t)
    PROVE  BuiltInv' /\ (SourceInv => SourceInv')
<1> USE DEF BaseInv
<1>1. ASSUME lock = t, Return(t) PROVE BuiltInv' /\ (SourceInv => SourceInv')
  BY <1>1, ReturnIdle, LocalsIdle
<1>2. ASSUME pc[t] \in Locked
      PROVE  lock = t /\ \A w \in Threads : w # t => pc[w] \notin Locked
  BY <1>2 DEF LockInv
<1>3. CASE InsertPut(t)
  <2>1. CASE Return(t)
    BY <1>1, <1>2, <1>3, <2>1 DEF InsertPut, Locked, Steps
  <2>2. CASE Goto(t, "index") /\ req' = req
    BY <1>3, <2>2, LocalsFrame DEF InsertPut, Goto, memory, TypeOK
  <2> QED
    BY <1>3, <2>1, <2>2 DEF InsertPut
<1>4. CASE InsertIndex(t) \/ UpdateRebuild(t) \/ RemoveEnd(t)
  BY <1>1, <1>2, <1>4 DEF InsertIndex, UpdateRebuild, RemoveEnd, Locked, Steps
<1>5. CASE SyncDrop(t)
  <2>1. CASE Return(t)
    BY <1>1, <1>2, <1>5, <2>1 DEF SyncDrop, Locked, Steps
  <2>2. CASE Goto(t, "open") /\ req' = req
    BY <1>5, <2>2, LocalsFrame DEF SyncDrop, Goto, memory, TypeOK
  <2> QED
    BY <1>5, <2>1, <2>2 DEF SyncDrop
<1>6. CASE SyncOpen(t)
  <2>1. CASE Return(t)
    BY <1>1, <1>2, <1>6, <2>1 DEF SyncOpen, Locked, Steps
  <2>2. CASE Goto(t, "fill") /\ req' = req
    BY <1>6, <2>2, LocalsFrame DEF SyncOpen, Goto, memory, TypeOK
  <2> QED
    BY <1>6, <2>1, <2>2 DEF SyncOpen
<1>7. CASE SyncInsert(t)
  BY <1>7, SyncInsertLocals
<1>8. CASE RemoveStored(t) \/ RemoveIndexed(t)
  <2>1. /\ pc[t] \in {"remove", "unindex"} /\ pc'[t] \in {"remove", "unindex"}
        /\ \A w \in Threads : w # t => pc'[w] = pc[w]
    BY <1>8, Zenon DEF RemoveStored, RemoveIndexed, Goto, TypeOK
  <2> QED
    BY <1>2, <2>1, LocalsIdle DEF Locked, Steps
<1>9. CASE SchemaCache(t)
  <2>1. /\ pc'[t] = "idle" /\ prim' = prim
        /\ \A w \in Threads : w # t => pc'[w] = pc[w] /\ req'[w] = req[w]
    BY <1>9 DEF SchemaCache, Goto, TypeOK
  <2> QED
    BY <2>1, LocalsFrame
<1> QED
  BY <1>3, <1>4, <1>5, <1>6, <1>7, <1>8, <1>9 DEF Work

-----------------------------------------------------------------------------
(* A step that leaves the indexes alone keeps the secondary one complete.   *)
LEMMA IndexInvFrame ==
    ASSUME IndexInv, UNCHANGED <<up, prim, sec, indexed>>
    PROVE  IndexInv'
BY Zenon DEF IndexInv

(* The secondary index stays complete in every step of a request.           *)
LEMMA WorkIndex ==
    ASSUME BaseInv, BuiltInv, IndexInv, NEW t \in Threads, Work(t)
    PROVE  IndexInv'
<1> USE DEF BaseInv
<1>1. CASE InsertIndex(t)
  <2>1. req[t].doc \in Doc /\ up' = up /\ indexed' = indexed
    BY <1>1 DEF InsertIndex, RequestInv
  <2>2. \A k \in Ids : prim'[k] = IF k = req[t].doc.id THEN req[t].doc ELSE prim[k]
    BY <1>1, <2>1, AddPrimaryFacts DEF InsertIndex, TypeOK
  <2>3. indexed => /\ sec \subseteq sec'
                   /\ req[t].doc.id \in Ids /\ GetValueAsString(req[t].doc) # NoText
                          => req[t].doc \in sec'
    BY <1>1, DocumentsAssumption DEF InsertIndex, AddSecondary, Bucketed
  <2> QED
    BY <2>1, <2>2, <2>3 DEF IndexInv
<1>2. CASE UpdateRebuild(t)
  <2>1. up' = up /\ indexed' = indexed /\ prim' = req[t].built /\ pc[t] = "fill"
    BY <1>2 DEF UpdateRebuild
  <2>2. \A k \in Ids : prim'[k] # Missing => prim'[k] \in req[t].batch /\ prim'[k].id = k
    BY <2>1 DEF BuiltInv, KeyInv
  <2>3. indexed => \A d \in req[t].batch : d.id \in Ids /\ GetValueAsString(d) # NoText
                                               => d \in sec'
    BY <1>2, DocumentsAssumption, Zenon DEF UpdateRebuild, AddSecondary, Bucketed
  <2> QED
    BY <2>1, <2>2, <2>3 DEF IndexInv
<1>3. CASE RemoveIndexed(t)
  <2>1. up' = up /\ indexed' = indexed /\ req[t].doc.id \in Ids
    BY <1>3 DEF RemoveIndexed, RequestInv
  <2>2. \A k \in Ids : prim'[k] = IF k = req[t].doc.id THEN Missing ELSE prim[k]
    BY <1>3, <2>1 DEF RemoveIndexed, RemovePrimary, TypeOK, Index
  <2>3. \A e \in sec : e.id # req[t].doc.id => e \in sec'
    BY <1>3 DEF RemoveIndexed, RemoveSecondary
  <2> QED
    BY <2>1, <2>2, <2>3 DEF IndexInv, KeyInv
<1>4. CASE UNCHANGED <<up, prim, sec, indexed>>
  BY <1>4, IndexInvFrame
<1> QED
  BY <1>1, <1>2, <1>3, <1>4 DEF Work, InsertPut, SyncDrop, SyncOpen, SyncInsert,
     RemoveStored, RemoveEnd, SchemaCache, memory

-----------------------------------------------------------------------------
(* The full invariant holds at first.                                       *)
LEMMA InitFull == Init => FullInv
<1>1. Init => BuiltInv /\ SourceInv /\ IndexInv
  BY DEF Init, BuiltInv, SourceInv, IndexInv
<1> QED
  BY <1>1, InitIInv DEF FullInv

(* The locals stay as described, and a complete secondary index stays       *)
(* complete, in every step.                                                 *)
LEMMA NextLocals ==
    ASSUME BaseInv, BuiltInv, [Next]_vars
    PROVE  BuiltInv' /\ (SourceInv => SourceInv') /\ (IndexInv => IndexInv')
<1>1. ASSUME NEW t \in Threads, Call(t)
      PROVE  BuiltInv' /\ (SourceInv => SourceInv') /\ (IndexInv => IndexInv')
  <2>1. UNCHANGED <<up, prim, sec, indexed>>
    BY <1>1, Zenon DEF Call, InsertBegin, UpdateBegin, RemoveBegin, SchemaPut, Admit, memory
  <2> QED
    BY <1>1, <2>1, CallLocals, IndexInvFrame
<1>2. ASSUME NEW t \in Threads, Work(t)
      PROVE  BuiltInv' /\ (SourceInv => SourceInv') /\ (IndexInv => IndexInv')
  BY <1>2, WorkLocals, WorkIndex
<1>3. ASSUME NEW read \in SUBSET AllIds, NEW b \in BOOLEAN, NEW c \in BOOLEAN,
             Start(read, b, c)
      PROVE  BuiltInv' /\ SourceInv' /\ IndexInv'
  <2>1. pc' = [t \in Threads |-> "idle"]
    BY <1>3 DEF Start, control, BaseInv, LockInv
  <2>2. IndexInv'
    <3>1. prim' \in Index /\ \A k \in Ids : prim'[k] # Missing => prim'[k].id = k
      BY NextBase, <1>3, Zenon DEF BaseInv, TypeOK, KeyInv, Next
    <3>2. PICK ds : prim' = [k \in Ids |-> ds[k]]
                    /\ (indexed' /\ ListedAfterIndexes
                          => sec' = Bucketed({ds[k] : k \in Ids} \ {Missing}))
      BY <1>3, Zenon DEF Start
    <3>3. \A k \in Ids : prim'[k] = ds[k] /\ k # EmptyId
      BY <3>2, DocumentsAssumption
    <3> QED
      BY <3>1, <3>2, <3>3, Zenon DEF IndexInv, Bucketed, ListedAfterIndexes, Index
  <2> QED
    BY <2>1, <2>2, LocalsIdle
<1>4. ASSUME Shutdown \/ Crash PROVE BuiltInv' /\ SourceInv' /\ IndexInv'
  <2>1. up' = FALSE /\ pc' = [t \in Threads |-> "idle"]
    BY <1>4 DEF Shutdown, Crash, NoMemory
  <2> QED
    BY <2>1, LocalsIdle DEF IndexInv
<1>5. CASE UNCHANGED vars
  BY <1>5, LocalsFrame, IndexInvFrame DEF vars, memory, control
<1> QED
  BY <1>1, <1>2, <1>3, <1>4, <1>5 DEF Next

(* The full invariant is inductive.                                         *)
LEMMA NextFull == FullInv /\ [Next]_vars => FullInv'
BY NextIInv, NextLocals DEF FullInv, IInv

(* In every reachable state the full invariant holds.                       *)
THEOREM FullInvariance == Spec => []FullInv
BY InitFull, NextFull, PTL DEF Spec

(* Through inserts over an existing _id, rebuilds and removals, every       *)
(* document in the primary index stays in its bucket of the secondary one.  *)
THEOREM IndexIsComplete == Spec => []IndexComplete
<1>1. FullInv => IndexComplete
  BY Zenon DEF FullInv, IInv, BaseInv, TypeOK, Index, IndexInv, IndexComplete, Settled,
     GetBySecondaryIndex, ListedAfterIndexes, DocsOf
<1> QED
  BY <1>1, FullInvariance, PTL

-----------------------------------------------------------------------------
(* What update computes for a document with a string _id, if it sets no     *)
(* _id: a document with the same one.                                       *)
LEMMA BatchKeeps ==
    ASSUME NEW m \in Index, NEW q, NEW u \in UpdateDoc, u.id = Keep, NEW s,
           NEW d \in DocsOf(m), ~d.dup
    PROVE  \E e \in Batch(m, q, u, s) : e.id = d.id
<1>1. d \in Doc
  BY DEF DocsOf, Index
<1> DEFINE i == Updated(ToJson(d), q, u, s)
<1>2. i.id = d.id
  BY <1>1 DEF Updated, Merge, ToJson
<1>3. i.id # NonString
  BY <1>1, <1>2, DocumentsAssumption DEF Doc, AllIds
<1>4. FromJson(i) \in Batch(m, q, u, s)
  BY <1>3 DEF Batch
<1>5. FromJson(i).id = d.id
  BY <1>2, Zenon DEF FromJson
<1> QED
  BY <1>4, <1>5

(* The index that update installs has, under each key, what the batch has.  *)
LEMMA RebuildInstalls ==
    ASSUME FullInv, NEW t \in Threads, UpdateRebuild(t), NEW k \in Ids
    PROVE  /\ prim'[k] # Missing => prim'[k] \in req[t].batch /\ prim'[k].id = k
           /\ \A d \in req[t].batch : d.id = k => prim'[k] # Missing
BY DEF FullInv, IInv, BaseInv, UpdateRebuild, BuiltInv, KeyInv

(* An update that sets no _id keeps every document with a string _id.       *)
THEOREM UpdateKeeps == Spec => UpdateKeepsDocs
<1>1. ASSUME FullInv, [Next]_vars, NEW t \in Threads, NEW k \in Ids,
             \A u \in Updates : u.id = Keep,
             pc[t] = "fill", up', prim[k] # Missing, ~prim[k].dup
      PROVE  prim'[k] # Missing /\ prim'[k].id = k
  <2> USE <1>1 DEF FullInv, IInv, BaseInv
  <2>1. /\ up /\ lock = t /\ prim \in Index /\ prim[k].id = k
        /\ \A w \in Threads : w # t => pc[w] \in {"idle", "cache"}
    BY DEF TypeOK, LockInv, Locked, Steps, KeyInv
  <2>2. CASE UpdateRebuild(t)
    <3>1. PICK q \in Queries, u \in Updates, s \in CachedSchemas :
             req[t].batch = Batch(prim, q, u, s)
      BY DEF SourceInv
    <3>2. prim[k] \in DocsOf(prim) /\ u \in UpdateDoc /\ u.id = Keep
      BY <2>1, EngineAssumption DEF DocsOf, Index
    <3>3. PICK e \in req[t].batch : e.id = k
      BY <2>1, <3>1, <3>2, BatchKeeps
    <3> QED
      BY <2>2, <3>3, RebuildInstalls
  <2>3. CASE prim' = prim
    BY <2>1, <2>3, Zenon
  <2>4. ASSUME NEW w \in Threads, Work(w) PROVE UpdateRebuild(t) \/ prim' = prim
    BY <2>1, <2>4, Zenon DEF Work, InsertPut, InsertIndex, SyncDrop, SyncOpen, SyncInsert, UpdateRebuild,
       RemoveStored, RemoveIndexed, RemoveEnd, SchemaCache, memory
  <2>5. ASSUME NEW w \in Threads, Call(w) PROVE prim' = prim
    BY <2>5, Zenon DEF Call, InsertBegin, UpdateBegin, RemoveBegin, SchemaPut, Admit, memory
  <2>6. ~Shutdown /\ ~Crash /\ \A read \in SUBSET AllIds, b, c \in BOOLEAN : ~Start(read, b, c)
    BY <2>1 DEF Shutdown, Crash, Start
  <2>7. CASE UNCHANGED vars
    BY <2>7, <2>3 DEF vars, memory
  <2> QED
    BY <2>2, <2>3, <2>4, <2>5, <2>6, <2>7, Zenon DEF Next
<1>2. FullInv /\ [Next]_vars =>
        [\A t \in Threads, k \in Ids :
           (/\ \A u \in Updates : u.id = Keep
            /\ pc[t] = "fill" /\ up'
            /\ prim[k] # Missing /\ ~prim[k].dup)
               => prim'[k] # Missing /\ prim'[k].id = k]_vars
  BY <1>1, Zenon
<1> QED
  BY <1>2, FullInvariance, PTL DEF Spec, UpdateKeepsDocs

-----------------------------------------------------------------------------
(* The engine implements DocumentStore: the simulation, step by step.       *)

(* The contract speaks of the same documents.                               *)
LEMMA SameDocuments ==
    /\ Contract!EmptyIndex = EmptyIndex
    /\ Contract!Index = Index
    /\ \A q, u, s : Contract!Batch(prim, q, u, s) = Batch(prim, q, u, s)
<1>1. Contract!EmptyIndex = EmptyIndex
  BY DEF EmptyIndex, Contract!EmptyIndex
<1>2. Contract!Index = Index
  BY DEF Index, Contract!Index, Doc, Contract!Doc, AllIds, Contract!AllIds
<1>3. ASSUME NEW q, NEW u, NEW s
      PROVE  Contract!Batch(prim, q, u, s) = Batch(prim, q, u, s)
  BY Zenon DEF Batch, Updated, Merge, Conforms, ToJson, FromJson, DocsOf,
         Contract!Batch, Contract!Updated, Contract!Merge, Contract!Conforms,
         Contract!ToJson, Contract!FromJson, Contract!DocsOf
<1> QED
  BY <1>1, <1>2, <1>3

(* A step that readers and the saved collection do not notice.              *)
LEMMA Unnoticed ==
    ASSUME UNCHANGED <<up, prim>>, disk'.docs = disk.docs, Damaged' = Damaged
    PROVE  UNCHANGED Contract!vars
BY DEF Contract!vars, Saved

(* A step whose only notice is that storage is damaged.                     *)
LEMMA Damaging ==
    ASSUME up, UNCHANGED <<up, prim, disk>>, Damaged'
    PROVE  Contract!Damage
<1>1. Damaged' = TRUE
  BY DEF Damaged
<1> QED
  BY <1>1 DEF Contract!Damage, Saved

(* The write of update to the index is one Update of the contract, applied  *)
(* to the collection that readers see up to this step.                      *)
LEMMA RebuildSimulates ==
    ASSUME FullInv, NEW t \in Threads, UpdateRebuild(t)
    PROVE  Contract!Next
<1> USE DEF FullInv, IInv, BaseInv
<1>1. /\ up /\ pc[t] = "fill" /\ req[t].todo = {} /\ prim' = req[t].built
      /\ UNCHANGED <<up, disk, faults>>
  BY DEF UpdateRebuild, store, LockInv, TypeOK
<1>2. req[t] \in Request /\ req[t].built \in Index
  BY Zenon DEF TypeOK, Request
<1>3. PICK q \in Queries, u \in Updates, s \in CachedSchemas :
         req[t].batch = Batch(prim, q, u, s)
  BY <1>1, Zenon DEF SourceInv
<1>4. \A k \in Ids : IF \E d \in Batch(prim, q, u, s) : d.id = k
                     THEN prim'[k] \in Batch(prim, q, u, s) /\ prim'[k].id = k
                     ELSE prim'[k] = Missing
  <2> SUFFICES ASSUME NEW k \in Ids
               PROVE  IF \E d \in req[t].batch : d.id = k
                      THEN prim'[k] \in req[t].batch /\ prim'[k].id = k
                      ELSE prim'[k] = Missing
    BY <1>3, SMTT(30)
  <2>1. /\ req[t].built[k] # Missing => req[t].built[k] \in req[t].batch
                                        /\ req[t].built[k].id = k
        /\ \A d \in req[t].batch : d.id = k => req[t].built[k] # Missing
    <3>1. req[t].built[k] # Missing => req[t].built[k].id = k
      BY <1>1, Zenon DEF KeyInv
    <3>2. /\ req[t].built[k] # Missing => req[t].built[k] \in req[t].batch
          /\ \A d \in req[t].batch \ req[t].todo : d.id \in Ids => req[t].built[d.id] # Missing
      BY <1>1, Zenon DEF BuiltInv
    <3> QED
      BY <1>1, <3>1, <3>2, Zenon
  <2> QED
    BY <1>1, <2>1, Zenon
<1>5. UNCHANGED <<up, Saved, Damaged>>
  BY <1>1 DEF Saved, Damaged
<1> HIDE DEF FullInv, IInv, BaseInv
<1>6. Contract!Update(q, u, s)
  BY <1>1, <1>2, <1>4, <1>5, SameDocuments DEF Contract!Update
<1> QED
  BY <1>6, SameDocuments DEF Contract!Next

(* A step of a request is a step of the contract, or readers do not notice. *)
LEMMA WorkSimulates ==
    ASSUME FullInv, NEW t \in Threads, Work(t)
    PROVE  [Contract!Next]_(Contract!vars)
<1> USE DEF FullInv, IInv, BaseInv
<1>1. up /\ up' = up
  <2>1. pc[t] # "idle"
    BY Zenon DEF Work, InsertPut, InsertIndex, SyncDrop, SyncOpen, SyncInsert, UpdateRebuild,
           RemoveStored, RemoveIndexed, RemoveEnd, SchemaCache
  <2>2. up' = up
    BY Zenon DEF Work, InsertPut, InsertIndex, SyncDrop, SyncOpen, SyncInsert, UpdateRebuild,
           RemoveStored, RemoveIndexed, RemoveEnd, SchemaCache
  <2> QED
    BY <2>1, <2>2, Zenon DEF LockInv, TypeOK
<1>2. CASE InsertPut(t) \/ RemoveStored(t) \/ RemoveEnd(t) \/ SchemaCache(t)
  <2>1. UNCHANGED <<up, prim, disk>>
    BY <1>2 DEF InsertPut, RemoveStored, RemoveEnd, SchemaCache, memory, store
  <2>2. faults' \in {faults, faults \cup {"put"}, faults \cup {"remove"}}
    BY <1>2, Zenon DEF InsertPut, RemoveStored, RemoveEnd, SchemaCache, Fails
  <2> QED
    BY <2>1, <2>2, Unnoticed DEF Damaged
<1>3. CASE InsertIndex(t)
  <2>1. /\ req[t].doc \in Inserts /\ req[t].doc \in Doc
        /\ UNCHANGED <<up, disk, faults>> /\ prim' = AddPrimary(prim, req[t].doc)
    BY <1>3 DEF InsertIndex, SourceInv, RequestInv, store
  <2>2. CASE req[t].doc.id = EmptyId
    BY <2>1, <2>2, Unnoticed DEF AddPrimary, ExtractId, Damaged
  <2>3. CASE req[t].doc.id # EmptyId
    <3>1. Contract!Insert(req[t].doc)
      BY <1>1, <2>1, <2>3 DEF Contract!Insert, AddPrimary, ExtractId, Doc, AllIds, Saved, Damaged
    <3> QED
      BY <2>1, <3>1 DEF Contract!Next
  <2> QED
    BY <2>2, <2>3, Zenon
<1>4. CASE SyncDrop(t)
  <2>1. CASE disk' = [disk EXCEPT !.docs = EmptyTable] /\ UNCHANGED faults
    <3>1. Saved' = EmptyIndex
      BY <2>1 DEF Saved, TypeOK, Image, EmptyTable, EmptyIndex, AllIds
    <3>2. Contract!Withdraw
      BY <1>1, <1>4, <2>1, <3>1, SameDocuments DEF SyncDrop, memory, Contract!Withdraw, Damaged
    <3> QED
      BY <3>2 DEF Contract!Next
  <2>2. CASE Fails("drop") /\ UNCHANGED store
    BY <1>1, <1>4, <2>2, Unnoticed DEF SyncDrop, memory, store, Fails, Damaged
  <2> QED
    BY <1>4, <2>1, <2>2 DEF SyncDrop
<1>5. CASE SyncOpen(t) \/ SyncInsert(t)
  <2>1. UNCHANGED <<up, prim, disk>>
    BY <1>5 DEF SyncOpen, SyncInsert, memory, store
  <2>2. CASE UNCHANGED faults
    BY <2>1, <2>2, Unnoticed DEF Damaged
  <2>3. CASE Fails("open") \/ Fails("insert")
    BY <1>1, <2>1, <2>3, Damaging DEF Fails, Damaged, Contract!Next
  <2> QED
    BY <1>5, <2>2, <2>3, Zenon DEF SyncOpen, SyncInsert
<1>6. CASE UpdateRebuild(t)
  BY <1>6, RebuildSimulates
<1>7. CASE RemoveIndexed(t)
  <2> DEFINE k == req[t].doc.id
  <2>1. /\ k \in Ids /\ prim' = [prim EXCEPT ![k] = Missing]
        /\ UNCHANGED <<up, disk, faults>>
    BY <1>7 DEF RemoveIndexed, RemovePrimary, RequestInv, store
  <2>2. CASE prim[k] = Missing
    <3>1. prim' = prim
      BY <2>1, <2>2 DEF TypeOK, Index
    <3> QED
      BY <2>1, <3>1, Unnoticed DEF Damaged
  <2>3. CASE prim[k] # Missing
    <3>1. Contract!Remove(k)
      BY <1>1, <2>1, <2>3 DEF Contract!Remove, Saved, Damaged
    <3> QED
      BY <2>1, <3>1, Zenon DEF Contract!Next
  <2> QED
    BY <2>2, <2>3, Zenon
<1> QED
  BY <1>2, <1>3, <1>4, <1>5, <1>6, <1>7 DEF Work

(* The life of the process is that of the contract.                         *)
LEMMA LifeSimulates ==
    ASSUME FullInv
    PROVE  /\ \A read \in SUBSET AllIds, b, c \in BOOLEAN : Start(read, b, c) => Contract!Open
           /\ Shutdown => Contract!Close
           /\ Crash => Contract!Crash
<1> USE DEF FullInv, IInv, BaseInv
<1>1. ASSUME NEW read \in SUBSET AllIds, NEW b \in BOOLEAN, NEW c \in BOOLEAN,
             Start(read, b, c)
      PROVE  Contract!Open
  <2>1. ~up /\ up' = TRUE /\ disk' = disk
    BY <1>1, Zenon DEF Start, store
  <2>2. Saved' = Saved /\ Damaged' \in BOOLEAN
    BY <2>1 DEF Saved, Damaged
  <2>3. Damaged' \/ read \cap Ids = Ids
    <3>1. read = AllIds \/ faults' = {"load"}
      BY <1>1, Zenon DEF Start
    <3> QED
      BY <3>1 DEF Damaged, AllIds
  <2>4. prim' = [k \in Ids |-> IF k \in read \cap Ids THEN Saved[k] ELSE Missing]
    <3>1. prim' = [k \in Ids |-> LoadCollection(read, disk.docs)[k]]
      BY <1>1, Zenon DEF Start
    <3>2. \A k \in Ids : LoadCollection(read, disk.docs)[k]
                         = IF k \in read \cap Ids THEN Saved[k] ELSE Missing
      BY DEF LoadCollection, Saved, AllIds
    <3> QED
      BY <3>1, <3>2
  <2>5. read \cap Ids \in SUBSET Ids
    OBVIOUS
  <2> HIDE DEF FullInv, IInv, BaseInv
  <2> QED
    BY <2>1, <2>2, <2>3, <2>4, <2>5, Zenon DEF Contract!Open
<1>2. ASSUME Shutdown PROVE Contract!Close
  <2>1. /\ up /\ up' = FALSE /\ disk' = live /\ prim' = EmptyIndex /\ faults' = {}
        /\ \A t \in Threads : pc[t] = "idle"
    BY <1>2 DEF Shutdown, NoMemory
  <2>2. lock = NoThread
    BY <2>1 DEF TypeOK, LockInv, Locked
  <2>3. Saved' \in Index
    BY <2>1 DEF Saved, TypeOK, Image, Table, Index, AllIds
  <2>4. ~Damaged => Saved' = prim
    <3>1. ~Damaged => \A k \in Ids : live.docs[k] = prim[k]
      BY <2>1, <2>2 DEF Damaged, CopyInv, MirrorInv, Expected
    <3> QED
      BY <2>1, <3>1, Zenon DEF Saved, TypeOK, Index
  <2>5. Damaged' = FALSE
    BY <2>1 DEF Damaged
  <2> QED
    BY <2>1, <2>3, <2>4, <2>5, SameDocuments DEF Contract!Close
<1>3. ASSUME Crash PROVE Contract!Crash
  <2>1. up /\ up' = FALSE /\ disk' = disk /\ prim' = EmptyIndex /\ faults' = {}
    BY <1>3 DEF Crash, NoMemory
  <2>2. Damaged' = FALSE /\ Saved' = Saved
    BY <2>1 DEF Damaged, Saved
  <2> QED
    BY <2>1, <2>2, SameDocuments DEF Contract!Crash
<1> QED
  BY <1>1, <1>2, <1>3

(* Every step of the engine maps to a step of the contract or a stutter.    *)
LEMMA NextSimulates == FullInv /\ [Next]_vars => [Contract!Next]_(Contract!vars)
<1> SUFFICES ASSUME FullInv, [Next]_vars PROVE [Contract!Next]_(Contract!vars)
  OBVIOUS
<1>1. ASSUME NEW t \in Threads, Call(t) PROVE [Contract!Next]_(Contract!vars)
  <2>1. UNCHANGED <<up, prim, disk, faults>>
    BY <1>1, Zenon DEF Call, InsertBegin, UpdateBegin, RemoveBegin, SchemaPut, Admit, memory, store
  <2> QED
    BY <2>1, Unnoticed DEF Damaged
<1>2. ASSUME NEW t \in Threads, Work(t) PROVE [Contract!Next]_(Contract!vars)
  BY <1>2, WorkSimulates
<1>3. CASE \/ \E read \in SUBSET AllIds, b, c \in BOOLEAN : Start(read, b, c)
           \/ Shutdown \/ Crash
  BY <1>3, LifeSimulates DEF Contract!Next
<1>4. CASE UNCHANGED vars
  BY <1>4, Unnoticed DEF vars, store, memory, Damaged
<1> QED
  BY <1>1, <1>2, <1>3, <1>4 DEF Next

(* A new data directory is an empty, closed DocumentStore.                  *)
LEMMA InitSimulates == Init => Contract!Init
<1> SUFFICES ASSUME Init PROVE Contract!Init
  OBVIOUS
<1>1. Saved = EmptyIndex
  BY DEF Init, Saved, FreshImage, EmptyTable, EmptyIndex, AllIds
<1>2. Damaged = FALSE
  BY DEF Init, Damaged
<1> QED
  BY <1>1, <1>2, SameDocuments DEF Init, Contract!Init

(* The engine implements DocumentStore, for every number of threads and     *)
(* every set of requests and failures: readers see whole writes only, each  *)
(* applied to what they saw before.                                         *)
THEOREM Refinement == Spec => ImplementsDocumentStore
BY InitSimulates, NextSimulates, FullInvariance, PTL
DEF Spec, ImplementsDocumentStore, Contract!Spec
=============================================================================
