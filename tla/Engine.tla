------------------------------- MODULE Engine -------------------------------
(***************************************************************************)
(* The database engine behind the daemon: db::Core with its storage, its   *)
(* index manager and its schema manager, for one collection.               *)
(*                                                                         *)
(* Threads is the set of connection workers that call Core. insert, update *)
(* and remove hold Core's rw_lock_ exclusively from their first to their   *)
(* last step; set_schema does not take it. A request that fails before it  *)
(* has changed anything (rejected by the schema, nothing to update or to   *)
(* remove) is a stuttering step and has no action.                         *)
(***************************************************************************)
EXTENDS Documents

CONSTANTS Threads,            \* connection workers
          NoThread,           \* nobody holds rw_lock_
          Inserts,            \* documents passed to insert, with the _id they are given
          Queries,            \* queries, each the set of JSON documents it matches
          Updates,            \* update documents
          NewSchemas,         \* schemas passed to set_schema
          FaultsAllowed,      \* kinds of storage call that may fail
          InitialDefs,        \* does the data directory hold an index definition?
          LoadsBeforeIndexes  \* does the collection's name sort before "_indexes"?

FaultKinds == {"put", "remove", "drop", "open", "insert", "load"}

ASSUME EngineAssumption ==
    /\ NoThread \notin Threads
    /\ Inserts \subseteq {d \in Doc : d.dup => d.id # EmptyId}
    /\ Queries \subseteq SUBSET JDoc
    /\ Updates \subseteq UpdateDoc
    /\ NewSchemas \subseteq {s \in Schema : ~s.tagged}
    /\ FaultsAllowed \subseteq FaultKinds
    /\ InitialDefs \in BOOLEAN
    /\ LoadsBeforeIndexes \in BOOLEAN

VARIABLES
    up,       \* is the process running?
    live,     \* what storage returns: the collection, its schema, its index definition
    disk,     \* what storage would return after a crash
    prim,     \* the primary index: what find and count read
    sec,      \* the documents in the buckets of the secondary index
    indexed,  \* is the secondary index registered in memory?
    schema,   \* the schema in the cache of the schema manager
    lock,     \* the holder of rw_lock_
    pc,       \* the next step of each thread
    req,      \* the local variables of each thread's request
    faults    \* the kinds of storage failure since the process started

store == <<live, disk>>
memory == <<prim, sec, indexed, schema>>
control == <<lock, pc, req>>
vars == <<up, store, memory, control, faults>>

-----------------------------------------------------------------------------
(* The schemas that can be in storage, and those that can be in the cache.  *)
StoredSchemas == {StoredForm(s) : s \in NewSchemas} \cup {NoSchema}
CachedSchemas == NewSchemas \cup StoredSchemas

Image == [docs : Table, schema : StoredSchemas, defs : BOOLEAN]

Steps == {"idle", "put", "index", "drop", "open", "fill", "remove", "unindex", "cache"}

(* The steps taken with rw_lock_ held exclusively.                          *)
Locked == Steps \ {"idle", "cache"}

(* doc: the document inserted, or removed from storage and still indexed;   *)
(* batch: the collection computed by update; todo: its part not yet         *)
(* written; built: the primary index of its part already written; ids: the  *)
(* matches still to remove; schema: the schema to cache.                    *)
Request == [doc : Doc \cup {Missing}, batch : SUBSET Doc, todo : SUBSET Doc,
            built : Index, ids : SUBSET Ids, schema : CachedSchemas]

NoRequest == [doc |-> Missing, batch |-> {}, todo |-> {}, built |-> EmptyIndex,
              ids |-> {}, schema |-> NoSchema]

(* Types of the variables.                                                  *)
TypeOK ==
    /\ up \in BOOLEAN
    /\ live \in Image /\ disk \in Image
    /\ prim \in Index /\ sec \subseteq Doc /\ indexed \in BOOLEAN
    /\ schema \in CachedSchemas
    /\ lock \in Threads \cup {NoThread}
    /\ pc \in [Threads -> Steps]
    /\ req \in [Threads -> Request]
    /\ faults \subseteq FaultsAllowed

(* A data directory that no daemon has written documents to.                *)
FreshImage == [docs |-> EmptyTable, schema |-> NoSchema, defs |-> InitialDefs]

NoMemory == /\ prim' = EmptyIndex /\ sec' = {} /\ indexed' = FALSE
            /\ schema' = NoSchema
            /\ lock' = NoThread
            /\ pc' = [t \in Threads |-> "idle"]
            /\ req' = [t \in Threads |-> NoRequest]
            /\ faults' = {}

Init == /\ up = FALSE
        /\ live = FreshImage /\ disk = FreshImage
        /\ prim = EmptyIndex /\ sec = {} /\ indexed = FALSE
        /\ schema = NoSchema
        /\ lock = NoThread
        /\ pc = [t \in Threads |-> "idle"]
        /\ req = [t \in Threads |-> NoRequest]
        /\ faults = {}

-----------------------------------------------------------------------------
(* Documents reach the indexes through add_document_to_indexes, one at a    *)
(* time, and an empty _id is not indexed. The secondary index appends to    *)
(* the bucket of the text of the document's indexed field, a number or a    *)
(* Boolean as its text, and passes over a document without such a text;     *)
(* removal looks in one bucket only.                                        *)
ExtractId(d) == d.id

GetValueAsString(d) == FieldText[d.val]

Bucketed(ds) == {d \in ds : d.id # EmptyId /\ GetValueAsString(d) # NoText}

AddPrimary(m, d) == IF ExtractId(d) = EmptyId THEN m ELSE [m EXCEPT ![d.id] = d]

AddSecondary(b, ds) == IF indexed THEN b \cup Bucketed(ds) ELSE b

RemovePrimary(m, d) == [m EXCEPT ![d.id] = Missing]

(* What a lookup of a text in the secondary index returns.                  *)
GetBySecondaryIndex(text) == {d \in sec : GetValueAsString(d) = text}

(* Variant: removal empties the bucket of the text.                         *)
RemoveBucket(b, d) == {e \in b : GetValueAsString(e) # GetValueAsString(d)}

RemoveSecondary(b, d) ==
    b \ {e \in b : e.id = d.id /\ GetValueAsString(e) = GetValueAsString(d)}

Fails(kind) == kind \in FaultsAllowed /\ faults' = faults \cup {kind}

Goto(t, step) == pc' = [pc EXCEPT ![t] = step]

(* The request returns: its locals die and its lock guard is released.      *)
Return(t) == /\ Goto(t, "idle")
             /\ req' = [req EXCEPT ![t] = NoRequest]
             /\ lock' = NoThread

(* Variant: rw_lock_ is taken without waiting for its holder.               *)
AdmitShared(t, step, r) == /\ up /\ pc[t] = "idle"
                           /\ lock' = t
                           /\ Goto(t, step)
                           /\ req' = [req EXCEPT ![t] = r]
                           /\ UNCHANGED <<up, store, memory, faults>>

(* A request that needs rw_lock_ exclusively is admitted.                   *)
Admit(t, step, r) == /\ up /\ pc[t] = "idle" /\ lock = NoThread
                     /\ lock' = t
                     /\ Goto(t, step)
                     /\ req' = [req EXCEPT ![t] = r]
                     /\ UNCHANGED <<up, store, memory, faults>>

-----------------------------------------------------------------------------
(* Core::insert. A string _id is kept. Otherwise a generated one, which     *)
(* nobody uses, is put in front of the document; a non-string _id stays in  *)
(* it as a second field. Validation reads the cached schema.                *)
Fresh(k) == prim[k] = Missing /\ live.docs[k] = Missing

InsertBegin(t, d) ==
    /\ d.dup => Fresh(d.id)
    /\ Validate(d, schema)
    /\ Admit(t, "put", [NoRequest EXCEPT !.doc = d])

(* Variants: the status of put is ignored; rw_lock_ is kept on failure.     *)
InsertPutUnchecked(t) ==
    /\ pc[t] = "put"
    /\ \/ live' = [live EXCEPT !.docs[req[t].doc.id] = req[t].doc] /\ UNCHANGED faults
       \/ Fails("put") /\ UNCHANGED live
    /\ Goto(t, "index")
    /\ UNCHANGED <<up, disk, memory, lock, req>>

InsertPutHolding(t) ==
    /\ pc[t] = "put"
    /\ \/ /\ live' = [live EXCEPT !.docs[req[t].doc.id] = req[t].doc]
          /\ Goto(t, "index")
          /\ UNCHANGED <<req, faults>>
       \/ /\ Fails("put")
          /\ Goto(t, "idle")
          /\ req' = [req EXCEPT ![t] = NoRequest]
          /\ UNCHANGED live
    /\ UNCHANGED <<up, disk, memory, lock>>

InsertPut(t) ==
    /\ pc[t] = "put"
    /\ \/ /\ live' = [live EXCEPT !.docs[req[t].doc.id] = req[t].doc]
          /\ Goto(t, "index")
          /\ UNCHANGED <<lock, req, faults>>
       \/ /\ Fails("put")
          /\ Return(t)
          /\ UNCHANGED live
    /\ UNCHANGED <<up, disk, memory>>

InsertIndex(t) ==
    /\ pc[t] = "index"
    /\ prim' = AddPrimary(prim, req[t].doc)
    /\ sec' = AddSecondary(sec, {req[t].doc})
    /\ Return(t)
    /\ UNCHANGED <<up, store, indexed, schema, faults>>

(* Core::update. The query engine computes the new collection from the      *)
(* primary index and the cached schema; sync_collection drops the table,    *)
(* creates it again and writes the documents one by one, passing over the   *)
(* writes that fail; then both indexes are rebuilt from the same documents  *)
(* in the same order. The result of an empty collection is "not found".     *)
UpdateBegin(t, q, u) ==
    LET b == Batch(prim, q, u, schema)
    IN  /\ DocsOf(prim) # {}
        /\ Admit(t, "drop", [NoRequest EXCEPT !.batch = b, !.todo = b])

(* The dropped table is gone at once, also for a crash that follows.        *)
SyncDrop(t) ==
    /\ pc[t] = "drop"
    /\ \/ /\ live' = [live EXCEPT !.docs = EmptyTable]
          /\ disk' = [disk EXCEPT !.docs = EmptyTable]
          /\ Goto(t, "open")
          /\ UNCHANGED <<lock, req, faults>>
       \/ /\ Fails("drop")
          /\ Return(t)
          /\ UNCHANGED store
    /\ UNCHANGED <<up, memory>>

SyncOpen(t) ==
    /\ pc[t] = "open"
    /\ \/ /\ Goto(t, "fill")
          /\ UNCHANGED <<lock, req, faults>>
       \/ /\ Fails("open")
          /\ Return(t)
    /\ UNCHANGED <<up, store, memory>>

SyncInsert(t) ==
    /\ pc[t] = "fill"
    /\ \E d \in req[t].todo :
          /\ req' = [req EXCEPT ![t].todo = @ \ {d},
                                ![t].built = AddPrimary(@, d)]
          /\ \/ /\ live' = [live EXCEPT !.docs[d.id] = d]
                /\ UNCHANGED faults
             \/ /\ Fails("insert")
                /\ UNCHANGED live
    /\ UNCHANGED <<up, disk, memory, lock, pc>>

UpdateRebuild(t) ==
    /\ pc[t] = "fill" /\ req[t].todo = {}
    /\ prim' = req[t].built
    /\ sec' = AddSecondary({}, req[t].batch)
    /\ Return(t)
    /\ UNCHANGED <<up, store, indexed, schema, faults>>

(* Core::remove. The matches are found by their JSON _id; each one is       *)
(* removed from storage and then from the indexes. A match whose removal    *)
(* from storage fails is passed over and stays everywhere.                  *)
RemoveBegin(t, q) ==
    LET matches == {k \in Ids : prim[k] # Missing /\ ToJson(prim[k]) \in q
                                                 /\ ToJson(prim[k]).id # NonString}
    IN  /\ matches # {}
        /\ Admit(t, "remove", [NoRequest EXCEPT !.ids = matches])

(* Variant: a match is taken out of the indexes even if storage keeps it.   *)
RemoveUnchecked(t) ==
    /\ pc[t] = "remove"
    /\ \E k \in req[t].ids :
          /\ prim[k] # Missing
          /\ \/ live' = [live EXCEPT !.docs[k] = Missing] /\ UNCHANGED faults
             \/ Fails("remove") /\ UNCHANGED live
          /\ req' = [req EXCEPT ![t].ids = @ \ {k}, ![t].doc = prim[k]]
    /\ Goto(t, "unindex")
    /\ UNCHANGED <<up, disk, memory, lock>>

RemoveStored(t) ==
    /\ pc[t] = "remove"
    /\ \E k \in req[t].ids :
          \/ /\ prim[k] # Missing
             /\ live' = [live EXCEPT !.docs[k] = Missing]
             /\ req' = [req EXCEPT ![t].ids = @ \ {k}, ![t].doc = prim[k]]
             /\ Goto(t, "unindex")
             /\ UNCHANGED faults
          \/ /\ IF prim[k] = Missing THEN UNCHANGED faults ELSE Fails("remove")
             /\ req' = [req EXCEPT ![t].ids = @ \ {k}]
             /\ UNCHANGED <<live, pc>>
    /\ UNCHANGED <<up, disk, memory, lock>>

RemoveIndexed(t) ==
    /\ pc[t] = "unindex"
    /\ prim' = RemovePrimary(prim, req[t].doc)
    /\ sec' = IF indexed THEN RemoveSecondary(sec, req[t].doc) ELSE sec
    /\ Goto(t, "remove")
    /\ UNCHANGED <<up, store, indexed, schema, lock, req, faults>>

RemoveEnd(t) ==
    /\ pc[t] = "remove" /\ req[t].ids = {}
    /\ Return(t)
    /\ UNCHANGED <<up, store, memory, faults>>

(* Core::set_schema: storage first, with the field "collection" added, then *)
(* the cache, as it was passed, each under its own lock. When the write to  *)
(* storage fails nothing has changed.                                       *)
SchemaPut(t, s) ==
    /\ up /\ pc[t] = "idle"
    /\ live' = [live EXCEPT !.schema = StoredForm(s)]
    /\ Goto(t, "cache")
    /\ req' = [req EXCEPT ![t].schema = s]
    /\ UNCHANGED <<up, disk, memory, lock, faults>>

SchemaCache(t) ==
    /\ pc[t] = "cache"
    /\ schema' = req[t].schema
    /\ Goto(t, "idle")
    /\ req' = [req EXCEPT ![t] = NoRequest]
    /\ UNCHANGED <<up, store, prim, sec, indexed, lock, faults>>

-----------------------------------------------------------------------------
(* The documents under the keys in read, all of them or those met before    *)
(* the scan failed; the others are passed over. The index definitions are   *)
(* loaded in the same way, and the collections are listed in the order of   *)
(* their names.                                                             *)
LoadCollection(read, docs) == [k \in AllIds |-> IF k \in read THEN docs[k] ELSE Missing]

LoadIndexDefinitions(ok) == ok /\ disk.defs

ListedAfterIndexes == ~LoadsBeforeIndexes

(* The constructor of Core: load_all reads the collections in that order.   *)
(* The schema is cached in its stored form.                                 *)
Start(read, schemaOk, defsOk) ==
    LET docs == LoadCollection(read, disk.docs)
        defs == LoadIndexDefinitions(defsOk)
        complete == read = AllIds /\ schemaOk /\ defsOk
    IN  /\ ~up /\ up' = TRUE
        /\ complete \/ "load" \in FaultsAllowed
        /\ faults' = IF complete THEN {} ELSE {"load"}
        /\ prim' = [k \in Ids |-> docs[k]]
        /\ sec' = IF defs /\ ListedAfterIndexes
                  THEN Bucketed({docs[k] : k \in Ids} \ {Missing})
                  ELSE {}
        /\ indexed' = defs
        /\ schema' = IF schemaOk THEN disk.schema ELSE NoSchema
        /\ UNCHANGED <<store, control>>

(* The daemon returns from main when all workers have been joined, and the  *)
(* destructor of the storage closes the connection, which writes            *)
(* everything out.                                                          *)
Shutdown ==
    /\ up /\ \A t \in Threads : pc[t] = "idle"
    /\ up' = FALSE
    /\ disk' = live
    /\ NoMemory
    /\ UNCHANGED live

(* The process dies. Storage is opened without a log and the code takes no  *)
(* checkpoint: what was written since the process started is lost.          *)
Crash ==
    /\ up /\ up' = FALSE
    /\ live' = disk
    /\ NoMemory
    /\ UNCHANGED disk

(* The steps a worker takes by itself once its request is admitted.         *)
Work(t) == \/ InsertPut(t) \/ InsertIndex(t)
           \/ SyncDrop(t) \/ SyncOpen(t) \/ SyncInsert(t) \/ UpdateRebuild(t)
           \/ RemoveStored(t) \/ RemoveIndexed(t) \/ RemoveEnd(t)
           \/ SchemaCache(t)

Call(t) == \/ \E d \in Inserts : InsertBegin(t, d)
           \/ \E q \in Queries, u \in Updates : UpdateBegin(t, q, u)
           \/ \E q \in Queries : RemoveBegin(t, q)
           \/ \E s \in NewSchemas : SchemaPut(t, s)

Next == \/ \E t \in Threads : Call(t) \/ Work(t)
        \/ \E read \in SUBSET AllIds, b, c \in BOOLEAN : Start(read, b, c)
        \/ Shutdown
        \/ Crash

Spec == Init /\ [][Next]_vars

(* No step of an admitted request waits for another thread, so the          *)
(* scheduler of the operating system runs each of them eventually.          *)
FairSpec == Spec /\ \A t \in Threads : WF_vars(Work(t))

-----------------------------------------------------------------------------
(* No request is inside insert, update or remove.                           *)
Settled == up /\ lock = NoThread

(* Core serves reads from the primary index only. Unless loading the        *)
(* collection, re-creating its table or rewriting one of its documents has  *)
(* failed since the process started, that index holds exactly the stored    *)
(* documents between two writes; failures of put, remove and drop do not    *)
(* disturb this.                                                            *)
Mirror ==
    Settled /\ faults \cap {"open", "insert", "load"} = {}
        => \A k \in Ids : prim[k] = live.docs[k]

(* Whatever write fails, in the middle of an update too, a document that    *)
(* is in storage is not hidden from readers: sync_collection and            *)
(* rebuild_index may lose documents but never orphan one.                   *)
StoredIsVisible ==
    Settled /\ "load" \notin faults
        => \A k \in Ids : live.docs[k] # Missing => prim[k] # Missing

(* With a registered index, every document in the primary index that has a  *)
(* text in the indexed field is found by a lookup of this text, through     *)
(* inserts over an existing _id, rebuilds and removals, for a collection    *)
(* loaded after "_indexes".                                                 *)
IndexComplete ==
    Settled /\ indexed /\ ListedAfterIndexes
        => \A d \in DocsOf(prim) :
              GetValueAsString(d) # NoText => d \in GetBySecondaryIndex(GetValueAsString(d))

(* An update that sets no _id leaves every document that has a string _id   *)
(* in the collection, whether it matched or not and whether its new content *)
(* passed the schema or not.                                                *)
UpdateKeepsDocs ==
    [][\A t \in Threads, k \in Ids :
         (/\ \A u \in Updates : u.id = Keep
          /\ pc[t] = "fill" /\ up'
          /\ prim[k] # Missing /\ ~prim[k].dup)
             => prim'[k] # Missing /\ prim'[k].id = k]_vars

(* Every admitted write gives rw_lock_ back, on its error paths too.        *)
LockReleased == \A t \in Threads : (lock = t) ~> (lock # t)

-----------------------------------------------------------------------------
(* What the comments and the documents say, and the code does not keep.     *)

(* An update touches the documents that match its query and no others: one  *)
(* that sets no _id removes nothing.                                        *)
UpdateRemovesNothing ==
    [][\A t \in Threads, k \in Ids :
         pc[t] = "fill" /\ up' /\ prim[k] # Missing => prim'[k] # Missing]_vars

(* Between calls of set_schema, the cache accepts the documents that the    *)
(* schema passed to set_schema last accepts, through restarts too: the      *)
(* field that its stored form adds is not asked of documents.               *)
SchemaAgrees ==
    up /\ "load" \notin faults /\ (\A t \in Threads : pc[t] # "cache")
        => \A d \in Doc : Validate(d, schema) <=> Validate(d, Given(live.schema))

-----------------------------------------------------------------------------
(* The inductive invariants: IInv is behind Mirror and StoredIsVisible,     *)
(* FullInv behind IndexComplete and ImplementsDocumentStore.                *)

(* Whoever is inside insert, update or remove holds rw_lock_; a process     *)
(* that is down runs nothing and has left storage as the next one finds it. *)
LockInv == /\ \A t \in Threads : pc[t] \in Locked <=> lock = t
           /\ ~up => pc = [t \in Threads |-> "idle"] /\ live = disk

(* Every document is kept under its own _id.                                *)
KeyInv == /\ \A k \in AllIds : live.docs[k] # Missing => live.docs[k].id = k
          /\ \A k \in AllIds : disk.docs[k] # Missing => disk.docs[k].id = k
          /\ \A k \in Ids : prim[k] # Missing => prim[k].id = k
          /\ \A t \in Threads, k \in Ids :
                req[t].built[k] # Missing => req[t].built[k].id = k

(* What a request in progress has in its locals.                            *)
RequestInv ==
    \A t \in Threads :
       /\ pc[t] \in {"put", "index", "unindex"} => req[t].doc \in Doc
       /\ pc[t] = "unindex" => req[t].doc.id \in Ids
       /\ pc[t] \in {"drop", "open"} => req[t].built = EmptyIndex

(* The stored collection a reader of storage should find under k, given the *)
(* primary index and how far the holder of the lock has come.               *)
Expected(k) ==
    IF lock = NoThread \/ pc[lock] \in {"put", "drop", "remove"} THEN prim[k]
    ELSE IF pc[lock] = "open" THEN Missing
    ELSE IF pc[lock] = "fill" THEN req[lock].built[k]
    ELSE IF k # req[lock].doc.id THEN prim[k]
    ELSE IF pc[lock] = "index" THEN req[lock].doc
    ELSE Missing

MirrorInv == up /\ faults \cap {"insert", "load"} = {}
                 => \A k \in Ids :
                       \/ live.docs[k] = Expected(k)
                       \/ live.docs[k] = Missing /\ "open" \in faults

StoredInv == up /\ "load" \notin faults
                 => \A k \in Ids : live.docs[k] # Missing => Expected(k) # Missing

(* How the locals of update relate to each other: built indexes the part of *)
(* the batch that has been written.                                         *)
BuiltInv ==
    \A t \in Threads : pc[t] \in {"drop", "open", "fill"} =>
       /\ req[t].todo \subseteq req[t].batch
       /\ \A k \in Ids : req[t].built[k] # Missing => req[t].built[k] \in req[t].batch
       /\ \A d \in req[t].batch \ req[t].todo : d.id \in Ids => req[t].built[d.id] # Missing

(* How the locals of a request relate to its arguments and to the primary   *)
(* index: the document of insert is one that was passed to it; the batch of *)
(* update is computed from the index as it still is.                        *)
SourceInv ==
    \A t \in Threads :
       /\ pc[t] \in {"put", "index"} => req[t].doc \in Inserts
       /\ pc[t] \in {"drop", "open", "fill"} =>
            \E q \in Queries, u \in Updates, s \in CachedSchemas :
               req[t].batch = Batch(prim, q, u, s)

(* The secondary index is complete at every step, not only between writes.  *)
IndexInv == up /\ indexed /\ ListedAfterIndexes
                => \A k \in Ids : prim[k] # Missing /\ GetValueAsString(prim[k]) # NoText
                                     => prim[k] \in sec

BaseInv == TypeOK /\ LockInv /\ KeyInv /\ RequestInv

CopyInv == MirrorInv /\ StoredInv

IInv == BaseInv /\ CopyInv

FullInv == IInv /\ BuiltInv /\ SourceInv /\ IndexInv

-----------------------------------------------------------------------------
(* What readers see, as a DocumentStore.                                    *)
Saved == [k \in Ids |-> disk.docs[k]]

Damaged == faults \cap {"open", "insert", "load"} # {}

Contract == INSTANCE DocumentStore
            WITH open <- up, db <- prim, saved <- Saved, damaged <- Damaged,
                 Schemas <- CachedSchemas

(* Every write appears to readers as one atomic step applied to the current *)
(* collection, although update computes its result several storage calls    *)
(* before it installs it; failed requests change nothing readers see; and a *)
(* clean shutdown keeps what readers saw last.                              *)
ImplementsDocumentStore == Contract!Spec
=============================================================================
