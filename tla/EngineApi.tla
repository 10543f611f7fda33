------------------------------ MODULE EngineApi ------------------------------
(***************************************************************************)
(* The engine with the two public operations of Core that the daemon's     *)
(* request dispatcher does not reach: create_index and upsert, called by   *)
(* the threads of a program that embeds Core. create_index does not take   *)
(* Core's rw_lock_; upsert takes it for its count and again for its write. *)
(***************************************************************************)
EXTENDS Engine

VARIABLES
    api,   \* the step and the locals of each thread inside one of the two
    raced  \* history: has a write overlapped create_index since the process started?

apiVars == <<vars, api, raced>>

(* step: where the call is; snap: the collection read by create_index;      *)
(* query and change: the arguments of upsert.                               *)
NoApiCall == [step |-> "none", snap |-> EmptyTable, query |-> {},
              change |-> [id |-> Keep, val |-> Keep]]

ApiInit == Init /\ api = [t \in Threads |-> NoApiCall] /\ raced = FALSE

Free(t) == up /\ pc[t] = "idle" /\ api[t].step = "none"

ApiGoto(t, step) == api' = [api EXCEPT ![t].step = step]

ApiReturn(t) == api' = [api EXCEPT ![t] = NoApiCall]

-----------------------------------------------------------------------------
(* Core::create_index reads the collection from storage.                    *)
IndexLoad(t) ==
    /\ Free(t)
    /\ \E read \in SUBSET AllIds :
          /\ api' = [api EXCEPT ![t].step = "register",
                                ![t].snap = LoadCollection(read, live.docs)]
          /\ IF read = AllIds THEN UNCHANGED faults ELSE Fails("load")
    /\ UNCHANGED <<up, store, memory, control>>

IsFieldIndexed == indexed

AddIndexedField == indexed' = TRUE

(* IndexManager::create_index: register the field unless it is registered,  *)
(* then rebuild both indexes from the documents read before.                *)
IndexRegister(t) ==
    /\ api[t].step = "register"
    /\ \/ IsFieldIndexed /\ ApiReturn(t) /\ UNCHANGED indexed
       \/ ~IsFieldIndexed /\ AddIndexedField /\ ApiGoto(t, "rebuild")
    /\ UNCHANGED <<up, store, prim, sec, schema, control, faults>>

(* Variants: the primary index stays empty; the secondary one does.         *)
RebuildCleared(t) ==
    /\ api[t].step = "rebuild"
    /\ prim' = EmptyIndex
    /\ sec' = Bucketed({api[t].snap[k] : k \in Ids} \ {Missing})
    /\ ApiGoto(t, "persist")
    /\ UNCHANGED <<up, store, indexed, schema, control, faults>>

RebuildPrimary(t) ==
    /\ api[t].step = "rebuild"
    /\ prim' = [k \in Ids |-> api[t].snap[k]]
    /\ sec' = {}
    /\ ApiGoto(t, "persist")
    /\ UNCHANGED <<up, store, indexed, schema, control, faults>>

IndexRebuild(t) ==
    /\ api[t].step = "rebuild"
    /\ prim' = [k \in Ids |-> api[t].snap[k]]
    /\ sec' = Bucketed({api[t].snap[k] : k \in Ids} \ {Missing})
    /\ ApiGoto(t, "persist")
    /\ UNCHANGED <<up, store, indexed, schema, control, faults>>

(* Variant: the table of definitions is replaced and nothing written.       *)
PersistNothing(t) ==
    /\ api[t].step = "persist"
    /\ live' = [live EXCEPT !.defs = FALSE]
    /\ disk' = [disk EXCEPT !.defs = FALSE]
    /\ ApiReturn(t)
    /\ UNCHANGED <<up, memory, control, faults>>

(* IndexPersistor: replace the table of definitions by an empty one, then   *)
(* write the definitions into it. The index manager's lock is held, and a   *)
(* crash in the middle leaves what a crash afterwards leaves, so this is    *)
(* one step.                                                                *)
IndexPersist(t) ==
    /\ api[t].step = "persist"
    /\ \/ /\ live' = [live EXCEPT !.defs = TRUE]
          /\ disk' = [disk EXCEPT !.defs = FALSE]
          /\ UNCHANGED faults
       \/ /\ Fails("drop")
          /\ UNCHANGED store
       \/ /\ \E kind \in {"open", "put"} : Fails(kind)
          /\ live' = [live EXCEPT !.defs = FALSE]
          /\ disk' = [disk EXCEPT !.defs = FALSE]
    /\ ApiReturn(t)
    /\ UNCHANGED <<up, memory, control>>

-----------------------------------------------------------------------------
(* Core::upsert counts under the shared lock, releases it, and then calls   *)
(* update or insert with the same document.                                 *)
UpsertCount(t, q, u) ==
    /\ Free(t) /\ lock = NoThread
    /\ api' = [api EXCEPT ![t].step =
                              IF \E d \in DocsOf(prim) : ToJson(d) \in q
                              THEN "update" ELSE "insert",
                          ![t].query = q, ![t].change = u]
    /\ UNCHANGED vars

UpsertUpdate(t) ==
    /\ api[t].step = "update"
    /\ UpdateBegin(t, api[t].query, api[t].change)
    /\ ApiReturn(t)

UpsertInsert(t) ==
    /\ api[t].step = "insert"
    /\ LET u == api[t].change
       IN  \E d \in Inserts :
             /\ d.val = u.val
             /\ IF u.id \in AllIds
                THEN d.id = u.id /\ ~d.dup
                ELSE Fresh(d.id) /\ d.dup = (u.id = NonString)
             /\ InsertBegin(t, d)
    /\ ApiReturn(t)

(* The update finds the collection empty, or the insert is rejected by the  *)
(* schema.                                                                  *)
UpsertFail(t) ==
    /\ lock = NoThread
    /\ \/ api[t].step = "update" /\ DocsOf(prim) = {}
       \/ /\ api[t].step = "insert"
          /\ \E d \in Doc : d.val = api[t].change.val /\ ~Validate(d, schema)
    /\ ApiReturn(t)
    /\ UNCHANGED vars

-----------------------------------------------------------------------------
ApiStep(t) == \/ IndexLoad(t) \/ IndexRegister(t) \/ IndexRebuild(t) \/ IndexPersist(t)
              \/ \E q \in Queries, u \in {w \in Updates : w.val # Keep} : UpsertCount(t, q, u)
              \/ UpsertUpdate(t) \/ UpsertInsert(t) \/ UpsertFail(t)

ApiMove ==
    \/ \E t \in Threads : \/ Free(t) /\ Call(t) /\ UNCHANGED api
                          \/ Work(t) /\ UNCHANGED api
                          \/ ApiStep(t)
    \/ \E read \in SUBSET AllIds, b, c \in BOOLEAN : Start(read, b, c) /\ UNCHANGED api
    \/ /\ \A t \in Threads : api[t].step = "none"
       /\ Shutdown
       /\ UNCHANGED api
    \/ Crash /\ api' = [t \in Threads |-> NoApiCall]

(* create_index has read the collection and not yet rebuilt the indexes     *)
(* from it; a write is in progress at the same time.                        *)
Stale(t) == api[t].step \in {"register", "rebuild"}

Overlap == lock # NoThread /\ \E t \in Threads : Stale(t)

ApiNext == ApiMove /\ raced' = (up' /\ (raced \/ Overlap'))

ApiSpec == ApiInit /\ [][ApiNext]_apiVars

-----------------------------------------------------------------------------
ApiIdle == \A t \in Threads : api[t].step = "none"

(* Between writes, whatever create_index and upsert are doing, the primary  *)
(* index holds exactly the stored documents, unless a storage failure of    *)
(* one of the kinds named in Mirror has happened or a write has overlapped  *)
(* create_index between its read of the collection and its rebuild of the   *)
(* indexes. Other calls may overlap, two of create_index too.               *)
ApiMirror == ~raced => Mirror

(* The two indexes agree even while create_index races with writers: both   *)
(* change under one lock of the index manager, so that outside the window   *)
(* between registering a field and filling its index every document in the  *)
(* primary index that has a text in the indexed field is in its bucket.     *)
ApiIndexComplete == (\A t \in Threads : api[t].step # "rebuild") => IndexComplete

(* Once create_index has returned, the definition of a registered index is  *)
(* in storage, unless a storage call failed.                                *)
DefinitionStored ==
    up /\ ApiIdle /\ indexed /\ faults \cap {"drop", "open", "put"} = {} => live.defs

(* What the comments say, and the code does not keep: upsert inserts only   *)
(* when no document matches its query.                                      *)
UpsertInsertsNew ==
    [][\A t \in Threads :
         api[t].step = "insert" /\ pc'[t] = "put"
             => \A d \in DocsOf(prim) : ToJson(d) \notin api[t].query]_apiVars

-----------------------------------------------------------------------------
(* The inductive invariants. ApiInv, for any number of threads, is behind   *)
(* ApiIndexComplete and DefinitionStored; with RaceInv it is behind         *)
(* ApiMirror.                                                               *)
ApiCall == [step : {"none", "register", "rebuild", "persist", "update", "insert"},
            snap : Table, query : SUBSET JDoc, change : UpdateDoc]

(* A thread inside create_index or upsert is inside no other operation; its *)
(* locals are what was passed to it and what it read.                       *)
CallInv ==
    /\ api \in [Threads -> ApiCall]
    /\ \A t \in Threads :
          /\ api[t].step # "none" => up /\ pc[t] = "idle"
          /\ api[t].step \in {"update", "insert"} =>
                api[t].query \in Queries /\ api[t].change \in Updates
          /\ \A k \in AllIds : api[t].snap[k] # Missing => api[t].snap[k].id = k

(* Outside the window between registering and filling it, the secondary     *)
(* index is complete at every step.                                         *)
FillInv == (\A t \in Threads : api[t].step # "rebuild") => IndexInv

(* The definition of a registered index is in storage, or on its way.       *)
DefinitionInv ==
    up /\ indexed /\ faults \cap {"drop", "open", "put"} = {}
        => live.defs \/ \E t \in Threads : api[t].step \in {"rebuild", "persist"}

ApiInv == BaseInv /\ BuiltInv /\ CallInv /\ FillInv /\ DefinitionInv

(* Unless a write has overlapped create_index, the collection that          *)
(* create_index has read is the stored one, and the primary index follows   *)
(* storage as it does without create_index.                                 *)
SnapInv == \A t \in Threads : Stale(t) => "load" \in faults \/ api[t].snap = live.docs

RaceInv == /\ raced \in BOOLEAN
           /\ Overlap => raced
           /\ ~raced => CopyInv /\ SnapInv

ApiFullInv == ApiInv /\ RaceInv
=============================================================================
