--------------------------- MODULE EngineApiProofs ---------------------------
(***************************************************************************)
(* Proofs, for every value of the constants, about the engine with         *)
(* create_index and upsert, for any interleaving of the threads: first     *)
(* about the indexes, then about the indexes and storage.                  *)
(***************************************************************************)
EXTENDS EngineApi, EngineContractProofs

-----------------------------------------------------------------------------
(* The four steps of create_index. Every other step of the program is one   *)
(* of the engine, or leaves the engine alone.                               *)
CreateIndex(t) == IndexLoad(t) \/ IndexRegister(t) \/ IndexRebuild(t) \/ IndexPersist(t)

(* A call that holds no lock and has not begun.                             *)
LEMMA NoApiCallType ==
    /\ NoApiCall \in ApiCall
    /\ NoApiCall.step = "none"
    /\ \A k \in AllIds : NoApiCall.snap[k] = Missing
<1>1. EmptyTable \in Table /\ \A k \in AllIds : EmptyTable[k] = Missing
  BY DEF EmptyTable, Table
<1>2. [id |-> Keep, val |-> Keep] \in UpdateDoc
  BY DEF UpdateDoc
<1> QED
  BY <1>1, <1>2 DEF NoApiCall, ApiCall

(* The write that upsert goes on to is a call of the engine.                *)
LEMMA UpsertCalls ==
    ASSUME CallInv, NEW t \in Threads, UpsertUpdate(t) \/ UpsertInsert(t)
    PROVE  Call(t)
BY Zenon DEF CallInv, UpsertUpdate, UpsertInsert, Call

(* Every step is one of create_index, or one of the engine.                 *)
LEMMA ApiNextSteps ==
    ASSUME CallInv, [ApiNext]_apiVars
    PROVE  [Next]_vars \/ \E t \in Threads : CreateIndex(t)
<1>1. ASSUME NEW t \in Threads, ApiStep(t) PROVE [Next]_vars \/ CreateIndex(t)
  <2>1. CASE UpsertUpdate(t) \/ UpsertInsert(t)
    BY <2>1, UpsertCalls DEF Next
  <2> QED
    BY <1>1, <2>1, Zenon DEF ApiStep, CreateIndex, UpsertCount, UpsertFail
<1> QED
  BY <1>1, Zenon DEF ApiNext, ApiMove, Next, apiVars

-----------------------------------------------------------------------------
(* create_index takes no lock and has no request: the engine's invariants   *)
(* on locks, keys and locals survive it.                                    *)
LEMMA CreateIndexBase ==
    ASSUME BaseInv, BuiltInv, CallInv, NEW t \in Threads, CreateIndex(t)
    PROVE  BaseInv' /\ BuiltInv'
<1> USE DEF BaseInv
<1>1. UNCHANGED <<up, schema, lock, pc, req>> /\ up
  BY Zenon DEF CreateIndex, IndexLoad, IndexRegister, IndexRebuild, IndexPersist, Free, memory, control,
     CallInv
<1>2. faults' \subseteq FaultsAllowed
  BY DEF CreateIndex, IndexLoad, IndexRegister, IndexRebuild, IndexPersist, Fails, TypeOK
<1>3. /\ live' \in Image /\ disk' \in Image
      /\ live'.docs = live.docs /\ disk'.docs = disk.docs
  <2>1. CASE UNCHANGED store
    BY <2>1 DEF store, TypeOK
  <2>2. CASE IndexPersist(t)
    <3>1. \A im \in Image, b \in BOOLEAN :
             /\ [im EXCEPT !.defs = b] \in Image
             /\ [im EXCEPT !.defs = b].docs = im.docs
      BY DEF Image
    <3> QED
      BY <2>2, <3>1, <2>1, Zenon DEF IndexPersist, TypeOK
  <2> QED
    BY <2>1, <2>2, Zenon DEF CreateIndex, IndexLoad, IndexRegister, IndexRebuild
<1>4. api[t].snap \in Table /\ \A k \in AllIds : api[t].snap[k] # Missing => api[t].snap[k].id = k
  BY DEF CallInv, ApiCall
<1>5. prim' \in Index /\ \A k \in Ids : prim'[k] # Missing => prim'[k].id = k
  BY <1>4 DEF CreateIndex, IndexLoad, IndexRegister, IndexRebuild, IndexPersist, memory, TypeOK, KeyInv,
     Table, Index, AllIds
<1>6. sec' \subseteq Doc /\ indexed' \in BOOLEAN
  <2>1. CASE IndexRebuild(t)
    <3>1. Bucketed({api[t].snap[k] : k \in Ids} \ {Missing}) \subseteq Doc
      BY <1>4 DEF Bucketed, Table, AllIds
    <3> QED
      BY <2>1, <3>1, Zenon DEF IndexRebuild, TypeOK
  <2> QED
    BY <2>1, Zenon DEF CreateIndex, IndexLoad, IndexRegister, AddIndexedField, IndexPersist, memory,
       TypeOK
<1>7. TypeOK'
  BY <1>1, <1>2, <1>3, <1>5, <1>6 DEF TypeOK
<1>8. LockInv' /\ KeyInv' /\ RequestInv'
  BY <1>1, <1>3, <1>5 DEF LockInv, KeyInv, RequestInv
<1>9. BuiltInv'
  BY <1>1 DEF BuiltInv
<1> QED
  BY <1>7, <1>8, <1>9

(* A thread enters, advances in or leaves create_index or upsert.           *)
LEMMA ApiChange ==
    ASSUME CallInv, NEW t \in Threads, NEW c \in ApiCall, api' = [api EXCEPT ![t] = c],
           c.step # "none" => up' /\ pc'[t] = "idle",
           c.step \in {"update", "insert"} => c.query \in Queries /\ c.change \in Updates,
           \A k \in AllIds : c.snap[k] # Missing => c.snap[k].id = k,
           up => up', \A w \in Threads \ {t} : pc'[w] = pc[w]
    PROVE  CallInv' /\ api'[t] = c /\ \A w \in Threads \ {t} : api'[w] = api[w]
<1>1. /\ api' \in [Threads -> ApiCall] /\ api'[t] = c
      /\ \A w \in Threads \ {t} : api'[w] = api[w]
  BY DEF CallInv
<1> QED
  BY <1>1 DEF CallInv

(* What a step of a request leaves alone.                                   *)
LEMMA EngineFrame ==
    ASSUME BaseInv, NEW t \in Threads, Call(t) \/ Work(t)
    PROVE  /\ up /\ up' /\ indexed' = indexed /\ live'.defs = live.defs
           /\ Call(t) => pc[t] = "idle" /\ pc'[t] # "idle"
           /\ Work(t) => pc[t] # "idle"
           /\ \A w \in Threads \ {t} : pc'[w] = pc[w]
           /\ faults \subseteq faults'
<1> USE DEF BaseInv
<1>1. ASSUME Call(t)
      PROVE  /\ up /\ up' = up /\ indexed' = indexed /\ faults' = faults
             /\ pc[t] = "idle" /\ pc'[t] # "idle"
             /\ \A w \in Threads \ {t} : pc'[w] = pc[w]
             /\ live'.defs = live.defs
  <2>1. \/ \E step \in {"put", "drop", "remove"} : \E r : Admit(t, step, r)
        \/ \E s \in NewSchemas : SchemaPut(t, s)
    BY <1>1, Zenon DEF Call, InsertBegin, UpdateBegin, RemoveBegin
  <2>2. ASSUME NEW step \in {"put", "drop", "remove"}, NEW r, Admit(t, step, r)
        PROVE  /\ up /\ up' = up /\ indexed' = indexed /\ faults' = faults /\ live' = live
               /\ pc[t] = "idle" /\ pc' = [pc EXCEPT ![t] = step] /\ step # "idle"
    BY <2>2 DEF Admit, Goto, memory, store
  <2>3. ASSUME NEW s \in NewSchemas, SchemaPut(t, s)
        PROVE  /\ up /\ up' = up /\ indexed' = indexed /\ faults' = faults
               /\ live'.defs = live.defs
               /\ pc[t] = "idle" /\ pc' = [pc EXCEPT ![t] = "cache"]
    BY <2>3 DEF SchemaPut, Goto, memory, TypeOK, Image
  <2> QED
    BY <2>1, <2>2, <2>3 DEF TypeOK
<1>2. ASSUME Work(t)
      PROVE  /\ up' = up /\ indexed' = indexed
             /\ pc[t] # "idle" /\ \A w \in Threads \ {t} : pc'[w] = pc[w]
             /\ faults \subseteq faults'
             /\ live'.defs = live.defs
  <2>1. pc[t] # "idle" /\ up' = up /\ indexed' = indexed
    BY <1>2, Zenon DEF Work, InsertPut, InsertIndex, SyncDrop, SyncOpen, SyncInsert, UpdateRebuild,
       RemoveStored, RemoveIndexed, RemoveEnd, SchemaCache, memory
  <2>2. pc' = pc \/ \E step : pc' = [pc EXCEPT ![t] = step]
    BY <1>2, Zenon DEF Work, InsertPut, InsertIndex, SyncDrop, SyncOpen, SyncInsert, UpdateRebuild,
       RemoveStored, RemoveIndexed, RemoveEnd, SchemaCache, Return, Goto
  <2>3. faults' = faults \/ \E f : faults' = faults \cup {f}
    BY <1>2, Zenon DEF Work, InsertPut, InsertIndex, SyncDrop, SyncOpen, SyncInsert, UpdateRebuild,
       RemoveStored, RemoveIndexed, RemoveEnd, SchemaCache, Fails
  <2>4. live'.defs = live.defs
    <3>1. \A ds, k, d : /\ [live EXCEPT !.docs = ds].defs = live.defs
                        /\ [live EXCEPT !.docs[k] = d].defs = live.defs
      BY DEF TypeOK, Image
    <3> QED
      BY <1>2, <3>1, Zenon DEF Work, InsertPut, InsertIndex, SyncDrop, SyncOpen, SyncInsert,
         UpdateRebuild, RemoveStored, RemoveIndexed, RemoveEnd, SchemaCache, store
  <2> QED
    BY <2>1, <2>2, <2>3, <2>4 DEF TypeOK
<1>3. up
  <2>1. ~up => pc[t] = "idle"
    BY DEF LockInv
  <2> QED
    BY <1>1, <1>2, <2>1
<1>4. Call(t) => faults \subseteq faults'
  BY <1>1
<1> QED
  BY <1>1, <1>2, <1>3, <1>4, Zenon

(* The locals of create_index after each of its steps.                      *)
LEMMA CreateIndexLocals ==
    ASSUME BaseInv, CallInv, NEW t \in Threads, CreateIndex(t)
    PROVE  /\ CallInv' /\ UNCHANGED <<up, pc>>
           /\ \A w \in Threads \ {t} : api'[w] = api[w]
           /\ IndexLoad(t) => /\ api'[t].step = "register"
                              /\ api'[t].snap = live.docs \/ "load" \in faults'
           /\ IndexRegister(t) => /\ api[t].step = "register"
                                  /\ IF indexed THEN api'[t].step = "none"
                                     ELSE api'[t].step = "rebuild" /\ api'[t].snap = api[t].snap
           /\ IndexRebuild(t) => api[t].step = "rebuild" /\ api'[t].step = "persist"
           /\ IndexPersist(t) => api[t].step = "persist" /\ api'[t].step = "none"
<1> USE DEF BaseInv
<1>1. UNCHANGED <<up, pc>> /\ up /\ pc[t] = "idle"
  BY Zenon DEF CreateIndex, IndexLoad, IndexRegister, IndexRebuild, IndexPersist, Free, memory, control,
     CallInv
<1>2. /\ api[t] \in ApiCall /\ api \in [Threads -> ApiCall]
      /\ \A k \in AllIds : api[t].snap[k] # Missing => api[t].snap[k].id = k
  BY DEF CallInv
<1>3. ASSUME NEW step \in {"rebuild", "persist"}, ApiGoto(t, step)
      PROVE  /\ CallInv' /\ api'[t].step = step /\ api'[t].snap = api[t].snap
             /\ \A w \in Threads \ {t} : api'[w] = api[w]
  <2> DEFINE c == [api[t] EXCEPT !.step = step]
  <2>1. c \in ApiCall /\ c.step = step /\ c.snap = api[t].snap
    BY <1>2 DEF ApiCall
  <2>2. api' = [api EXCEPT ![t] = c]
    BY <1>3 DEF ApiGoto
  <2> HIDE DEF c
  <2> QED
    BY <1>1, <1>2, <2>1, <2>2, ApiChange, ZenonT(40)
<1>4. ASSUME ApiReturn(t)
      PROVE  CallInv' /\ api'[t].step = "none" /\ \A w \in Threads \ {t} : api'[w] = api[w]
  BY <1>1, <1>4, NoApiCallType, ApiChange, ZenonT(40) DEF ApiReturn
<1>5. CASE IndexLoad(t)
  <2>1. PICK read \in SUBSET AllIds :
          /\ api' = [api EXCEPT ![t].step = "register", ![t].snap = LoadCollection(read, live.docs)]
          /\ IF read = AllIds THEN UNCHANGED faults ELSE Fails("load")
    BY <1>5, Zenon DEF IndexLoad
  <2> DEFINE m == LoadCollection(read, live.docs)
             c == [api[t] EXCEPT !.step = "register", !.snap = m]
  <2>2. m \in Table /\ \A k \in AllIds : m[k] # Missing => m[k].id = k
    BY DEF LoadCollection, KeyInv, TypeOK, Image, Table
  <2>3. m = live.docs \/ "load" \in faults'
    BY <2>1 DEF LoadCollection, Fails, TypeOK, Image, Table
  <2> HIDE DEF m
  <2>4. c \in ApiCall /\ c.step = "register" /\ c.snap = m
    BY <1>2, <2>2, Zenon DEF ApiCall
  <2>5. api' = [api EXCEPT ![t] = c]
    BY <2>1, <1>2, Zenon DEF m
  <2> HIDE DEF c
  <2>6. /\ CallInv' /\ api'[t].step = "register" /\ api'[t].snap = m
        /\ \A w \in Threads \ {t} : api'[w] = api[w]
    BY <1>1, <2>2, <2>4, <2>5, ApiChange, ZenonT(40)
  <2>7. api[t].step = "none"
    BY <1>5 DEF IndexLoad, Free
  <2> QED
    BY <1>1, <2>3, <2>6, <2>7 DEF IndexRegister, IndexRebuild, IndexPersist
<1>6. CASE IndexRegister(t)
  BY <1>1, <1>3, <1>4, <1>6 DEF IndexRegister, IndexLoad, IndexRebuild, IndexPersist, Free, IsFieldIndexed
<1>7. CASE IndexRebuild(t)
  BY <1>1, <1>3, <1>7 DEF IndexRegister, IndexLoad, IndexRebuild, IndexPersist, Free
<1>8. CASE IndexPersist(t)
  BY <1>1, <1>4, <1>8 DEF IndexRegister, IndexLoad, IndexRebuild, IndexPersist, Free
<1> QED
  BY <1>5, <1>6, <1>7, <1>8 DEF CreateIndex

(* The other steps: no thread enters, advances in or leaves create_index,   *)
(* unless the process dies.                                                 *)
LEMMA OtherLocals ==
    ASSUME BaseInv, CallInv, [ApiNext]_apiVars, \A t \in Threads : ~CreateIndex(t)
    PROVE  /\ CallInv'
           /\ up' => \A t \in Threads :
                       api'[t] = api[t] \/ {api[t].step, api'[t].step} \subseteq
                                              {"none", "update", "insert"}
<1> DEFINE Goal == /\ CallInv'
                   /\ up' => \A t \in Threads :
                        api'[t] = api[t] \/ {api[t].step, api'[t].step} \subseteq
                                               {"none", "update", "insert"}
<1>1. ASSUME UNCHANGED api, \A t \in Threads : api[t].step # "none" => up' /\ pc'[t] = "idle"
      PROVE  Goal
  BY <1>1 DEF CallInv
<1>2. ASSUME NEW t \in Threads, ApiReturn(t), api[t].step \in {"update", "insert"},
             up => up', \A w \in Threads \ {t} : pc'[w] = pc[w]
      PROVE  Goal
  <2>1. CallInv' /\ api'[t] = NoApiCall /\ \A w \in Threads \ {t} : api'[w] = api[w]
    BY <1>2, NoApiCallType, ApiChange, ZenonT(40) DEF ApiReturn
  <2> QED
    BY <1>2, <2>1, NoApiCallType
<1>3. ASSUME NEW t \in Threads, Free(t), Call(t), UNCHANGED api PROVE Goal
  <2>1. up' /\ \A w \in Threads \ {t} : pc'[w] = pc[w]
    BY <1>3, EngineFrame, Zenon
  <2> QED
    BY <1>1, <1>3, <2>1 DEF CallInv, Free
<1>4. ASSUME NEW t \in Threads, Work(t), UNCHANGED api PROVE Goal
  <2>1. up' /\ pc[t] # "idle" /\ \A w \in Threads \ {t} : pc'[w] = pc[w]
    BY <1>4, EngineFrame, Zenon
  <2> QED
    BY <1>1, <1>4, <2>1 DEF CallInv
<1>5. ASSUME NEW t \in Threads, UpsertUpdate(t) \/ UpsertInsert(t) PROVE Goal
  <2>1. Call(t)
    BY <1>5, UpsertCalls
  <2>2. up' /\ \A w \in Threads \ {t} : pc'[w] = pc[w]
    BY <2>1, EngineFrame, Zenon
  <2>3. ApiReturn(t) /\ api[t].step \in {"update", "insert"}
    BY <1>5, Zenon DEF UpsertUpdate, UpsertInsert
  <2> QED
    BY <1>2, <2>2, <2>3
<1>6. ASSUME NEW t \in Threads, UpsertFail(t) PROVE Goal
  <2>1. ApiReturn(t) /\ api[t].step \in {"update", "insert"} /\ UNCHANGED <<up, pc>>
    BY <1>6, Zenon DEF UpsertFail, vars, control
  <2> QED
    BY <1>2, <2>1
<1>7. ASSUME NEW t \in Threads, NEW q \in Queries, NEW u \in Updates, UpsertCount(t, q, u)
      PROVE  Goal
  <2> DEFINE step == IF \E d \in DocsOf(prim) : ToJson(d) \in q THEN "update" ELSE "insert"
             c == [api[t] EXCEPT !.step = step, !.query = q, !.change = u]
  <2>1. up /\ pc[t] = "idle" /\ api[t].step = "none" /\ UNCHANGED <<up, pc>>
    BY <1>7, Zenon DEF UpsertCount, Free, vars, control
  <2>2. step \in {"update", "insert"} /\ q \in SUBSET JDoc /\ u \in UpdateDoc
    BY EngineAssumption
  <2>3. api' = [api EXCEPT ![t] = c]
    BY <1>7, Zenon DEF UpsertCount
  <2> HIDE DEF step
  <2>4. /\ api[t] \in ApiCall
        /\ \A k \in AllIds : api[t].snap[k] # Missing => api[t].snap[k].id = k
    BY DEF CallInv
  <2>5. c \in ApiCall /\ c.step = step /\ c.query = q /\ c.change = u /\ c.snap = api[t].snap
    BY <2>2, <2>4, Zenon DEF ApiCall
  <2> HIDE DEF c
  <2>6. c.query \in Queries /\ c.change \in Updates /\ up' /\ pc'[t] = "idle"
    BY <2>1, <2>5
  <2>7. \A k \in AllIds : c.snap[k] # Missing => c.snap[k].id = k
    BY <2>4, <2>5, Zenon
  <2>8. up' /\ \A w \in Threads \ {t} : pc'[w] = pc[w]
    BY <2>1
  <2>9. CallInv' /\ api'[t] = c /\ \A w \in Threads \ {t} : api'[w] = api[w]
    BY <2>3, <2>5, <2>6, <2>7, <2>8, ApiChange, Zenon
  <2>10. {api[t].step, api'[t].step} \subseteq {"none", "update", "insert"}
    BY <2>1, <2>2, <2>5, <2>9
  <2> QED
    BY <2>9, <2>10, Zenon
<1>8. ASSUME NEW read \in SUBSET AllIds, NEW b \in BOOLEAN, NEW c \in BOOLEAN,
             Start(read, b, c), UNCHANGED api
      PROVE  Goal
  BY <1>1, <1>8 DEF Start, CallInv
<1>9. ASSUME Shutdown, UNCHANGED api, \A t \in Threads : api[t].step = "none" PROVE Goal
  BY <1>1, <1>9
<1>10. ASSUME Crash, api' = [t \in Threads |-> NoApiCall] PROVE Goal
  <2>1. up' = FALSE
    BY <1>10 DEF Crash
  <2> QED
    BY <1>10, <2>1, NoApiCallType DEF CallInv
<1>11. ASSUME UNCHANGED apiVars PROVE Goal
  BY <1>1, <1>11 DEF apiVars, vars, control, CallInv
<1> HIDE DEF Goal
<1>12. ASSUME NEW t \in Threads, ApiStep(t) PROVE Goal
  BY <1>5, <1>6, <1>7, <1>12, Zenon DEF ApiStep, CreateIndex
<1>13. ASSUME NEW t \in Threads, \/ Free(t) /\ Call(t) /\ UNCHANGED api
                                 \/ Work(t) /\ UNCHANGED api
                                 \/ ApiStep(t)
       PROVE  Goal
  BY <1>3, <1>4, <1>12, <1>13, Zenon
<1>14. ASSUME ApiNext PROVE Goal
  BY <1>8, <1>9, <1>10, <1>13, <1>14 DEF ApiNext, ApiMove
<1>15. Goal
  BY <1>11, <1>14
<1> QED
  BY <1>15 DEF Goal

-----------------------------------------------------------------------------
(* The invariant holds at first.                                            *)
LEMMA ApiInitInv == ApiInit => ApiInv
<1> SUFFICES ASSUME ApiInit PROVE ApiInv
  OBVIOUS
<1>1. BaseInv /\ BuiltInv /\ IndexInv
  BY InitFull DEF ApiInit, FullInv, IInv
<1>2. CallInv
  BY NoApiCallType DEF ApiInit, CallInv
<1>3. DefinitionInv
  BY DEF ApiInit, Init, DefinitionInv
<1> QED
  BY <1>1, <1>2, <1>3 DEF ApiInv, FillInv

(* Each step of create_index keeps the index complete, or leaves it to be   *)
(* filled, and the definition stored, or about to be.                       *)
LEMMA CreateIndexFills ==
    ASSUME ApiInv, NEW t \in Threads, CreateIndex(t)
    PROVE  FillInv' /\ DefinitionInv'
<1> USE DEF ApiInv
<1>1. \A w \in Threads \ {t} : api'[w] = api[w]
  BY CreateIndexLocals
<1>2. ASSUME UNCHANGED <<up, prim, sec, indexed>>, api[t].step # "rebuild" PROVE FillInv'
  BY <1>1, <1>2, IndexInvFrame DEF FillInv
<1>3. CASE IndexLoad(t)
  <2>1. /\ UNCHANGED <<up, prim, sec, indexed, live>> /\ faults \subseteq faults'
        /\ api[t].step = "none"
    BY <1>3 DEF IndexLoad, Free, memory, store, Fails
  <2>2. DefinitionInv'
    BY <1>1, <2>1 DEF DefinitionInv
  <2> QED
    BY <1>2, <2>1, <2>2
<1>4. CASE IndexRegister(t)
  <2>1. /\ UNCHANGED <<up, prim, sec, live, faults>>
        /\ api[t].step = "register"
        /\ indexed => indexed' = indexed
    BY <1>4 DEF IndexRegister, IsFieldIndexed, store
  <2>2. CASE indexed
    BY <1>1, <1>2, <2>1, <2>2 DEF DefinitionInv
  <2>3. CASE ~indexed
    <3>1. api'[t].step = "rebuild"
      BY <1>4, <2>3, CreateIndexLocals
    <3> QED
      BY <3>1, Zenon DEF FillInv, DefinitionInv
  <2> QED
    BY <2>2, <2>3
<1>5. CASE IndexRebuild(t)
  <2>1. api'[t].step = "persist"
    BY <1>5, CreateIndexLocals
  <2>2. /\ api[t].snap \in Table
        /\ \A k \in Ids : api[t].snap[k] # Missing => api[t].snap[k].id \in Ids
    BY DEF CallInv, ApiCall, AllIds
  <2>3. prim' = [k \in Ids |-> api[t].snap[k]]
        /\ sec' = Bucketed({api[t].snap[k] : k \in Ids} \ {Missing})
    BY <1>5 DEF IndexRebuild
  <2>4. IndexInv'
    BY <2>2, <2>3, DocumentsAssumption DEF IndexInv, Bucketed
  <2> QED
    BY <2>1, <2>4 DEF FillInv, DefinitionInv
<1>6. CASE IndexPersist(t)
  <2>1. UNCHANGED <<up, prim, sec, indexed>> /\ api[t].step = "persist"
    BY <1>6 DEF IndexPersist, memory
  <2>2. live'.defs \/ faults' \cap {"drop", "open", "put"} # {}
    BY <1>6 DEF IndexPersist, Fails, BaseInv, TypeOK, Image
  <2> QED
    BY <1>2, <2>1, <2>2 DEF DefinitionInv
<1> QED
  BY <1>3, <1>4, <1>5, <1>6 DEF CreateIndex

(* So does every other step.                                                *)
LEMMA OtherFills ==
    ASSUME ApiInv, [ApiNext]_apiVars, \A t \in Threads : ~CreateIndex(t)
    PROVE  FillInv' /\ DefinitionInv'
<1> USE DEF ApiInv
<1>1. [Next]_vars
  BY ApiNextSteps
<1>2. up' => \A t \in Threads : api'[t].step = api[t].step
                                \/ {api[t].step, api'[t].step} \subseteq {"none", "update", "insert"}
  BY OtherLocals
<1>3. FillInv'
  <2>1. CASE ~up'
    BY <2>1 DEF FillInv, IndexInv
  <2>2. CASE up'
    BY <1>1, <1>2, <2>2, NextLocals DEF FillInv
  <2> QED
    BY <2>1, <2>2
<1>4. ASSUME up', up, indexed' = indexed, faults \subseteq faults', live'.defs = live.defs
      PROVE  DefinitionInv'
  BY <1>2, <1>4 DEF DefinitionInv
<1>5. ASSUME NEW read \in SUBSET AllIds, NEW b \in BOOLEAN, NEW c \in BOOLEAN,
             Start(read, b, c)
      PROVE  DefinitionInv'
  BY <1>5, Zenon DEF Start, DefinitionInv, BaseInv, LockInv, LoadIndexDefinitions, store
<1>6. ASSUME Shutdown \/ Crash PROVE DefinitionInv'
  <2>1. up' = FALSE
    BY <1>6 DEF Shutdown, Crash
  <2> QED
    BY <2>1 DEF DefinitionInv
<1>7. ASSUME NEW t \in Threads, Call(t) \/ Work(t) PROVE DefinitionInv'
  BY <1>4, <1>7, EngineFrame, Zenon
<1>8. ASSUME UNCHANGED vars PROVE DefinitionInv'
  BY <1>2, <1>8 DEF vars, memory, store, DefinitionInv
<1>9. DefinitionInv'
  BY <1>1, <1>5, <1>6, <1>7, <1>8 DEF Next
<1> QED
  BY <1>3, <1>9

(* The invariant is inductive.                                              *)
LEMMA NextApiInv == ApiInv /\ [ApiNext]_apiVars => ApiInv'
<1> SUFFICES ASSUME ApiInv, [ApiNext]_apiVars PROVE ApiInv'
  OBVIOUS
<1>1. ASSUME NEW t \in Threads, CreateIndex(t) PROVE ApiInv'
  BY <1>1, CreateIndexBase, CreateIndexLocals, CreateIndexFills, Zenon DEF ApiInv
<1>2. CASE \A t \in Threads : ~CreateIndex(t)
  <2>1. [Next]_vars
    BY <1>2, ApiNextSteps DEF ApiInv
  <2> QED
    BY <1>2, <2>1, NextBase, NextLocals, OtherLocals, OtherFills DEF ApiInv
<1> QED
  BY <1>1, <1>2

(* In every reachable state the invariant holds.                            *)
THEOREM ApiInvariance == ApiSpec => []ApiInv
BY ApiInitInv, NextApiInv, PTL DEF ApiSpec

(* Whatever create_index races with, both indexes agree outside the window  *)
(* in which a registered index waits to be filled.                          *)
THEOREM ApiIndexIsComplete == ApiSpec => []ApiIndexComplete
<1>1. BaseInv /\ IndexInv => IndexComplete
  BY Zenon DEF BaseInv, TypeOK, Index, IndexInv, IndexComplete, Settled, GetBySecondaryIndex,
     ListedAfterIndexes, DocsOf
<1>2. ApiInv => ApiIndexComplete
  BY <1>1 DEF ApiInv, FillInv, ApiIndexComplete
<1> QED
  BY <1>2, ApiInvariance, PTL

(* When no call is in progress, the definition of a registered index is in  *)
(* storage, unless a storage call failed.                                   *)
THEOREM DefinitionIsStored == ApiSpec => []DefinitionStored
<1>1. ApiInv => DefinitionStored
  BY DEF ApiInv, DefinitionInv, DefinitionStored, ApiIdle
<1> QED
  BY <1>1, ApiInvariance, PTL

-----------------------------------------------------------------------------
(* From here on, storage and the primary index. No write overlaps           *)
(* create_index as long as raced is false.                                  *)

(* create_index changes neither the requests nor the stored documents.      *)
LEMMA CreateIndexFrame ==
    ASSUME BaseInv, NEW t \in Threads, CreateIndex(t)
    PROVE  /\ UNCHANGED <<up, lock, pc, req>> /\ live'.docs = live.docs
           /\ faults \subseteq faults'
           /\ prim' = prim \/ IndexRebuild(t)
<1>1. UNCHANGED <<up, lock, pc, req>> /\ (prim' = prim \/ IndexRebuild(t))
  BY Zenon DEF CreateIndex, IndexLoad, IndexRegister, IndexPersist, IndexRebuild, memory, control
<1>2. faults' = faults \/ \E kind : faults' = faults \cup {kind}
  BY Zenon DEF CreateIndex, IndexLoad, IndexRegister, IndexRebuild, IndexPersist, Fails
<1>3. live'.docs = live.docs
  <2>1. \A b : [live EXCEPT !.defs = b].docs = live.docs
    BY DEF BaseInv, TypeOK, Image
  <2> QED
    BY <2>1, Zenon DEF CreateIndex, IndexLoad, IndexRegister, IndexRebuild, IndexPersist, store
<1> QED
  BY <1>1, <1>2, <1>3

(* A rebuild that no write overlaps installs the stored collection; the     *)
(* other steps of create_index leave the primary index alone.               *)
LEMMA CreateIndexCopy ==
    ASSUME BaseInv, CopyInv, SnapInv, ~Overlap, NEW t \in Threads, CreateIndex(t)
    PROVE  CopyInv'
<1>1. CASE prim' = prim
  <2>1. \A k \in Ids : Expected(k)' = Expected(k)
    BY <1>1, CreateIndexFrame, Zenon DEF Expected
  <2> QED
    BY <2>1, CreateIndexFrame DEF CopyInv, MirrorInv, StoredInv
<1>2. CASE IndexRebuild(t)
  <2>1. /\ prim' = [k \in Ids |-> api[t].snap[k]] /\ faults' = faults
        /\ Stale(t)
    BY <1>2 DEF IndexRebuild, Stale
  <2>2. lock = NoThread
    BY <2>1 DEF Overlap
  <2>3. \A k \in Ids : Expected(k)' = prim'[k]
    BY <2>2, CreateIndexFrame DEF Expected
  <2>4. "load" \in faults' \/ \A k \in Ids : live'.docs[k] = prim'[k]
    BY <2>1, CreateIndexFrame DEF SnapInv
  <2> QED
    BY <2>3, <2>4, Zenon DEF CopyInv, MirrorInv, StoredInv
<1> QED
  BY <1>1, <1>2, CreateIndexFrame

(* What create_index has just read is what is stored.                       *)
LEMMA CreateIndexSnap ==
    ASSUME BaseInv, CallInv, SnapInv, NEW t \in Threads, CreateIndex(t)
    PROVE  SnapInv'
<1> SUFFICES ASSUME NEW w \in Threads, Stale(w)'
             PROVE  "load" \in faults' \/ api'[w].snap = live'.docs
  BY Zenon DEF SnapInv
<1>1. live'.docs = live.docs /\ faults \subseteq faults'
  BY CreateIndexFrame
<1>2. ASSUME Stale(w), api'[w].snap = api[w].snap
      PROVE  "load" \in faults' \/ api'[w].snap = live'.docs
  BY <1>1, <1>2 DEF SnapInv
<1>3. CASE w # t
  <2>1. api'[w] = api[w]
    BY <1>3, CreateIndexLocals
  <2> QED
    BY <1>2, <2>1 DEF Stale
<1>4. CASE w = t
  <2>1. CASE IndexLoad(t)
    BY <1>1, <1>4, <2>1, CreateIndexLocals
  <2>2. CASE IndexRegister(t)
    <3>1. Stale(t) /\ (api'[t].step = "none" \/ api'[t].snap = api[t].snap)
      BY <2>2, CreateIndexLocals, Zenon DEF Stale
    <3> QED
      BY <1>2, <1>4, <3>1 DEF Stale
  <2>3. CASE IndexRebuild(t) \/ IndexPersist(t)
    <3>1. api'[t].step \in {"persist", "none"}
      BY <2>3, CreateIndexLocals, Zenon
    <3> QED
      BY <1>4, <3>1 DEF Stale
  <2> QED
    BY <2>1, <2>2, <2>3 DEF CreateIndex
<1> QED
  BY <1>3, <1>4

(* Stored documents change under rw_lock_ only, while the process runs.     *)
LEMMA FreeLockKeepsDocs ==
    ASSUME BaseInv, lock = NoThread, up, up', [Next]_vars
    PROVE  live'.docs = live.docs /\ faults \subseteq faults'
<1> USE DEF BaseInv
<1>1. ASSUME NEW t \in Threads, Call(t) PROVE live'.docs = live.docs /\ faults \subseteq faults'
  <2>1. CASE \E s \in NewSchemas : SchemaPut(t, s)
    BY <2>1 DEF SchemaPut, TypeOK, Image
  <2>2. CASE UNCHANGED <<live, faults>>
    BY <2>2
  <2> QED
    BY <1>1, <2>1, <2>2, Zenon DEF Call, InsertBegin, UpdateBegin, RemoveBegin, Admit, store
<1>2. ASSUME NEW t \in Threads, Work(t) PROVE live'.docs = live.docs /\ faults \subseteq faults'
  <2>1. pc[t] \notin Locked
    BY EngineAssumption DEF LockInv
  <2>2. pc[t] \notin {"put", "index", "drop", "open", "fill", "remove", "unindex"}
    BY <2>1 DEF Locked, Steps
  <2>3. SchemaCache(t)
    BY <1>2, <2>2 DEF Work, InsertPut, InsertIndex, SyncDrop, SyncOpen, SyncInsert, UpdateRebuild,
       RemoveStored, RemoveIndexed, RemoveEnd
  <2> QED
    BY <2>3 DEF SchemaCache, store
<1>3. ~Shutdown /\ ~Crash /\ \A read \in SUBSET AllIds, b, c \in BOOLEAN : ~Start(read, b, c)
  BY DEF Shutdown, Crash, Start
<1>4. CASE UNCHANGED vars
  BY <1>4 DEF vars, store
<1> QED
  BY <1>1, <1>2, <1>3, <1>4 DEF Next

(* The steps that are not of create_index keep what it has read stored.     *)
LEMMA OtherSnap ==
    ASSUME BaseInv, CallInv, SnapInv, ~Overlap, [ApiNext]_apiVars, up',
           \A t \in Threads : ~CreateIndex(t)
    PROVE  SnapInv'
<1> SUFFICES ASSUME NEW w \in Threads, Stale(w)'
             PROVE  "load" \in faults' \/ api'[w].snap = live'.docs
  BY Zenon DEF SnapInv
<1>1. api'[w] = api[w]
  BY OtherLocals DEF Stale
<1>2. Stale(w) /\ lock = NoThread
  BY <1>1 DEF Stale, Overlap
<1>3. up
  BY <1>2 DEF CallInv, Stale
<1>4. live'.docs = live.docs /\ faults \subseteq faults'
  BY <1>2, <1>3, ApiNextSteps, FreeLockKeepsDocs
<1> QED
  BY <1>1, <1>2, <1>4 DEF SnapInv

(* As long as no write has overlapped create_index, the two copies of the   *)
(* collection stay in agreement.                                            *)
LEMMA NextRace ==
    ASSUME ApiFullInv, [ApiNext]_apiVars
    PROVE  RaceInv'
<1> USE DEF ApiFullInv
<1>1. ApiInv'
  BY NextApiInv
<1>2. /\ raced' \in BOOLEAN
      /\ Overlap' => raced'
      /\ ~raced' => ~up' \/ ~raced
  <2>1. CASE ApiNext
    <3>1. raced' = (up' /\ (raced \/ Overlap'))
      BY <2>1, Zenon DEF ApiNext
    <3>2. Overlap' => up'
      BY <1>1 DEF ApiInv, CallInv, Overlap, Stale
    <3>3. up' \in BOOLEAN
      BY <1>1 DEF ApiInv, BaseInv, TypeOK
    <3> QED
      BY <3>1, <3>2, <3>3
  <2>2. CASE UNCHANGED apiVars
    <3>1. raced' = raced /\ Overlap' = Overlap
      BY <2>2, Zenon DEF apiVars, vars, control, Overlap, Stale
    <3> QED
      BY <3>1, Zenon DEF RaceInv
  <2> QED
    BY <2>1, <2>2
<1>3. ASSUME ~up' PROVE CopyInv' /\ SnapInv'
  <2>1. CopyInv'
    BY <1>3 DEF CopyInv, MirrorInv, StoredInv
  <2>2. SnapInv'
    BY <1>1, <1>3 DEF ApiInv, CallInv, SnapInv, Stale
  <2> QED
    BY <2>1, <2>2
<1>4. ASSUME up', ~raced PROVE CopyInv' /\ SnapInv'
  <2>1. BaseInv /\ CallInv /\ CopyInv /\ SnapInv /\ ~Overlap
    BY <1>4, Zenon DEF RaceInv, ApiInv
  <2>2. ASSUME NEW t \in Threads, CreateIndex(t) PROVE CopyInv' /\ SnapInv'
    BY <2>1, <2>2, CreateIndexCopy, CreateIndexSnap
  <2>3. ASSUME \A t \in Threads : ~CreateIndex(t) PROVE CopyInv' /\ SnapInv'
    <3>1. [Next]_vars
      BY <2>1, <2>3, ApiNextSteps
    <3> QED
      BY <1>4, <2>1, <2>3, <3>1, NextBase, OtherSnap
  <2> QED
    BY <2>2, <2>3
<1> QED
  BY <1>2, <1>3, <1>4, Zenon DEF RaceInv

(* The invariants with the history of overlaps hold in every reachable      *)
(* state.                                                                   *)
THEOREM ApiFullInvariance == ApiSpec => []ApiFullInv
<1>1. ApiInit => ApiFullInv
  <2> SUFFICES ASSUME ApiInit PROVE ApiFullInv
    OBVIOUS
  <2>1. IInv /\ raced = FALSE
    BY InitIInv DEF ApiInit
  <2>2. \A t \in Threads : api[t].step = "none"
    BY NoApiCallType DEF ApiInit
  <2>3. ~Overlap /\ SnapInv
    BY <2>2 DEF Overlap, SnapInv, Stale
  <2> QED
    BY <2>1, <2>3, ApiInitInv DEF IInv, ApiFullInv, RaceInv
<1>2. ApiFullInv /\ [ApiNext]_apiVars => ApiFullInv'
  BY NextApiInv, NextRace DEF ApiFullInv
<1> QED
  BY <1>1, <1>2, PTL DEF ApiSpec

(* Between writes, for any number of threads whose calls overlap in any way *)
(* but for a write inside the window of create_index, the primary index     *)
(* holds exactly the stored documents.                                      *)
THEOREM ApiMirrorHolds == ApiSpec => []ApiMirror
<1>1. ApiFullInv => ApiMirror
  BY CopyFacts DEF ApiFullInv, RaceInv, ApiMirror
<1> QED
  BY <1>1, ApiFullInvariance, PTL
=============================================================================
