---------------------------- MODULE DocumentStore ----------------------------
(***************************************************************************)
(* What the engine promises its readers about one collection: it is a map  *)
(* from _id to document that changes by whole operations only, and that a  *)
(* clean shutdown keeps.                                                   *)
(***************************************************************************)
EXTENDS Documents

CONSTANTS Inserts, Queries, Updates, Schemas

VARIABLES open,    \* is the database open?
          db,      \* the collection as readers see it
          saved,   \* the collection that the next opening finds
          damaged  \* has a storage failure broken the promise to keep it?

vars == <<open, db, saved, damaged>>

Init == /\ open = FALSE
        /\ db = EmptyIndex
        /\ saved = EmptyIndex
        /\ damaged = FALSE

Insert(d) == /\ open
             /\ d.id \in Ids
             /\ db' = [db EXCEPT ![d.id] = d]
             /\ UNCHANGED <<open, saved, damaged>>

(* One query, one update document and one schema applied to the collection  *)
(* as it is now. Of several documents that get one _id, one is kept.        *)
Update(q, u, s) ==
    LET b == Batch(db, q, u, s)
    IN  /\ open
        /\ db' \in Index
        /\ \A k \in Ids :
              IF \E d \in b : d.id = k
              THEN db'[k] \in b /\ db'[k].id = k
              ELSE db'[k] = Missing
        /\ UNCHANGED <<open, saved, damaged>>

Remove(k) == /\ open
             /\ db[k] # Missing
             /\ db' = [db EXCEPT ![k] = Missing]
             /\ UNCHANGED <<open, saved, damaged>>

(* An update in progress withdraws what was saved before.                   *)
Withdraw == /\ open
            /\ saved' = EmptyIndex
            /\ UNCHANGED <<open, db, damaged>>

Damage == /\ open
          /\ damaged' = TRUE
          /\ UNCHANGED <<open, db, saved>>

Close == /\ open /\ open' = FALSE
         /\ db' = EmptyIndex
         /\ saved' \in Index
         /\ ~damaged => saved' = db
         /\ damaged' = FALSE

Crash == /\ open /\ open' = FALSE
         /\ db' = EmptyIndex
         /\ damaged' = FALSE
         /\ UNCHANGED saved

(* When the collection cannot be read to its end, a part of it is opened.   *)
Open == /\ ~open /\ open' = TRUE
        /\ damaged' \in BOOLEAN
        /\ \E read \in SUBSET Ids :
              /\ damaged' \/ read = Ids
              /\ db' = [k \in Ids |-> IF k \in read THEN saved[k] ELSE Missing]
        /\ UNCHANGED saved

Next == \/ \E d \in Inserts : Insert(d)
        \/ \E q \in Queries, u \in Updates, s \in Schemas : Update(q, u, s)
        \/ \E k \in Ids : Remove(k)
        \/ Withdraw \/ Damage \/ Close \/ Crash \/ Open

Spec == Init /\ [][Next]_vars
=============================================================================
