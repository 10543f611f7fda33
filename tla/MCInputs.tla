------------------------------ MODULE MCInputs ------------------------------
(* Small sets of inputs to the engine, for TLC.                             *)
EXTENDS Engine, TLC

CONSTANTS k1, k2, v1, v2, t1, t2

(* Inserts: with a string _id; with the empty one and a non-string one too, *)
(* of one content or of all.                                                *)
PlainInserts == {d \in Doc : ~d.dup /\ d.id # EmptyId}
SomeInserts == PlainInserts \cup {d \in Doc : d.val = v1 /\ (d.dup => d.id # EmptyId)}
AnyInserts == {d \in Doc : d.dup => d.id # EmptyId}

(* Queries: everything, one content, one _id.                               *)
AllQuery == {JDoc}
ValQueries == {{j \in JDoc : j.val = v} : v \in Vals}
IdQueries == {{j \in JDoc : j.id = k} : k \in Ids}
KeyQueries == AllQuery \cup IdQueries
SomeQueries == AllQuery \cup ValQueries \cup IdQueries

(* Updates: of the content only, or of the _id too.                         *)
ValUpdates == {[id |-> Keep, val |-> v] : v \in Vals}
IdUpdates == {[id |-> i, val |-> Keep] : i \in AllIds \cup {NonString}}

AllUpdates == ValUpdates \cup IdUpdates

(* Schemas: of the contents v1, without fields.                             *)
OnlyV1 == [accepts |-> {v1}, empty |-> FALSE, tagged |-> FALSE]
NoFields == [accepts |-> Vals, empty |-> TRUE, tagged |-> FALSE]
StrictSchema == {OnlyV1}
EmptySchema == {NoFields}

(* The indexed field: two texts; a text in v1 only.                         *)
TwoTexts == [v \in Vals |-> IF v = v1 THEN "a" ELSE "b"]
TextInV1 == [v \in Vals |-> IF v = v1 THEN "a" ELSE NoText]

Symmetry == Permutations(Threads) \cup Permutations(Ids)
=============================================================================
