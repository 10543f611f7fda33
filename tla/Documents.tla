------------------------------ MODULE Documents ------------------------------
(***************************************************************************)
(* The documents of one collection, in the two forms the engine handles:   *)
(* BSON (storage, indexes) and JSON (the Rust query engine), with the      *)
(* conversions between them, the update merge and schema validation.       *)
(* A document is its _id and its remaining content, an opaque value.       *)
(***************************************************************************)

CONSTANTS Ids,         \* non-empty _id strings
          EmptyId,     \* the empty _id string
          NonString,   \* any _id that is not a string
          Vals,        \* contents of a document besides its _id
          TaggedVals,  \* contents with a field "collection" naming the collection
          FieldText,   \* the text of the indexed field of a content, NoText if none
          Missing,     \* no document
          Keep,        \* a part of an update document that is absent
          NoSchema     \* no schema is registered

ASSUME DocumentsAssumption ==
    /\ EmptyId \notin Ids
    /\ NonString \notin Ids \cup {EmptyId}
    /\ Keep \notin Ids \cup {EmptyId, NonString} \cup Vals
    /\ TaggedVals \subseteq Vals

AllIds == Ids \cup {EmptyId}

NoText == ""

(* A BSON document. The first _id field is a string, by construction of     *)
(* insert; dup says that a second, non-string _id field follows it.         *)
Doc == [id : AllIds, dup : BOOLEAN, val : Vals]

ASSUME MissingAssumption == Missing \notin Doc

(* A JSON document, as serde_json sees it: field names are unique.          *)
JDoc == [id : AllIds \cup {NonString}, val : Vals]

(* An update document: what it sets _id and the content to.                 *)
UpdateDoc == [id : AllIds \cup {NonString, Keep}, val : Vals \cup {Keep}]

(* A schema: the contents it accepts, whether it has no field at all, and   *)
(* whether it carries the extra field "collection" of its stored form.      *)
Schema == [accepts : SUBSET Vals, empty : BOOLEAN, tagged : BOOLEAN]

ASSUME NoSchemaAssumption == NoSchema \notin Schema

(* What set_schema stores for a schema, and the schema it stands for.       *)
StoredForm(s) == [s EXCEPT !.tagged = TRUE]

Given(s) == IF s = NoSchema THEN s ELSE [s EXCEPT !.tagged = FALSE]

(* A collection: what is held under each key, in storage and in the index.  *)
Table == [AllIds -> Doc \cup {Missing}]
Index == [Ids -> Doc \cup {Missing}]

EmptyTable == [k \in AllIds |-> Missing]
EmptyIndex == [k \in Ids |-> Missing]

DocsOf(m) == {m[k] : k \in DOMAIN m} \ {Missing}

-----------------------------------------------------------------------------
(* Serialization writes both _id fields of a duplicated one, and the JSON   *)
(* parser keeps the last.                                                   *)
ToJson(d) == [id |-> IF d.dup THEN NonString ELSE d.id, val |-> d.val]

FromJson(j) == [id |-> j.id, dup |-> FALSE, val |-> j.val]

(* The fields of the update document replace those of the document.         *)
Merge(j, u) == [id  |-> IF u.id = Keep THEN j.id ELSE u.id,
                val |-> IF u.val = Keep THEN j.val ELSE u.val]

(* matches_query with the schema as the query. The stored form also asks    *)
(* for the field "collection".                                              *)
Conforms(j, s) == /\ j.val \in s.accepts
                  /\ s.tagged => j.val \in TaggedVals

(* validate_via_rust: a schema document without fields rejects everything.  *)
ValidateViaRust(d, s) == ~(s.empty /\ ~s.tagged) /\ Conforms(ToJson(d), s)

(* What insert asks. Without a schema every document is valid.              *)
Validate(d, s) == s # NoSchema => ValidateViaRust(d, s)

(* One document through the update of the query engine.                     *)
Updated(j, q, u, s) ==
    IF j \in q /\ (s = NoSchema \/ Conforms(Merge(j, u), s))
    THEN Merge(j, u)
    ELSE j

(* Variant of Batch: only the matching documents are kept.                  *)
BatchMatching(m, q, u, s) ==
    {FromJson(j) : j \in {i \in {Updated(ToJson(d), q, u, s) :
                                    d \in {e \in DocsOf(m) : ToJson(e) \in q}} :
                             i.id # NonString}}

(* What the engine keeps of the updated collection: the documents whose     *)
(* _id is a string.                                                         *)
Batch(m, q, u, s) ==
    {FromJson(j) : j \in {i \in {Updated(ToJson(d), q, u, s) : d \in DocsOf(m)} :
                             i.id # NonString}}
=============================================================================
