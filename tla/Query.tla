------------------------------- MODULE Query -------------------------------
(***************************************************************************)
(* The query engine in Rust, as functions: how documents are matched,      *)
(* ordered, paged, projected and updated, and how Core::find, Core::count  *)
(* and Core::remove call it. A field name is its place in the order of     *)
(* strings, in which serde_json visits the fields of an object. A document *)
(* is what serde_json makes of it: of two _ids it has the last.            *)
(***************************************************************************)
EXTENDS Integers, FiniteSets, FiniteSetsExt, Sequences

CONSTANTS Keys,   \* the field names
          IdKey,  \* "_id"
          Names,  \* the type that a string names as the target of $type
          Int32   \* c_int has the values -Int32 .. Int32 - 1

ASSUME QueryAssumption == Keys \subseteq Nat /\ IdKey \in Keys /\ Int32 \in Nat \ {0}

Types == {"null", "bool", "number", "string", "array", "object"}

(* A JSON value: its type, its place in the order of the values of that     *)
(* type (as_f64 for a number), and what tells apart values that have the    *)
(* same place: 1 and 1.0, two arrays.                                       *)
Value == [type : Types, rank : Int, form : Nat]

Null == [type |-> "null", rank |-> 0, form |-> 0]

(* A document: a function from its fields to their values. A query: a       *)
(* function from fields to conditions, each a value or, when the value is   *)
(* an object whose first key begins with $, a function from operators to    *)
(* targets.                                                                 *)
Literal(v) == [ops |-> <<>>, value |-> v]
Operators(f) == [ops |-> f, value |-> Null]

-----------------------------------------------------------------------------
(* get_type_precedence and compare_values: -1 less, 0 equal, 1 greater. The *)
(* tests for null come to the same as its precedence.                       *)
TypePrecedence ==
    [type \in Types |-> CASE type = "null" -> 0 [] type = "bool" -> 1 [] type = "number" -> 2
                          [] type = "string" -> 3 [] type = "array" -> 4 [] type = "object" -> 5]

Sign(n) == IF n < 0 THEN -1 ELSE IF n > 0 THEN 1 ELSE 0

\* Variant: values of the same type are compared by form too, one way only.
CompareByForm(a, b) ==
    IF a.type # b.type
    THEN Sign(TypePrecedence[a.type] - TypePrecedence[b.type])
    ELSE IF a.type \in {"bool", "number", "string"} THEN Sign(a.rank - b.rank)
    ELSE IF a.form = b.form THEN 0 ELSE 1

CompareValues(a, b) ==
    IF a.type # b.type
    THEN Sign(TypePrecedence[a.type] - TypePrecedence[b.type])
    ELSE IF a.type \in {"bool", "number", "string"} THEN Sign(a.rank - b.rank) ELSE 0

(* operators::evaluate. Only two numbers or two strings are in an order;    *)
(* an unknown operator is never satisfied.                                  *)
Ordered(v, t) == v.type = t.type /\ v.type \in {"number", "string"}

Evaluate(op, v, t) == \/ op = "$eq" /\ v = t
                      \/ op = "$ne" /\ v # t
                      \/ op = "$gt" /\ Ordered(v, t) /\ v.rank > t.rank
                      \/ op = "$lt" /\ Ordered(v, t) /\ v.rank < t.rank
                      \/ op = "$gte" /\ Ordered(v, t) /\ v.rank >= t.rank
                      \/ op = "$lte" /\ Ordered(v, t) /\ v.rank <= t.rank
                      \/ op = "$type" /\ t.type = "string" /\ v.type = Names[t.rank]

(* matches_query, with a query that is an object. A condition on a field    *)
(* that the document does not have fails, whatever the operator.            *)
MatchesQuery(doc, query) ==
    \A k \in DOMAIN query :
        /\ k \in DOMAIN doc
        /\ IF query[k].ops = <<>> THEN doc[k] = query[k].value
           ELSE \A op \in DOMAIN query[k].ops : Evaluate(op, doc[k], query[k].ops[op])

-----------------------------------------------------------------------------
(* The order of find: fields in the order of their names, up to the first   *)
(* one whose order is neither 1 nor -1; a missing field counts as null.     *)
Field(doc, k) == IF k \in DOMAIN doc THEN doc[k] ELSE Null

Compared(sort) == {k \in DOMAIN sort : \A j \in DOMAIN sort : j <= k => sort[j] \in {1, -1}}

CompareDocs(a, b, sort) ==
    LET differ == {k \in Compared(sort) : CompareValues(Field(a, k), Field(b, k)) # 0}
    IN  IF differ = {} THEN 0
        ELSE LET k == Min(differ) IN sort[k] * CompareValues(Field(a, k), Field(b, k))

(* par_sort_unstable_by: any order of the documents that the comparison     *)
(* allows. Without fields to sort by, the order stays.                      *)
Sortings(docs, sort) ==
    IF DOMAIN sort = {} THEN {docs}
    ELSE {s \in {[i \in DOMAIN docs |-> docs[p[i]]] : p \in Bijection(DOMAIN docs, DOMAIN docs)} :
            \A i, j \in DOMAIN docs : i < j => CompareDocs(s[i], s[j], sort) <= 0}

\* Variant: the end of the page is one too far.
PageInclusive(docs, limit, skip) ==
    IF limit = 0 THEN SubSeq(docs, skip + 1, Len(docs))
    ELSE SubSeq(docs, skip + 1, Min({skip + limit + 1, Len(docs)}))

(* skip, then take; a limit of 0 is no limit.                               *)
Page(docs, limit, skip) ==
    IF limit = 0 THEN SubSeq(docs, skip + 1, Len(docs))
    ELSE SubSeq(docs, skip + 1, Min({skip + limit, Len(docs)}))

\* Variant: inclusion forgets that _id is kept by default.
ProjectionOnlyOn(doc, projection) ==
    LET on == {k \in DOMAIN projection : projection[k] = "on"}
        off == {k \in DOMAIN projection : projection[k] = "off"}
        kept == IF on \ {IdKey} # {} THEN on ELSE DOMAIN doc \ off
    IN  IF DOMAIN projection = {} THEN doc ELSE [k \in DOMAIN doc \cap kept |-> doc[k]]

(* apply_projection. A field of the projection is "on" (1 or true), "off"    *)
(* (0 or false) or neither; _id does not decide the mode.                   *)
ApplyProjection(doc, projection) ==
    LET on == {k \in DOMAIN projection : projection[k] = "on"}
        off == {k \in DOMAIN projection : projection[k] = "off"}
        kept == IF on \ {IdKey} # {} THEN on \cup ({IdKey} \ off) ELSE DOMAIN doc \ off
    IN  IF DOMAIN projection = {} THEN doc ELSE [k \in DOMAIN doc \cap kept |-> doc[k]]

(* The documents at the places that a filter lets through, in their order.  *)
Select(docs, places) ==
    LET upto[i \in 0..Len(docs)] == IF i = 0 THEN <<>>
                                    ELSE IF i \in places THEN Append(upto[i - 1], docs[i])
                                    ELSE upto[i - 1]
    IN  upto[Len(docs)]

MatchingPlaces(data, query) == {i \in DOMAIN data : MatchesQuery(data[i], query)}

Matching(data, query) == Select(data, MatchingPlaces(data, query))

(* find, as the set of its possible results.                                *)
Find(data, query, sort, projection, limit, skip) ==
    {LET page == Page(s, limit, skip)
     IN  [i \in DOMAIN page |-> ApplyProjection(page[i], projection)] :
        s \in Sortings(Matching(data, query), sort)}

(* rust_find takes limit and skip as a c_int and raises negative ones to 0; *)
(* Core::find has them as 64-bit numbers.                                   *)
CInt(n) == ((n + Int32) % (2 * Int32)) - Int32

RustFind(data, query, sort, projection, limit, skip) ==
    Find(data, query, sort, projection, Max({0, CInt(limit)}), Max({0, CInt(skip)}))

(* Core::find. A query for one _id, given as a string, is answered from the *)
(* primary index, where the document at place i of data has the key         *)
(* primary[i]: its _id, if that was a string when it was inserted, or else  *)
(* the _id that insert generated and put in front of it.                    *)
\* Variant: other conditions beside the one on _id are passed over.
ByIdAndMore(query) == /\ IdKey \in DOMAIN query
                      /\ query[IdKey].ops = <<>> /\ query[IdKey].value.type = "string"

ById(query) == /\ DOMAIN query = {IdKey}
               /\ query[IdKey].ops = <<>> /\ query[IdKey].value.type = "string"

GetDocumentById(data, primary, id) == Select(data, {i \in DOMAIN data : primary[i] = id})

CoreFind(data, primary, query, sort, projection, limit, skip) ==
    IF ById(query)
    THEN {GetDocumentById(data, primary, query[IdKey].value)}
    ELSE RustFind(data, query, sort, projection, limit, skip)

Count(data, query) == Len(Matching(data, query))

CoreCount(data, query) == Count(data, query)

\* Variant: a number is added to the one that is there.
MergedAdds(doc, change) ==
    [k \in DOMAIN doc \cup DOMAIN change |->
        IF k \notin DOMAIN change THEN doc[k]
        ELSE IF k \in DOMAIN doc /\ doc[k].type = "number" /\ change[k].type = "number"
        THEN [doc[k] EXCEPT !.rank = @ + change[k].rank] ELSE change[k]]

(* update: merge the change into each document that matches, unless the     *)
(* result does not match the schema.                                        *)
Merged(doc, change) ==
    [k \in DOMAIN doc \cup DOMAIN change |-> IF k \in DOMAIN change THEN change[k] ELSE doc[k]]

Updates(doc, query, change, schema) ==
    MatchesQuery(doc, query) /\ MatchesQuery(Merged(doc, change), schema)

Update(data, query, change, schema) ==
    [i \in DOMAIN data |-> IF Updates(data[i], query, change, schema)
                           THEN Merged(data[i], change) ELSE data[i]]

(* Core::remove: what remains. The _ids that are strings are taken from     *)
(* what rust_find returns for the query, and each is looked up in the       *)
(* primary index again.                                                     *)
IdsToRemove(data, query) ==
    {id \in {data[i][IdKey] : i \in MatchingPlaces(data, query)} : id.type = "string"}

CoreRemove(data, primary, query) ==
    Select(data, {i \in DOMAIN data : primary[i] \notin IdsToRemove(data, query)})
=============================================================================
