------------------------------- MODULE Paging -------------------------------
(***************************************************************************)
(* A caller of Core::find that reads a result page by page, over a         *)
(* collection that does not change meanwhile. Each call matches, sorts and *)
(* cuts anew, so that the pages fit together only if every call orders the *)
(* documents alike. The properties of the query engine are stated here     *)
(* for the collection and the request at hand.                             *)
(***************************************************************************)
EXTENDS Query

CONSTANTS Collections,  \* the collections: documents and their primary keys
          Selections,   \* the queries
          SortOrders,   \* the sort documents
          Limits,       \* the sizes of a page
          Projections,
          Changes       \* update documents that set no _id

IsDocument(d) == DOMAIN d \subseteq Keys /\ IdKey \in DOMAIN d /\ \A k \in DOMAIN d : d[k] \in Value

(* The documents of a collection, in the order of its iteration, are kept   *)
(* under different keys, which are strings. A document whose _id is a       *)
(* string is kept under it; a key that insert generated is new.             *)
WellKept(c) ==
    /\ c.docs \in Seq(Range(c.docs)) /\ DOMAIN c.primary = DOMAIN c.docs
    /\ \A i \in DOMAIN c.docs :
          /\ IsDocument(c.docs[i]) /\ c.primary[i].type = "string"
          /\ c.docs[i][IdKey].type = "string" => c.docs[i][IdKey] = c.primary[i]
    /\ \A i, j \in DOMAIN c.docs : c.primary[i] = c.primary[j] => i = j

(* A c_int counts the documents.                                            *)
ASSUME PagingAssumption ==
    /\ \A c \in Collections : WellKept(c) /\ Len(c.docs) < Int32
    /\ \A sort \in SortOrders : DOMAIN sort \subseteq Keys /\ \A k \in DOMAIN sort : sort[k] \in Int
    /\ Limits \subseteq 1..(Int32 - 1)

VARIABLES
    data,     \* the documents of the collection
    primary,  \* their keys in the primary index
    ask,      \* the request
    pages,    \* what the caller has read so far
    skip,     \* where the next page begins
    done      \* the last page was short

pagingVars == <<data, primary, ask, pages, skip, done>>

PagingInit == /\ \E c \in Collections : data = c.docs /\ primary = c.primary
              /\ ask \in [query : Selections, sort : SortOrders, limit : Limits]
              /\ pages = <<>> /\ skip = 0 /\ done = FALSE

(* The next page begins one limit further on.                               *)
NextPage == /\ ~done /\ skip <= Len(data)
            /\ skip' = skip + ask.limit
            /\ \E page \in CoreFind(data, primary, ask.query, ask.sort, <<>>, ask.limit, skip) :
                  /\ pages' = pages \o page
                  /\ done' = (Len(page) < ask.limit)
            /\ UNCHANGED <<data, primary, ask>>

PagingNext == NextPage

PagingSpec == PagingInit /\ [][PagingNext]_pagingVars

-----------------------------------------------------------------------------
(* Are the _ids all different for the sort? Strings are; other _ids may be  *)
(* repeated, since the documents are not kept under them.                   *)
DistinctIds ==
    \A i, j \in DOMAIN data : i # j => CompareValues(data[i][IdKey], data[j][IdKey]) # 0

(* A request whose order is decided. (A query for one _id ignores skip.)    *)
Decided == /\ ~ById(ask.query)
           /\ DOMAIN ask.sort = {} \/ (IdKey \in Compared(ask.sort) /\ DistinctIds)

(* The pages together are one result of the whole query: no document is     *)
(* missing or read twice, for a request whose order is decided because it   *)
(* compares _id, of which no two are alike, or does not sort.               *)
PagesFitTogether == done /\ Decided => pages \in RustFind(data, ask.query, ask.sort, <<>>, 0, 0)

(* The inductive invariant: the pages are the beginning of each order that  *)
(* the sort allows, and all of one when the last page was short.            *)
PagesInv ==
    /\ skip \in Nat
    /\ Decided =>
         LET orders == Sortings(Matching(data, ask.query), ask.sort)
         IN  /\ \A s \in orders : pages = IF skip <= Len(s) THEN SubSeq(s, 1, skip) ELSE s
             /\ done => \E s \in orders : Len(s) <= skip

(* The documents that are kept under a generated key, because their _id is  *)
(* not a string.                                                            *)
Rekeyed == {i \in DOMAIN data : data[i][IdKey].type # "string"}

(* find, count and remove agree on what a query selects, whether find is    *)
(* answered from the primary index or by the query engine. Documents kept   *)
(* under a generated key are the exception: that key finds them although    *)
(* the query engine does not, and no query removes them.                    *)
SelectionsAgree ==
    LET matching == MatchingPlaces(data, ask.query)
    IN  /\ (ById(ask.query) => \A i \in Rekeyed : primary[i] # ask.query[IdKey].value)
             => \A found \in CoreFind(data, primary, ask.query, ask.sort, <<>>, 0, 0) :
                   /\ Len(found) = CoreCount(data, ask.query)
                   /\ Range(found) = {data[i] : i \in matching}
        /\ CoreRemove(data, primary, ask.query)
             = Select(data, Rekeyed \cup (DOMAIN data \ matching))

SortIsOrder ==
    \A i, j, l \in DOMAIN data :
        /\ CompareDocs(data[i], data[j], ask.sort) = -CompareDocs(data[j], data[i], ask.sort)
        /\ (/\ CompareDocs(data[i], data[j], ask.sort) <= 0
            /\ CompareDocs(data[j], data[l], ask.sort) <= 0)
               => CompareDocs(data[i], data[l], ask.sort) <= 0

OperatorsFollowSort ==
    \A i, j \in DOMAIN data : \A k \in DOMAIN data[i] \cap DOMAIN data[j] :
        LET v == data[i][k]
            t == data[j][k]
        IN  /\ Evaluate("$lt", v, t) => CompareValues(v, t) = -1
            /\ Evaluate("$gt", v, t) => CompareValues(v, t) = 1
            /\ Evaluate("$lte", v, t) => CompareValues(v, t) <= 0
            /\ Evaluate("$gte", v, t) => CompareValues(v, t) >= 0

(* The comparison that find sorts by is a total preorder, as the sort of    *)
(* the Rust library demands: antisymmetric and transitive, across types,    *)
(* missing fields and malformed orders. The operators follow it: what $lt   *)
(* and $gt accept sorts strictly before and behind the target, what $lte    *)
(* and $gte accept does not sort on the other side.                         *)
SortIsConsistent == SortIsOrder /\ OperatorsFollowSort

(* A retried update does no harm: repeating it changes nothing more, with   *)
(* or without a schema, even where the change makes documents match or      *)
(* stop matching. The request's query serves as the schema as well.         *)
UpdateRepeats ==
    \A change \in Changes : \A schema \in {<<>>, ask.query} :
        LET once == Update(data, ask.query, change, schema)
        IN  Update(once, ask.query, change, schema) = once

(* A projection never drops _id unless it is switched off, and keeps the    *)
(* values of what it keeps.                                                 *)
ProjectionKeepsId ==
    \A i \in DOMAIN data, p \in Projections :
        LET doc == ApplyProjection(data[i], p)
        IN  /\ IdKey \in DOMAIN doc <=> ~(IdKey \in DOMAIN p /\ p[IdKey] = "off")
            /\ \A k \in DOMAIN doc : k \in DOMAIN data[i] /\ doc[k] = data[i][k]
=============================================================================
