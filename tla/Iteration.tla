------------------------------ MODULE Iteration ------------------------------
(***************************************************************************)
(* The class Iterator over the fields of a Document, and a range-based     *)
(* loop that uses it. The fields are 1 .. n in the order of the BSON data; *)
(* bson_iter_init places the iterator before the first of them.            *)
(***************************************************************************)
EXTENDS Integers, Sequences

CONSTANT MaxFields  \* bound of the number of fields

ASSUME IterationAssumption == MaxFields \in Nat

NullDoc == -1  \* the number of fields of a Document whose bson_ is null

(* Iterator(), Iterator(doc).                                               *)
End == [valid |-> FALSE, at |-> 0]
Begin(n) == [valid |-> n # NullDoc, at |-> 0]

\* Variant: the last field counts as the end.
IncrementStopsEarly(i, n) ==
    IF i.valid THEN [valid |-> i.at + 1 < n, at |-> i.at + 1] ELSE i

(* operator++: bson_iter_next says whether there was another field.         *)
Increment(i, n) ==
    IF i.valid THEN [valid |-> i.at < n, at |-> i.at + 1] ELSE i

(* operator++(int): what it returns, and the iterator afterwards.           *)
PostIncrement(i, n) == [result |-> i, after |-> Increment(i, n)]

(* operator==, of iterators over one document.                              *)
Same(l, r) == \/ ~l.valid /\ ~r.valid
              \/ l.valid /\ r.valid /\ l.at = r.at

(* key(): empty when the iterator is invalid. Before the first field it is  *)
(* the text at the start of the BSON data, where its length is kept.        *)
NoKey == 0
HeaderBytes == -1
Key(i) == IF ~i.valid THEN NoKey ELSE IF i.at = 0 THEN HeaderBytes ELSE i.at

-----------------------------------------------------------------------------
VARIABLES
    fields,  \* the number of fields of the document
    it,      \* the iterator of the loop
    keys     \* what key() returned in each round

iterationVars == <<fields, it, keys>>

IterationInit == /\ fields \in NullDoc..MaxFields
                 /\ it = Begin(fields) /\ keys = <<>>

(* A round of the loop, with either form of the increment.                  *)
Round == /\ ~Same(it, End)
         /\ keys' = Append(keys, Key(it))
         /\ it' = Increment(it, fields)
         /\ UNCHANGED fields

RoundPost == /\ ~Same(it, End)
             /\ LET step == PostIncrement(it, fields)
                IN  keys' = Append(keys, Key(step.result)) /\ it' = step.after
             /\ UNCHANGED fields

IterationNext == Round \/ RoundPost

IterationSpec == IterationInit /\ [][IterationNext]_iterationVars

-----------------------------------------------------------------------------
(* Behind the position that begin() returns, a loop comes past every field  *)
(* once and in order and ends after the last, whichever increment it uses,  *)
(* also when there is no field; over no document it has no round at all.    *)
FieldsInOrder ==
    /\ \A i \in 2..Len(keys) : keys[i] = i - 1
    /\ Same(it, End) => {keys[i] : i \in 2..Len(keys)} = 1..fields

(* What the comments of Iterator and begin() say: the iterator of a         *)
(* document points to its first field, and is valid only if there is one,   *)
(* so that round i of a loop shows field i.                                 *)
RoundShowsField == \A i \in DOMAIN keys : i <= fields /\ keys[i] = i

(* The inductive invariant: the keys so far, and how far the iterator is.   *)
IterationInv ==
    /\ fields \in NullDoc..MaxFields /\ it \in [valid : BOOLEAN, at : Nat]
    /\ keys \in Seq(Int) /\ \A i \in 2..Len(keys) : keys[i] = i - 1
    /\ it.at = Len(keys)
    /\ IF it.valid THEN fields # NullDoc /\ it.at <= fields ELSE it.at = fields + 1
=============================================================================
