----------------------------- MODULE Ownership -----------------------------
(***************************************************************************)
(* Who owns the memory that crosses a library boundary: the bson_t of      *)
(* libbson, which Document holds, and the strings the Rust engine returns, *)
(* which Core hands back. An address that was freed may be given out       *)
(* again.                                                                  *)
(***************************************************************************)
EXTENDS Integers

CONSTANTS Slots,   \* the Document objects (and the doc_ of a Builder)
          Cells,   \* the addresses at which libbson can put a bson_t
          Gone,    \* the slot holds no object
          Nil      \* nullptr

ASSUME OwnershipAssumption == Gone # Nil /\ {Gone, Nil} \cap Cells = {}

VARIABLES
    owns,    \* slot -> bson_ of the object in it, or Gone
    raw,     \* the bson_t that a caller has from libbson and not wrapped yet
    live,    \* the addresses in use
    call,    \* where Core is with the result of a Rust call
    text,    \* the string in that result
    count,   \* modified_count in that result
    frees    \* history: how often the string was freed

docVars == <<owns, raw, live>>
textVars == <<call, text, count, frees>>
ownershipVars == <<docVars, textVars>>

OwnershipInit ==
    /\ owns = [s \in Slots |-> Gone] /\ raw = {} /\ live = {}
    /\ call = "idle" /\ text = "null" /\ count = 0 /\ frees = 0

-----------------------------------------------------------------------------
(* Document, Builder and json::parse                                       *)

Exists(s) == owns[s] # Gone

(* Document().                                                              *)
Construct(s) ==
    /\ ~Exists(s)
    /\ \E c \in Cells \ live : /\ owns' = [owns EXCEPT ![s] = c]
                               /\ live' = live \cup {c}
    /\ UNCHANGED <<raw, textVars>>

(* bson_new_from_data or bson_new_from_json returns a new bson_t.           *)
NewRaw ==
    /\ \E c \in Cells \ live : raw' = raw \cup {c} /\ live' = live \cup {c}
    /\ UNCHANGED <<owns, textVars>>

(* Document(b): the object takes the pointer over from the caller.          *)
Wrap(s) ==
    /\ ~Exists(s)
    /\ \E c \in raw : owns' = [owns EXCEPT ![s] = c] /\ raw' = raw \ {c}
    /\ UNCHANGED <<live, textVars>>

(* ~Document(): bson_destroy unless the pointer is null.                    *)
Destruct(s) ==
    /\ Exists(s)
    /\ live' = live \ {owns[s]}
    /\ owns' = [owns EXCEPT ![s] = Gone]
    /\ UNCHANGED <<raw, textVars>>

\* Variant: the copy shares the bson_t.
CopyConstructShares(s, o) ==
    /\ ~Exists(s) /\ owns[o] \in Cells
    /\ owns' = [owns EXCEPT ![s] = owns[o]]
    /\ UNCHANGED <<live, raw, textVars>>

(* Document(const Document&): bson_copy; copying a null document aborts.    *)
CopyConstruct(s, o) ==
    /\ ~Exists(s) /\ owns[o] \in Cells
    /\ \E c \in Cells \ live : /\ owns' = [owns EXCEPT ![s] = c]
                               /\ live' = live \cup {c}
    /\ UNCHANGED <<raw, textVars>>

(* operator=(const Document&): the old bson_t goes before the new one is    *)
(* made, so that its address may come back; nothing on self-assignment.     *)
CopyAssign(s, o) ==
    /\ Exists(s) /\ owns[o] \in Cells
    /\ IF s = o THEN UNCHANGED <<owns, live>>
       ELSE \E c \in Cells \ (live \ {owns[s]}) :
              /\ owns' = [owns EXCEPT ![s] = c]
              /\ live' = (live \ {owns[s]}) \cup {c}
    /\ UNCHANGED <<raw, textVars>>

(* Document(Document&&): a swap with a pointer that starts as null.         *)
MoveConstruct(s, o) ==
    /\ ~Exists(s) /\ Exists(o)
    /\ owns' = [owns EXCEPT ![s] = owns[o], ![o] = Nil]
    /\ UNCHANGED <<raw, live, textVars>>

(* operator=(Document&&).                                                   *)
MoveAssign(s, o) ==
    /\ Exists(s) /\ Exists(o)
    /\ IF s = o THEN UNCHANGED <<owns, live>>
       ELSE /\ live' = live \ {owns[s]}
            /\ owns' = [owns EXCEPT ![s] = owns[o], ![o] = Nil]
    /\ UNCHANGED <<raw, textVars>>

(* json::parse(text, s), when the text is well-formed: the new bson_t is    *)
(* wrapped in a temporary, which is moved into s and destroyed as null.     *)
Parse(s) ==
    /\ Exists(s)
    /\ \E c \in Cells \ live : /\ owns' = [owns EXCEPT ![s] = c]
                               /\ live' = (live \ {owns[s]}) \cup {c}
    /\ UNCHANGED <<raw, textVars>>

(* Builder::finalize(): release() leaves null and the result wraps it.      *)
Finalize(s, o) ==
    /\ Exists(s) /\ ~Exists(o)
    /\ owns' = [owns EXCEPT ![o] = owns[s], ![s] = Nil]
    /\ UNCHANGED <<raw, live, textVars>>

DocNext ==
    \/ NewRaw
    \/ \E s \in Slots : Construct(s) \/ Wrap(s) \/ Destruct(s) \/ Parse(s)
    \/ \E s, o \in Slots : \/ CopyConstruct(s, o) \/ CopyAssign(s, o)
                           \/ MoveConstruct(s, o) \/ MoveAssign(s, o)
                           \/ Finalize(s, o)

-----------------------------------------------------------------------------
(* Strings from the Rust engine                                            *)

(* to_c_string() gives null for text with a NUL in it.                      *)
Texts == {"null", "[]", "docs"}

(* rust_free_string() ignores null.                                         *)
Free == frees' = IF text = "null" THEN frees ELSE frees + 1

(* rust_free_update_result() asks for null itself, too.                     *)
FreeUpdateResult == IF text = "null" THEN UNCHANGED frees ELSE Free

(* rust_find(): an argument that cannot be read counts as {}, so that the   *)
(* result may be [] for any collection.                                     *)
FindCall ==
    /\ call = "idle"
    /\ call' = "found" /\ text' \in Texts /\ frees' = 0
    /\ UNCHANGED <<count, docVars>>

(* Core::find(): the unique_ptr frees the string when the function ends.    *)
FindEnd ==
    /\ call = "found"
    /\ Free /\ call' = "done"
    /\ UNCHANGED <<text, count, docVars>>

(* rust_update(): a document was modified only if there is one.             *)
UpdateCall ==
    /\ call = "idle"
    /\ text' \in Texts /\ count' \in 0..1
    /\ text' = "[]" => count' = 0
    /\ call' = "updated" /\ frees' = 0
    /\ UNCHANGED docVars

\* Variant: the function does not return when nothing was modified.
UpdateEmptyGoesOn ==
    /\ call = "updated"
    /\ IF text \in {"null", "[]"} THEN FreeUpdateResult ELSE UNCHANGED frees
    /\ call' = "parse"
    /\ UNCHANGED <<text, count, docVars>>

(* Core::update(), the test for an empty result: the string is freed, and   *)
(* the function returns only when the count is zero, too.                   *)
UpdateEmpty ==
    /\ call = "updated"
    /\ IF text \in {"null", "[]"} THEN FreeUpdateResult ELSE UNCHANGED frees
    /\ call' = IF text \in {"null", "[]"} /\ count = 0 THEN "done" ELSE "parse"
    /\ UNCHANGED <<text, count, docVars>>

(* Core::update(), after json::parse: freed on both ways on.                *)
UpdateParsed ==
    /\ call = "parse"
    /\ FreeUpdateResult /\ call' = "done"
    /\ UNCHANGED <<text, count, docVars>>

Return == /\ call = "done" /\ call' = "idle"
          /\ UNCHANGED <<text, count, frees, docVars>>

TextNext == FindCall \/ FindEnd \/ UpdateCall \/ UpdateEmpty \/ UpdateParsed \/ Return

OwnershipNext == DocNext \/ TextNext

OwnershipSpec == OwnershipInit /\ [][OwnershipNext]_ownershipVars

-----------------------------------------------------------------------------
(* Every bson_t in use has exactly one owner, a Document or a caller that   *)
(* has not wrapped it yet, and every pointer that is kept points to one in  *)
(* use: whatever the order of copies, moves, assignments (also to itself),  *)
(* parses and destructions, nothing is freed twice, used after it is freed  *)
(* or lost.                                                                 *)
SoleOwner ==
    /\ raw \subseteq live
    /\ \A s \in Slots : owns[s] \in live \cup {Gone, Nil}
    /\ \A s, o \in Slots : s # o /\ owns[s] \in live => owns[s] # owns[o]
    /\ \A s \in Slots : owns[s] \notin raw
    /\ \A c \in live : c \in raw \/ \E s \in Slots : owns[s] = c

(* A string that Rust returned is freed exactly once by the time Core       *)
(* returns, and not twice before, although update() can pass two calls of   *)
(* rust_free_update_result.                                                 *)
FreedOnce ==
    /\ frees <= 1
    /\ call \in {"done", "idle"} => frees = IF text = "null" THEN 0 ELSE 1

(* The inductive invariant: with the values of the pointers, and what is    *)
(* known of the string before it is freed.                                  *)
OwnershipInv ==
    /\ owns \in [Slots -> Cells \cup {Gone, Nil}] /\ live \subseteq Cells
    /\ SoleOwner
    /\ frees \in Nat
    /\ call \in {"found", "updated", "parse"} => frees = 0
    /\ call = "updated" /\ text = "[]" => count = 0
    /\ FreedOnce
=============================================================================
