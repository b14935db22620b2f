------------------------------ MODULE ItemSize ------------------------------
(***************************************************************************)
(* The size of the item that src/src/store.rs puts: to_cbor writes the     *)
(* list of visitors one after the other, and the constants promise that    *)
(* the longest list still fits in an item of the table.                    *)
(*                                                                         *)
(* The sizes are those of ciborium's encoding: an integer, or the head of  *)
(* a map or an array, takes 1, 2, 3 or 5 bytes for 32 bits, and a name of  *)
(* one letter 2.  A byte is not modelled, only that it is written.         *)
(***************************************************************************)
EXTENDS Integers, Sequences

CONSTANTS
    Lists,         \* Lists[l]: recent visitors, before the cull, as stored
    NAME_LENGTH    \* the length of the counter's name

DYNAMO_MAX_ITEM_SIZE_BYTES == 400000
RESERVED_NON_VALUE_SIZE_BYTES == 1024
SIZE_SINGLE_VISITOR_BYTES == 15

\* Mutant: nothing is reserved for the rest of the item.
MaxVisitorsOfWholeItem == DYNAMO_MAX_ITEM_SIZE_BYTES \div SIZE_SINGLE_VISITOR_BYTES

MAX_RECENT_VISITORS ==
    (DYNAMO_MAX_ITEM_SIZE_BYTES - RESERVED_NON_VALUE_SIZE_BYTES)
        \div SIZE_SINGLE_VISITOR_BYTES

ASSUME ListsAssumption ==
    \A l \in DOMAIN Lists : Lists[l] \in Seq([tag : Nat, last_seen : Nat])
ASSUME NameAssumption == NAME_LENGTH \in Nat /\ NAME_LENGTH <= 1000

VARIABLES
    list,      \* which list is written
    kept,      \* how many of its visitors the cull has left
    written,   \* how many of them were written
    bytes      \* the bytes of output

vars == <<list, kept, written, bytes>>

-----------------------------------------------------------------------------
(* The encoding *)

\* An unsigned integer below 2^32, or the number of entries of an array or a map.
HeadSize(n) ==
    CASE n < 24 -> 1
      [] n >= 24 /\ n < 256 -> 2
      [] n >= 256 /\ n < 65536 -> 3
      [] n >= 65536 -> 5

\* The names "v", "g" and "t" of the serde attributes.
NameSize == 2

\* StoredVisitor: a map of tag and last_seen.
VisitorSize(v) ==
    HeadSize(2) + NameSize + HeadSize(v.tag) + NameSize + HeadSize(v.last_seen)

\* StoredCountEntry: a map of one array.
EntrySize(count) == HeadSize(1) + NameSize + HeadSize(count)

\* The visitors that the cull of prune_visitors leaves.
Kept(l) ==
    IF Len(Lists[l]) > MAX_RECENT_VISITORS THEN MAX_RECENT_VISITORS
    ELSE Len(Lists[l])

\* What the table counts of an item besides the bytes of the list: the attributes
\* "key" with the counter's name, "count" with at most 11 bytes for a number of 64
\* bits, and the name "value".
NonValueSize == (3 + NAME_LENGTH) + (5 + 11) + 5

-----------------------------------------------------------------------------
(* to_cbor *)

Init ==
    /\ list \in DOMAIN Lists
    /\ kept = Kept(list)
    /\ written = 0
    /\ bytes = EntrySize(kept)

WriteVisitor ==
    /\ written < kept
    /\ written' = written + 1
    /\ bytes' = bytes + VisitorSize(Lists[list][written + 1])
    /\ UNCHANGED <<list, kept>>

Spec == Init /\ [][WriteVisitor]_vars

-----------------------------------------------------------------------------
(* Properties *)

\* The item can be put, however many visitors came and whatever their tags and
\* times are: what is reserved for the key and the count is enough, and the value
\* with its heads, for which the bound on the list makes no allowance, still fits
\* in what is left.
ItemFits ==
    /\ bytes <= DYNAMO_MAX_ITEM_SIZE_BYTES - RESERVED_NON_VALUE_SIZE_BYTES
    /\ bytes + NonValueSize <= DYNAMO_MAX_ITEM_SIZE_BYTES
=============================================================================
