--------------------------- MODULE ItemSizeProofs ----------------------------
(***************************************************************************)
(* The proof that the item of ItemSize can be put, for all lists.          *)
(***************************************************************************)
EXTENDS ItemSize, SequenceTheorems, TLAPS

\* As many bytes for each visitor that was written, and 6 for the heads before
\* them: 6 is what the division of MAX_RECENT_VISITORS leaves over.
SizeInv ==
    /\ list \in DOMAIN Lists
    /\ kept = Kept(list)
    /\ written \in 0..kept
    /\ bytes \in Nat
    /\ bytes <= 6 + SIZE_SINGLE_VISITOR_BYTES * written

-----------------------------------------------------------------------------
\* 398,976 bytes are 26,598 times 15 and 6.
LEMMA MaxVisitors == MAX_RECENT_VISITORS = 26598
BY SMT DEF MAX_RECENT_VISITORS, DYNAMO_MAX_ITEM_SIZE_BYTES,
       RESERVED_NON_VALUE_SIZE_BYTES, SIZE_SINGLE_VISITOR_BYTES

\* A head has at most 5 bytes, and that of the longest array 3.
LEMMA HeadSizes ==
    ASSUME NEW n \in Nat
    PROVE  /\ HeadSize(n) \in 1..5
           /\ n < 65536 => HeadSize(n) <= 3
           /\ n < 24 => HeadSize(n) = 1
BY DEF HeadSize

\* A visitor takes at most the 15 bytes of the constant.
LEMMA VisitorFits ==
    ASSUME NEW v \in [tag : Nat, last_seen : Nat]
    PROVE  VisitorSize(v) \in 0..SIZE_SINGLE_VISITOR_BYTES
<1>1. v.tag \in Nat /\ v.last_seen \in Nat
  OBVIOUS
<1>2. HeadSize(2) = 1 /\ HeadSize(v.tag) \in 1..5 /\ HeadSize(v.last_seen) \in 1..5
  BY <1>1, HeadSizes
<1> QED BY <1>2 DEF VisitorSize, NameSize, SIZE_SINGLE_VISITOR_BYTES

\* The cull leaves a part of the list that is no longer than the constant says.
LEMMA KeptFits ==
    ASSUME NEW l \in DOMAIN Lists
    PROVE  /\ Kept(l) \in Nat
           /\ Kept(l) <= 26598
           /\ Kept(l) <= Len(Lists[l])
<1>1. Len(Lists[l]) \in Nat
  BY ListsAssumption
<1> QED BY SMT, <1>1, MaxVisitors DEF Kept

LEMMA InitSize == Init => SizeInv
<1> SUFFICES ASSUME Init PROVE SizeInv
  OBVIOUS
<1>1. kept \in Nat /\ kept <= 26598 /\ kept = Kept(list) /\ list \in DOMAIN Lists
  BY KeptFits DEF Init
<1>2. HeadSize(1) = 1 /\ HeadSize(kept) \in 1..3
  BY <1>1, HeadSizes
<1>3. bytes = 1 + 2 + HeadSize(kept) /\ written = 0
  BY <1>2 DEF Init, EntrySize, NameSize
<1> QED BY SMT, <1>1, <1>2, <1>3 DEF SizeInv, SIZE_SINGLE_VISITOR_BYTES

LEMMA StepSize == SizeInv /\ [WriteVisitor]_vars => SizeInv'
<1> SUFFICES ASSUME SizeInv, [WriteVisitor]_vars PROVE SizeInv'
  OBVIOUS
<1>1. CASE WriteVisitor
  <2>1. written \in Nat /\ written + 1 \in 1..kept /\ kept \in Nat
    BY <1>1, KeptFits DEF SizeInv, WriteVisitor
  <2>2. Lists[list] \in Seq([tag : Nat, last_seen : Nat]) /\ kept <= Len(Lists[list])
    BY ListsAssumption, KeptFits DEF SizeInv
  <2>3. Lists[list][written + 1] \in [tag : Nat, last_seen : Nat]
    <3>1. written + 1 \in 1..Len(Lists[list])
      BY <2>1, <2>2
    <3> QED BY <2>2, <3>1, ElementOfSeq
  <2>4. VisitorSize(Lists[list][written + 1]) \in 0..15
    BY <2>3, VisitorFits DEF SIZE_SINGLE_VISITOR_BYTES
  <2>5. /\ bytes' = bytes + VisitorSize(Lists[list][written + 1])
        /\ written' = written + 1 /\ list' = list /\ kept' = kept
    BY <1>1 DEF WriteVisitor
  <2> HIDE DEF VisitorSize
  <2> QED BY <2>1, <2>4, <2>5 DEF SizeInv, SIZE_SINGLE_VISITOR_BYTES
<1>2. CASE UNCHANGED vars
  BY <1>2 DEF SizeInv, vars
<1> QED BY <1>1, <1>2

LEMMA SizeImpliesFit == SizeInv => ItemFits
<1> SUFFICES ASSUME SizeInv PROVE ItemFits
  OBVIOUS
<1>1. written \in Nat /\ written <= 26598
  BY KeptFits DEF SizeInv
<1>2. bytes \in Nat /\ bytes <= 398976
  BY SMT, <1>1 DEF SizeInv, SIZE_SINGLE_VISITOR_BYTES
<1> QED BY SMT, <1>2, NameAssumption
        DEF ItemFits, NonValueSize, DYNAMO_MAX_ITEM_SIZE_BYTES,
            RESERVED_NON_VALUE_SIZE_BYTES

\* Whatever lists the counter's visits produce, the longest that the cull leaves can
\* be encoded and put: maybe_increment_visitors never fails on the size of the item.
THEOREM ItemFitsCorrect == Spec => []ItemFits
<1>1. Init => SizeInv
  BY InitSize
<1>2. SizeInv /\ [WriteVisitor]_vars => SizeInv'
  BY StepSize
<1>3. SizeInv => ItemFits
  BY SizeImpliesFit
<1> QED BY <1>1, <1>2, <1>3, PTL DEF Spec
=============================================================================
