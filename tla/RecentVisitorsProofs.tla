------------------------ MODULE RecentVisitorsProofs ------------------------
(***************************************************************************)
(* Lemmas about the operations on the list of recent visitors, for any     *)
(* list, any visitor and any time.                                         *)
(***************************************************************************)
EXTENDS RecentVisitors, FiniteSetTheorems, TLAPS

-----------------------------------------------------------------------------
(* Types *)

\* A tick count has a second.
LEMMA DivNat ==
    ASSUME NEW t \in Nat
    PROVE  t \div TICKS_PER_SEC \in Nat
BY TicksAssumption, SMT

\* A second has a tick count.
LEMMA TimesNat ==
    ASSUME NEW s \in Nat
    PROVE  s * TICKS_PER_SEC \in Nat
BY TicksAssumption, SMT

\* The conversions of a whole entry return an entry.
LEMMA StoredType ==
    ASSUME NEW entry \in CountEntry
    PROVE  StoredEntry(entry) \in CountEntry
BY DivNat DEF StoredEntry, ToStored, CountEntry, Visitor

LEMMA LoadedType ==
    ASSUME NEW stored \in CountEntry
    PROVE  LoadedEntry(stored) \in CountEntry
BY TimesNat DEF LoadedEntry, FromStored, CountEntry, Visitor

\* The loop body keeps the type of the entry, and adds at most one to its count.
LEMMA UpdatedType ==
    ASSUME NEW entry \in CountEntry, NEW visitor \in Visitor, NEW t \in Nat,
           NEW updated \in UpdatedEntries(entry, visitor, t)
    PROVE  /\ updated \in CountEntry
           /\ updated.count = RecordVisit(entry, visitor, t).count
           /\ updated.count \in {entry.count, entry.count + 1}
<1> DEFINE recorded == RecordVisit(entry, visitor, t)
<1>1. /\ recorded \in CountEntry
      /\ recorded.count \in {entry.count, entry.count + 1}
  BY DEF RecordVisit, FindRecent, CountEntry, Visitor
<1>2. \A kept \in PruneVisitors(recorded.recent_visitors, t, MAX_RECENT_VISITORS) :
         kept \subseteq recorded.recent_visitors
  BY DEF PruneVisitors
<1>3. PICK kept \in PruneVisitors(recorded.recent_visitors, t, MAX_RECENT_VISITORS) :
         updated = [count |-> recorded.count, recent_visitors |-> kept]
  BY DEF UpdatedEntries
<1> HIDE DEF recorded
<1>4. kept \subseteq Visitor
  BY <1>1, <1>2 DEF CountEntry
<1>5. recorded.count \in Nat
  BY <1>1 DEF CountEntry
<1> QED
  BY <1>1, <1>3, <1>4, <1>5 DEF CountEntry, recorded

-----------------------------------------------------------------------------
(* Arithmetic of ticks and seconds *)

\* Ticks grow with seconds, and what lasts for some seconds has as many of them.
LEMMA TicksGrow ==
    ASSUME NEW a \in Nat, NEW b \in Nat, a <= b
    PROVE  a * TICKS_PER_SEC <= b * TICKS_PER_SEC
BY TicksAssumption, SMT

LEMMA SecondsIn ==
    ASSUME NEW t \in Nat, NEW b \in Nat, b * TICKS_PER_SEC <= t
    PROVE  b <= t \div TICKS_PER_SEC
BY TicksAssumption, SMT

LEMMA SecondBegins ==
    ASSUME NEW t \in Nat
    PROVE  (t \div TICKS_PER_SEC) * TICKS_PER_SEC <= t
BY TicksAssumption, SMT

LEMMA SecondsGrow ==
    ASSUME NEW s \in Nat, NEW t \in Nat, s <= t
    PROVE  s \div TICKS_PER_SEC <= t \div TICKS_PER_SEC
BY TicksAssumption, SMT

LEMMA SecondsKept ==
    ASSUME NEW s \in Nat
    PROVE  (s * TICKS_PER_SEC) \div TICKS_PER_SEC = s
BY TicksAssumption, SMT

\* The cutoff is longer than an instant.
LEMMA CutoffPositive == RECENT_CUTOFF * TICKS_PER_SEC \in Nat \ {0}
BY TicksAssumption, CutoffAssumption, SMT

-----------------------------------------------------------------------------
(* Lists that the item can hold *)

\* An image of a list under a conversion that keeps the tags is as good.
LEMMA ConvertedGood ==
    ASSUME NEW visitors, GoodList(visitors), NEW converted,
           NEW f \in [visitors -> converted],
           \A c \in converted : \E v \in visitors : c = f[v],
           \A v \in visitors : f[v].tag = v.tag
    PROVE  GoodList(converted)
<1>1. f \in Surjection(visitors, converted)
  BY DEF Surjection
<1>2. IsFiniteSet(converted) /\ Cardinality(converted) <= Cardinality(visitors)
  BY <1>1, FS_Surjection DEF GoodList
<1>3. Cardinality(converted) \in Nat /\ Cardinality(visitors) \in Nat
  BY <1>2, FS_CardinalityType DEF GoodList
<1>4. UniqueTags(converted)
  BY DEF GoodList, UniqueTags
<1> QED
  BY <1>2, <1>3, <1>4, MaxRecentAssumption DEF GoodList

LEMMA StoredGood ==
    ASSUME NEW entry, GoodList(entry.recent_visitors)
    PROVE  GoodList(StoredEntry(entry).recent_visitors)
<1> DEFINE visitors == entry.recent_visitors
           converted == {ToStored(v) : v \in visitors}
           f == [v \in visitors |-> ToStored(v)]
<1>1. /\ f \in [visitors -> converted]
      /\ \A c \in converted : \E v \in visitors : c = f[v]
      /\ \A v \in visitors : f[v].tag = v.tag
  BY DEF ToStored
<1>2. GoodList(converted)
  BY <1>1, ConvertedGood
<1> QED
  BY <1>2 DEF StoredEntry

LEMMA LoadedGood ==
    ASSUME NEW stored, GoodList(stored.recent_visitors)
    PROVE  GoodList(LoadedEntry(stored).recent_visitors)
<1> DEFINE visitors == stored.recent_visitors
           converted == {FromStored(v) : v \in visitors}
           f == [v \in visitors |-> FromStored(v)]
<1>1. /\ f \in [visitors -> converted]
      /\ \A c \in converted : \E v \in visitors : c = f[v]
      /\ \A v \in visitors : f[v].tag = v.tag
  BY DEF FromStored
<1>2. GoodList(converted)
  BY <1>1, ConvertedGood
<1> QED
  BY <1>2 DEF LoadedEntry

\* A list of one visitor.
LEMMA SingletonGood ==
    ASSUME NEW v
    PROVE  GoodList({v})
<1>1. IsFiniteSet({v}) /\ Cardinality({v}) = 1
  BY FS_Singleton
<1> QED
  BY <1>1, MaxRecentAssumption DEF GoodList, UniqueTags

\* Recording a visit keeps the tags unique among the entries that the pruning
\* keeps: a push adds a second entry only for a visitor whose first has expired.
LEMMA RecordedUnique ==
    ASSUME NEW entry, UniqueTags(entry.recent_visitors), NEW visitor, NEW t,
           NEW recorded, recorded = RecordVisit(entry, visitor, t),
           NEW v \in recorded.recent_visitors, NEW w \in recorded.recent_visitors,
           SeenRecently(v, t), SeenRecently(w, t), v.tag = w.tag
    PROVE  v = w
<1> DEFINE visitors == entry.recent_visitors
           recent == FindRecent(visitors, visitor, t)
           refreshed == [tag |-> visitor.tag, last_seen |-> t]
<1>1. \A x \in visitors : x.tag = visitor.tag /\ SeenRecently(x, t) <=> x \in recent
  BY DEF FindRecent
<1>2. \A x, y \in visitors : x.tag = y.tag => x = y
  BY DEF UniqueTags
<1>3. CASE recent # {}
  <2>1. PICK r \in visitors : r.tag = visitor.tag /\ r \in recent
    BY <1>3 DEF FindRecent
  <2>2. recorded.recent_visitors = (visitors \ recent) \cup {refreshed}
    BY <1>3 DEF RecordVisit
  <2>3. \A x \in visitors \ recent : x.tag # visitor.tag
    BY <2>1, <1>2
  <2>4. refreshed.tag = visitor.tag
    OBVIOUS
  <2> HIDE DEF refreshed, recent
  <2> QED
    BY <1>2, <2>2, <2>3, <2>4
<1>4. CASE recent = {}
  <2>1. recorded.recent_visitors = visitors \cup {visitor}
    BY <1>4 DEF RecordVisit
  <2>2. \A x \in visitors : x.tag = visitor.tag => ~SeenRecently(x, t)
    BY <1>1, <1>4
  <2> HIDE DEF recent
  <2> QED
    BY <1>2, <2>1, <2>2
<1> QED
  BY <1>3, <1>4

LEMMA RecordedFinite ==
    ASSUME NEW entry, IsFiniteSet(entry.recent_visitors), NEW visitor, NEW t
    PROVE  IsFiniteSet(RecordVisit(entry, visitor, t).recent_visitors)
<1> DEFINE visitors == entry.recent_visitors
           recent == FindRecent(visitors, visitor, t)
<1>1. IsFiniteSet(visitors \ recent)
  BY FS_Subset
<1>2. \A x : IsFiniteSet((visitors \ recent) \cup {x}) /\ IsFiniteSet(visitors \cup {x})
  BY <1>1, FS_AddElement
<1> QED
  BY <1>2 DEF RecordVisit

\* The loop body makes a list that the item can hold from one that it held.
LEMMA UpdatedGood ==
    ASSUME NEW entry, GoodList(entry.recent_visitors), NEW visitor, NEW t,
           NEW updated \in UpdatedEntries(entry, visitor, t)
    PROVE  GoodList(updated.recent_visitors)
<1> DEFINE recorded == RecordVisit(entry, visitor, t)
           kept == {v \in recorded.recent_visitors : SeenRecently(v, t)}
<1>1. UniqueTags(kept)
  <2>1. UniqueTags(entry.recent_visitors)
    BY DEF GoodList
  <2>2. \A v, w \in kept : v.tag = w.tag => v = w
    BY <2>1, RecordedUnique
  <2> QED
    BY <2>2 DEF UniqueTags
<1>2. IsFiniteSet(recorded.recent_visitors)
  BY RecordedFinite DEF GoodList
<1>3. IsFiniteSet(kept)
  BY <1>2, FS_Subset
<1>4. updated.recent_visitors \in PruneVisitors(recorded.recent_visitors, t,
                                                 MAX_RECENT_VISITORS)
  BY DEF UpdatedEntries
<1>5. /\ updated.recent_visitors \subseteq kept
      /\ \/ updated.recent_visitors = kept /\ Cardinality(kept) <= MAX_RECENT_VISITORS
         \/ Cardinality(updated.recent_visitors) = MAX_RECENT_VISITORS
  <2> HIDE DEF recorded
  <2> QED
    BY <1>4 DEF PruneVisitors
<1>6. IsFiniteSet(updated.recent_visitors)
  BY <1>3, <1>5, FS_Subset
<1> HIDE DEF kept
<1>7. Cardinality(updated.recent_visitors) <= MAX_RECENT_VISITORS
  BY <1>5, MaxRecentAssumption
<1> QED
  BY <1>1, <1>5, <1>6, <1>7 DEF GoodList, UniqueTags

-----------------------------------------------------------------------------
(* What a list remembers *)

\* The list is full of entries of other visitors, none of them earlier than v.
FullOfLater(visitors, v) ==
    /\ Cardinality(visitors) = MAX_RECENT_VISITORS
    /\ \A u \in visitors : u.tag # v.tag /\ u.last_seen >= v.last_seen

\* A recorded entry that has not expired survives the pruning, unless the cull keeps
\* a list full of others as late.
LEMMA KeptOrCulled ==
    ASSUME NEW entry \in CountEntry, UniqueTags(entry.recent_visitors),
           NEW visitor \in Visitor, NEW t \in Nat,
           NEW updated \in UpdatedEntries(entry, visitor, t),
           NEW v \in RecordVisit(entry, visitor, t).recent_visitors, SeenRecently(v, t)
    PROVE  v \in updated.recent_visitors \/ FullOfLater(updated.recent_visitors, v)
<1> DEFINE recorded == RecordVisit(entry, visitor, t)
           kept == {w \in recorded.recent_visitors : SeenRecently(w, t)}
<1>1. \A w \in kept : w.tag = v.tag => w = v
  BY RecordedUnique
<1>2. v \in kept
  OBVIOUS
<1>3. updated.recent_visitors \in PruneVisitors(recorded.recent_visitors, t,
                                                 MAX_RECENT_VISITORS)
  BY DEF UpdatedEntries
<1>4. \/ updated.recent_visitors = kept
      \/ /\ updated.recent_visitors \subseteq kept
         /\ Cardinality(updated.recent_visitors) = MAX_RECENT_VISITORS
         /\ \A u \in updated.recent_visitors, w \in kept \ updated.recent_visitors :
               u.last_seen >= w.last_seen
  <2> HIDE DEF recorded
  <2> QED
    BY <1>3 DEF PruneVisitors
<1> HIDE DEF kept
<1> QED
  BY <1>1, <1>2, <1>4 DEF FullOfLater

\* So an entry that has not expired is still there after the loop body, as late as
\* it was, unless the list is full of others as late.
LEMMA UpdatedRemembers ==
    ASSUME NEW entry \in CountEntry, UniqueTags(entry.recent_visitors),
           NEW visitor \in Visitor, NEW t \in Nat,
           NEW updated \in UpdatedEntries(entry, visitor, t),
           NEW w \in entry.recent_visitors, w.last_seen <= t, SeenRecently(w, t)
    PROVE  \/ \E u \in updated.recent_visitors :
                 u.tag = w.tag /\ u.last_seen >= w.last_seen
           \/ FullOfLater(updated.recent_visitors, w)
<1> DEFINE recorded == RecordVisit(entry, visitor, t)
           recent == FindRecent(entry.recent_visitors, visitor, t)
           refreshed == [tag |-> visitor.tag, last_seen |-> t]
<1>1. \A v \in recorded.recent_visitors : SeenRecently(v, t) =>
         v \in updated.recent_visitors \/ FullOfLater(updated.recent_visitors, v)
  BY KeptOrCulled
<1>2. w.last_seen \in Nat
  BY DEF CountEntry, Visitor
<1>3. \A u \in updated.recent_visitors : u.last_seen \in Nat
  BY UpdatedType DEF CountEntry, Visitor
<1>4. CASE w \in recent
  <2>1. w.tag = visitor.tag
    BY <1>4 DEF FindRecent
  <2>2. refreshed \in recorded.recent_visitors
    BY <1>4 DEF RecordVisit
  <2>3. SeenRecently(refreshed, t)
    BY CutoffPositive DEF SeenRecently
  <2>4. refreshed.tag = visitor.tag /\ refreshed.last_seen = t
    OBVIOUS
  <2> HIDE DEF refreshed, recorded
  <2>5. CASE refreshed \in updated.recent_visitors
    BY <2>1, <2>4, <2>5
  <2>6. CASE FullOfLater(updated.recent_visitors, refreshed)
    BY <1>2, <1>3, <2>1, <2>4, <2>6 DEF FullOfLater
  <2> QED
    BY <1>1, <2>2, <2>3, <2>5, <2>6
<1>5. CASE w \notin recent
  <2>1. w \in recorded.recent_visitors
    BY <1>5 DEF RecordVisit
  <2> HIDE DEF recorded
  <2> QED
    BY <1>1, <1>2, <2>1
<1> QED
  BY <1>4, <1>5

\* The loop body leaves an entry for the visitor itself, as late as its visit, unless
\* the list is full of others as late.
LEMMA UpdatedHasVisitor ==
    ASSUME NEW entry \in CountEntry, UniqueTags(entry.recent_visitors),
           NEW visitor \in Visitor, NEW t \in Nat,
           NEW updated \in UpdatedEntries(entry, visitor, t),
           visitor.last_seen <= t, SeenRecently(visitor, t)
    PROVE  \/ \E u \in updated.recent_visitors :
                 u.tag = visitor.tag /\ u.last_seen >= visitor.last_seen
           \/ FullOfLater(updated.recent_visitors, visitor)
<1> DEFINE recorded == RecordVisit(entry, visitor, t)
           recent == FindRecent(entry.recent_visitors, visitor, t)
           refreshed == [tag |-> visitor.tag, last_seen |-> t]
<1>1. \A v \in recorded.recent_visitors : SeenRecently(v, t) =>
         v \in updated.recent_visitors \/ FullOfLater(updated.recent_visitors, v)
  BY KeptOrCulled
<1>2. visitor.last_seen \in Nat
  BY DEF Visitor
<1>3. \A u \in updated.recent_visitors : u.last_seen \in Nat
  BY UpdatedType DEF CountEntry, Visitor
<1>4. CASE recent # {}
  <2>1. refreshed \in recorded.recent_visitors
    BY <1>4 DEF RecordVisit
  <2>2. SeenRecently(refreshed, t)
    BY CutoffPositive DEF SeenRecently
  <2>3. refreshed.tag = visitor.tag /\ refreshed.last_seen = t
    OBVIOUS
  <2> HIDE DEF refreshed, recorded
  <2>4. CASE refreshed \in updated.recent_visitors
    BY <2>3, <2>4
  <2>5. CASE FullOfLater(updated.recent_visitors, refreshed)
    BY <1>2, <1>3, <2>3, <2>5 DEF FullOfLater
  <2> QED
    BY <1>1, <2>1, <2>2, <2>4, <2>5
<1>5. CASE recent = {}
  <2>1. visitor \in recorded.recent_visitors
    BY <1>5 DEF RecordVisit
  <2> HIDE DEF recorded
  <2> QED
    BY <1>1, <1>2, <2>1
<1> QED
  BY <1>4, <1>5

\* An entry after the loop body is one that was there, or that of the visit.
LEMMA UpdatedFrom ==
    ASSUME NEW entry, NEW visitor, NEW t,
           NEW updated \in UpdatedEntries(entry, visitor, t),
           NEW u \in updated.recent_visitors
    PROVE  \/ u \in entry.recent_visitors
           \/ u = visitor
           \/ u.tag = visitor.tag /\ u.last_seen = t
<1> DEFINE recorded == RecordVisit(entry, visitor, t)
<1>1. u \in recorded.recent_visitors
  <2> HIDE DEF recorded
  <2>1. updated.recent_visitors \in PruneVisitors(recorded.recent_visitors, t,
                                                   MAX_RECENT_VISITORS)
    BY DEF UpdatedEntries, recorded
  <2> QED
    BY <2>1 DEF PruneVisitors
<1> QED
  BY <1>1 DEF RecordVisit

\* A visit is counted only if no entry of the visitor is recent.
LEMMA CountedUnseen ==
    ASSUME NEW entry \in CountEntry, NEW visitor \in Visitor, NEW t \in Nat,
           RecordVisit(entry, visitor, t).count # entry.count,
           NEW w \in entry.recent_visitors, w.tag = visitor.tag
    PROVE  ~SeenRecently(w, t)
BY DEF RecordVisit, FindRecent
=============================================================================
