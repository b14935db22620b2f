--------------------------- MODULE RecentVisitors ---------------------------
(***************************************************************************)
(* The recent visitors list of a counter and the pure operations of        *)
(* src/src/store.rs on it: the conversion to and from the stored form, the *)
(* lookup of a visitor, the pruning and the update that one visit makes.   *)
(*                                                                         *)
(* Time is counted in ticks since TIMESTAMP_OFFSET, TICKS_PER_SEC of them  *)
(* to a second: SystemTime keeps ticks, the stored form keeps seconds.     *)
(*                                                                         *)
(* The Vec of visitors is a set of records.  Its order decides two things  *)
(* in the code: which of two entries with the same tag the lookup finds    *)
(* (no list the program writes has two, see Store!TagsUnique) and which of *)
(* two visitors last seen in the same instant the cull drops (either, in   *)
(* this model).                                                            *)
(***************************************************************************)
EXTENDS Integers, FiniteSets

CONSTANTS
    Tags,                 \* the hashes of source IP and user agent
    TICKS_PER_SEC,        \* ticks of the system clock in a second
    RECENT_CUTOFF,        \* seconds until a visit is no longer recent
    MAX_RECENT_VISITORS   \* entries that fit in the item

ASSUME TicksAssumption == TICKS_PER_SEC \in Nat \ {0}
ASSUME CutoffAssumption == RECENT_CUTOFF \in Nat \ {0}
ASSUME MaxRecentAssumption == MAX_RECENT_VISITORS \in Nat \ {0}

-----------------------------------------------------------------------------
(* Visitors in memory, and as stored *)

\* A visitor in memory (last_seen in ticks) or in the item (in seconds).
Visitor == [tag: Tags, last_seen: Nat]

\* CountEntry in memory, and the attributes of the item.
CountEntry == [count: Nat, recent_visitors: SUBSET Visitor]

\* Mutant: the offset is taken off twice, as if last_seen were still absolute.
ToStoredOffsetTwice(v) ==
    [tag |-> v.tag, last_seen |-> v.last_seen \div TICKS_PER_SEC - RECENT_CUTOFF]

\* impl From<Visitor> for StoredVisitor: as_secs() drops what is below a second.
ToStored(v) == [tag |-> v.tag, last_seen |-> v.last_seen \div TICKS_PER_SEC]

\* Mutant: the stored seconds are taken for ticks.
FromStoredInSeconds(v) == v

\* impl From<StoredVisitor> for Visitor.
FromStored(v) == [tag |-> v.tag, last_seen |-> v.last_seen * TICKS_PER_SEC]

\* The item written for a CountEntry: impl From<&CountEntry> for StoredCountEntry
\* and the item attributes of try_put_count_entry.
StoredEntry(entry) ==
    [count |-> entry.count,
     recent_visitors |-> {ToStored(v) : v \in entry.recent_visitors}]

\* The CountEntry that get_count_entry makes of an item.
LoadedEntry(stored) ==
    [count |-> stored.count,
     recent_visitors |-> {FromStored(v) : v \in stored.recent_visitors}]

-----------------------------------------------------------------------------
(* The lists that the program writes *)

\* No two entries for one visitor.
UniqueTags(visitors) == \A v, w \in visitors : v.tag = w.tag => v = w

\* No more entries than the item can hold.
GoodList(visitors) ==
    /\ UniqueTags(visitors)
    /\ IsFiniteSet(visitors)
    /\ Cardinality(visitors) <= MAX_RECENT_VISITORS

-----------------------------------------------------------------------------
(* The operations on the list *)

\* Visitors are asked for recency at two places, the lookup and the pruning.
SeenRecently(v, now) == now - v.last_seen < RECENT_CUTOFF * TICKS_PER_SEC

\* now.duration_since(v.last_seen) is an error, and the .expect on it panics, for
\* an entry from the future.  The lookup evaluates it for the entry it finds, the
\* pruning for every entry that is left: between them, for the whole list.
SomeSeenAfter(visitors, now) == \E v \in visitors : v.last_seen > now

\* find_recent_mut
FindRecent(visitors, visitor, now) ==
    {v \in visitors : v.tag = visitor.tag /\ SeenRecently(v, now)}

\* Mutant: the pruning keeps what the lookup no longer finds.
PruneKeepsBoundary(visitors, now, max_recent) ==
    {{v \in visitors : now - v.last_seen <= RECENT_CUTOFF * TICKS_PER_SEC}}

\* Mutant: the list is not culled.
PruneNeverCulls(visitors, now, max_recent) ==
    {{v \in visitors : SeenRecently(v, now)}}

\* Mutant: the list is sorted in ascending order.
PruneCullsLatest(visitors, now, max_recent) ==
    LET kept == {v \in visitors : SeenRecently(v, now)}
    IN  IF Cardinality(kept) <= max_recent
        THEN {kept}
        ELSE {s \in SUBSET kept :
                /\ Cardinality(s) = max_recent
                /\ \A v \in s, w \in kept \ s : v.last_seen <= w.last_seen}

\* prune_visitors: what the list may be afterwards.
PruneVisitors(visitors, now, max_recent) ==
    LET kept == {v \in visitors : SeenRecently(v, now)}
    IN  IF Cardinality(kept) <= max_recent
        THEN {kept}
        ELSE {s \in SUBSET kept :
                /\ Cardinality(s) = max_recent
                /\ \A v \in s, w \in kept \ s : v.last_seen >= w.last_seen}

\* Mutant: a new visitor is counted but not pushed.
RecordForgetsVisitor(entry, visitor, now) ==
    LET recent == FindRecent(entry.recent_visitors, visitor, now)
    IN  [entry EXCEPT !.count = IF recent = {} THEN @ + 1 ELSE @]

\* Mutant: the recent entry is refreshed and the visit is counted all the same.
RecordCountsAlways(entry, visitor, now) ==
    LET recent == FindRecent(entry.recent_visitors, visitor, now)
    IN  [count |-> entry.count + 1,
         recent_visitors |->
            (entry.recent_visitors \ recent) \cup {[tag |-> visitor.tag, last_seen |-> now]}]

\* The visit itself: refresh the recent entry, or push the visitor and count it.
RecordVisit(entry, visitor, now) ==
    LET recent == FindRecent(entry.recent_visitors, visitor, now)
    IN  IF recent # {}
        THEN [count |-> entry.count,
              recent_visitors |->
                 (entry.recent_visitors \ recent)
                    \cup {[tag |-> visitor.tag, last_seen |-> now]}]
        ELSE [count |-> entry.count + 1,
              recent_visitors |-> entry.recent_visitors \cup {visitor}]

\* The loop body of maybe_increment_visitors between the load and the put.
UpdatedEntries(entry, visitor, now) ==
    LET recorded == RecordVisit(entry, visitor, now)
    IN  {[count |-> recorded.count, recent_visitors |-> kept] :
            kept \in PruneVisitors(recorded.recent_visitors, now,
                                   MAX_RECENT_VISITORS)}
=============================================================================
