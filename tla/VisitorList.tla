----------------------------- MODULE VisitorList -----------------------------
(***************************************************************************)
(* The recent visitors list of src/src/store.rs as the Vec that it is, and *)
(* the absolute time it is kept in: visits of one counter, one after the   *)
(* other, by hosts whose clocks need not agree.                            *)
(*                                                                         *)
(* Times in memory are ticks since the Unix epoch.  The clock is that of   *)
(* the host at work: it goes back when it is set, and when a host that is  *)
(* behind takes over.  Whether a visit counts is in its result, the count  *)
(* itself is left out.                                                     *)
(***************************************************************************)
EXTENDS Integers, Sequences, FiniteSets

CONSTANTS
    Tags,                 \* the hashes of source IP and user agent
    TICKS_PER_SEC,        \* ticks of the system clock in a second
    RECENT_CUTOFF,        \* seconds until a visit is no longer recent
    MAX_RECENT_VISITORS,  \* entries that fit in the item
    TIMESTAMP_OFFSET,     \* the second from which stored times count
    U32_MAX,              \* the largest stored time
    MaxSkew,              \* the ticks that a clock goes back at a time
    MaxClock              \* bound: the last tick of the model's clock

ASSUME TicksAssumption == TICKS_PER_SEC \in Nat \ {0}
ASSUME CutoffAssumption == RECENT_CUTOFF \in Nat
ASSUME MaxRecentAssumption == MAX_RECENT_VISITORS \in Nat
ASSUME OffsetAssumption == TIMESTAMP_OFFSET \in Nat
ASSUME U32Assumption == U32_MAX \in Nat
ASSUME MaxClockAssumption == MaxClock \in Nat

VARIABLES
    clock,     \* the system clock of the host at work
    latest,    \* history: the latest that any clock has been
    exists,    \* whether the counter has an item
    stored,    \* the stored list: the visitors with their seconds
    visitor,   \* the visitor of the request at work, or NoVisitor
    result     \* how the last visit ended

vars == <<clock, latest, exists, stored, visitor, result>>

NoVisitor == [tag |-> "none", last_seen |-> 0]

-----------------------------------------------------------------------------
(* The stored form *)

\* Mutant: u32::try_from is `as u32`, which wraps.
StorableIfAfterOffset(v) == v.last_seen \div TICKS_PER_SEC >= TIMESTAMP_OFFSET

\* The expects of From<Visitor> for StoredVisitor hold: the time is neither before
\* TIMESTAMP_OFFSET (nor the epoch) nor more than 32 bits of seconds after it.
Storable(v) == v.last_seen \div TICKS_PER_SEC - TIMESTAMP_OFFSET \in 0..U32_MAX

\* Mutant: the offset is not taken off.
ToStoredSinceEpoch(v) == [v EXCEPT !.last_seen = @ \div TICKS_PER_SEC]

ToStored(v) ==
    [v EXCEPT !.last_seen =
        (@ \div TICKS_PER_SEC - TIMESTAMP_OFFSET) % (U32_MAX + 1)]

\* Mutant: a visitor is taken to have been seen at the end of the stored second.
FromStoredRoundedUp(v) ==
    [v EXCEPT !.last_seen = (TIMESTAMP_OFFSET + @ + 1) * TICKS_PER_SEC]

FromStored(v) == [v EXCEPT !.last_seen = (TIMESTAMP_OFFSET + @) * TICKS_PER_SEC]

\* A conversion of the whole Vec, in its order.
Load(visitors) == [k \in DOMAIN visitors |-> FromStored(visitors[k])]
Save(visitors) == [k \in DOMAIN visitors |-> ToStored(visitors[k])]

-----------------------------------------------------------------------------
(* The operations on the list *)

SeenRecently(v, now) == now - v.last_seen < RECENT_CUTOFF * TICKS_PER_SEC

\* Mutant: the time of the entry must be before now.
SeenAtOrAfter(v, now) == v.last_seen >= now

\* now.duration_since(last_seen) is an error, and expect panics.
SeenAfter(v, now) == v.last_seen > now

\* iter_mut().find(): the position of the first entry with the tag, if there is one.
FindTag(visitors, tag) ==
    {k \in DOMAIN visitors : /\ visitors[k].tag = tag
                             /\ \A j \in 1..k - 1 : visitors[j].tag # tag}

\* find_recent_mut
FindRecent(visitors, v, now) ==
    {k \in FindTag(visitors, v.tag) : SeenRecently(visitors[k], now)}

\* The visit: refresh the entry that is found, in its place, or push the visitor.
Record(visitors, v, now) ==
    LET recent == FindRecent(visitors, v, now)
    IN  IF recent # {}
        THEN [k \in DOMAIN visitors |->
                IF k \in recent THEN [visitors[k] EXCEPT !.last_seen = now]
                ELSE visitors[k]]
        ELSE Append(visitors, v)

\* The entries at the positions ks, in the order of before, a set of pairs of
\* positions: the p-th is the one that p - 1 others come before.
InOrder(ks, before) ==
    [p \in 1..Cardinality(ks) |->
        CHOOSE k \in ks : Cardinality({j \in ks : <<j, k>> \in before}) = p - 1]
Taken(visitors, ks, before) ==
    [p \in 1..Cardinality(ks) |-> visitors[InOrder(ks, before)[p]]]

Pairs(visitors) == (DOMAIN visitors) \X (DOMAIN visitors)

\* into_iter().filter().collect() keeps the order.
InPlace(visitors) == {p \in Pairs(visitors) : p[1] < p[2]}
Filtered(visitors, now) ==
    Taken(visitors, {k \in DOMAIN visitors : SeenRecently(visitors[k], now)},
          InPlace(visitors))

\* sort_by is stable, so that of two entries of one instant the first stays first.
LatestFirst(visitors) ==
    {p \in Pairs(visitors) :
        LET left  == visitors[p[1]].last_seen
            right == visitors[p[2]].last_seen
        IN  left > right \/ (left = right /\ p[1] < p[2])}

\* Mutant: the list is truncated as it is.
SortedNotAtAll(visitors) == visitors

SortedByLastSeen(visitors) ==
    Taken(visitors, DOMAIN visitors, LatestFirst(visitors))

\* Mutant: the filter keeps an entry at exactly the cutoff.
PruneKeepsBoundary(visitors, now) ==
    Taken(visitors,
          {k \in DOMAIN visitors :
             now - visitors[k].last_seen <= RECENT_CUTOFF * TICKS_PER_SEC},
          InPlace(visitors))

\* prune_visitors
Prune(visitors, now) ==
    LET kept == Filtered(visitors, now)
    IN  IF Len(kept) > MAX_RECENT_VISITORS
        THEN SubSeq(SortedByLastSeen(kept), 1, MAX_RECENT_VISITORS)
        ELSE kept

-----------------------------------------------------------------------------
(* Visits *)

Init ==
    /\ clock \in 0..MaxClock
    /\ latest = clock
    /\ exists = FALSE
    /\ stored = <<>>
    /\ visitor = NoVisitor
    /\ result = "none"

\* Visitor::from(&request_info)
Identify(t) ==
    /\ visitor = NoVisitor
    /\ visitor' = [tag |-> t, last_seen |-> clock]
    /\ UNCHANGED <<clock, latest, exists, stored, result>>

\* A visit that finds no item: try_put_new_count_entry.
CreateItem ==
    /\ visitor # NoVisitor
    /\ ~exists
    /\ \/ /\ Storable(visitor)
          /\ exists' = TRUE
          /\ stored' = <<ToStored(visitor)>>
          /\ result' = "counted"
       \/ /\ ~Storable(visitor)
          /\ result' = "panicked"
          /\ UNCHANGED <<exists, stored>>
    /\ visitor' = NoVisitor
    /\ UNCHANGED <<clock, latest>>

\* A visit that finds an item: the lookup, the pruning and the conversion panic, or
\* the new list is put.
UpdateItem ==
    LET loaded   == Load(stored)
        recorded == Record(loaded, visitor, clock)
        pruned   == Prune(recorded, clock)
        panics   ==
            \/ \E k \in FindTag(loaded, visitor.tag) : SeenAfter(loaded[k], clock)
            \/ \E k \in DOMAIN recorded : SeenAfter(recorded[k], clock)
            \/ \E k \in DOMAIN pruned : ~Storable(pruned[k])
    IN  /\ visitor # NoVisitor
        /\ exists
        /\ \/ /\ ~panics
              /\ stored' = Save(pruned)
              /\ result' = IF FindRecent(loaded, visitor, clock) = {}
                           THEN "counted" ELSE "refreshed"
           \/ /\ panics
              /\ result' = "panicked"
              /\ UNCHANGED stored
        /\ visitor' = NoVisitor
        /\ UNCHANGED <<clock, latest, exists>>

\* Time passes, or a clock that is behind is read next.
MoveClock ==
    /\ clock' \in (clock - MaxSkew..clock + 1) \cap (0..MaxClock)
    /\ latest' = IF clock' > latest THEN clock' ELSE latest
    /\ UNCHANGED <<exists, stored, visitor, result>>

Next ==
    \/ \E t \in Tags : Identify(t)
    \/ CreateItem
    \/ UpdateItem
    \/ MoveClock

Spec == Init /\ [][Next]_vars

-----------------------------------------------------------------------------
(* Properties *)

StoredVisitor == [tag : Tags, last_seen : 0..U32_MAX]
Results == {"none", "counted", "refreshed", "panicked"}

\* Every variable has its type: a stored time is a u32.
TypeOK ==
    /\ clock \in Nat
    /\ latest \in Nat
    /\ exists \in BOOLEAN
    /\ stored \in Seq(StoredVisitor)
    /\ visitor \in [tag : Tags, last_seen : Nat] \cup {NoVisitor}
    /\ result \in Results

AsSet(visitors) == {visitors[k] : k \in DOMAIN visitors}

\* No two places of a list have entries for one visitor.
UniqueList(visitors) ==
    \A j, k \in DOMAIN visitors : visitors[j].tag = visitors[k].tag => j = k

\* No time that is kept is later than all clocks have been.
TimesPassed ==
    /\ clock <= latest
    /\ visitor # NoVisitor => visitor.last_seen <= latest
    /\ \A v \in AsSet(Load(stored)) : v.last_seen <= latest

\* The stored Vec never has two entries for one visitor, although a visitor whose
\* entry has expired is pushed behind it, nor a time that no clock has shown.  (The
\* inductive invariant: with it, the first match is the only match.)
IInv == TypeOK /\ UniqueList(stored) /\ TimesPassed

Visited == visitor # NoVisitor /\ visitor' = NoVisitor

\* RecentVisitors keeps the list as a set, and its times from TIMESTAMP_OFFSET.
Set == INSTANCE RecentVisitors
SinceOffset(t) == t - TIMESTAMP_OFFSET * TICKS_PER_SEC
LoadedSet == Set!LoadedEntry([count |-> 1, recent_visitors |-> AsSet(stored)])

\* The Vec is what RecentVisitors makes of it: the first match, the refresh in place,
\* the filter and the cull by a stable sort leave the entries, and count the visit,
\* as UpdatedEntries says for the set of them, whatever the order they were in.
UpdateAsSet ==
    Visited /\ exists /\ result' # "panicked" =>
        [count |-> IF result' = "counted" THEN 2 ELSE 1,
         recent_visitors |-> AsSet(stored')] \in
            {Set!StoredEntry(updated) : updated \in
                Set!UpdatedEntries(LoadedSet,
                                   [visitor EXCEPT !.last_seen = SinceOffset(@)],
                                   SinceOffset(clock))}
UpdatesAsSet == [][UpdateAsSet]_vars

\* As long as no clock goes back between Visitor::from and now, and both times can
\* be stored, a visit panics exactly on an entry from the future: what Store says.
PanicAsSet ==
    /\ Visited /\ exists /\ visitor.last_seen <= clock
    /\ Storable(visitor) /\ Storable([visitor EXCEPT !.last_seen = clock])
    => (result' = "panicked" <=>
            Set!SomeSeenAfter(LoadedSet.recent_visitors, SinceOffset(clock)))
PanicsAsSet == [][PanicAsSet]_vars

\* What is stored of a visit is the second in which it happened: a time for which
\* the 32 bits do not suffice is never stored as another one.
StoredTimeTrue ==
    Visited /\ result' # "panicked" =>
        \A v \in AsSet(Load(stored')) :
            v.tag = visitor.tag =>
                \E t \in {visitor.last_seen, clock} :
                    v.last_seen <= t /\ t < v.last_seen + TICKS_PER_SEC
StoredTimesTrue == [][StoredTimeTrue]_vars

\* A clock that goes back stops a counter, for every visitor, until it has caught up;
\* then it is as if nothing had happened.  No visit panics at a time that can be
\* stored and is not before any that was read.
PanicExcused ==
    Visited /\ result' = "panicked" =>
        \/ clock < latest
        \/ ~Storable(visitor)
        \/ ~Storable([visitor EXCEPT !.last_seen = clock])
OutageEnds == [][PanicExcused]_vars
=============================================================================
