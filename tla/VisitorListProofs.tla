-------------------------- MODULE VisitorListProofs --------------------------
(***************************************************************************)
(* Proofs about VisitorList: that the Vec with its first match, its filter *)
(* and its stable sort does what RecentVisitors says of the set of its     *)
(* entries, when a visit panics, and what the stored times tell.           *)
(*                                                                         *)
(* The argument has three parts: taking entries in the order of a strict   *)
(* total order gives every one of them once; no list that is stored has    *)
(* two entries for one visitor or one later than all clocks have been; and *)
(* under these two the list is its set.                                    *)
(***************************************************************************)
EXTENDS VisitorList, FiniteSetTheorems, TLAPS

-----------------------------------------------------------------------------
(* Orders *)

StrictlyOrders(before, ks) ==
    /\ \A j \in ks : <<j, j>> \notin before
    /\ \A i, j, k \in ks : <<i, j>> \in before /\ <<j, k>> \in before
                              => <<i, k>> \in before
    /\ \A j, k \in ks : j = k \/ <<j, k>> \in before \/ <<k, j>> \in before

\* Those that come before k, and how many they are.
Down(ks, before, k) == {j \in ks : <<j, k>> \in before}
Rank(ks, before, k) == Cardinality(Down(ks, before, k))

LEMMA RankType ==
    ASSUME NEW ks, IsFiniteSet(ks), NEW before, StrictlyOrders(before, ks),
           NEW k \in ks
    PROVE  Rank(ks, before, k) \in 0 .. Cardinality(ks) - 1
<1> DEFINE down == Down(ks, before, k)
           rest == ks \ {k}
<1>1. down \subseteq rest
  BY DEF Down, StrictlyOrders
<1>2. IsFiniteSet(rest) /\ Cardinality(rest) = Cardinality(ks) - 1
  BY FS_RemoveElement
<1>3. IsFiniteSet(down) /\ Cardinality(down) <= Cardinality(rest)
  <2> HIDE DEF down, rest
  <2> QED
    BY <1>1, <1>2, FS_Subset
<1>4. Cardinality(down) \in Nat /\ Cardinality(ks) \in Nat
  BY <1>3, FS_CardinalityType
<1> QED
  BY <1>2, <1>3, <1>4 DEF Rank

LEMMA RankGrows ==
    ASSUME NEW ks, IsFiniteSet(ks), NEW before, StrictlyOrders(before, ks),
           NEW j \in ks, NEW k \in ks, <<j, k>> \in before
    PROVE  Rank(ks, before, j) < Rank(ks, before, k)
<1> DEFINE downJ == Down(ks, before, j)
           downK == Down(ks, before, k)
           more == downJ \cup {j}
<1>1. j \notin downJ /\ more \subseteq downK
  BY DEF Down, StrictlyOrders
<1>2. IsFiniteSet(downJ) /\ IsFiniteSet(downK)
  BY FS_Subset DEF Down
<1>3. Cardinality(more) = Cardinality(downJ) + 1
  <2> HIDE DEF downJ
  <2> QED
    BY <1>1, <1>2, FS_AddElement
<1>4. Cardinality(more) <= Cardinality(downK)
  <2> HIDE DEF downK, more
  <2> QED
    BY <1>1, <1>2, FS_Subset
<1>5. Cardinality(downJ) \in Nat /\ Cardinality(downK) \in Nat
  BY <1>2, FS_CardinalityType
<1> QED
  BY <1>3, <1>4, <1>5 DEF Rank

LEMMA RankUnique ==
    ASSUME NEW ks, IsFiniteSet(ks), NEW before, StrictlyOrders(before, ks),
           NEW j \in ks, NEW k \in ks, Rank(ks, before, j) = Rank(ks, before, k)
    PROVE  j = k
<1>1. Rank(ks, before, j) \in Int
  BY RankType
<1>2. <<j, k>> \notin before /\ <<k, j>> \notin before
  BY <1>1, RankGrows
<1> QED
  BY <1>2 DEF StrictlyOrders

\* Every rank is taken, because there are as many as positions.
LEMMA RankTaken ==
    ASSUME NEW ks, IsFiniteSet(ks), NEW before, StrictlyOrders(before, ks),
           NEW p \in 1 .. Cardinality(ks)
    PROVE  \E k \in ks : Rank(ks, before, k) = p - 1
<1> DEFINE ranks == 0 .. Cardinality(ks) - 1
           f == [k \in ks |-> Rank(ks, before, k)]
<1>1. f \in Injection(ks, ranks)
  <2>1. f \in [ks -> ranks]
    BY RankType
  <2>2. \A j, k \in ks : f[j] = f[k] => j = k
    BY RankUnique
  <2> QED
    BY <2>1, <2>2 DEF Injection, IsInjective
<1>2. Cardinality(ks) \in Nat
  BY FS_CardinalityType
<1>3. IsFiniteSet(ranks) /\ Cardinality(ranks) = Cardinality(ks)
  <2>1. PICK last \in Int : last = Cardinality(ks) - 1
    BY <1>2
  <2>2. IsFiniteSet(0 .. last) /\ Cardinality(0 .. last) = last + 1
    BY <1>2, <2>1, FS_Interval
  <2> QED
    BY <1>2, <2>1, <2>2
<1>4. f \in Surjection(ks, ranks)
  <2> HIDE DEF f, ranks
  <2> QED
    BY <1>1, <1>3, FS_Injection
<1>5. p - 1 \in ranks
  BY <1>2
<1> QED
  BY <1>4, <1>5 DEF Surjection

\* InOrder lists every position once, and in that order.
LEMMA InOrderLists ==
    ASSUME NEW ks, IsFiniteSet(ks), NEW before, StrictlyOrders(before, ks)
    PROVE  /\ InOrder(ks, before) \in [1 .. Cardinality(ks) -> ks]
           /\ \A k \in ks : \E p \in 1 .. Cardinality(ks) : InOrder(ks, before)[p] = k
           /\ \A p, q \in 1 .. Cardinality(ks) :
                 p < q => <<InOrder(ks, before)[p], InOrder(ks, before)[q]>> \in before
<1> DEFINE n == Cardinality(ks)
           rank(k) == Rank(ks, before, k)
           at(p) == CHOOSE k \in ks : rank(k) = p - 1
           f == InOrder(ks, before)
<1>5. f = [p \in 1 .. n |-> at(p)]
  BY DEF InOrder, Rank, Down
<1>1. \A p \in 1 .. n : f[p] \in ks /\ rank(f[p]) = p - 1
  <2> SUFFICES ASSUME NEW p \in 1 .. n PROVE f[p] \in ks /\ rank(f[p]) = p - 1
    OBVIOUS
  <2>1. f[p] = CHOOSE k \in ks : rank(k) = p - 1
    <3> HIDE DEF f, rank
    <3> QED
      BY <1>5
  <2>2. \E k \in ks : rank(k) = p - 1
    BY RankTaken
  <2> HIDE DEF f, rank
  <2> QED
    BY <2>1, <2>2
<1>2. f \in [1 .. n -> ks]
  <2> HIDE DEF f, at
  <2> QED
    BY <1>1, <1>5
<1>3. ASSUME NEW k \in ks PROVE \E p \in 1 .. n : f[p] = k
  <2>1. rank(k) + 1 \in 1 .. n
    <3>1. rank(k) \in 0 .. n - 1 /\ n \in Nat
      BY RankType, FS_CardinalityType
    <3> HIDE DEF rank, n
    <3> QED
      BY <3>1
  <2>2. rank(f[rank(k) + 1]) = rank(k)
    <3>1. rank(k) \in Int
      BY RankType
    <3> HIDE DEF rank, n, f
    <3> QED
      BY <1>1, <2>1, <3>1
  <2>3. f[rank(k) + 1] \in ks
    BY <1>1, <2>1
  <2> HIDE DEF f, n
  <2> QED
    BY <2>1, <2>2, <2>3, RankUnique
<1>4. ASSUME NEW p \in 1 .. n, NEW q \in 1 .. n, p < q
      PROVE  <<f[p], f[q]>> \in before
  <2>1. /\ f[p] \in ks /\ f[q] \in ks
        /\ rank(f[p]) = p - 1 /\ rank(f[q]) = q - 1
    BY <1>1
  <2>2. f[p] # f[q]
    <3> HIDE DEF f, rank, n
    <3> QED
      BY <1>4, <2>1
  <2>3. <<f[q], f[p]>> \notin before
    <3>1. <<f[q], f[p]>> \in before => rank(f[q]) < rank(f[p])
      <4> HIDE DEF f
      <4> QED
        BY <2>1, RankGrows
    <3> HIDE DEF f, rank, n
    <3> QED
      BY <1>4, <2>1, <3>1
  <2> HIDE DEF f
  <2> QED
    BY <2>1, <2>2, <2>3 DEF StrictlyOrders
<1> QED
  BY <1>2, <1>3, <1>4
-----------------------------------------------------------------------------
(* Lists *)

\* An entry in memory.
Entry == [tag : Tags, last_seen : Nat]

LEMMA ListDomain ==
    ASSUME NEW visitors \in Seq(Entry)
    PROVE  /\ DOMAIN visitors = 1 .. Len(visitors) /\ Len(visitors) \in Nat
           /\ IsFiniteSet(DOMAIN visitors) /\ Cardinality(DOMAIN visitors) = Len(visitors)
           /\ \A k \in DOMAIN visitors : visitors[k] \in Entry
<1>1. /\ DOMAIN visitors = 1 .. Len(visitors) /\ Len(visitors) \in Nat
      /\ \A k \in DOMAIN visitors : visitors[k] \in Entry
  OBVIOUS
<1> QED
  BY <1>1, FS_Interval

\* The places that the entries of a list come from, each of them once and in order.
ComesFrom(taken, f, visitors, ks, before) ==
    /\ f \in [1 .. Len(taken) -> ks]
    /\ \A p \in 1 .. Len(taken) : taken[p] = visitors[f[p]]
    /\ \A k \in ks : \E p \in 1 .. Len(taken) : f[p] = k
    /\ \A p, q \in 1 .. Len(taken) : p < q => <<f[p], f[q]>> \in before
    /\ \A p, q \in 1 .. Len(taken) : f[p] = f[q] => p = q

LEMMA TakenLists ==
    ASSUME NEW visitors \in Seq(Entry), NEW ks \in SUBSET DOMAIN visitors,
           NEW before, StrictlyOrders(before, ks),
           NEW taken, taken = Taken(visitors, ks, before)
    PROVE  /\ taken \in Seq(Entry) /\ Len(taken) = Cardinality(ks)
           /\ \E f : ComesFrom(taken, f, visitors, ks, before)
<1> DEFINE f == InOrder(ks, before)
<1>1. IsFiniteSet(ks)
  BY ListDomain, FS_Subset
<1>2. PICK n \in Nat : n = Cardinality(ks)
  BY <1>1, FS_CardinalityType
<1>3. /\ f \in [1 .. n -> ks]
      /\ \A k \in ks : \E p \in 1 .. n : f[p] = k
      /\ \A p, q \in 1 .. n : p < q => <<f[p], f[q]>> \in before
  BY <1>1, <1>2, InOrderLists
<1>4. taken = [p \in 1 .. n |-> visitors[f[p]]]
  BY <1>2 DEF Taken
<1> HIDE DEF f
<1>5. \A p, q \in 1 .. n : f[p] = f[q] => p = q
  <2>1. \A p, q \in 1 .. n : p < q => f[p] # f[q]
    BY <1>3 DEF StrictlyOrders
  <2> QED
    BY <2>1
<1>6. \A k \in ks : visitors[k] \in Entry
  BY ListDomain
<1>7. taken \in Seq(Entry) /\ Len(taken) = n
  BY <1>3, <1>4, <1>6
<1>8. \A p \in 1 .. n : taken[p] = visitors[f[p]]
  BY <1>4
<1>9. ComesFrom(taken, f, visitors, ks, before)
  BY <1>3, <1>5, <1>7, <1>8 DEF ComesFrom
<1> QED
  BY <1>2, <1>7, <1>9

\* The filter keeps what is recent: if no two recent entries are of one visitor, no
\* two are in its result.
LEMMA FilteredLists ==
    ASSUME NEW visitors \in Seq(Entry), NEW t,
           \A j, k \in DOMAIN visitors :
              /\ SeenRecently(visitors[j], t) /\ SeenRecently(visitors[k], t)
              /\ visitors[j].tag = visitors[k].tag
              => j = k
    PROVE  /\ Filtered(visitors, t) \in Seq(Entry)
           /\ UniqueList(Filtered(visitors, t))
           /\ AsSet(Filtered(visitors, t)) = {v \in AsSet(visitors) : SeenRecently(v, t)}
<1> DEFINE ks == {k \in DOMAIN visitors : SeenRecently(visitors[k], t)}
           kept == Taken(visitors, ks, InPlace(visitors))
<1>1. kept = Filtered(visitors, t)
  BY DEF Filtered
<1>2. StrictlyOrders(InPlace(visitors), ks)
  <2>1. DOMAIN visitors \subseteq Nat
    BY ListDomain
  <2>2. \A j, k \in ks : <<j, k>> \in InPlace(visitors) <=> j < k
    BY DEF InPlace, Pairs
  <2>3. ks \subseteq Nat
    BY <2>1
  <2> HIDE DEF ks
  <2> QED
    BY <2>2, <2>3 DEF StrictlyOrders
<1>3. /\ kept \in Seq(Entry)
      /\ \E f : ComesFrom(kept, f, visitors, ks, InPlace(visitors))
  <2>1. ks \in SUBSET DOMAIN visitors
    OBVIOUS
  <2> HIDE DEF ks
  <2> QED
    BY <1>2, <2>1, TakenLists
<1>4. PICK f : ComesFrom(kept, f, visitors, ks, InPlace(visitors))
  <2> HIDE DEF kept, ks
  <2> QED
    BY <1>3
<1>5. DOMAIN kept = 1 .. Len(kept) /\ Len(kept) \in Nat
  BY <1>3, ListDomain
<1>6. UniqueList(kept)
  <2> SUFFICES ASSUME NEW p \in DOMAIN kept, NEW q \in DOMAIN kept,
                      kept[p].tag = kept[q].tag
               PROVE  p = q
    BY DEF UniqueList
  <2>1. f[p] \in ks /\ f[q] \in ks /\ kept[p] = visitors[f[p]] /\ kept[q] = visitors[f[q]]
    BY <1>4, <1>5 DEF ComesFrom
  <2>2. f[p] = f[q]
    <3> HIDE DEF kept
    <3> QED
      BY <2>1
  <2> HIDE DEF kept, ks
  <2> QED
    BY <1>4, <1>5, <2>2 DEF ComesFrom
<1>7. AsSet(kept) = {v \in AsSet(visitors) : SeenRecently(v, t)}
  <2>1. ASSUME NEW p \in DOMAIN kept
        PROVE  kept[p] \in AsSet(visitors) /\ SeenRecently(kept[p], t)
    <3>1. f[p] \in ks /\ kept[p] = visitors[f[p]]
      BY <1>4, <1>5, <2>1 DEF ComesFrom
    <3> HIDE DEF kept
    <3> QED
      BY <3>1 DEF AsSet
  <2>2. ASSUME NEW k \in ks PROVE \E p \in DOMAIN kept : kept[p] = visitors[k]
    <3> HIDE DEF kept, ks
    <3> QED
      BY <1>4, <1>5, <2>2 DEF ComesFrom
  <2> HIDE DEF kept
  <2> QED
    BY <2>1, <2>2 DEF AsSet
<1> HIDE DEF kept
<1> QED
  BY <1>1, <1>3, <1>6, <1>7

\* The sorting keeps the entries, and puts no earlier one before a later one.
LEMMA SortedLists ==
    ASSUME NEW visitors \in Seq(Entry), UniqueList(visitors)
    PROVE  /\ SortedByLastSeen(visitors) \in Seq(Entry)
           /\ Len(SortedByLastSeen(visitors)) = Len(visitors)
           /\ UniqueList(SortedByLastSeen(visitors))
           /\ AsSet(SortedByLastSeen(visitors)) = AsSet(visitors)
           /\ \A p, q \in DOMAIN visitors :
                 p < q => SortedByLastSeen(visitors)[p].last_seen
                             >= SortedByLastSeen(visitors)[q].last_seen
<1> DEFINE ks == DOMAIN visitors
           sorted == Taken(visitors, ks, LatestFirst(visitors))
<1>1. sorted = SortedByLastSeen(visitors)
  BY DEF SortedByLastSeen
<1>2. /\ ks = 1 .. Len(visitors) /\ Len(visitors) \in Nat /\ Cardinality(ks) = Len(visitors)
      /\ \A k \in ks : visitors[k] \in Entry
  BY ListDomain
<1>3. \A j, k \in ks :
         <<j, k>> \in LatestFirst(visitors) <=>
            \/ visitors[j].last_seen > visitors[k].last_seen
            \/ visitors[j].last_seen = visitors[k].last_seen /\ j < k
  BY DEF LatestFirst, Pairs
<1>4. \A k \in ks : k \in Int /\ visitors[k].last_seen \in Int
  BY <1>2 DEF Entry
<1>5. StrictlyOrders(LatestFirst(visitors), ks)
  <2> HIDE DEF ks
  <2> QED
    BY <1>3, <1>4 DEF StrictlyOrders
<1>6. /\ sorted \in Seq(Entry) /\ Len(sorted) = Len(visitors)
      /\ \E f : ComesFrom(sorted, f, visitors, ks, LatestFirst(visitors))
  <2>1. ks \in SUBSET DOMAIN visitors
    OBVIOUS
  <2> HIDE DEF ks
  <2> QED
    BY <1>2, <1>5, <2>1, TakenLists
<1>7. PICK f : ComesFrom(sorted, f, visitors, ks, LatestFirst(visitors))
  <2> HIDE DEF sorted, ks
  <2> QED
    BY <1>6
<1>8. DOMAIN sorted = 1 .. Len(sorted) /\ 1 .. Len(sorted) = ks
  BY <1>2, <1>6, ListDomain
<1> HIDE DEF sorted, ks
<1>9. \A p \in ks : f[p] \in ks /\ sorted[p] = visitors[f[p]]
  BY <1>7, <1>8 DEF ComesFrom
<1>10. UniqueList(sorted)
  <2> SUFFICES ASSUME NEW p \in ks, NEW q \in ks, sorted[p].tag = sorted[q].tag
               PROVE  p = q
    BY <1>8 DEF UniqueList
  <2>1. f[p] = f[q]
    BY <1>9 DEF UniqueList, ks
  <2> QED
    BY <1>7, <1>8, <2>1 DEF ComesFrom
<1>11. AsSet(sorted) = AsSet(visitors)
  <2>1. \A k \in ks : \E p \in ks : f[p] = k
    BY <1>7, <1>8 DEF ComesFrom
  <2>2. AsSet(visitors) = {visitors[k] : k \in ks}
    BY DEF AsSet, ks
  <2>3. AsSet(sorted) = {sorted[p] : p \in ks}
    BY <1>8 DEF AsSet
  <2>4. \A k \in ks : \E p \in ks : visitors[k] = sorted[p]
    BY <1>9, <2>1
  <2> QED
    BY <1>9, <2>2, <2>3, <2>4
<1>12. ASSUME NEW p \in ks, NEW q \in ks, p < q
       PROVE  sorted[p].last_seen >= sorted[q].last_seen
  <2>1. <<f[p], f[q]>> \in LatestFirst(visitors)
    BY <1>7, <1>8, <1>12 DEF ComesFrom
  <2>2. PICK j \in ks, k \in ks : j = f[p] /\ k = f[q]
    BY <1>9
  <2>3. visitors[j].last_seen >= visitors[k].last_seen
    BY <1>3, <1>4, <2>1, <2>2
  <2> QED
    BY <1>9, <2>2, <2>3
<1> QED
  BY <1>1, <1>6, <1>10, <1>11, <1>12 DEF ks

LEMMA ListCardinality ==
    ASSUME NEW visitors \in Seq(Entry), UniqueList(visitors)
    PROVE  /\ AsSet(visitors) \subseteq Entry /\ IsFiniteSet(AsSet(visitors))
           /\ Cardinality(AsSet(visitors)) = Len(visitors)
<1>1. /\ DOMAIN visitors = 1 .. Len(visitors) /\ Len(visitors) \in Nat
      /\ \A k \in DOMAIN visitors : visitors[k] \in Entry
  BY ListDomain
<1> DEFINE f == [k \in 1 .. Len(visitors) |-> visitors[k]]
           set == AsSet(visitors)
<1>2. set = {visitors[k] : k \in 1 .. Len(visitors)}
  BY <1>1 DEF AsSet
<1>3. f \in Bijection(1 .. Len(visitors), set)
  <2>1. f \in [1 .. Len(visitors) -> set] /\ \A v \in set : \E k \in 1 .. Len(visitors) : f[k] = v
    BY <1>2
  <2>2. \A j, k \in 1 .. Len(visitors) : f[j] = f[k] => j = k
    BY <1>1 DEF UniqueList
  <2> HIDE DEF f, set
  <2> QED
    BY <2>1, <2>2 DEF Bijection, Injection, Surjection, IsInjective
<1>4. IsFiniteSet(1 .. Len(visitors)) /\ Cardinality(1 .. Len(visitors)) = Len(visitors)
  BY <1>1, ListDomain
<1>5. IsFiniteSet(set) /\ Cardinality(set) = Len(visitors)
  <2> HIDE DEF f, set
  <2>1. ExistsBijection(1 .. Len(visitors), set)
    BY <1>3 DEF ExistsBijection
  <2> QED
    BY <1>4, <2>1, FS_Bijection
<1>6. set \subseteq Entry
  BY <1>1, <1>2
<1> QED
  BY <1>5, <1>6

\* What the pruning leaves of a list, said of its set.
LEMMA PruneLists ==
    ASSUME NEW visitors \in Seq(Entry), NEW t,
           \A j, k \in DOMAIN visitors :
              /\ SeenRecently(visitors[j], t) /\ SeenRecently(visitors[k], t)
              /\ visitors[j].tag = visitors[k].tag
              => j = k,
           NEW recent, recent = {v \in AsSet(visitors) : SeenRecently(v, t)},
           NEW pruned, pruned = Prune(visitors, t)
    PROVE  /\ pruned \in Seq(Entry) /\ UniqueList(pruned) /\ Len(pruned) <= MAX_RECENT_VISITORS
           /\ IsFiniteSet(recent) /\ AsSet(pruned) \subseteq recent
           /\ Cardinality(recent) <= MAX_RECENT_VISITORS => AsSet(pruned) = recent
           /\ Cardinality(recent) > MAX_RECENT_VISITORS =>
                 /\ Cardinality(AsSet(pruned)) = MAX_RECENT_VISITORS
                 /\ \A v \in AsSet(pruned), w \in recent \ AsSet(pruned) :
                       v.last_seen >= w.last_seen
<1> DEFINE kept == Filtered(visitors, t)
           sorted == SortedByLastSeen(kept)
<1>1. kept \in Seq(Entry) /\ UniqueList(kept) /\ AsSet(kept) = recent
  BY FilteredLists
<1>2. pruned = IF Len(kept) > MAX_RECENT_VISITORS
               THEN SubSeq(sorted, 1, MAX_RECENT_VISITORS) ELSE kept
  BY DEF Prune
<1> HIDE DEF kept, sorted
<1>3. /\ IsFiniteSet(recent) /\ Cardinality(recent) = Len(kept) /\ Len(kept) \in Nat
      /\ recent \subseteq Entry
  BY <1>1, ListCardinality, ListDomain
<1>4. CASE ~(Len(kept) > MAX_RECENT_VISITORS)
  BY <1>1, <1>2, <1>3, <1>4, MaxRecentAssumption
<1>5. CASE Len(kept) > MAX_RECENT_VISITORS
  <2>1. /\ sorted \in Seq(Entry) /\ Len(sorted) = Len(kept)
        /\ UniqueList(sorted) /\ AsSet(sorted) = recent
        /\ \A p, q \in DOMAIN kept : p < q => sorted[p].last_seen >= sorted[q].last_seen
    BY <1>1, SortedLists DEF sorted
  <2>2. DOMAIN sorted = 1 .. Len(kept) /\ DOMAIN kept = 1 .. Len(kept)
    BY <1>1, <2>1, ListDomain
  <2>3. /\ pruned \in Seq(Entry) /\ Len(pruned) = MAX_RECENT_VISITORS
        /\ DOMAIN pruned = 1 .. MAX_RECENT_VISITORS
        /\ \A p \in 1 .. MAX_RECENT_VISITORS : pruned[p] = sorted[p]
    BY <1>2, <1>3, <1>5, <2>1, MaxRecentAssumption
  <2>4. \A p \in 1 .. MAX_RECENT_VISITORS : p \in DOMAIN sorted
    BY <1>3, <1>5, <2>2, MaxRecentAssumption
  <2>5. UniqueList(pruned)
    BY <2>1, <2>3, <2>4 DEF UniqueList
  <2>6. Cardinality(AsSet(pruned)) = MAX_RECENT_VISITORS
    BY <2>3, <2>5, ListCardinality
  <2>7. AsSet(pruned) \subseteq recent
    BY <2>1, <2>3, <2>4 DEF AsSet
  <2>8. ASSUME NEW v \in AsSet(pruned), NEW w \in recent \ AsSet(pruned)
        PROVE  v.last_seen >= w.last_seen
    <3>1. PICK p \in 1 .. MAX_RECENT_VISITORS : v = sorted[p]
      BY <2>3 DEF AsSet
    <3>2. PICK q \in 1 .. Len(kept) : w = sorted[q]
      BY <2>1, <2>2 DEF AsSet
    <3>3. q \notin 1 .. MAX_RECENT_VISITORS
      BY <2>3, <3>2 DEF AsSet
    <3>4. p < q
      BY <1>3, <3>3, MaxRecentAssumption
    <3>5. p \in DOMAIN kept /\ q \in DOMAIN kept
      BY <2>2, <2>4
    <3> QED
      BY <2>1, <3>1, <3>2, <3>4, <3>5
  <2> QED
    BY <1>3, <1>5, <2>3, <2>5, <2>6, <2>7, <2>8, MaxRecentAssumption
<1> QED
  BY <1>4, <1>5

-----------------------------------------------------------------------------
(* The list as a set of times since TIMESTAMP_OFFSET *)

Shifted(v) == [v EXCEPT !.last_seen = SinceOffset(@)]
ShiftedSet(set) == {Shifted(v) : v \in set}

LEMMA OffsetTicks == TIMESTAMP_OFFSET * TICKS_PER_SEC \in Nat
BY OffsetAssumption, TicksAssumption

LEMMA ShiftedEntry ==
    ASSUME NEW v \in Entry
    PROVE  /\ Shifted(v) = [tag |-> v.tag, last_seen |-> SinceOffset(v.last_seen)]
           /\ SinceOffset(v.last_seen) \in Int
BY OffsetTicks DEF Shifted, Entry, SinceOffset

LEMMA ShiftedSame ==
    ASSUME NEW v \in Entry, NEW w \in Entry, Shifted(v) = Shifted(w)
    PROVE  v = w
<1>1. v.tag = w.tag /\ SinceOffset(v.last_seen) = SinceOffset(w.last_seen)
  BY ShiftedEntry
<1>2. v.last_seen = w.last_seen
  BY <1>1, OffsetTicks DEF SinceOffset, Entry
<1> QED
  BY <1>1, <1>2 DEF Entry

LEMMA ShiftedCardinality ==
    ASSUME NEW set \in SUBSET Entry, IsFiniteSet(set)
    PROVE  IsFiniteSet(ShiftedSet(set)) /\ Cardinality(ShiftedSet(set)) = Cardinality(set)
<1> DEFINE f == [v \in set |-> Shifted(v)]
           image == ShiftedSet(set)
<1>1. f \in Bijection(set, image)
  <2>1. f \in [set -> image] /\ \A w \in image : \E v \in set : f[v] = w
    BY DEF ShiftedSet
  <2>2. \A v, w \in set : f[v] = f[w] => v = w
    BY ShiftedSame
  <2> HIDE DEF f, image
  <2> QED
    BY <2>1, <2>2 DEF Bijection, Injection, Surjection, IsInjective
<1> HIDE DEF f, image
<1>2. ExistsBijection(set, image)
  BY <1>1 DEF ExistsBijection
<1> QED
  BY <1>2, FS_Bijection DEF image

\* Recency does not depend on where time counts from.
LEMMA ShiftedRecent ==
    ASSUME NEW v \in Entry, NEW t \in Nat
    PROVE  Set!SeenRecently(Shifted(v), SinceOffset(t)) <=> SeenRecently(v, t)
<1>1. SinceOffset(t) - Shifted(v).last_seen = t - v.last_seen
  BY ShiftedEntry, OffsetTicks DEF SinceOffset, Entry
<1> QED
  BY <1>1 DEF Set!SeenRecently, SeenRecently

\* The pruning of the list is one that RecentVisitors allows for its set.
LEMMA PruneAsSet ==
    ASSUME NEW visitors \in Seq(Entry), NEW t \in Nat,
           \A j, k \in DOMAIN visitors :
              /\ SeenRecently(visitors[j], t) /\ SeenRecently(visitors[k], t)
              /\ visitors[j].tag = visitors[k].tag
              => j = k
    PROVE  ShiftedSet(AsSet(Prune(visitors, t)))
              \in Set!PruneVisitors(ShiftedSet(AsSet(visitors)), SinceOffset(t),
                                    MAX_RECENT_VISITORS)
<1> DEFINE all == AsSet(visitors)
           recent == {v \in all : SeenRecently(v, t)}
           pruned == AsSet(Prune(visitors, t))
           kept == {v \in ShiftedSet(all) : Set!SeenRecently(v, SinceOffset(t))}
<1>1. all \subseteq Entry
  BY ListDomain DEF AsSet
<1>2. /\ IsFiniteSet(recent) /\ pruned \subseteq recent
      /\ Cardinality(recent) <= MAX_RECENT_VISITORS => pruned = recent
      /\ Cardinality(recent) > MAX_RECENT_VISITORS =>
            /\ Cardinality(pruned) = MAX_RECENT_VISITORS
            /\ \A v \in pruned, w \in recent \ pruned : v.last_seen >= w.last_seen
  BY PruneLists
<1>3. kept = ShiftedSet(recent)
  BY <1>1, ShiftedRecent DEF ShiftedSet
<1>4. Cardinality(recent) \in Nat
  BY <1>2, FS_CardinalityType
<1>5. Set!PruneVisitors(ShiftedSet(all), SinceOffset(t), MAX_RECENT_VISITORS) =
         IF Cardinality(kept) <= MAX_RECENT_VISITORS THEN {kept}
         ELSE {s \in SUBSET kept :
                 /\ Cardinality(s) = MAX_RECENT_VISITORS
                 /\ \A v \in s, w \in kept \ s : v.last_seen >= w.last_seen}
  BY Zenon DEF Set!PruneVisitors, Set!Cardinality, Cardinality
<1>6. recent \subseteq Entry
  BY <1>1
<1> HIDE DEF all, recent, pruned, kept
<1>7. Cardinality(kept) = Cardinality(recent)
  BY <1>2, <1>3, <1>6, ShiftedCardinality
<1>8. CASE Cardinality(recent) <= MAX_RECENT_VISITORS
  BY <1>2, <1>3, <1>5, <1>7, <1>8 DEF all, pruned
<1>9. CASE Cardinality(recent) > MAX_RECENT_VISITORS
  <2>1. Cardinality(ShiftedSet(pruned)) = MAX_RECENT_VISITORS
    <3>1. IsFiniteSet(pruned) /\ pruned \subseteq Entry
      BY <1>2, <1>6, FS_Subset
    <3> QED
      BY <1>2, <1>9, <3>1, ShiftedCardinality
  <2>2. ShiftedSet(pruned) \subseteq kept
    BY <1>2, <1>3 DEF ShiftedSet
  <2>3. ASSUME NEW v \in ShiftedSet(pruned), NEW w \in kept \ ShiftedSet(pruned)
        PROVE  v.last_seen >= w.last_seen
    <3>1. PICK v0 \in pruned : v = Shifted(v0)
      BY DEF ShiftedSet
    <3>2. PICK w0 \in recent : w = Shifted(w0)
      BY <1>3 DEF ShiftedSet
    <3>3. w0 \notin pruned
      BY <3>2 DEF ShiftedSet
    <3>4. v0 \in Entry /\ w0 \in Entry
      BY <1>2, <1>6
    <3>5. v0.last_seen >= w0.last_seen
      BY <1>2, <1>9, <3>3
    <3>6. v.last_seen = SinceOffset(v0.last_seen) /\ w.last_seen = SinceOffset(w0.last_seen)
      BY <3>1, <3>2, <3>4, ShiftedEntry
    <3> QED
      BY <3>4, <3>5, <3>6, OffsetTicks DEF SinceOffset, Entry
  <2>4. ~(Cardinality(kept) <= MAX_RECENT_VISITORS)
    BY <1>4, <1>7, <1>9, MaxRecentAssumption
  <2> QED
    BY <1>5, <2>1, <2>2, <2>3, <2>4 DEF all, pruned
<1> QED
  BY <1>4, <1>8, <1>9, MaxRecentAssumption

-----------------------------------------------------------------------------
(* The record of a visit *)

\* The entry that a visit leaves when it refreshes one.
Refreshed(v, t) == [tag |-> v.tag, last_seen |-> t]

\* The recent entries of a visitor, as a set.
RecentOf(set, v, t) == {w \in set : w.tag = v.tag /\ SeenRecently(w, t)}

\* In a list without duplicates, the first match is the only one.
LEMMA FindLists ==
    ASSUME NEW visitors \in Seq(Entry), UniqueList(visitors), NEW v, NEW t
    PROVE  /\ FindTag(visitors, v.tag) = {k \in DOMAIN visitors : visitors[k].tag = v.tag}
           /\ FindRecent(visitors, v, t) =
                 {k \in DOMAIN visitors :
                    visitors[k].tag = v.tag /\ SeenRecently(visitors[k], t)}
<1>1. DOMAIN visitors = 1 .. Len(visitors) /\ Len(visitors) \in Nat
  BY ListDomain
<1>2. ASSUME NEW k \in DOMAIN visitors, visitors[k].tag = v.tag, NEW j \in 1 .. k - 1
      PROVE  visitors[j].tag # v.tag
  <2>1. j \in DOMAIN visitors /\ j # k
    BY <1>1
  <2> QED
    BY <1>2, <2>1 DEF UniqueList
<1>3. FindTag(visitors, v.tag) = {k \in DOMAIN visitors : visitors[k].tag = v.tag}
  BY <1>2 DEF FindTag
<1> QED
  BY <1>3 DEF FindRecent

\* What the visit makes of the list: its set, and no visitor twice among the recent.
LEMMA RecordLists ==
    ASSUME NEW visitors \in Seq(Entry), UniqueList(visitors),
           NEW v \in Entry, NEW t \in Nat,
           NEW recorded, recorded = Record(visitors, v, t)
    PROVE  /\ recorded \in Seq(Entry)
           /\ \A j, k \in DOMAIN recorded :
                 /\ SeenRecently(recorded[j], t) /\ SeenRecently(recorded[k], t)
                 /\ recorded[j].tag = recorded[k].tag
                 => j = k
           /\ FindRecent(visitors, v, t) = {} <=> RecentOf(AsSet(visitors), v, t) = {}
           /\ AsSet(recorded) =
                 IF FindRecent(visitors, v, t) # {}
                 THEN (AsSet(visitors) \ RecentOf(AsSet(visitors), v, t))
                         \cup {Refreshed(v, t)}
                 ELSE AsSet(visitors) \cup {v}
<1> DEFINE recent == FindRecent(visitors, v, t)
           n == Len(visitors)
<1>1. /\ DOMAIN visitors = 1 .. n /\ n \in Nat
      /\ \A k \in DOMAIN visitors : visitors[k] \in Entry
  BY ListDomain
<1>2. recent = {k \in DOMAIN visitors :
                  visitors[k].tag = v.tag /\ SeenRecently(visitors[k], t)}
  BY FindLists
<1>3. recorded = IF recent # {}
                 THEN [k \in DOMAIN visitors |->
                         IF k \in recent THEN [visitors[k] EXCEPT !.last_seen = t]
                         ELSE visitors[k]]
                 ELSE Append(visitors, v)
  BY DEF Record
<1> HIDE DEF recent
<1>4. recent = {} <=> RecentOf(AsSet(visitors), v, t) = {}
  BY <1>2 DEF RecentOf, AsSet
<1>5. CASE recent # {}
  <2>1. \A k \in DOMAIN visitors :
           k \in recent => [visitors[k] EXCEPT !.last_seen = t] = Refreshed(v, t)
    BY <1>1, <1>2 DEF Entry, Refreshed
  <2>2. recorded = [k \in 1 .. n |-> IF k \in recent THEN Refreshed(v, t) ELSE visitors[k]]
    BY <1>1, <1>3, <1>5, <2>1
  <2>3. Refreshed(v, t) \in Entry
    BY DEF Refreshed, Entry
  <2>4. recorded \in Seq(Entry) /\ DOMAIN recorded = DOMAIN visitors
    BY <1>1, <2>2, <2>3
  <2>5. \A k \in DOMAIN visitors : recorded[k].tag = visitors[k].tag
    BY <1>1, <1>2, <2>2 DEF Refreshed
  <2>6. \A j, k \in DOMAIN recorded : recorded[j].tag = recorded[k].tag => j = k
    BY <2>4, <2>5 DEF UniqueList
  <2>7. AsSet(recorded) = (AsSet(visitors) \ RecentOf(AsSet(visitors), v, t))
                             \cup {Refreshed(v, t)}
    <3> DEFINE result1 == (AsSet(visitors) \ RecentOf(AsSet(visitors), v, t))
                             \cup {Refreshed(v, t)}
    <3>1. ASSUME NEW k \in DOMAIN visitors PROVE recorded[k] \in result1
      <4>1. CASE k \in recent
        BY <1>1, <2>2, <4>1
      <4>2. CASE k \notin recent
        BY <1>1, <1>2, <2>2, <4>2 DEF AsSet, RecentOf
      <4> QED
        BY <4>1, <4>2
    <3>2. ASSUME NEW w \in result1 PROVE \E k \in DOMAIN visitors : recorded[k] = w
      <4>1. CASE w = Refreshed(v, t)
        <5>1. PICK k \in DOMAIN visitors : k \in recent
          BY <1>2, <1>5
        <5> QED
          BY <1>1, <2>2, <4>1, <5>1
      <4>2. CASE w # Refreshed(v, t)
        <5>1. PICK k \in DOMAIN visitors : w = visitors[k] /\ k \notin recent
          BY <1>2, <3>2, <4>2 DEF AsSet, RecentOf
        <5> QED
          BY <1>1, <2>2, <5>1
      <4> QED
        BY <4>1, <4>2
    <3> HIDE DEF result1
    <3>3. AsSet(recorded) = result1
      BY <2>4, <3>1, <3>2 DEF AsSet
    <3> QED
      BY <3>3 DEF result1
  <2> QED
    BY <1>4, <1>5, <2>4, <2>6, <2>7 DEF recent
<1>6. CASE recent = {}
  <2>1. recorded = Append(visitors, v)
    BY <1>3, <1>6
  <2>2. /\ recorded \in Seq(Entry) /\ DOMAIN recorded = 1 .. n + 1
        /\ recorded[n + 1] = v /\ \A k \in 1 .. n : recorded[k] = visitors[k]
    BY <1>1, <2>1
  <2>3. ASSUME NEW j \in 1 .. n + 1, NEW k \in 1 .. n + 1, j < k,
               SeenRecently(recorded[j], t), SeenRecently(recorded[k], t),
               recorded[j].tag = recorded[k].tag
        PROVE  FALSE
    <3>1. j \in 1 .. n /\ (k \in 1 .. n \/ k = n + 1)
      BY <1>1, <2>3
    <3>2. CASE k \in 1 .. n
      BY <1>1, <2>2, <2>3, <3>1, <3>2 DEF UniqueList
    <3>3. CASE k = n + 1
      BY <1>1, <1>2, <1>6, <2>2, <2>3, <3>1, <3>3
    <3> QED
      BY <3>1, <3>2, <3>3
  <2>4. \A j, k \in DOMAIN recorded :
           /\ SeenRecently(recorded[j], t) /\ SeenRecently(recorded[k], t)
           /\ recorded[j].tag = recorded[k].tag
           => j = k
    BY <1>1, <2>2, <2>3
  <2>5. AsSet(recorded) = AsSet(visitors) \cup {v}
    <3>1. 1 .. n + 1 = (1 .. n) \cup {n + 1}
      BY <1>1
    <3> QED
      BY <1>1, <2>2, <3>1 DEF AsSet
  <2> QED
    BY <1>4, <1>6, <2>2, <2>4, <2>5 DEF recent
<1> QED
  BY <1>5, <1>6

\* The visit does to the set what RecentVisitors says.
LEMMA RecordAsSet ==
    ASSUME NEW visitors \in Seq(Entry), UniqueList(visitors),
           NEW v \in Entry, NEW t \in Nat, NEW count \in Nat
    PROVE  Set!RecordVisit([count |-> count,
                            recent_visitors |-> ShiftedSet(AsSet(visitors))],
                           Shifted(v), SinceOffset(t))
              = [count |-> IF FindRecent(visitors, v, t) = {} THEN count + 1 ELSE count,
                 recent_visitors |-> ShiftedSet(AsSet(Record(visitors, v, t)))]
<1> DEFINE set == AsSet(visitors)
           recent == RecentOf(set, v, t)
           found == Set!FindRecent(ShiftedSet(set), Shifted(v), SinceOffset(t))
           recorded == AsSet(Record(visitors, v, t))
           entry == [count |-> count, recent_visitors |-> ShiftedSet(set)]
<1>1. /\ FindRecent(visitors, v, t) = {} <=> recent = {}
      /\ recorded = IF FindRecent(visitors, v, t) # {}
                    THEN (set \ recent) \cup {Refreshed(v, t)} ELSE set \cup {v}
  BY RecordLists
<1>2. set \subseteq Entry
  BY ListDomain DEF AsSet
<1>3. found = ShiftedSet(recent)
  <2>1. ASSUME NEW w \in set
        PROVE  /\ Shifted(w).tag = Shifted(v).tag <=> w.tag = v.tag
               /\ Set!SeenRecently(Shifted(w), SinceOffset(t)) <=> SeenRecently(w, t)
    BY <1>2, ShiftedEntry, ShiftedRecent
  <2> HIDE DEF set
  <2> QED
    BY <2>1 DEF Set!FindRecent, ShiftedSet, RecentOf
<1>4. Set!RecordVisit(entry, Shifted(v), SinceOffset(t)) =
         IF found # {}
         THEN [count |-> count,
               recent_visitors |->
                 (ShiftedSet(set) \ found)
                    \cup {[tag |-> Shifted(v).tag, last_seen |-> SinceOffset(t)]}]
         ELSE [count |-> count + 1,
               recent_visitors |-> ShiftedSet(set) \cup {Shifted(v)}]
  BY DEF Set!RecordVisit
<1>5. found = {} <=> recent = {}
  BY <1>3 DEF ShiftedSet
<1>6. recent \subseteq set
  BY DEF RecentOf
<1>7. [tag |-> Shifted(v).tag, last_seen |-> SinceOffset(t)] = Shifted(Refreshed(v, t))
  <2>1. Refreshed(v, t) \in Entry /\ Refreshed(v, t).tag = v.tag
        /\ Refreshed(v, t).last_seen = t
    BY DEF Refreshed, Entry
  <2> QED
    BY <2>1, ShiftedEntry
<1> HIDE DEF set, recent, found, recorded, entry
<1>8. ShiftedSet(set) \ ShiftedSet(recent) = ShiftedSet(set \ recent)
  BY <1>2, <1>6, ShiftedSame DEF ShiftedSet
<1>9. CASE recent = {}
  <2>1. ShiftedSet(recorded) = ShiftedSet(set) \cup {Shifted(v)}
    BY <1>1, <1>9 DEF ShiftedSet
  <2> QED
    BY <1>1, <1>4, <1>5, <1>9, <2>1 DEF entry, set, recorded
<1>10. CASE recent # {}
  <2>1. ShiftedSet(recorded) = ShiftedSet(set \ recent) \cup {Shifted(Refreshed(v, t))}
    BY <1>1, <1>10 DEF ShiftedSet
  <2> QED
    BY <1>1, <1>3, <1>4, <1>5, <1>7, <1>8, <1>10, <2>1 DEF entry, set, recorded
<1> QED
  BY <1>9, <1>10

-----------------------------------------------------------------------------
(* The stored form *)

\* A tick count is in its second.
LEMMA DivBounds ==
    ASSUME NEW t \in Nat, NEW s, s = t \div TICKS_PER_SEC
    PROVE  s \in Nat /\ s * TICKS_PER_SEC <= t /\ t < s * TICKS_PER_SEC + TICKS_PER_SEC
BY TicksAssumption, SMT

\* A second whose ticks are around a tick count is the second of it.
LEMMA DivUnique ==
    ASSUME NEW t \in Nat, NEW s \in Int,
           s * TICKS_PER_SEC <= t, t < s * TICKS_PER_SEC + TICKS_PER_SEC
    PROVE  t \div TICKS_PER_SEC = s
<1>1. PICK q \in Nat : q = t \div TICKS_PER_SEC
  BY DivBounds
<1>2. q * TICKS_PER_SEC <= t /\ t < q * TICKS_PER_SEC + TICKS_PER_SEC
  BY <1>1, DivBounds
<1>3. ASSUME NEW a \in Int, NEW b \in Int, a < b
      PROVE  a * TICKS_PER_SEC + TICKS_PER_SEC <= b * TICKS_PER_SEC
  BY <1>3, TicksAssumption, SMT
<1>4. q * TICKS_PER_SEC \in Int /\ s * TICKS_PER_SEC \in Int /\ TICKS_PER_SEC \in Int
  BY TicksAssumption
<1>5. ~(q < s) /\ ~(s < q)
  BY <1>2, <1>3, <1>4
<1> QED
  BY <1>1, <1>5

\* What the 32 bits hold is kept.
LEMMA ModType ==
    ASSUME NEW a \in Int
    PROVE  /\ a % (U32_MAX + 1) \in 0 .. U32_MAX
           /\ a \in 0 .. U32_MAX => a % (U32_MAX + 1) = a
<1>1. PICK m \in Nat \ {0} : m = U32_MAX + 1
  BY U32Assumption
<1>2. a % m \in 0 .. m - 1
  BY SMT
<1>3. a \in 0 .. m - 1 => a % m = a
  BY SMT
<1> QED
  BY <1>1, <1>2, <1>3, U32Assumption

\* Every entry has a stored form, of its own visitor.
LEMMA StoredType ==
    ASSUME NEW v \in Entry
    PROVE  ToStored(v) \in StoredVisitor /\ ToStored(v).tag = v.tag
<1>1. v.last_seen \div TICKS_PER_SEC - TIMESTAMP_OFFSET \in Int
  BY DivBounds, OffsetAssumption DEF Entry
<1>2. (v.last_seen \div TICKS_PER_SEC - TIMESTAMP_OFFSET) % (U32_MAX + 1) \in 0 .. U32_MAX
  BY <1>1, ModType
<1> QED
  BY <1>2 DEF ToStored, StoredVisitor, Entry

\* A stored entry has a time in memory, whose stored form is in range.
LEMMA LoadedType ==
    ASSUME NEW e \in StoredVisitor
    PROVE  /\ FromStored(e) \in Entry /\ FromStored(e).tag = e.tag
           /\ FromStored(e).last_seen = (TIMESTAMP_OFFSET + e.last_seen) * TICKS_PER_SEC
           /\ Storable(FromStored(e))
<1>1. PICK s \in Nat : s = TIMESTAMP_OFFSET + e.last_seen
  BY OffsetAssumption, U32Assumption DEF StoredVisitor
<1>2. s * TICKS_PER_SEC \in Nat
  BY TicksAssumption
<1>3. (s * TICKS_PER_SEC) \div TICKS_PER_SEC = s
  <2>1. s * TICKS_PER_SEC < s * TICKS_PER_SEC + TICKS_PER_SEC
    BY <1>2, TicksAssumption
  <2> QED
    BY <1>2, <2>1, DivUnique
<1>4. FromStored(e) = [tag |-> e.tag, last_seen |-> s * TICKS_PER_SEC]
  BY <1>1 DEF FromStored, StoredVisitor
<1>5. s - TIMESTAMP_OFFSET \in 0 .. U32_MAX
  BY <1>1, OffsetAssumption, U32Assumption DEF StoredVisitor
<1> QED
  BY <1>1, <1>2, <1>3, <1>4, <1>5 DEF Entry, Storable, StoredVisitor

\* A time that can be stored keeps its second.
LEMMA StoredSecond ==
    ASSUME NEW v \in Entry, Storable(v)
    PROVE  /\ ToStored(v).last_seen = v.last_seen \div TICKS_PER_SEC - TIMESTAMP_OFFSET
           /\ FromStored(ToStored(v)).last_seen <= v.last_seen
           /\ v.last_seen < FromStored(ToStored(v)).last_seen + TICKS_PER_SEC
<1>1. PICK s \in Nat : s = v.last_seen \div TICKS_PER_SEC
  BY DivBounds DEF Entry
<1>2. s * TICKS_PER_SEC <= v.last_seen /\ v.last_seen < s * TICKS_PER_SEC + TICKS_PER_SEC
  BY <1>1, DivBounds DEF Entry
<1>3. s - TIMESTAMP_OFFSET \in 0 .. U32_MAX
  BY <1>1 DEF Storable
<1>4. ToStored(v).last_seen = s - TIMESTAMP_OFFSET
  <2>1. (s - TIMESTAMP_OFFSET) % (U32_MAX + 1) = s - TIMESTAMP_OFFSET
    BY <1>3, ModType
  <2> QED
    BY <1>1, <2>1 DEF ToStored, Entry
<1>5. FromStored(ToStored(v)).last_seen = s * TICKS_PER_SEC
  <2>1. TIMESTAMP_OFFSET + (s - TIMESTAMP_OFFSET) = s
    BY OffsetAssumption
  <2> QED
    BY <1>4, <2>1, StoredType, LoadedType
<1> QED
  BY <1>1, <1>2, <1>4, <1>5

\* The stored forms of RecentVisitors are those of the shifted times.
LEMMA StoredAsSet ==
    ASSUME NEW v \in Entry, Storable(v)
    PROVE  Set!ToStored(Shifted(v)) = ToStored(v)
<1>1. PICK s \in Nat : s = v.last_seen \div TICKS_PER_SEC
  BY DivBounds DEF Entry
<1>2. s * TICKS_PER_SEC <= v.last_seen /\ v.last_seen < s * TICKS_PER_SEC + TICKS_PER_SEC
  BY <1>1, DivBounds DEF Entry
<1>3. s - TIMESTAMP_OFFSET \in Nat
  BY <1>1 DEF Storable
<1>4. (s - TIMESTAMP_OFFSET) * TICKS_PER_SEC
         = s * TICKS_PER_SEC - TIMESTAMP_OFFSET * TICKS_PER_SEC
  BY OffsetAssumption, TicksAssumption, SMT
<1>5. s * TICKS_PER_SEC \in Int /\ v.last_seen \in Nat
  BY TicksAssumption DEF Entry
<1>6. SinceOffset(v.last_seen) \in Nat
  <2>1. (s - TIMESTAMP_OFFSET) * TICKS_PER_SEC \in Nat
    BY <1>3, TicksAssumption
  <2> QED
    BY <1>2, <1>4, <1>5, <2>1, OffsetTicks DEF SinceOffset
<1>7. SinceOffset(v.last_seen) \div TICKS_PER_SEC = s - TIMESTAMP_OFFSET
  <2>1. /\ (s - TIMESTAMP_OFFSET) * TICKS_PER_SEC <= SinceOffset(v.last_seen)
        /\ SinceOffset(v.last_seen) < (s - TIMESTAMP_OFFSET) * TICKS_PER_SEC + TICKS_PER_SEC
    BY <1>2, <1>4, <1>5, OffsetTicks, TicksAssumption DEF SinceOffset
  <2> QED
    BY <1>3, <1>6, <2>1, DivUnique
<1>8. Set!ToStored(Shifted(v)) = [tag |-> v.tag, last_seen |-> s - TIMESTAMP_OFFSET]
  BY <1>7, ShiftedEntry DEF Set!ToStored
<1>9. ToStored(v) = [tag |-> v.tag, last_seen |-> s - TIMESTAMP_OFFSET]
  <2>1. ToStored(v).last_seen = s - TIMESTAMP_OFFSET
    BY <1>1, StoredSecond
  <2> QED
    BY <2>1, StoredType DEF StoredVisitor
<1> QED
  BY <1>8, <1>9

LEMMA LoadedAsSet ==
    ASSUME NEW e \in StoredVisitor
    PROVE  Set!FromStored(e) = Shifted(FromStored(e))
<1>1. SinceOffset((TIMESTAMP_OFFSET + e.last_seen) * TICKS_PER_SEC) = e.last_seen * TICKS_PER_SEC
  <2>1. PICK s \in Nat : s = e.last_seen
    BY U32Assumption DEF StoredVisitor
  <2>2. (TIMESTAMP_OFFSET + s) * TICKS_PER_SEC
           = TIMESTAMP_OFFSET * TICKS_PER_SEC + s * TICKS_PER_SEC
    BY OffsetAssumption, TicksAssumption, SMT
  <2>3. s * TICKS_PER_SEC \in Int
    BY TicksAssumption
  <2> QED
    BY <2>1, <2>2, <2>3, OffsetTicks DEF SinceOffset
<1> QED
  BY <1>1, LoadedType, ShiftedEntry DEF Set!FromStored

-----------------------------------------------------------------------------
(* One visit *)

\* The loaded list: as the stored one, with times that can be stored again.
LEMMA LoadLists ==
    ASSUME stored \in Seq(StoredVisitor), UniqueList(stored)
    PROVE  /\ Load(stored) \in Seq(Entry) /\ UniqueList(Load(stored))
           /\ DOMAIN Load(stored) = DOMAIN stored
           /\ \A v \in AsSet(Load(stored)) : v \in Entry /\ Storable(v)
           /\ LoadedSet = [count |-> 1, recent_visitors |-> ShiftedSet(AsSet(Load(stored)))]
<1> DEFINE loaded == Load(stored)
<1>1. /\ DOMAIN stored = 1 .. Len(stored) /\ Len(stored) \in Nat
      /\ \A k \in DOMAIN stored : stored[k] \in StoredVisitor
  OBVIOUS
<1>2. loaded = [k \in 1 .. Len(stored) |-> FromStored(stored[k])]
  BY <1>1 DEF Load
<1> HIDE DEF loaded
<1>3. \A k \in DOMAIN stored :
         /\ loaded[k] = FromStored(stored[k]) /\ loaded[k] \in Entry
         /\ loaded[k].tag = stored[k].tag /\ Storable(loaded[k])
         /\ Set!FromStored(stored[k]) = Shifted(loaded[k])
  BY <1>1, <1>2, LoadedType, LoadedAsSet
<1>4. loaded \in Seq(Entry) /\ DOMAIN loaded = DOMAIN stored
  BY <1>1, <1>2, <1>3
<1>5. UniqueList(loaded)
  BY <1>3, <1>4 DEF UniqueList
<1>6. \A v \in AsSet(loaded) : v \in Entry /\ Storable(v)
  BY <1>3, <1>4 DEF AsSet
<1>7. LoadedSet.recent_visitors = ShiftedSet(AsSet(loaded))
  <2>1. LoadedSet.recent_visitors = {Set!FromStored(e) : e \in AsSet(stored)}
    BY DEF LoadedSet, Set!LoadedEntry
  <2> QED
    BY <1>3, <1>4, <2>1 DEF AsSet, ShiftedSet
<1>8. LoadedSet = [count |-> 1, recent_visitors |-> LoadedSet.recent_visitors]
  BY DEF LoadedSet, Set!LoadedEntry
<1> QED
  BY <1>4, <1>5, <1>6, <1>7, <1>8 DEF loaded

\* The list that is put is as the one in memory, entry by entry.
LEMMA SaveLists ==
    ASSUME NEW visitors \in Seq(Entry), UniqueList(visitors)
    PROVE  /\ Save(visitors) \in Seq(StoredVisitor) /\ UniqueList(Save(visitors))
           /\ AsSet(Save(visitors)) = {ToStored(v) : v \in AsSet(visitors)}
           /\ AsSet(Load(Save(visitors))) = {FromStored(ToStored(v)) : v \in AsSet(visitors)}
<1> DEFINE saved == Save(visitors)
           again == Load(saved)
<1>1. /\ DOMAIN visitors = 1 .. Len(visitors) /\ Len(visitors) \in Nat
      /\ \A k \in DOMAIN visitors : visitors[k] \in Entry
  BY ListDomain
<1>2. saved = [k \in 1 .. Len(visitors) |-> ToStored(visitors[k])]
  BY <1>1 DEF Save
<1>3. again = [k \in DOMAIN saved |-> FromStored(saved[k])]
  BY DEF Load
<1> HIDE DEF saved, again
<1>4. \A k \in DOMAIN visitors :
         /\ saved[k] = ToStored(visitors[k]) /\ saved[k] \in StoredVisitor
         /\ saved[k].tag = visitors[k].tag
  BY <1>1, <1>2, StoredType
<1>5. saved \in Seq(StoredVisitor) /\ DOMAIN saved = DOMAIN visitors
  BY <1>1, <1>2, <1>4
<1>6. UniqueList(saved)
  BY <1>4, <1>5 DEF UniqueList
<1>7. AsSet(saved) = {ToStored(v) : v \in AsSet(visitors)}
  BY <1>4, <1>5 DEF AsSet
<1>8. DOMAIN again = DOMAIN visitors
      /\ \A k \in DOMAIN visitors : again[k] = FromStored(ToStored(visitors[k]))
  BY <1>3, <1>4, <1>5
<1>9. AsSet(again) = {FromStored(ToStored(v)) : v \in AsSet(visitors)}
  BY <1>8 DEF AsSet
<1> QED
  BY <1>5, <1>6, <1>7, <1>9 DEF saved, again

\* The lists in memory during a visit that finds an item.
Recorded == Record(Load(stored), visitor, clock)
Pruned == Prune(Recorded, clock)

LEMMA VisitLists ==
    ASSUME TypeOK, UniqueList(stored), visitor # NoVisitor
    PROVE  /\ visitor \in Entry
           /\ Recorded \in Seq(Entry) /\ Pruned \in Seq(Entry) /\ UniqueList(Pruned)
           /\ AsSet(Pruned) \subseteq {v \in AsSet(Recorded) : SeenRecently(v, clock)}
           /\ FindRecent(Load(stored), visitor, clock) = {}
                 <=> RecentOf(AsSet(Load(stored)), visitor, clock) = {}
           /\ AsSet(Recorded) =
                 IF FindRecent(Load(stored), visitor, clock) # {}
                 THEN (AsSet(Load(stored)) \ RecentOf(AsSet(Load(stored)), visitor, clock))
                         \cup {Refreshed(visitor, clock)}
                 ELSE AsSet(Load(stored)) \cup {visitor}
           /\ \A j, k \in DOMAIN Recorded :
                 /\ SeenRecently(Recorded[j], clock) /\ SeenRecently(Recorded[k], clock)
                 /\ Recorded[j].tag = Recorded[k].tag
                 => j = k
<1>1. visitor \in Entry /\ clock \in Nat /\ stored \in Seq(StoredVisitor)
  BY DEF TypeOK, Entry
<1>2. Load(stored) \in Seq(Entry) /\ UniqueList(Load(stored))
  BY <1>1, LoadLists
<1>3. /\ Recorded \in Seq(Entry)
      /\ \A j, k \in DOMAIN Recorded :
            /\ SeenRecently(Recorded[j], clock) /\ SeenRecently(Recorded[k], clock)
            /\ Recorded[j].tag = Recorded[k].tag
            => j = k
      /\ FindRecent(Load(stored), visitor, clock) = {}
            <=> RecentOf(AsSet(Load(stored)), visitor, clock) = {}
      /\ AsSet(Recorded) =
            IF FindRecent(Load(stored), visitor, clock) # {}
            THEN (AsSet(Load(stored)) \ RecentOf(AsSet(Load(stored)), visitor, clock))
                    \cup {Refreshed(visitor, clock)}
            ELSE AsSet(Load(stored)) \cup {visitor}
  BY <1>1, <1>2, RecordLists DEF Recorded
<1>4. /\ Pruned \in Seq(Entry) /\ UniqueList(Pruned)
      /\ AsSet(Pruned) \subseteq {v \in AsSet(Recorded) : SeenRecently(v, clock)}
  BY <1>3, PruneLists DEF Pruned
<1> QED
  BY <1>1, <1>3, <1>4

\* What UpdateItem does, in terms of these.
Panics ==
    \/ \E k \in FindTag(Load(stored), visitor.tag) : SeenAfter(Load(stored)[k], clock)
    \/ \E k \in DOMAIN Recorded : SeenAfter(Recorded[k], clock)
    \/ \E k \in DOMAIN Pruned : ~Storable(Pruned[k])

LEMMA UpdateParts ==
    ASSUME UpdateItem
    PROVE  /\ visitor # NoVisitor /\ exists /\ visitor' = NoVisitor
           /\ UNCHANGED <<clock, latest, exists>>
           /\ \/ /\ ~Panics /\ stored' = Save(Pruned)
                 /\ result' = IF FindRecent(Load(stored), visitor, clock) = {}
                              THEN "counted" ELSE "refreshed"
              \/ Panics /\ result' = "panicked" /\ UNCHANGED stored
BY DEF UpdateItem, Panics, Pruned, Recorded

\* A visitor's tag and both its times are enough for the entry that a visit leaves.
LEMMA RefreshedEntry ==
    ASSUME TypeOK, visitor # NoVisitor
    PROVE  /\ visitor \in Entry /\ Refreshed(visitor, clock) \in Entry
           /\ [visitor EXCEPT !.last_seen = clock] = Refreshed(visitor, clock)
BY DEF TypeOK, Entry, Refreshed

-----------------------------------------------------------------------------
(* The invariant *)

\* A stored entry is no later than the visitor it was made of.
LEMMA SavedNotLater ==
    ASSUME NEW v \in Entry, Storable(v)
    PROVE  FromStored(ToStored(v)).last_seen <= v.last_seen
BY StoredSecond

LEMMA CreateItemList ==
    ASSUME TypeOK, CreateItem, result' # "panicked"
    PROVE  /\ visitor \in Entry /\ Storable(visitor)
           /\ stored' \in Seq(StoredVisitor) /\ UniqueList(stored')
           /\ AsSet(Load(stored')) = {FromStored(ToStored(visitor))}
<1>1. visitor \in Entry /\ Storable(visitor) /\ stored' = <<ToStored(visitor)>>
  BY DEF TypeOK, CreateItem, Entry
<1> DEFINE list == <<visitor>>
<1>2. /\ list \in Seq(Entry) /\ DOMAIN list = {1} /\ list[1] = visitor
  BY <1>1
<1>3. UniqueList(list) /\ AsSet(list) = {visitor}
  BY <1>2 DEF UniqueList, AsSet
<1>4. Save(list) = stored'
  BY <1>1 DEF Save
<1> HIDE DEF list
<1> QED
  BY <1>1, <1>2, <1>3, <1>4, SaveLists

LEMMA NextInvariant ==
    ASSUME IInv, [Next]_vars
    PROVE  IInv'
<1>1. TypeOK /\ UniqueList(stored) /\ TimesPassed
  BY DEF IInv
<1>2. clock \in Nat /\ latest \in Nat /\ \A v \in AsSet(Load(stored)) : v.last_seen \in Nat
  BY <1>1, LoadLists DEF TypeOK, Entry
<1>3. ASSUME NEW t \in Tags, Identify(t) PROVE IInv'
  <2>1. visitor' \in [tag : Tags, last_seen : Nat] /\ visitor'.last_seen = clock
    BY <1>2, <1>3 DEF Identify
  <2>2. UNCHANGED <<clock, latest, exists, stored, result>>
    BY <1>3 DEF Identify
  <2>3. Load(stored)' = Load(stored)
    BY <2>2 DEF Load
  <2> QED
    BY <1>1, <2>1, <2>2, <2>3 DEF IInv, TypeOK, TimesPassed, UniqueList, AsSet
<1>4. ASSUME UNCHANGED <<clock, latest, exists, stored>>, visitor' = NoVisitor,
             result' = "panicked"
      PROVE  IInv'
  <2>1. Load(stored)' = Load(stored)
    BY <1>4 DEF Load
  <2> QED
    BY <1>1, <1>4, <2>1 DEF IInv, TypeOK, TimesPassed, UniqueList, AsSet, Results
<1>5. ASSUME UNCHANGED <<clock, latest>>, exists' \in BOOLEAN, visitor' = NoVisitor,
             result' \in {"counted", "refreshed"},
             stored' \in Seq(StoredVisitor), UniqueList(stored'),
             \A v \in AsSet(Load(stored')) : v.last_seen <= latest
      PROVE  IInv'
  BY <1>1, <1>5 DEF IInv, TypeOK, TimesPassed, UniqueList, AsSet, Load, Results
<1>6. ASSUME CreateItem PROVE IInv'
  <2>1. CASE result' = "panicked"
    BY <1>4, <1>6, <2>1 DEF CreateItem
  <2>2. CASE result' # "panicked"
    <3>1. /\ visitor \in Entry /\ Storable(visitor)
          /\ stored' \in Seq(StoredVisitor) /\ UniqueList(stored')
          /\ AsSet(Load(stored')) = {FromStored(ToStored(visitor))}
      BY <1>1, <1>6, <2>2, CreateItemList
    <3>2. FromStored(ToStored(visitor)).last_seen <= latest
      <4>1. visitor.last_seen <= latest /\ visitor.last_seen \in Nat
        BY <1>1, <1>6, <3>1 DEF CreateItem, TimesPassed, Entry
      <4>2. FromStored(ToStored(visitor)).last_seen \in Nat
        BY <3>1, StoredType, LoadedType DEF Entry
      <4> QED
        BY <1>2, <3>1, <4>1, <4>2, SavedNotLater
    <3>3. /\ UNCHANGED <<clock, latest>> /\ exists' \in BOOLEAN
          /\ visitor' = NoVisitor /\ result' \in {"counted", "refreshed"}
      BY <1>6, <2>2 DEF CreateItem
    <3> QED
      BY <1>5, <3>1, <3>2, <3>3
  <2> QED
    BY <2>1, <2>2
<1>7. ASSUME UpdateItem PROVE IInv'
  <2>1. CASE Panics /\ result' = "panicked" /\ UNCHANGED stored
    BY <1>4, <1>7, <2>1, UpdateParts
  <2>2. CASE ~Panics /\ stored' = Save(Pruned) /\ result' # "panicked"
    <3>1. visitor # NoVisitor
      BY <1>7, UpdateParts
    <3>2. /\ visitor \in Entry /\ Pruned \in Seq(Entry) /\ UniqueList(Pruned)
          /\ AsSet(Pruned) \subseteq AsSet(Recorded)
          /\ AsSet(Recorded) \subseteq
                AsSet(Load(stored)) \cup {Refreshed(visitor, clock), visitor}
      BY <1>1, <3>1, VisitLists
    <3>3. ASSUME NEW v \in AsSet(Pruned)
          PROVE  FromStored(ToStored(v)).last_seen <= latest
      <4>1. v \in Entry
        BY <3>2, ListCardinality
      <4>2. Storable(v)
        BY <2>2 DEF Panics, AsSet
      <4>3. v.last_seen <= latest
        BY <1>1, <3>1, <3>2 DEF TimesPassed, Refreshed
      <4>4. FromStored(ToStored(v)).last_seen \in Nat /\ v.last_seen \in Nat
        BY <4>1, StoredType, LoadedType DEF Entry
      <4> QED
        BY <1>2, <4>1, <4>2, <4>3, <4>4, SavedNotLater
    <3>4. /\ stored' \in Seq(StoredVisitor) /\ UniqueList(stored')
          /\ AsSet(Load(stored')) = {FromStored(ToStored(v)) : v \in AsSet(Pruned)}
      BY <2>2, <3>2, SaveLists
    <3>5. \A v \in AsSet(Load(stored')) : v.last_seen <= latest
      BY <3>3, <3>4
    <3>6. /\ UNCHANGED <<clock, latest>> /\ exists' \in BOOLEAN
          /\ visitor' = NoVisitor /\ result' \in {"counted", "refreshed"}
      BY <1>1, <1>7, <2>2, UpdateParts DEF TypeOK
    <3> QED
      BY <1>5, <3>4, <3>5, <3>6
  <2> QED
    BY <1>7, <2>1, <2>2, UpdateParts
<1>8. ASSUME MoveClock PROVE IInv'
  <2>1. clock' \in Nat /\ latest' \in Nat /\ clock' <= latest' /\ latest <= latest'
    BY <1>2, <1>8, MaxClockAssumption DEF MoveClock
  <2>2. UNCHANGED <<exists, stored, visitor, result>>
    BY <1>8 DEF MoveClock
  <2>3. Load(stored)' = Load(stored)
    BY <2>2 DEF Load
  <2>4. visitor # NoVisitor => visitor.last_seen \in Nat
    BY <1>1 DEF TypeOK
  <2>5. TimesPassed'
    BY <1>1, <1>2, <2>1, <2>2, <2>3, <2>4 DEF TimesPassed, AsSet
  <2> QED
    BY <1>1, <2>1, <2>2, <2>5 DEF IInv, TypeOK, UniqueList
<1>9. ASSUME UNCHANGED vars PROVE IInv'
  <2>1. UNCHANGED <<clock, latest, exists, stored, visitor, result>>
    BY <1>9 DEF vars
  <2>2. Load(stored)' = Load(stored)
    BY <2>1 DEF Load
  <2> QED
    BY <1>1, <2>1, <2>2 DEF IInv, TypeOK, TimesPassed, UniqueList, AsSet
<1> QED
  BY <1>3, <1>6, <1>7, <1>8, <1>9 DEF Next

LEMMA InitInvariant == Init => IInv
<1> SUFFICES ASSUME Init PROVE IInv
  OBVIOUS
<1>1. clock \in Nat /\ latest = clock /\ stored = <<>> /\ visitor = NoVisitor
  BY MaxClockAssumption DEF Init
<1>2. DOMAIN Load(stored) = {} /\ DOMAIN stored = {} /\ stored \in Seq(StoredVisitor)
  BY <1>1 DEF Load
<1>3. TypeOK
  BY <1>1, <1>2 DEF Init, TypeOK, Results
<1> QED
  BY <1>1, <1>2, <1>3 DEF IInv, UniqueList, TimesPassed, AsSet

\* The list that is stored never has a visitor twice, nor a time that no clock has
\* shown, whatever the clocks, the visitors and the bounds.
THEOREM ListInvariantCorrect == Spec => []IInv
<1>1. Init => IInv
  BY InitInvariant
<1>2. IInv /\ [Next]_vars => IInv'
  BY NextInvariant
<1> QED
  BY <1>1, <1>2, PTL DEF Spec

\* Every variable has its type; a stored time is a u32.
THEOREM ListTypeCorrect == Spec => []TypeOK
<1>1. IInv => TypeOK
  BY DEF IInv
<1> QED
  BY <1>1, ListInvariantCorrect, PTL

-----------------------------------------------------------------------------
(* What a visit may do *)

\* A visit is CreateItem or UpdateItem.
LEMMA VisitIs ==
    ASSUME [Next]_vars, Visited
    PROVE  CreateItem \/ UpdateItem
BY DEF Next, Visited, Identify, MoveClock, vars

LEMMA UpdateStepAsSet ==
    ASSUME IInv, UpdateItem, result' # "panicked"
    PROVE  [count |-> IF result' = "counted" THEN 2 ELSE 1,
            recent_visitors |-> AsSet(stored')] \in
               {Set!StoredEntry(updated) : updated \in
                   Set!UpdatedEntries(LoadedSet,
                                      [visitor EXCEPT !.last_seen = SinceOffset(@)],
                                      SinceOffset(clock))}
<1> DEFINE loaded == AsSet(Load(stored))
           entry == Set!RecordVisit(LoadedSet, Shifted(visitor), SinceOffset(clock))
           count == IF result' = "counted" THEN 2 ELSE 1
           updated == [count |-> entry.count,
                       recent_visitors |-> ShiftedSet(AsSet(Pruned))]
<1>1. TypeOK /\ UniqueList(stored) /\ visitor # NoVisitor
  BY UpdateParts DEF IInv
<1>2. /\ ~Panics /\ stored' = Save(Pruned)
      /\ result' = IF FindRecent(Load(stored), visitor, clock) = {}
                   THEN "counted" ELSE "refreshed"
  BY UpdateParts
<1>3. /\ visitor \in Entry /\ Recorded \in Seq(Entry)
      /\ Pruned \in Seq(Entry) /\ UniqueList(Pruned)
      /\ \A j, k \in DOMAIN Recorded :
            /\ SeenRecently(Recorded[j], clock) /\ SeenRecently(Recorded[k], clock)
            /\ Recorded[j].tag = Recorded[k].tag
            => j = k
  BY <1>1, VisitLists
<1>4. entry = [count |-> count, recent_visitors |-> ShiftedSet(AsSet(Recorded))]
  <2>1. /\ Load(stored) \in Seq(Entry) /\ UniqueList(Load(stored))
        /\ LoadedSet = [count |-> 1, recent_visitors |-> ShiftedSet(loaded)]
    BY <1>1, LoadLists DEF TypeOK
  <2>2. clock \in Nat
    BY <1>1 DEF TypeOK
  <2>3. entry = [count |-> IF FindRecent(Load(stored), visitor, clock) = {}
                           THEN 1 + 1 ELSE 1,
                 recent_visitors |-> ShiftedSet(AsSet(Recorded))]
    BY <1>3, <2>1, <2>2, RecordAsSet DEF Recorded
  <2> QED
    BY <1>2, <2>3
<1>5. ShiftedSet(AsSet(Pruned)) \in
         Set!PruneVisitors(entry.recent_visitors, SinceOffset(clock), MAX_RECENT_VISITORS)
  BY <1>1, <1>3, <1>4, PruneAsSet DEF Pruned, TypeOK
<1>6. updated \in Set!UpdatedEntries(LoadedSet, Shifted(visitor), SinceOffset(clock))
  <2> HIDE DEF entry
  <2> QED
    BY <1>5 DEF Set!UpdatedEntries, entry
<1>7. Set!StoredEntry(updated) = [count |-> count, recent_visitors |-> AsSet(stored')]
  <2>1. \A v \in AsSet(Pruned) : Set!ToStored(Shifted(v)) = ToStored(v)
    <3>1. \A v \in AsSet(Pruned) : v \in Entry /\ Storable(v)
      BY <1>2, <1>3, ListCardinality DEF Panics, AsSet
    <3> QED
      BY <3>1, StoredAsSet
  <2>2. {Set!ToStored(v) : v \in ShiftedSet(AsSet(Pruned))} = AsSet(stored')
    <3>1. AsSet(stored') = {ToStored(v) : v \in AsSet(Pruned)}
      BY <1>2, <1>3, SaveLists
    <3> QED
      BY <2>1, <3>1 DEF ShiftedSet
  <2>3. updated.count = count
    BY <1>4
  <2> HIDE DEF entry, count
  <2> QED
    BY <2>2, <2>3 DEF Set!StoredEntry
<1>8. Shifted(visitor) = [visitor EXCEPT !.last_seen = SinceOffset(@)]
  BY DEF Shifted
<1> HIDE DEF updated, count
<1> QED
  BY <1>6, <1>7, <1>8 DEF count

\* The Vec behaves as the set of RecentVisitors: the duplicates, the order and the
\* ties of the sort make no difference, for any list, any visitor and any clock.
THEOREM AsSetCorrect == Spec => UpdatesAsSet
<1>1. IInv /\ [Next]_vars => UpdateAsSet
  <2> SUFFICES ASSUME IInv, [Next]_vars, Visited, exists, result' # "panicked"
               PROVE  UpdateItem
    BY UpdateStepAsSet DEF UpdateAsSet
  <2> QED
    BY VisitIs DEF CreateItem
<1> QED
  BY <1>1, ListInvariantCorrect, PTL DEF Spec, UpdatesAsSet

\* The lookup, the pruning and the conversion panic only on an entry that is later
\* than now, if the times of the visit itself can be stored and are in order.
LEMMA PanicsWhenSeenAfter ==
    ASSUME TypeOK, UniqueList(stored), visitor # NoVisitor, visitor.last_seen <= clock,
           Storable(visitor), Storable(Refreshed(visitor, clock))
    PROVE  Panics <=> \E v \in AsSet(Load(stored)) : SeenAfter(v, clock)
<1> DEFINE loaded == Load(stored)
<1>1. /\ visitor \in Entry /\ Recorded \in Seq(Entry) /\ Pruned \in Seq(Entry)
      /\ AsSet(Pruned) \subseteq AsSet(Recorded)
      /\ FindRecent(loaded, visitor, clock) = {} <=> RecentOf(AsSet(loaded), visitor, clock) = {}
      /\ AsSet(Recorded) =
            IF FindRecent(loaded, visitor, clock) # {}
            THEN (AsSet(loaded) \ RecentOf(AsSet(loaded), visitor, clock))
                    \cup {Refreshed(visitor, clock)}
            ELSE AsSet(loaded) \cup {visitor}
  BY VisitLists
<1>2. /\ loaded \in Seq(Entry) /\ UniqueList(loaded)
      /\ \A v \in AsSet(loaded) : v \in Entry /\ Storable(v)
  BY LoadLists DEF TypeOK
<1>3. FindTag(loaded, visitor.tag) = {k \in DOMAIN loaded : loaded[k].tag = visitor.tag}
  BY <1>2, FindLists
<1>4. ~SeenAfter(visitor, clock) /\ ~SeenAfter(Refreshed(visitor, clock), clock)
  BY <1>1 DEF SeenAfter, Refreshed, TypeOK, Entry
<1> HIDE DEF loaded
<1>5. ASSUME Panics PROVE \E v \in AsSet(loaded) : SeenAfter(v, clock)
  <2>1. CASE \E k \in FindTag(loaded, visitor.tag) : SeenAfter(loaded[k], clock)
    BY <1>3, <2>1 DEF AsSet
  <2>2. CASE \E k \in DOMAIN Recorded : SeenAfter(Recorded[k], clock)
    <3>1. PICK v \in AsSet(Recorded) : SeenAfter(v, clock)
      BY <2>2 DEF AsSet
    <3> QED
      BY <1>1, <1>4, <3>1
  <2>3. CASE \E k \in DOMAIN Pruned : ~Storable(Pruned[k])
    <3>1. PICK v \in AsSet(Recorded) : ~Storable(v)
      BY <1>1, <2>3 DEF AsSet
    <3> QED
      BY <1>1, <1>2, <3>1
  <2> QED
    BY <1>5, <2>1, <2>2, <2>3 DEF Panics, loaded
<1>6. ASSUME NEW v \in AsSet(loaded), SeenAfter(v, clock) PROVE Panics
  <2>1. CASE v.tag = visitor.tag
    <3>1. PICK k \in DOMAIN loaded : loaded[k] = v
      BY DEF AsSet
    <3>2. k \in FindTag(loaded, visitor.tag)
      BY <1>3, <2>1, <3>1
    <3> QED
      BY <1>6, <3>1, <3>2 DEF Panics, loaded
  <2>2. CASE v.tag # visitor.tag
    <3>1. v \in AsSet(Recorded)
      BY <1>1, <2>2 DEF RecentOf
    <3>2. PICK k \in DOMAIN Recorded : Recorded[k] = v
      BY <3>1 DEF AsSet
    <3> QED
      BY <1>6, <3>2 DEF Panics
  <2> QED
    BY <2>1, <2>2
<1> QED
  BY <1>5, <1>6 DEF loaded

\* A visit in order panics exactly on an entry from the future, as Store has it.
THEOREM PanicCorrect == Spec => PanicsAsSet
<1>1. IInv /\ [Next]_vars => PanicAsSet
  <2> SUFFICES ASSUME IInv, [Next]_vars, Visited, exists, visitor.last_seen <= clock,
                      Storable(visitor), Storable([visitor EXCEPT !.last_seen = clock])
               PROVE  result' = "panicked" <=>
                         Set!SomeSeenAfter(LoadedSet.recent_visitors, SinceOffset(clock))
    BY DEF PanicAsSet
  <2>1. TypeOK /\ UniqueList(stored) /\ visitor # NoVisitor
    BY DEF IInv, Visited
  <2>2. UpdateItem
    BY VisitIs DEF CreateItem
  <2>3. result' = "panicked" <=> Panics
    BY <2>2, UpdateParts
  <2>4. Panics <=> \E v \in AsSet(Load(stored)) : SeenAfter(v, clock)
    BY <2>1, RefreshedEntry, PanicsWhenSeenAfter
  <2>5. /\ LoadedSet = [count |-> 1, recent_visitors |-> ShiftedSet(AsSet(Load(stored)))]
        /\ \A v \in AsSet(Load(stored)) : v \in Entry
    BY <2>1, LoadLists DEF TypeOK
  <2>6. ASSUME NEW v \in AsSet(Load(stored))
        PROVE  SeenAfter(v, clock) <=> Shifted(v).last_seen > SinceOffset(clock)
    BY <2>1, <2>5, ShiftedEntry, OffsetTicks DEF SeenAfter, SinceOffset, TypeOK, Entry
  <2>7. (\E v \in AsSet(Load(stored)) : SeenAfter(v, clock)) <=>
           \E v \in ShiftedSet(AsSet(Load(stored))) : v.last_seen > SinceOffset(clock)
    BY <2>6 DEF ShiftedSet
  <2> QED
    BY <2>3, <2>4, <2>5, <2>7 DEF Set!SomeSeenAfter
<1> QED
  BY <1>1, ListInvariantCorrect, PTL DEF Spec, PanicsAsSet

\* Every entry that is left of a visitor after its visit is from one of its times.
THEOREM StoredTimesCorrect == Spec => StoredTimesTrue
<1> DEFINE near(v, w) == v.last_seen <= w.last_seen /\ w.last_seen < v.last_seen + TICKS_PER_SEC
<1>1. ASSUME NEW v \in Entry, Storable(v)
      PROVE  near(FromStored(ToStored(v)), v)
  BY <1>1, StoredSecond
<1>2. IInv /\ [Next]_vars => StoredTimeTrue
  <2> SUFFICES ASSUME IInv, [Next]_vars, Visited, result' # "panicked",
                      NEW e \in AsSet(Load(stored')), e.tag = visitor.tag
               PROVE  \E t \in {visitor.last_seen, clock} :
                         e.last_seen <= t /\ t < e.last_seen + TICKS_PER_SEC
    BY DEF StoredTimeTrue
  <2>1. TypeOK /\ UniqueList(stored) /\ visitor # NoVisitor
    BY DEF IInv, Visited
  <2>2. CASE CreateItem
    <3>1. e = FromStored(ToStored(visitor)) /\ visitor \in Entry /\ Storable(visitor)
      BY <2>1, <2>2, CreateItemList
    <3>2. near(e, visitor)
      BY <1>1, <3>1
    <3> QED
      BY <3>2
  <2>3. CASE UpdateItem
    <3>1. ~Panics /\ stored' = Save(Pruned)
      BY <2>3, UpdateParts
    <3>2. Pruned \in Seq(Entry) /\ UniqueList(Pruned)
      BY <2>1, VisitLists
    <3>3. PICK v \in AsSet(Pruned) : e = FromStored(ToStored(v))
      BY <3>1, <3>2, SaveLists
    <3>4. v \in Entry /\ Storable(v) /\ v.tag = visitor.tag
      <4>1. v \in Entry /\ Storable(v)
        BY <3>1, <3>2, ListCardinality DEF Panics, AsSet
      <4> QED
        BY <3>3, <4>1, StoredType, LoadedType
    <3>5. v = visitor \/ v = Refreshed(visitor, clock)
      <4>1. /\ v \in AsSet(Recorded) /\ SeenRecently(v, clock)
            /\ FindRecent(Load(stored), visitor, clock) = {}
                  <=> RecentOf(AsSet(Load(stored)), visitor, clock) = {}
            /\ AsSet(Recorded) =
                  IF FindRecent(Load(stored), visitor, clock) # {}
                  THEN (AsSet(Load(stored)) \ RecentOf(AsSet(Load(stored)), visitor, clock))
                          \cup {Refreshed(visitor, clock)}
                  ELSE AsSet(Load(stored)) \cup {visitor}
        BY <2>1, VisitLists
      <4>2. v \in AsSet(Load(stored)) => v \in RecentOf(AsSet(Load(stored)), visitor, clock)
        BY <3>4, <4>1 DEF RecentOf
      <4> QED
        BY <4>1, <4>2
    <3>6. near(e, v)
      BY <1>1, <3>3, <3>4
    <3> QED
      BY <3>5, <3>6 DEF Refreshed
  <2> QED
    BY <2>2, <2>3, VisitIs
<1> QED
  BY <1>2, ListInvariantCorrect, PTL DEF Spec, StoredTimesTrue

\* A counter that panics recovers: when the clock has caught up with every time that
\* was read, no visit panics that can be stored.
THEOREM OutageCorrect == Spec => OutageEnds
<1>1. IInv /\ [Next]_vars => PanicExcused
  <2> SUFFICES ASSUME IInv, [Next]_vars, Visited, result' = "panicked", ~(clock < latest),
                      Storable(visitor), Storable([visitor EXCEPT !.last_seen = clock])
               PROVE  FALSE
    BY DEF PanicExcused
  <2>1. TypeOK /\ UniqueList(stored) /\ visitor # NoVisitor /\ TimesPassed
    BY DEF IInv, Visited
  <2>2. visitor \in Entry /\ clock = latest /\ clock \in Nat
    BY <2>1, RefreshedEntry DEF TypeOK, TimesPassed
  <2>3. UpdateItem
    BY VisitIs DEF CreateItem
  <2>4. Panics
    BY <2>3, UpdateParts
  <2>5. visitor.last_seen <= clock
    BY <2>1, <2>2 DEF TimesPassed
  <2>6. PICK v \in AsSet(Load(stored)) : SeenAfter(v, clock)
    BY <2>1, <2>4, <2>5, RefreshedEntry, PanicsWhenSeenAfter
  <2>7. v.last_seen \in Nat
    BY <2>1, LoadLists DEF TypeOK, Entry
  <2> QED
    BY <2>1, <2>2, <2>6, <2>7 DEF TimesPassed, SeenAfter
<1> QED
  BY <1>1, ListInvariantCorrect, PTL DEF Spec, OutageEnds
=============================================================================
