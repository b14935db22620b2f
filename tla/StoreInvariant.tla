--------------------------- MODULE StoreInvariant ---------------------------
(***************************************************************************)
(* The inductive invariant of Store.  The properties of Store speak of the *)
(* item in the table; none of them is inductive alone, because the next    *)
(* item is already on the network, and was computed from a version that    *)
(* may have been replaced.  So each part here speaks of every version that *)
(* can still be read and of every put that can still arrive.               *)
(***************************************************************************)
EXTENDS Store

-----------------------------------------------------------------------------
\* The puts that can still reach the table: those on the network, and those that
\* the SDK may send again.
Awaited == {request[i] : i \in {j \in Invocations : pc[j] = "put"}}
Pending == network \cup Awaited

-----------------------------------------------------------------------------
(* Counts *)

\* A version that can be read is no newer than the item, and only the absence of
\* an item has count 0.
VersionsCounted ==
    \A v \in Readable : v.count <= item.count /\ (v = NoItem \/ v.count > 0)

\* A pending put was computed from a version that existed, and counts one
\* visit or none.
PutsCounted ==
    \A m \in Pending :
        /\ m.condition <= item.count
        /\ m.put.count > 0
        /\ m.put.count = m.condition \/ m.put.count = m.condition + 1

\* The count never passes a caller on its way down.
FloorsReached == \A i \in Invocations : floor[i] <= item.count

CountInv ==
    /\ VersionsCounted
    /\ PutsCounted
    /\ FloorsReached
    /\ CountIsLedger
    /\ AnswersInWindow

-----------------------------------------------------------------------------
(* Work *)

\* An invocation that has not ended has an attempt left, and none of its sends is
\* beyond the last.
WorkInv ==
    \A i \in Invocations :
        /\ ~Finished(i) => attempt[i] < MAX_ATTEMPTS_FOR_OPTIMISTIC_LOCKING
        /\ pc[i] = "put" => request[i].send \in 1..MAX_SENDS

-----------------------------------------------------------------------------
(* Lists *)

\* Every list, stored or pending, is one the item can hold.
ListInv ==
    /\ \A v \in Readable : GoodList(v.recent_visitors)
    /\ \A m \in Pending : GoodList(m.put.recent_visitors)

-----------------------------------------------------------------------------
(* Time *)

\* The pending puts and the counted visits are of invocations that have called the
\* store.
TimeInv ==
    /\ \A m \in Pending : Called(m.from)
    /\ \A k \in DOMAIN ledger : Called(ledger[k])
    /\ \A i \in Invocations :
          Alive(i) => /\ seen[i] <= clock
                      /\ clock <= seen[i] + LAMBDA_TIMEOUT * TICKS_PER_SEC
                      /\ Called(i) => seen[i] <= now[i] /\ now[i] <= clock

-----------------------------------------------------------------------------
(* Visits *)

\* Every entry is of a visitor that has come, and no later than it came.
CameBy(e) ==
    \E j \in Invocations :
        /\ TagOf[j] = e.tag
        /\ Called(j)
        /\ now[j] \div TICKS_PER_SEC >= e.last_seen

VisitInv ==
    /\ \A i \in Invocations : now[i] <= clock
    /\ \A v \in Readable : \A e \in v.recent_visitors : CameBy(e)
    /\ \A m \in Pending : \A e \in m.put.recent_visitors : CameBy(e)

-----------------------------------------------------------------------------
(* Memory *)

\* The list has an entry for invocation i that is as late as its visit, or it need
\* not have one: so much time has passed, or so many others have come.
Remembers(visitors, i) ==
    \/ \E v \in visitors :
          v.tag = TagOf[i] /\ v.last_seen >= seen[i] \div TICKS_PER_SEC
    \/ clock >= (seen[i] \div TICKS_PER_SEC + RECENT_CUTOFF) * TICKS_PER_SEC
    \/ Crowded(i, clock)

RemembersUpTo(visitors, n) ==
    \A k \in DOMAIN ledger : k <= n => Remembers(visitors, ledger[k])

\* A version that can be read remembers every visit up to its count, so that an
\* invocation that loads it does not count one of them again.
VersionsRemember == \A v \in Readable : RemembersUpTo(v.recent_visitors, v.count)

\* So does the put made from it, and it remembers the visit it counts.
PutsRemember ==
    \A m \in Pending :
        /\ RemembersUpTo(m.put.recent_visitors, m.condition)
        /\ CountsVisit(m) => Remembers(m.put.recent_visitors, m.from)

\* Time enough between two visits of one visitor that are both counted, the first
\* by invocation i and the second by invocation j.
Apart(i, j) ==
    TagOf[i] = TagOf[j] =>
        \/ now[j] >= (seen[i] \div TICKS_PER_SEC + RECENT_CUTOFF - LAMBDA_TIMEOUT)
                       * TICKS_PER_SEC
        \/ Crowded(i, Deadline(j))

ApartUpTo(n, j) == \A k \in DOMAIN ledger : k <= n => Apart(ledger[k], j)

\* DedupWindow, before the put that counts the second visit has arrived.
PutsApart == \A m \in Pending : CountsVisit(m) => ApartUpTo(m.condition, m.from)

MemoryInv ==
    /\ VersionsRemember
    /\ PutsRemember
    /\ PutsApart
    /\ DedupWindow

\* The whole of it.
IInv == TypeOK /\ CountInv /\ ListInv /\ TimeInv /\ VisitInv /\ MemoryInv

-----------------------------------------------------------------------------
(* What the implementation of VisitorCounter needs besides *)

\* A put that comes too late: the count has passed its condition.
Spent(m) == m.condition < item.count

\* Of all puts that an invocation has sent, only those of its last attempt can
\* still be accepted: it starts over only when the earlier ones have failed.  After
\* its answer none of them can count its visit, and only an answer ends it as done.
AttemptInv ==
    /\ \A i \in Invocations : answer[i] # 0 => pc[i] = "done"
    /\ \A m \in Pending :
          /\ pc[m.from] = "get" => Spent(m)
          /\ pc[m.from] = "put" =>
                \/ Spent(m)
                \/ /\ m.condition = request[m.from].condition
                   /\ m.put = request[m.from].put
          /\ answer[m.from] # 0 /\ CountsVisit(m) => Spent(m)

\* Every entry of a list that can be read is of a visitor that was counted, every
\* entry of a pending put is of one that was or that the put counts, and a put that
\* only refreshes the list is made for a visitor that was counted.
CountedTags == {TagOf[ledger[k]] : k \in DOMAIN ledger}

TagInv ==
    /\ \A v \in Readable : \A e \in v.recent_visitors : e.tag \in CountedTags
    /\ \A m \in Pending :
          /\ \A e \in m.put.recent_visitors :
                e.tag \in CountedTags \/ (CountsVisit(m) /\ e.tag = TagOf[m.from])
          /\ CountsVisit(m) \/ TagOf[m.from] \in CountedTags

\* The times of an invocation are within its time, dead or alive.
SettledInv ==
    \A i \in Invocations :
        /\ pc[i] = "idle" => now[i] = 0
        /\ now[i] <= seen[i] + LAMBDA_TIMEOUT * TICKS_PER_SEC

\* A request awaited by an invocation is its own.
OwnInv == \A i \in Invocations : request[i].from = i

RefinementInv == AttemptInv /\ TagInv /\ SettledInv /\ OwnInv

\* A condition on the visitors and not a part of the invariant: in the time that
\* one invocation may run, as many other visitors as the list holds do not come.
NoRush == \A i \in Invocations : Called(i) => ~Crowded(i, Deadline(i))
=============================================================================
