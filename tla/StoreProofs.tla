---------------------------- MODULE StoreProofs -----------------------------
(***************************************************************************)
(* Proofs about Store, for any set of invocations and of visitors, any     *)
(* number of sends and attempts, and a clock without bound.                *)
(***************************************************************************)
EXTENDS StoreInvariant, RecentVisitorsProofs

-----------------------------------------------------------------------------
(* Types *)

LEMMA InitType == Init => TypeOK
BY DEF Init, TypeOK, NoItem, CountEntry, NoRequest, PutRequest, PCs, AttributeNotExists

\* The parts of an action that are common to several keep the types they touch.
LEMMA SendPutType ==
    ASSUME TypeOK, NEW i \in Invocations, NEW condition \in Nat,
           NEW put \in CountEntry, SendPut(i, condition, put)
    PROVE  TypeOK'
<1> DEFINE m == [from |-> i, attempt |-> attempt[i], send |-> 1,
                 condition |-> condition, put |-> put]
<1>1. m \in PutRequest
  BY DEF TypeOK, PutRequest
<1>2. /\ pc' = [pc EXCEPT ![i] = "put"]
      /\ request' = [request EXCEPT ![i] = m]
      /\ network' = network \cup {m}
      /\ UNCHANGED <<clock, item, stale, ledger, seen, now, attempt, answer, floor>>
      /\ outdated' = [outdated EXCEPT ![i] = IF condition < item.count THEN @ + 1 ELSE @]
  BY DEF SendPut, table
<1>3. outdated' \in [Invocations -> Nat]
  BY <1>2 DEF TypeOK
<1> HIDE DEF m
<1> QED
  BY <1>1, <1>2, <1>3 DEF TypeOK, PCs

LEMMA GoToType ==
    ASSUME TypeOK, NEW i \in Invocations, NEW p \in PCs, GoTo(i, p)
    PROVE  /\ pc' \in [Invocations -> PCs]
           /\ request' \in [Invocations -> PutRequest]
<1>1. NoRequest(i) \in PutRequest
  BY DEF NoRequest, PutRequest, AttributeNotExists, NoItem, CountEntry
<1> QED
  BY <1>1 DEF GoTo, TypeOK

LEMMA AcceptPutType ==
    ASSUME TypeOK, NEW m \in network, AcceptPut(m)
    PROVE  /\ item' \in CountEntry
           /\ stale' \subseteq CountEntry
           /\ network' \subseteq PutRequest
           /\ ledger' \in Seq(Invocations)
<1>1. m \in PutRequest
  BY DEF TypeOK
<1>2. m.put \in CountEntry /\ m.from \in Invocations
  BY <1>1 DEF PutRequest
<1> QED
  BY <1>2 DEF AcceptPut, TypeOK

\* A version that can be read, and the put that GetSome makes of it, are entries.
LEMMA GetSomeType ==
    ASSUME TypeOK, NEW i \in Invocations, NEW stored \in Readable,
           NEW updated \in UpdatedEntries(LoadedEntry(stored), VisitorOf(i), now[i])
    PROVE  /\ stored \in CountEntry
           /\ LoadedEntry(stored) \in CountEntry
           /\ VisitorOf(i) \in Visitor
           /\ updated \in CountEntry
           /\ StoredEntry(updated) \in CountEntry
<1>1. stored \in CountEntry /\ now[i] \in Nat
  BY DEF TypeOK, Readable
<1>2. VisitorOf(i) \in Visitor
  BY TagOfAssumption DEF TypeOK, VisitorOf, Visitor
<1>3. LoadedEntry(stored) \in CountEntry
  BY <1>1, LoadedType
<1>4. updated \in CountEntry
  BY <1>1, <1>2, <1>3, UpdatedType
<1> QED
  BY <1>1, <1>2, <1>3, <1>4, StoredType

LEMMA NextType == TypeOK /\ [Next]_vars => TypeOK'
<1> SUFFICES ASSUME TypeOK, [Next]_vars PROVE TypeOK'
  OBVIOUS
<1>1. ASSUME NEW i \in Invocations, Identify(i) PROVE TypeOK'
  BY <1>1 DEF Identify, TypeOK, PCs, table
<1>2. ASSUME NEW i \in Invocations, Call(i) PROVE TypeOK'
  BY <1>2 DEF Call, TypeOK, PCs, table, CountEntry
<1>3. ASSUME NEW i \in Invocations, GetFails(i) PROVE TypeOK'
  BY <1>3, GoToType DEF GetFails, TypeOK, PCs, table
<1>4. ASSUME NEW i \in Invocations, GetNothing(i) PROVE TypeOK'
  <2>1. ToStored(VisitorOf(i)) \in Visitor
    BY DivNat, TagOfAssumption DEF TypeOK, VisitorOf, Visitor, ToStored
  <2>2. [count |-> 1, recent_visitors |-> {ToStored(VisitorOf(i))}] \in CountEntry
    BY <2>1 DEF CountEntry
  <2> QED
    BY <1>4, <2>2, SendPutType DEF GetNothing, AttributeNotExists
<1>5. ASSUME NEW i \in Invocations, GetPanics(i) PROVE TypeOK'
  BY <1>5, GoToType DEF GetPanics, TypeOK, PCs, table
<1>6. ASSUME NEW i \in Invocations, GetSome(i) PROVE TypeOK'
  <2>1. PICK stored \in Readable \ {NoItem} :
           \E updated \in UpdatedEntries(LoadedEntry(stored), VisitorOf(i), now[i]) :
              SendPut(i, LoadedEntry(stored).count, StoredEntry(updated))
    BY <1>6 DEF GetSome
  <2>2. PICK updated \in UpdatedEntries(LoadedEntry(stored), VisitorOf(i), now[i]) :
           SendPut(i, LoadedEntry(stored).count, StoredEntry(updated))
    BY <2>1
  <2>3. LoadedEntry(stored).count \in Nat /\ StoredEntry(updated) \in CountEntry
    BY GetSomeType DEF CountEntry
  <2> QED
    BY <2>2, <2>3, SendPutType
<1>7. ASSUME NEW i \in Invocations, ResendPut(i) PROVE TypeOK'
  <2>1. request[i] \in PutRequest
    BY DEF TypeOK
  <2>2. [request[i] EXCEPT !.send = @ + 1] \in PutRequest
    BY <2>1 DEF PutRequest
  <2> QED
    BY <1>7, <2>2 DEF ResendPut, TypeOK, table
<1>8. ASSUME NEW i \in Invocations, PutFails(i) PROVE TypeOK'
  BY <1>8, GoToType DEF PutFails, TypeOK, PCs, table
<1>9. ASSUME NEW i \in Invocations, PutSucceeds(i) PROVE TypeOK'
  <2>1. request[i].put.count \in Nat
    BY DEF TypeOK, PutRequest, CountEntry
  <2> QED
    BY <1>9, <2>1, GoToType, AcceptPutType DEF PutSucceeds, TypeOK, PCs
<1>10. ASSUME NEW i \in Invocations, PutConflicts(i) PROVE TypeOK'
  BY <1>10, GoToType DEF PutConflicts, RejectPut, TypeOK, PCs, table
<1>11. ASSUME NEW i \in Invocations, Kill(i) PROVE TypeOK'
  BY <1>11, GoToType DEF Kill, TypeOK, PCs, table
<1>12. CASE AcceptUnheard
  BY <1>12, AcceptPutType DEF AcceptUnheard, TypeOK, client
<1>13. CASE Tick
  BY <1>13 DEF Tick, TypeOK, table, client
<1>14. CASE UNCHANGED vars
  BY <1>14 DEF vars, TypeOK, table, client
<1> QED
  BY <1>1, <1>2, <1>3, <1>4, <1>5, <1>6, <1>7, <1>8, <1>9, <1>10, <1>11, <1>12,
     <1>13, <1>14 DEF Next, Proceed

\* Every variable always has its type.
THEOREM TypeCorrect == Spec => []TypeOK
BY InitType, NextType, PTL DEF Spec

-----------------------------------------------------------------------------
(* Counts *)

\* What the actions do to the pending puts: an invocation that ends or starts over
\* awaits none, ...
LEMMA GoToPending ==
    ASSUME TypeOK, NEW i \in Invocations, NEW p \in PCs \ {"put"}, GoTo(i, p),
           network' \subseteq network
    PROVE  /\ Pending' \subseteq Pending
           /\ \A j \in Invocations : pc'[j] = IF j = i THEN p ELSE pc[j]
<1>1. \A j \in Invocations : pc'[j] = IF j = i THEN p ELSE pc[j]
  BY DEF GoTo, TypeOK
<1> SUFFICES ASSUME NEW j \in Invocations, pc'[j] = "put"
             PROVE  pc[j] = "put" /\ request'[j] = request[j]
  BY <1>1 DEF Pending, Awaited
<1> QED
  BY DEF GoTo, TypeOK

\* ... one that does not touch its put leaves it as it is, ...
LEMMA SamePending ==
    ASSUME network' \subseteq network, UNCHANGED request,
           \A j \in Invocations : pc'[j] = "put" => pc[j] = "put"
    PROVE  Pending' \subseteq Pending
BY DEF Pending, Awaited

\* ... and one that sends a put adds that put.
LEMMA SentPending ==
    ASSUME TypeOK, NEW i \in Invocations, NEW m, network' = network \cup {m},
           request' = [request EXCEPT ![i] = m],
           \A j \in Invocations \ {i} : pc'[j] = "put" => pc[j] = "put"
    PROVE  Pending' \subseteq Pending \cup {m}
<1> SUFFICES ASSUME NEW j \in Invocations, pc'[j] = "put"
             PROVE  request'[j] = m \/ (pc[j] = "put" /\ request'[j] = request[j])
  BY DEF Pending, Awaited
<1> QED
  BY DEF TypeOK

\* A pending put is a put request.
LEMMA PendingType == ASSUME TypeOK PROVE Pending \subseteq PutRequest
BY DEF TypeOK, Pending, Awaited

\* The put that SendPut adds.
LEMMA SendPutPending ==
    ASSUME TypeOK, NEW i \in Invocations, NEW condition, NEW put,
           SendPut(i, condition, put)
    PROVE  /\ UNCHANGED <<clock, item, stale, ledger, seen, now>>
           /\ pc[i] = "get"
           /\ pc'[i] = "put"
           /\ \A m \in Pending' :
                 m \in Pending \/ (m.from = i /\ m.condition = condition /\ m.put = put)
<1> DEFINE sent == [from |-> i, attempt |-> attempt[i], send |-> 1,
                    condition |-> condition, put |-> put]
<1>1. /\ UNCHANGED <<clock, item, stale, ledger, seen, now>>
      /\ pc[i] = "get"
      /\ pc' = [pc EXCEPT ![i] = "put"]
      /\ request' = [request EXCEPT ![i] = sent]
      /\ network' = network \cup {sent}
  BY DEF SendPut, table
<1>2. sent.from = i /\ sent.condition = condition /\ sent.put = put
  OBVIOUS
<1> HIDE DEF sent
<1>3. Pending' \subseteq Pending \cup {sent}
  BY <1>1, SentPending DEF TypeOK
<1> QED
  BY <1>1, <1>2, <1>3 DEF TypeOK

\* The condition of a put is that the count is the one it was computed from.
LEMMA ConditionIsCount ==
    ASSUME TypeOK, VersionsCounted, NEW condition \in Nat
    PROVE  ConditionHolds(condition) <=> item.count = condition
<1>1. item = NoItem \/ item.count > 0
  BY DEF VersionsCounted, Readable
<1>2. item.count \in Nat
  BY DEF TypeOK, CountEntry
<1> QED
  BY <1>1, <1>2 DEF ConditionHolds, AttributeNotExists, NoItem

\* What an accepted put does to the count.
LEMMA AcceptPutCount ==
    ASSUME TypeOK, CountInv, NEW m \in network, AcceptPut(m), Pending' \subseteq Pending
    PROVE  /\ item.count = m.condition
           /\ item'.count = m.put.count
           /\ item'.count > 0
           /\ item.count \in Nat /\ item'.count \in Nat
           /\ item'.count \in {item.count, item.count + 1}
           /\ item'.count = Len(ledger')
           /\ VersionsCounted'
           /\ PutsCounted'
<1>1. m \in PutRequest /\ item \in CountEntry
  BY DEF TypeOK
<1>2. /\ m.condition \in Nat /\ m.from \in Invocations /\ m.put \in CountEntry
      /\ m.put.count \in Nat /\ item.count \in Nat
  BY <1>1 DEF PutRequest, CountEntry
<1>3. /\ m.put.count > 0
      /\ m.put.count = m.condition \/ m.put.count = m.condition + 1
  BY DEF CountInv, PutsCounted, Pending
<1>4. item.count = m.condition
  BY <1>2, ConditionIsCount DEF AcceptPut, CountInv
<1>5. item'.count = m.put.count
  BY DEF AcceptPut
<1>6. item'.count = Len(ledger')
  <2>1. ledger \in Seq(Invocations) /\ Len(ledger) = item.count
    BY DEF TypeOK, CountInv, CountIsLedger
  <2>2. CASE CountsVisit(m)
    <3>1. ledger' = Append(ledger, m.from)
      BY <2>2 DEF AcceptPut
    <3>2. Len(ledger') = Len(ledger) + 1
      BY <2>1, <3>1, <1>2
    <3>3. item'.count = m.condition + 1
      BY <1>3, <1>5, <2>2 DEF CountsVisit
    <3> QED
      BY <2>1, <3>2, <3>3, <1>4
  <2>3. CASE ~CountsVisit(m)
    BY <1>4, <1>5, <2>1, <2>3 DEF AcceptPut, CountsVisit
  <2> QED
    BY <2>2, <2>3
<1>7. VersionsCounted'
  <2> SUFFICES ASSUME NEW v \in Readable'
               PROVE  v.count <= item'.count /\ (v = NoItem \/ v.count > 0)
    BY DEF VersionsCounted, NoItem
  <2>1. v = item' \/ v \in Readable
    BY DEF Readable, AcceptPut
  <2>2. CASE v = item'
    BY <2>2, <1>2, <1>3, <1>5
  <2>3. CASE v \in Readable
    <3>1. v.count <= item.count /\ (v = NoItem \/ v.count > 0)
      BY <2>3 DEF CountInv, VersionsCounted
    <3>2. v.count \in Nat
      BY <2>3 DEF Readable, TypeOK, CountEntry
    <3> QED
      BY <3>1, <3>2, <1>2, <1>3, <1>4, <1>5
  <2> QED
    BY <2>1, <2>2, <2>3
<1>8. PutsCounted'
  <2> SUFFICES ASSUME NEW n \in Pending'
               PROVE  /\ n.condition <= item'.count
                      /\ n.put.count > 0
                      /\ n.put.count = n.condition \/ n.put.count = n.condition + 1
    BY DEF PutsCounted
  <2>1. n \in Pending /\ n \in PutRequest
    BY PendingType
  <2>2. n.condition \in Nat
    BY <2>1 DEF PutRequest
  <2>3. /\ n.condition <= item.count
        /\ n.put.count > 0
        /\ n.put.count = n.condition \/ n.put.count = n.condition + 1
    BY <2>1 DEF CountInv, PutsCounted
  <2> QED
    BY <2>2, <2>3, <1>2, <1>3, <1>4, <1>5
<1> QED
  BY <1>2, <1>3, <1>4, <1>5, <1>6, <1>7, <1>8

\* A sent put may only count a visit over a count that was.
LEMMA SendPutCount ==
    ASSUME TypeOK, CountInv, NEW i \in Invocations, NEW condition \in Nat,
           NEW put \in CountEntry, SendPut(i, condition, put),
           condition <= item.count, put.count > 0,
           put.count = condition \/ put.count = condition + 1
    PROVE  CountInv'
<1>1. /\ UNCHANGED <<item, stale, ledger, answer, floor>>
      /\ pc' = [pc EXCEPT ![i] = "put"]
  BY DEF SendPut, table
<1>2. \A m \in Pending' : m \in Pending \/ (m.condition = condition /\ m.put = put)
  BY SendPutPending
<1>3. VersionsCounted' /\ FloorsReached' /\ CountIsLedger'
  BY <1>1 DEF CountInv, VersionsCounted, FloorsReached, CountIsLedger, Readable, NoItem
<1>4. PutsCounted'
  BY <1>1, <1>2 DEF CountInv, PutsCounted
<1>5. AnswersInWindow'
  BY <1>1 DEF CountInv, AnswersInWindow, TypeOK
<1> QED
  BY <1>3, <1>4, <1>5 DEF CountInv

\* An action that leaves the table alone, adds no pending put and answers
\* nobody keeps the counts.
LEMMA QuietCount ==
    ASSUME TypeOK, CountInv, UNCHANGED <<item, stale, ledger, answer>>,
           Pending' \subseteq Pending,
           \A j \in Invocations : pc'[j] = "done" => pc[j] = "done",
           \A j \in Invocations : floor'[j] = floor[j]
                                  \/ (floor'[j] = item.count /\ pc'[j] # "done")
    PROVE  CountInv'
<1>1. item.count \in Nat
  BY DEF TypeOK, CountEntry
<1>2. VersionsCounted' /\ CountIsLedger' /\ PutsCounted'
  BY DEF CountInv, VersionsCounted, CountIsLedger, PutsCounted, Readable, NoItem
<1>3. FloorsReached' /\ AnswersInWindow'
  BY <1>1 DEF CountInv, FloorsReached, AnswersInWindow
<1> QED
  BY <1>2, <1>3 DEF CountInv

\* An accepted put keeps the counts, whether or not its sender hears of it.
LEMMA AcceptPutKeepsCount ==
    ASSUME TypeOK, CountInv, NEW m \in network, AcceptPut(m), UNCHANGED floor,
           Pending' \subseteq Pending,
           \A j \in Invocations : pc'[j] = "done" =>
              \/ (pc[j] = "done" /\ answer'[j] = answer[j])
              \/ answer'[j] = m.put.count
    PROVE  CountInv'
<1>1. /\ item'.count > 0
      /\ item.count \in Nat /\ item'.count \in Nat
      /\ item'.count \in {item.count, item.count + 1}
      /\ item'.count = m.put.count
  BY AcceptPutCount
<1>2. FloorsReached' /\ AnswersInWindow'
  <2> SUFFICES ASSUME NEW j \in Invocations
               PROVE  /\ floor[j] <= item'.count
                      /\ pc'[j] = "done" => /\ answer'[j] > 0
                                            /\ floor[j] <= answer'[j]
                                            /\ answer'[j] <= item'.count
    BY DEF FloorsReached, AnswersInWindow
  <2>1. /\ floor[j] \in Nat /\ answer[j] \in Nat /\ floor[j] <= item.count
        /\ pc[j] = "done" => /\ answer[j] > 0
                             /\ floor[j] <= answer[j]
                             /\ answer[j] <= item.count
    BY DEF TypeOK, CountInv, FloorsReached, AnswersInWindow
  <2> QED
    BY <1>1, <2>1
<1> QED
  BY <1>2, AcceptPutCount DEF CountInv, CountIsLedger

\* A put that is sent again is as good as the first one.
LEMMA ResendCount ==
    ASSUME TypeOK, CountInv, NEW i \in Invocations, pc[i] = "put",
           UNCHANGED <<item, stale, ledger, answer, floor, pc>>,
           Pending' \subseteq Pending \cup {[request[i] EXCEPT !.send = @ + 1]}
    PROVE  CountInv'
<1>1. PICK r \in PutRequest \cap Pending : r = request[i]
  BY PendingType DEF Pending, Awaited
<1>2. PICK again : again = [r EXCEPT !.send = @ + 1]
  OBVIOUS
<1>3. again.condition = r.condition /\ again.put = r.put
  BY <1>1, <1>2 DEF PutRequest
<1>4. Pending' \subseteq Pending \cup {again}
  BY <1>1, <1>2
<1>5. \A m \in Pending' : \E n \in Pending : m.condition = n.condition /\ m.put = n.put
  BY <1>1, <1>3, <1>4
<1>6. PutsCounted'
  BY <1>5 DEF CountInv, PutsCounted
<1>7. VersionsCounted' /\ FloorsReached' /\ CountIsLedger' /\ AnswersInWindow'
  BY DEF CountInv, VersionsCounted, FloorsReached, CountIsLedger, AnswersInWindow,
         Readable, NoItem
<1> QED
  BY <1>6, <1>7 DEF CountInv

\* GetSome puts under the count it read, and adds at most one to it.
LEMMA GetSomeCount ==
    ASSUME TypeOK, CountInv, NEW i \in Invocations,
           NEW stored \in Readable \ {NoItem},
           NEW updated \in UpdatedEntries(LoadedEntry(stored), VisitorOf(i), now[i])
    PROVE  /\ LoadedEntry(stored).count = stored.count
           /\ stored.count \in Nat /\ stored.count > 0
           /\ stored.count <= item.count
           /\ StoredEntry(updated).count \in {stored.count, stored.count + 1}
<1>1. /\ stored \in CountEntry /\ LoadedEntry(stored) \in CountEntry
      /\ VisitorOf(i) \in Visitor /\ now[i] \in Nat
  BY GetSomeType DEF TypeOK
<1>2. stored.count > 0 /\ stored.count <= item.count
  BY DEF CountInv, VersionsCounted
<1>3. LoadedEntry(stored).count = stored.count /\ stored.count \in Nat
  BY <1>1 DEF LoadedEntry, CountEntry
<1>4. updated.count \in {LoadedEntry(stored).count, LoadedEntry(stored).count + 1}
  BY <1>1, UpdatedType
<1>5. StoredEntry(updated).count = updated.count
  BY DEF StoredEntry
<1> QED
  BY <1>2, <1>3, <1>4, <1>5

LEMMA InitCount == Init => CountInv
<1> SUFFICES ASSUME Init PROVE CountInv
  OBVIOUS
<1>1. VersionsCounted /\ PutsCounted /\ FloorsReached /\ AnswersInWindow
  BY DEF Init, VersionsCounted, PutsCounted, FloorsReached, AnswersInWindow,
         Readable, NoItem, Pending, Awaited
<1>2. CountIsLedger
  BY DEF Init, CountIsLedger, NoItem
<1> QED
  BY <1>1, <1>2 DEF CountInv

LEMMA NextCount == TypeOK /\ CountInv /\ [Next]_vars => CountInv'
<1> SUFFICES ASSUME TypeOK, CountInv, [Next]_vars PROVE CountInv'
  OBVIOUS
<1>1. ASSUME NEW i \in Invocations, Identify(i) PROVE CountInv'
  BY <1>1, QuietCount, SamePending DEF Identify, TypeOK, table
<1>2. ASSUME NEW i \in Invocations, Call(i) PROVE CountInv'
  BY <1>2, QuietCount, SamePending DEF Call, TypeOK, table
<1>3. ASSUME NEW i \in Invocations, GetFails(i) PROVE CountInv'
  BY <1>3, QuietCount, GoToPending DEF GetFails, PCs, table
<1>4. ASSUME NEW i \in Invocations, GetNothing(i) PROVE CountInv'
  <2> DEFINE put == [count |-> 1, recent_visitors |-> {ToStored(VisitorOf(i))}]
  <2>1. ToStored(VisitorOf(i)) \in Visitor
    BY DivNat, TagOfAssumption DEF TypeOK, VisitorOf, Visitor, ToStored
  <2>2. put \in CountEntry /\ put.count = 1
    BY <2>1 DEF CountEntry
  <2>3. SendPut(i, 0, put)
    BY <1>4 DEF GetNothing, AttributeNotExists
  <2>4. item.count \in Nat
    BY DEF TypeOK, CountEntry
  <2> HIDE DEF put
  <2> QED
    BY <2>2, <2>3, <2>4, SendPutCount
<1>5. ASSUME NEW i \in Invocations, GetPanics(i) PROVE CountInv'
  BY <1>5, QuietCount, GoToPending DEF GetPanics, PCs, table
<1>6. ASSUME NEW i \in Invocations, GetSome(i) PROVE CountInv'
  <2>1. PICK stored \in Readable \ {NoItem} :
           \E updated \in UpdatedEntries(LoadedEntry(stored), VisitorOf(i), now[i]) :
              SendPut(i, LoadedEntry(stored).count, StoredEntry(updated))
    BY <1>6 DEF GetSome
  <2>2. PICK updated \in UpdatedEntries(LoadedEntry(stored), VisitorOf(i), now[i]) :
           SendPut(i, LoadedEntry(stored).count, StoredEntry(updated))
    BY <2>1
  <2>3. StoredEntry(updated) \in CountEntry
    BY GetSomeType
  <2>4. /\ LoadedEntry(stored).count = stored.count
        /\ stored.count \in Nat /\ stored.count > 0
        /\ stored.count <= item.count
        /\ StoredEntry(updated).count \in {stored.count, stored.count + 1}
    BY GetSomeCount
  <2> QED
    BY <2>2, <2>3, <2>4, SendPutCount
<1>7. ASSUME NEW i \in Invocations, ResendPut(i) PROVE CountInv'
  <2>1. /\ Pending' \subseteq Pending \cup {[request[i] EXCEPT !.send = @ + 1]}
        /\ UNCHANGED <<item, stale, ledger, answer, floor, pc>>
    BY <1>7, SentPending DEF ResendPut, table
  <2> QED
    BY <1>7, <2>1, ResendCount DEF ResendPut
<1>8. ASSUME NEW i \in Invocations, PutFails(i) PROVE CountInv'
  BY <1>8, QuietCount, GoToPending DEF PutFails, PCs, table
<1>9. ASSUME NEW i \in Invocations, PutSucceeds(i) PROVE CountInv'
  <2> DEFINE m == request[i]
  <2>1. /\ m \in network /\ AcceptPut(m) /\ GoTo(i, "done") /\ UNCHANGED floor
        /\ answer' = [answer EXCEPT ![i] = m.put.count]
    BY <1>9 DEF PutSucceeds
  <2> HIDE DEF m
  <2>2. /\ Pending' \subseteq Pending
        /\ \A j \in Invocations : pc'[j] = IF j = i THEN "done" ELSE pc[j]
    BY <2>1, GoToPending DEF AcceptPut, PCs
  <2>3. \A j \in Invocations :
           answer'[j] = IF j = i THEN m.put.count ELSE answer[j]
    BY <2>1 DEF TypeOK
  <2> QED
    BY <2>1, <2>2, <2>3, AcceptPutKeepsCount
<1>10. ASSUME NEW i \in Invocations, PutConflicts(i) PROVE CountInv'
  BY <1>10, QuietCount, GoToPending DEF PutConflicts, RejectPut, PCs, table
<1>11. ASSUME NEW i \in Invocations, Kill(i) PROVE CountInv'
  BY <1>11, QuietCount, GoToPending DEF Kill, PCs, table
<1>12. CASE AcceptUnheard
  BY <1>12, AcceptPutKeepsCount, SamePending DEF AcceptUnheard, AcceptPut, client
<1>13. CASE Tick
  BY <1>13, QuietCount, SamePending DEF Tick, table, client
<1>14. CASE UNCHANGED vars
  BY <1>14, QuietCount, SamePending DEF vars, table, client
<1> QED
  BY <1>1, <1>2, <1>3, <1>4, <1>5, <1>6, <1>7, <1>8, <1>9, <1>10, <1>11, <1>12,
     <1>13, <1>14 DEF Next, Proceed

LEMMA CountInvariant == Spec => [](TypeOK /\ CountInv)
<1>1. Init => TypeOK /\ CountInv
  BY InitType, InitCount
<1>2. TypeOK /\ CountInv /\ [Next]_vars => (TypeOK /\ CountInv)'
  BY NextType, NextCount
<1> QED
  BY <1>1, <1>2, PTL DEF Spec

\* The stored count is the number of visits that were counted: no increment is lost
\* or undone, whatever is read stale, resent, late or lost.
THEOREM CountCorrect == Spec => []CountIsLedger
<1>1. CountInv => CountIsLedger
  BY DEF CountInv
<1> QED
  BY <1>1, CountInvariant, PTL

\* The count that an invocation returns was that of the counter at some moment
\* between its call and its return, although its first read may have been stale.
THEOREM AnswersCorrect == Spec => []AnswersInWindow
<1>1. CountInv => AnswersInWindow
  BY DEF CountInv
<1> QED
  BY <1>1, CountInvariant, PTL

-----------------------------------------------------------------------------
(* The optimistic lock *)

\* The awaited put expects a count that has grown with every failed attempt but those
\* of outdated gets; or a visit was counted since it was made, or its own get was
\* outdated, so that its failure is explained before it happens.
LockInv ==
    /\ ConflictsExplained
    /\ \A i \in Invocations : pc[i] = "put" =>
          \/ floor[i] + attempt[i] <= request[i].condition + outdated[i]
          \/ floor[i] + attempt[i] < item.count + outdated[i]
    /\ \A i \in Invocations : pc[i] \in {"idle", "identified"} => attempt[i] = 0

\* An invocation that has called the store has as many failed attempts as explained.
LEMMA Explained ==
    ASSUME TypeOK, CountInv, LockInv, NEW i \in Invocations
    PROVE  /\ floor[i] \in Nat /\ attempt[i] \in Nat /\ outdated[i] \in Nat
           /\ item.count \in Nat
           /\ floor[i] + attempt[i] <= item.count + outdated[i]
<1>1. /\ floor[i] \in Nat /\ attempt[i] \in Nat /\ outdated[i] \in Nat
      /\ item.count \in Nat
      /\ floor[i] <= item.count
      /\ attempt[i] > 0 => attempt[i] <= item.count - floor[i] + outdated[i]
  BY DEF TypeOK, CountEntry, CountInv, FloorsReached, LockInv, ConflictsExplained
<1> QED
  BY <1>1

LEMMA SendPutLock ==
    ASSUME TypeOK, CountInv, LockInv, NEW i \in Invocations,
           NEW condition \in Nat, condition <= item.count, NEW put,
           SendPut(i, condition, put)
    PROVE  LockInv'
<1>1. /\ UNCHANGED <<item, attempt, floor>>
      /\ pc[i] = "get"
      /\ pc' = [pc EXCEPT ![i] = "put"]
      /\ outdated' = [outdated EXCEPT ![i] = IF condition < item.count THEN @ + 1 ELSE @]
      /\ \E m : m.condition = condition /\ request' = [request EXCEPT ![i] = m]
  BY DEF SendPut, table
<1>2. /\ request'[i].condition = condition
      /\ outdated'[i] = IF condition < item.count THEN outdated[i] + 1 ELSE outdated[i]
      /\ \A j \in Invocations \ {i} : /\ pc'[j] = pc[j] /\ request'[j] = request[j]
                                      /\ outdated'[j] = outdated[j]
      /\ pc'[i] = "put"
  BY <1>1 DEF TypeOK
<1>3. /\ floor[i] \in Nat /\ attempt[i] \in Nat /\ outdated[i] \in Nat
      /\ item.count \in Nat
      /\ floor[i] + attempt[i] <= item.count + outdated[i]
  BY Explained
<1>4. \/ floor[i] + attempt[i] <= condition + outdated'[i]
      \/ floor[i] + attempt[i] < item.count + outdated'[i]
  BY <1>2, <1>3
<1>5. attempt[i] > 0 => attempt[i] <= item.count - floor[i] + outdated'[i]
  BY <1>2, <1>3
<1>6. ConflictsExplained'
  BY <1>1, <1>2, <1>5 DEF LockInv, ConflictsExplained
<1> QED
  BY <1>1, <1>2, <1>4, <1>6 DEF LockInv

\* An accepted put can only move the count away from the floors.
LEMMA AcceptPutLock ==
    ASSUME TypeOK, CountInv, LockInv, NEW m \in network, AcceptPut(m),
           Pending' \subseteq Pending, UNCHANGED <<attempt, floor, outdated>>,
           \A j \in Invocations :
              pc'[j] # "done" => pc'[j] = pc[j] /\ request'[j] = request[j]
    PROVE  LockInv'
<1>1. /\ item.count \in Nat /\ item'.count \in Nat
      /\ item.count <= item'.count
  BY AcceptPutCount
<1>2. ConflictsExplained'
  BY <1>1 DEF LockInv, ConflictsExplained, TypeOK
<1>3. \A j \in Invocations : floor[j] \in Nat /\ attempt[j] \in Nat /\ outdated[j] \in Nat
  BY DEF TypeOK
<1> QED
  BY <1>1, <1>2, <1>3 DEF LockInv

\* An action that leaves the count and the attempts alone and starts no put.
LEMMA QuietLock ==
    ASSUME TypeOK, LockInv, UNCHANGED <<item, attempt, floor, outdated>>,
           \A j \in Invocations :
              pc'[j] \in {"idle", "identified", "put"} =>
                 \/ pc'[j] = pc[j] /\ request'[j] = request[j]
                 \/ pc'[j] = "identified" /\ pc[j] = "idle"
    PROVE  LockInv'
BY DEF LockInv, ConflictsExplained

LEMMA InitLock == Init => LockInv
BY DEF Init, LockInv, ConflictsExplained

LEMMA NextLock ==
    ASSUME TypeOK, CountInv, LockInv, [Next]_vars
    PROVE  LockInv'
<1>1. ASSUME NEW i \in Invocations, Identify(i) PROVE LockInv'
  BY <1>1, QuietLock DEF Identify, table, TypeOK
<1>2. ASSUME NEW i \in Invocations, Call(i) PROVE LockInv'
  BY <1>2 DEF Call, table, TypeOK, LockInv, ConflictsExplained
<1>3. ASSUME NEW i \in Invocations, GetFails(i) PROVE LockInv'
  BY <1>3, QuietLock DEF GetFails, GoTo, table, TypeOK
<1>4. ASSUME NEW i \in Invocations, GetNothing(i) PROVE LockInv'
  <2>1. AttributeNotExists \in Nat /\ AttributeNotExists <= item.count
    BY DEF TypeOK, CountEntry, AttributeNotExists
  <2> QED
    BY <1>4, <2>1, SendPutLock DEF GetNothing
<1>5. ASSUME NEW i \in Invocations, GetPanics(i) PROVE LockInv'
  BY <1>5, QuietLock DEF GetPanics, GoTo, table, TypeOK
<1>6. ASSUME NEW i \in Invocations, GetSome(i) PROVE LockInv'
  <2>1. PICK stored \in Readable \ {NoItem} :
           \E updated \in UpdatedEntries(LoadedEntry(stored), VisitorOf(i), now[i]) :
              SendPut(i, LoadedEntry(stored).count, StoredEntry(updated))
    BY <1>6 DEF GetSome
  <2>2. PICK updated : SendPut(i, LoadedEntry(stored).count, StoredEntry(updated))
    BY <2>1
  <2>3. stored.count \in Nat /\ stored.count <= item.count
    BY <2>1 DEF CountInv, VersionsCounted, TypeOK, Readable, CountEntry
  <2>4. LoadedEntry(stored).count = stored.count
    BY DEF LoadedEntry
  <2> QED
    BY <2>2, <2>3, <2>4, SendPutLock
<1>7. ASSUME NEW i \in Invocations, ResendPut(i) PROVE LockInv'
  <2>1. request[i] \in PutRequest
    BY DEF TypeOK
  <2>2. [request[i] EXCEPT !.send = @ + 1].condition = request[i].condition
    BY <2>1 DEF PutRequest
  <2>3. \A j \in Invocations : request'[j].condition = request[j].condition
    BY <1>7, <2>2 DEF ResendPut, TypeOK
  <2> QED
    BY <1>7, <2>3 DEF ResendPut, table, LockInv, ConflictsExplained
<1>8. ASSUME NEW i \in Invocations, PutFails(i) PROVE LockInv'
  BY <1>8, QuietLock DEF PutFails, GoTo, table, TypeOK
<1>9. ASSUME NEW i \in Invocations, PutSucceeds(i) PROVE LockInv'
  <2> DEFINE m == request[i]
  <2>1. /\ m \in network /\ AcceptPut(m) /\ GoTo(i, "done")
        /\ UNCHANGED <<attempt, floor, outdated>>
    BY <1>9 DEF PutSucceeds
  <2>2. \A j \in Invocations :
           pc'[j] # "done" => pc'[j] = pc[j] /\ request'[j] = request[j]
    BY <2>1 DEF GoTo, TypeOK
  <2> HIDE DEF m
  <2>3. Pending' \subseteq Pending
    BY <2>1, GoToPending DEF AcceptPut, PCs
  <2> QED
    BY <2>1, <2>2, <2>3, AcceptPutLock
<1>10. ASSUME NEW i \in Invocations, PutConflicts(i) PROVE LockInv'
  <2>1. /\ pc[i] = "put" /\ request[i] \in network
        /\ ~ConditionHolds(request[i].condition)
        /\ attempt' = [attempt EXCEPT ![i] = @ + 1]
        /\ UNCHANGED <<item, floor, outdated>>
        /\ \E p \in {"get", "failed"} : GoTo(i, p)
    BY <1>10 DEF PutConflicts, RejectPut, table
  <2>2. request[i].condition \in Nat /\ item.count \in Nat
    BY DEF TypeOK, PutRequest, CountEntry
  <2>3. request[i].condition < item.count
    <3>1. request[i].condition <= item.count
      BY <2>1 DEF CountInv, PutsCounted, Pending
    <3>2. item.count # request[i].condition
      BY <2>1, <2>2, ConditionIsCount DEF CountInv
    <3> QED
      BY <2>2, <3>1, <3>2
  <2>4. floor[i] \in Nat /\ attempt[i] \in Nat /\ outdated[i] \in Nat
    BY DEF TypeOK
  <2>5. floor[i] + attempt[i] < item.count + outdated[i]
    BY <2>1, <2>2, <2>3, <2>4 DEF LockInv
  <2>6. attempt'[i] <= item.count - floor[i] + outdated[i]
    BY <2>1, <2>2, <2>4, <2>5 DEF TypeOK
  <2>7. ConflictsExplained'
    BY <2>1, <2>6 DEF LockInv, ConflictsExplained, TypeOK
  <2>8. \A j \in Invocations : pc'[j] \in {"idle", "identified", "put"} =>
           pc'[j] = pc[j] /\ request'[j] = request[j] /\ attempt'[j] = attempt[j]
    BY <2>1 DEF GoTo, TypeOK
  <2> QED
    BY <2>1, <2>7, <2>8 DEF LockInv
<1>11. ASSUME NEW i \in Invocations, Kill(i) PROVE LockInv'
  BY <1>11, QuietLock DEF Kill, GoTo, table, TypeOK
<1>12. CASE AcceptUnheard
  <2>1. PICK m \in network : AcceptPut(m)
    BY <1>12 DEF AcceptUnheard
  <2>2. UNCHANGED client /\ network' \subseteq network
    BY <1>12, <2>1 DEF AcceptUnheard, AcceptPut
  <2>3. Pending' \subseteq Pending
    BY <2>2, SamePending DEF client
  <2> QED
    BY <2>1, <2>2, <2>3, AcceptPutLock DEF client
<1>13. CASE Tick
  BY <1>13, QuietLock DEF Tick, table, client
<1>14. CASE UNCHANGED vars
  BY <1>14, QuietLock DEF vars, table, client
<1> QED
  BY <1>1, <1>2, <1>3, <1>4, <1>5, <1>6, <1>7, <1>8, <1>9, <1>10, <1>11, <1>12,
     <1>13, <1>14 DEF Next, Proceed

\* Whatever is read, an attempt of the optimistic lock fails only for a visit counted
\* since the call or for an outdated get, each of which explains one attempt.
THEOREM LockCorrect == Spec => []ConflictsExplained
<1>1. Init => TypeOK /\ CountInv /\ LockInv
  BY InitType, InitCount, InitLock
<1>2. TypeOK /\ CountInv /\ LockInv /\ [Next]_vars => (TypeOK /\ CountInv /\ LockInv)'
  BY NextType, NextCount, NextLock
<1>3. LockInv => ConflictsExplained
  BY DEF LockInv
<1> QED
  BY <1>1, <1>2, <1>3, PTL DEF Spec

-----------------------------------------------------------------------------
(* What the steps do to the versions and the pending puts *)

\* Nothing, but that a put may be sent again or given up ...
Quiet ==
    /\ UNCHANGED <<item, stale, ledger>>
    /\ \A m \in Pending' : \E n \in Pending :
          m.from = n.from /\ m.condition = n.condition /\ m.put = n.put

\* ... or a pending put becomes the item.
Accepts ==
    /\ \E m \in network : AcceptPut(m)
    /\ Pending' \subseteq Pending

LEMMA ResendQuiet ==
    ASSUME TypeOK, NEW i \in Invocations, ResendPut(i)
    PROVE  Quiet
<1>1. PICK r \in PutRequest \cap Pending : r = request[i]
  BY PendingType DEF ResendPut, Pending, Awaited
<1>2. PICK again : again = [r EXCEPT !.send = @ + 1]
  OBVIOUS
<1>3. again.from = r.from /\ again.condition = r.condition /\ again.put = r.put
  BY <1>1, <1>2 DEF PutRequest
<1>4. Pending' \subseteq Pending \cup {again}
  BY <1>1, <1>2, SentPending DEF ResendPut
<1>5. \A m \in Pending' : m \in Pending \/ m = again
  BY <1>4
<1> QED
  BY <1>1, <1>3, <1>5 DEF Quiet, ResendPut, table

LEMMA Steps ==
    ASSUME TypeOK, [Next]_vars
    PROVE  \/ Quiet
           \/ Accepts
           \/ \E i \in Invocations : GetNothing(i) \/ GetSome(i)
<1>1. UNCHANGED <<item, stale, ledger>> /\ Pending' \subseteq Pending => Quiet
  BY DEF Quiet
<1>2. ASSUME NEW i \in Invocations, Identify(i) PROVE Quiet
  BY <1>1, <1>2, SamePending DEF Identify, table, TypeOK
<1>3. ASSUME NEW i \in Invocations, Call(i) PROVE Quiet
  BY <1>1, <1>3, SamePending DEF Call, table, TypeOK
<1>4. ASSUME NEW i \in Invocations, GetFails(i) PROVE Quiet
  BY <1>1, <1>4, GoToPending DEF GetFails, table, PCs
<1>5. ASSUME NEW i \in Invocations, GetPanics(i) PROVE Quiet
  BY <1>1, <1>5, GoToPending DEF GetPanics, table, PCs
<1>6. ASSUME NEW i \in Invocations, ResendPut(i) PROVE Quiet
  BY <1>6, ResendQuiet
<1>7. ASSUME NEW i \in Invocations, PutFails(i) PROVE Quiet
  BY <1>1, <1>7, GoToPending DEF PutFails, table, PCs
<1>8. ASSUME NEW i \in Invocations, PutSucceeds(i) PROVE Accepts
  BY <1>8, GoToPending DEF PutSucceeds, AcceptPut, Accepts, PCs
<1>9. ASSUME NEW i \in Invocations, PutConflicts(i) PROVE Quiet
  BY <1>1, <1>9, GoToPending DEF PutConflicts, RejectPut, table, PCs
<1>10. ASSUME NEW i \in Invocations, Kill(i) PROVE Quiet
  BY <1>1, <1>10, GoToPending DEF Kill, table, PCs
<1>11. CASE AcceptUnheard
  BY <1>11, SamePending DEF AcceptUnheard, AcceptPut, Accepts, client
<1>12. CASE Tick
  BY <1>1, <1>12, SamePending DEF Tick, table, client
<1>13. CASE UNCHANGED vars
  BY <1>1, <1>13, SamePending DEF vars, table, client
<1> QED
  BY <1>2, <1>3, <1>4, <1>5, <1>6, <1>7, <1>8, <1>9, <1>10, <1>11, <1>12, <1>13
     DEF Next, Proceed

\* An accepted put adds at most its sender to the ledger.
LEMMA AcceptPutLedger ==
    ASSUME TypeOK, NEW m \in network, AcceptPut(m)
    PROVE  /\ DOMAIN ledger = 1 .. Len(ledger) /\ Len(ledger) \in Nat
           /\ \A k \in DOMAIN ledger : k \in DOMAIN ledger' /\ ledger'[k] = ledger[k]
           /\ \A k \in DOMAIN ledger' \ DOMAIN ledger :
                 /\ k = Len(ledger) + 1
                 /\ CountsVisit(m)
                 /\ ledger'[k] = m.from
<1>1. m.from \in Invocations
  BY DEF TypeOK, PutRequest
<1>2. ledger \in Seq(Invocations)
  BY DEF TypeOK
<1>3. ledger' = IF CountsVisit(m) THEN Append(ledger, m.from) ELSE ledger
  BY DEF AcceptPut
<1> QED
  BY <1>1, <1>2, <1>3

-----------------------------------------------------------------------------
(* The lists *)

LEMMA InitList == Init => ListInv
<1>1. Cardinality({}) = 0 /\ IsFiniteSet({})
  BY FS_EmptySet
<1>2. GoodList({})
  BY <1>1, MaxRecentAssumption DEF GoodList, UniqueTags
<1> QED
  BY <1>2 DEF Init, ListInv, Readable, Pending, Awaited, NoItem

LEMMA NextList ==
    ASSUME TypeOK, ListInv, [Next]_vars
    PROVE  ListInv'
<1>1. CASE Quiet
  BY <1>1 DEF Quiet, ListInv, Readable
<1>2. CASE Accepts
  <2>1. PICK m \in network : AcceptPut(m)
    BY <1>2 DEF Accepts
  <2>2. \A v \in Readable' : v \in Readable \/ v = m.put
    BY <2>1 DEF AcceptPut, Readable
  <2>3. m \in Pending /\ Pending' \subseteq Pending
    BY <1>2 DEF Accepts, Pending
  <2> QED
    BY <2>2, <2>3 DEF ListInv
<1>3. ASSUME NEW i \in Invocations, GetNothing(i) PROVE ListInv'
  <2> DEFINE put == [count |-> 1, recent_visitors |-> {ToStored(VisitorOf(i))}]
  <2>1. SendPut(i, AttributeNotExists, put)
    BY <1>3 DEF GetNothing
  <2>2. GoodList(put.recent_visitors)
    BY SingletonGood
  <2> HIDE DEF put
  <2> QED
    BY <2>1, <2>2, SendPutPending DEF ListInv, Readable
<1>4. ASSUME NEW i \in Invocations, GetSome(i) PROVE ListInv'
  <2>1. PICK stored \in Readable \ {NoItem} :
           \E updated \in UpdatedEntries(LoadedEntry(stored), VisitorOf(i), now[i]) :
              SendPut(i, LoadedEntry(stored).count, StoredEntry(updated))
    BY <1>4 DEF GetSome
  <2>2. PICK updated \in UpdatedEntries(LoadedEntry(stored), VisitorOf(i), now[i]) :
           SendPut(i, LoadedEntry(stored).count, StoredEntry(updated))
    BY <2>1
  <2>3. GoodList(LoadedEntry(stored).recent_visitors)
    BY LoadedGood DEF ListInv
  <2>4. GoodList(StoredEntry(updated).recent_visitors)
    BY <2>3, UpdatedGood, StoredGood
  <2> QED
    BY <2>2, <2>4, SendPutPending DEF ListInv, Readable
<1> QED
  BY <1>1, <1>2, <1>3, <1>4, Steps

LEMMA ListInvariant == Spec => [](TypeOK /\ ListInv)
<1>1. Init => TypeOK /\ ListInv
  BY InitType, InitList
<1>2. TypeOK /\ ListInv /\ [Next]_vars => (TypeOK /\ ListInv)'
  BY NextType, NextList
<1> QED
  BY <1>1, <1>2, PTL DEF Spec

\* The stored list has one entry for each visitor, whichever invocations write it
\* and whatever they read.
THEOREM TagsCorrect == Spec => []TagsUnique
<1>1. ListInv => TagsUnique
  BY DEF ListInv, GoodList, TagsUnique, Readable
<1> QED
  BY <1>1, ListInvariant, PTL

\* The stored list never grows beyond what fits in the item.
THEOREM ListBoundCorrect == Spec => []ListFits
<1>1. ListInv => ListFits
  BY DEF ListInv, GoodList, ListFits, Readable
<1> QED
  BY <1>1, ListInvariant, PTL

-----------------------------------------------------------------------------
(* Time *)

\* The times of an invocation that has called the store are settled, and the
\* clock does not go back.
LEMMA TimesSettle ==
    ASSUME TypeOK, [Next]_vars
    PROVE  /\ clock \in Nat /\ clock' \in Nat /\ clock <= clock'
           /\ \A i \in Invocations : Called(i) =>
                 Called(i)' /\ seen'[i] = seen[i] /\ now'[i] = now[i]
<1> DEFINE Settled == /\ clock <= clock'
                      /\ \A i \in Invocations : Called(i) =>
                            Called(i)' /\ seen'[i] = seen[i] /\ now'[i] = now[i]
<1> USE DEF Called, TypeOK
<1>1. clock \in Nat /\ clock' \in Nat
  BY NextType
<1>2. ASSUME NEW i \in Invocations, Identify(i) \/ Call(i) PROVE Settled
  BY <1>1, <1>2 DEF Identify, Call
<1>3. ASSUME NEW i \in Invocations, GetFails(i) \/ GetPanics(i) \/ PutFails(i) \/ Kill(i)
      PROVE  Settled
  BY <1>1, <1>3 DEF GetFails, GetPanics, PutFails, Kill, GoTo
<1>4. ASSUME NEW i \in Invocations, GetNothing(i) PROVE Settled
  BY <1>1, <1>4 DEF GetNothing, SendPut
<1>5. ASSUME NEW i \in Invocations, GetSome(i) PROVE Settled
  BY <1>1, <1>5 DEF GetSome, SendPut
<1>6. ASSUME NEW i \in Invocations, ResendPut(i) \/ PutSucceeds(i) \/ PutConflicts(i)
      PROVE  Settled
  BY <1>1, <1>6 DEF ResendPut, PutSucceeds, PutConflicts, GoTo
<1>7. ASSUME AcceptUnheard \/ Tick PROVE Settled
  BY <1>1, <1>7 DEF AcceptUnheard, Tick, client
<1>8. ASSUME UNCHANGED vars PROVE Settled
  BY <1>1, <1>8 DEF vars, client
<1> HIDE DEF Settled, Called, TypeOK
<1>9. Settled
  BY <1>2, <1>3, <1>4, <1>5, <1>6, <1>7, <1>8 DEF Next, Proceed
<1> QED
  BY <1>1, <1>9 DEF Settled

\* The times of a running invocation.
TimesOK(i) ==
    Alive(i) => /\ seen[i] <= clock
                /\ clock <= seen[i] + LAMBDA_TIMEOUT * TICKS_PER_SEC
                /\ Called(i) => seen[i] <= now[i] /\ now[i] <= clock

LEMMA NextTimes ==
    ASSUME TypeOK, \A i \in Invocations : TimesOK(i), [Next]_vars
    PROVE  \A i \in Invocations : TimesOK(i)'
<1> DEFINE Kept == \A j \in Invocations : TimesOK(j)'
<1> USE DEF TimesOK, Alive, Called, TypeOK
<1>1. LAMBDA_TIMEOUT * TICKS_PER_SEC \in Nat
  BY TimeoutAssumption, TicksAssumption, SMT
<1>2. ASSUME NEW i \in Invocations, Identify(i) \/ Call(i) PROVE Kept
  <2>1. CASE Identify(i)
    BY <1>1, <2>1 DEF Identify
  <2>2. CASE Call(i)
    BY <1>1, <2>2 DEF Call
  <2> QED
    BY <1>2, <2>1, <2>2
<1>3. ASSUME NEW i \in Invocations, GetFails(i) \/ GetPanics(i) \/ PutFails(i) \/ Kill(i)
      PROVE  Kept
  BY <1>3 DEF GetFails, GetPanics, PutFails, Kill, GoTo
<1>4. ASSUME NEW i \in Invocations, GetNothing(i) PROVE Kept
  BY <1>4 DEF GetNothing, SendPut
<1>5. ASSUME NEW i \in Invocations, GetSome(i) PROVE Kept
  BY <1>5 DEF GetSome, SendPut
<1>6. ASSUME NEW i \in Invocations, ResendPut(i) \/ PutSucceeds(i) \/ PutConflicts(i)
      PROVE  Kept
  BY <1>6 DEF ResendPut, PutSucceeds, PutConflicts, GoTo
<1>7. ASSUME AcceptUnheard \/ UNCHANGED vars PROVE Kept
  BY <1>7 DEF AcceptUnheard, vars, client
<1>8. ASSUME Tick PROVE Kept
  BY <1>1, <1>8 DEF Tick, client
<1> HIDE DEF Kept, TimesOK, Alive, Called, TypeOK
<1>9. Kept
  BY <1>2, <1>3, <1>4, <1>5, <1>6, <1>7, <1>8 DEF Next, Proceed
<1> QED
  BY <1>9 DEF Kept

LEMMA InitTime == Init => TimeInv
BY DEF Init, TimeInv, Pending, Awaited, Alive

LEMMA NextTime ==
    ASSUME TypeOK, TimeInv, [Next]_vars
    PROVE  TimeInv'
<1>1. \A i \in Invocations : Called(i) => pc'[i] \notin {"idle", "identified"}
  BY TimesSettle DEF Called
<1>2. \A i \in Invocations : TimesOK(i)'
  BY NextTimes DEF TimeInv, TimesOK
<1>3. \A m \in Pending : m.from \in Invocations
  BY PendingType DEF PutRequest
<1>4. \A k \in DOMAIN ledger : ledger[k] \in Invocations
  BY DEF TypeOK
<1> DEFINE PutsCalled == \A m \in Pending' : pc'[m.from] \notin {"idle", "identified"}
           LedgerCalled == \A k \in DOMAIN ledger' :
                              pc'[ledger'[k]] \notin {"idle", "identified"}
<1>5. PutsCalled /\ LedgerCalled
  <2>1. CASE Quiet
    <3>1. PutsCalled
      BY <1>1, <1>3, <2>1 DEF Quiet, TimeInv
    <3>2. LedgerCalled
      BY <1>1, <1>4, <2>1 DEF Quiet, TimeInv
    <3> QED
      BY <3>1, <3>2
  <2>2. CASE Accepts
    <3>1. PICK m \in network : AcceptPut(m)
      BY <2>2 DEF Accepts
    <3>2. m \in Pending /\ Called(m.from) /\ m.from \in Invocations
      BY <1>3 DEF TimeInv, Pending
    <3>3. \A k \in DOMAIN ledger' :
             ledger'[k] = m.from \/ (k \in DOMAIN ledger /\ ledger'[k] = ledger[k])
      BY <3>1, AcceptPutLedger
    <3>4. PutsCalled
      BY <1>1, <1>3, <2>2 DEF Accepts, TimeInv
    <3>5. LedgerCalled
      BY <1>1, <1>4, <3>2, <3>3 DEF TimeInv
    <3> QED
      BY <3>4, <3>5
  <2>3. ASSUME NEW i \in Invocations, NEW condition, NEW put, SendPut(i, condition, put)
        PROVE  PutsCalled /\ LedgerCalled
    <3>1. PutsCalled
      BY <1>1, <1>3, <2>3, SendPutPending DEF TimeInv
    <3>2. LedgerCalled
      BY <1>1, <1>4, <2>3, SendPutPending DEF TimeInv
    <3> QED
      BY <3>1, <3>2
  <2> HIDE DEF PutsCalled, LedgerCalled
  <2> QED
    BY <2>1, <2>2, <2>3, Steps DEF GetNothing, GetSome
<1> QED
  BY <1>2, <1>5 DEF TimeInv, TimesOK, Called

-----------------------------------------------------------------------------
(* Visits *)

\* Who has come has come for good, and so has a crowd.
LEMMA CameStays ==
    ASSUME TypeOK, [Next]_vars, NEW e, CameBy(e)
    PROVE  CameBy(e)'
<1>1. PICK j \in Invocations : /\ TagOf[j] = e.tag
                               /\ Called(j)
                               /\ now[j] \div TICKS_PER_SEC >= e.last_seen
  BY DEF CameBy
<1>2. Called(j)' /\ now'[j] = now[j]
  BY <1>1, TimesSettle
<1> QED
  BY <1>1, <1>2 DEF CameBy

LEMMA CrowdStays ==
    ASSUME TypeOK, [Next]_vars, NEW i \in Invocations, Called(i), NEW t, Crowded(i, t)
    PROVE  Crowded(i, t)'
<1>1. PICK others \in SUBSET (Tags \ {TagOf[i]}) :
         /\ IsFiniteSet(others)
         /\ Cardinality(others) = MAX_RECENT_VISITORS
         /\ \A other \in others : \E j \in Invocations :
               /\ TagOf[j] = other
               /\ Called(j)
               /\ now[j] \div TICKS_PER_SEC >= seen[i] \div TICKS_PER_SEC
               /\ now[j] <= t
  BY DEF Crowded
<1>2. /\ seen'[i] = seen[i]
      /\ \A j \in Invocations : Called(j) => Called(j)' /\ now'[j] = now[j]
  BY TimesSettle
<1>3. \A other \in others : \E j \in Invocations :
         /\ TagOf[j] = other
         /\ Called(j)'
         /\ now'[j] \div TICKS_PER_SEC >= seen'[i] \div TICKS_PER_SEC
         /\ now'[j] <= t
  BY <1>1, <1>2
<1> QED
  BY <1>1, <1>3 DEF Crowded

\* Whoever has come by one time has come by a later one.
LEMMA CrowdLater ==
    ASSUME TypeOK, NEW i \in Invocations, NEW s \in Nat, NEW t \in Nat, s <= t,
           Crowded(i, s)
    PROVE  Crowded(i, t)
<1>1. PICK others \in SUBSET (Tags \ {TagOf[i]}) :
         /\ IsFiniteSet(others)
         /\ Cardinality(others) = MAX_RECENT_VISITORS
         /\ \A other \in others : \E j \in Invocations :
               /\ TagOf[j] = other
               /\ Called(j)
               /\ now[j] \div TICKS_PER_SEC >= seen[i] \div TICKS_PER_SEC
               /\ now[j] <= s
  BY DEF Crowded
<1>2. \A j \in Invocations : now[j] \in Nat
  BY DEF TypeOK
<1>3. \A j \in Invocations : now[j] <= s => now[j] <= t
  BY <1>2
<1>4. \A other \in others : \E j \in Invocations :
         /\ TagOf[j] = other
         /\ Called(j)
         /\ now[j] \div TICKS_PER_SEC >= seen[i] \div TICKS_PER_SEC
         /\ now[j] <= t
  BY <1>1, <1>3
<1> QED
  BY <1>1, <1>4 DEF Crowded

LEMMA DeadlineType ==
    ASSUME TypeOK, NEW i \in Invocations
    PROVE  Deadline(i) \in Nat
<1>1. LAMBDA_TIMEOUT * TICKS_PER_SEC \in Nat
  BY TimeoutAssumption, TimesNat
<1> QED
  BY <1>1 DEF Deadline, TypeOK

\* The times of an invocation that loads the item.
LEMMA LoaderTimes ==
    ASSUME TypeOK, TimeInv, NEW i \in Invocations, pc[i] = "get"
    PROVE  /\ now[i] \in Nat /\ clock \in Nat /\ seen[i] \in Nat
           /\ seen[i] <= now[i] /\ now[i] <= clock
           /\ Called(i)
BY DEF TypeOK, TimeInv, Alive, Called

\* The visitor that an invocation stores came by itself.
LEMMA OwnVisitCame ==
    ASSUME TypeOK, TimeInv, NEW i \in Invocations, pc[i] = "get",
           NEW t \in Nat, t <= now[i], NEW e,
           e.tag = TagOf[i], e.last_seen = t \div TICKS_PER_SEC
    PROVE  CameBy(e)
<1>1. now[i] \in Nat /\ Called(i)
  BY LoaderTimes
<1>2. t \div TICKS_PER_SEC <= now[i] \div TICKS_PER_SEC
  BY <1>1, SecondsGrow
<1>3. t \div TICKS_PER_SEC \in Nat /\ now[i] \div TICKS_PER_SEC \in Nat
  BY <1>1, DivNat
<1> QED
  BY <1>1, <1>2, <1>3 DEF CameBy

LEMMA GetSomeCame ==
    ASSUME TypeOK, TimeInv, VisitInv, NEW i \in Invocations, pc[i] = "get",
           NEW stored \in Readable,
           NEW updated \in UpdatedEntries(LoadedEntry(stored), VisitorOf(i), now[i]),
           NEW u \in updated.recent_visitors
    PROVE  CameBy(ToStored(u))
<1>1. now[i] \in Nat /\ seen[i] \in Nat /\ seen[i] <= now[i]
  BY LoaderTimes
<1>2. /\ ToStored(u).tag = u.tag
      /\ ToStored(u).last_seen = u.last_seen \div TICKS_PER_SEC
  BY DEF ToStored
<1>3. CASE u \in LoadedEntry(stored).recent_visitors
  <2>1. PICK w \in stored.recent_visitors : u = FromStored(w)
    BY <1>3 DEF LoadedEntry
  <2>2. w.last_seen \in Nat
    BY GetSomeType DEF CountEntry, Visitor
  <2>3. u.tag = w.tag /\ u.last_seen \div TICKS_PER_SEC = w.last_seen
    BY <2>1, <2>2, SecondsKept DEF FromStored
  <2>4. CameBy(w)
    BY DEF VisitInv
  <2> QED
    BY <1>2, <2>3, <2>4 DEF CameBy
<1>4. CASE u = VisitorOf(i)
  <2>1. u.tag = TagOf[i] /\ u.last_seen = seen[i]
    BY <1>4 DEF VisitorOf
  <2> QED
    BY <1>1, <1>2, <2>1, OwnVisitCame
<1>5. CASE u.tag = VisitorOf(i).tag /\ u.last_seen = now[i]
  <2>1. u.tag = TagOf[i] /\ u.last_seen = now[i]
    BY <1>5 DEF VisitorOf
  <2> QED
    BY <1>1, <1>2, <2>1, OwnVisitCame
<1> QED
  BY <1>3, <1>4, <1>5, UpdatedFrom

LEMMA InitVisits == Init => VisitInv
BY DEF Init, VisitInv, Pending, Awaited, Readable, NoItem

LEMMA NowPasses ==
    ASSUME TypeOK, [Next]_vars, NEW j \in Invocations, now[j] <= clock
    PROVE  now'[j] <= clock'
<1>1. clock \in Nat /\ clock' \in Nat /\ clock <= clock' /\ now[j] \in Nat
  BY TimesSettle DEF TypeOK
<1>2. ASSUME NEW i \in Invocations, Identify(i) \/ Call(i)
      PROVE  now'[j] = now[j] \/ now'[j] = clock
  BY <1>2 DEF Identify, Call, TypeOK
<1>3. ASSUME NEW i \in Invocations,
             \/ GetFails(i) \/ GetPanics(i) \/ PutFails(i) \/ Kill(i)
             \/ ResendPut(i) \/ PutSucceeds(i) \/ PutConflicts(i)
      PROVE  now' = now
  BY <1>3 DEF GetFails, GetPanics, PutFails, Kill, ResendPut, PutSucceeds, PutConflicts
<1>4. ASSUME NEW i \in Invocations, GetNothing(i) \/ GetSome(i) PROVE now' = now
  BY <1>4 DEF GetNothing, GetSome, SendPut
<1>5. ASSUME AcceptUnheard \/ Tick \/ UNCHANGED vars PROVE now' = now
  BY <1>5 DEF AcceptUnheard, Tick, vars, client
<1>6. now'[j] = now[j] \/ now'[j] = clock
  BY <1>2, <1>3, <1>4, <1>5 DEF Next, Proceed
<1> QED
  BY <1>1, <1>6

LEMMA NextVisits ==
    ASSUME TypeOK, TimeInv, VisitInv, [Next]_vars
    PROVE  VisitInv'
<1> DEFINE NowPassed == \A i \in Invocations : now'[i] <= clock'
<1>0. NowPassed
  BY NowPasses DEF VisitInv
<1>1. \A v \in Readable : \A e \in v.recent_visitors : CameBy(e)'
  BY CameStays DEF VisitInv
<1>2. \A m \in Pending : \A e \in m.put.recent_visitors : CameBy(e)'
  BY CameStays DEF VisitInv
<1> DEFINE VersionsCame == \A v \in Readable' : \A e \in v.recent_visitors : CameBy(e)'
           PutsCame == \A m \in Pending' : \A e \in m.put.recent_visitors : CameBy(e)'
<1>3. ASSUME NEW i \in Invocations, NEW condition, NEW put, SendPut(i, condition, put),
             \A e \in put.recent_visitors : CameBy(e)
      PROVE  VersionsCame /\ PutsCame
  <2>1. /\ UNCHANGED <<item, stale>>
        /\ \A m \in Pending' : m \in Pending \/ m.put = put
    BY <1>3, SendPutPending
  <2>2. \A e \in put.recent_visitors : CameBy(e)'
    BY <1>3, CameStays
  <2> QED
    BY <1>1, <1>2, <2>1, <2>2 DEF Readable
<1>4. CASE Quiet
  <2>1. VersionsCame
    BY <1>1, <1>4 DEF Quiet, Readable
  <2>2. PutsCame
    BY <1>2, <1>4 DEF Quiet
  <2> QED
    BY <1>0, <2>1, <2>2 DEF VisitInv
<1>5. CASE Accepts
  <2>1. PICK m \in network : AcceptPut(m)
    BY <1>5 DEF Accepts
  <2>2. m \in Pending /\ Pending' \subseteq Pending
    BY <1>5 DEF Accepts, Pending
  <2>3. \A v \in Readable' : v \in Readable \/ v = m.put
    BY <2>1 DEF Readable, AcceptPut
  <2> QED
    BY <1>0, <1>1, <1>2, <2>2, <2>3 DEF VisitInv
<1>6. ASSUME NEW i \in Invocations, GetNothing(i) PROVE VisitInv'
  <2> DEFINE visitor == ToStored(VisitorOf(i))
             put == [count |-> 1, recent_visitors |-> {visitor}]
  <2>1. SendPut(i, AttributeNotExists, put)
    BY <1>6 DEF GetNothing
  <2>2. pc[i] = "get"
    BY <2>1 DEF SendPut
  <2>3. /\ visitor.tag = TagOf[i]
        /\ visitor.last_seen = seen[i] \div TICKS_PER_SEC
    BY DEF ToStored, VisitorOf
  <2>4. seen[i] \in Nat /\ seen[i] <= now[i]
    BY <2>2, LoaderTimes
  <2> HIDE DEF visitor
  <2>5. CameBy(visitor)
    BY <2>2, <2>3, <2>4, OwnVisitCame
  <2>6. \A e \in put.recent_visitors : CameBy(e)
    BY <2>5
  <2> HIDE DEF put
  <2> QED
    BY <1>0, <1>3, <2>1, <2>6 DEF VisitInv
<1>7. ASSUME NEW i \in Invocations, GetSome(i) PROVE VisitInv'
  <2>1. PICK stored \in Readable \ {NoItem} :
           \E updated \in UpdatedEntries(LoadedEntry(stored), VisitorOf(i), now[i]) :
              SendPut(i, LoadedEntry(stored).count, StoredEntry(updated))
    BY <1>7 DEF GetSome
  <2>2. PICK updated \in UpdatedEntries(LoadedEntry(stored), VisitorOf(i), now[i]) :
           SendPut(i, LoadedEntry(stored).count, StoredEntry(updated))
    BY <2>1
  <2>3. pc[i] = "get"
    BY <2>2 DEF SendPut
  <2>4. \A e \in StoredEntry(updated).recent_visitors : CameBy(e)
    <3>1. \A u \in updated.recent_visitors : CameBy(ToStored(u))
      BY <2>3, GetSomeCame
    <3> QED
      BY <3>1 DEF StoredEntry
  <2> QED
    BY <1>0, <1>3, <2>2, <2>4 DEF VisitInv
<1> QED
  BY <1>4, <1>5, <1>6, <1>7, Steps

\* A list that is full of others that came later than the visit of an invocation.
LEMMA FullMeansCrowded ==
    ASSUME TypeOK, ListInv, TimeInv, VisitInv, NEW i \in Invocations, pc[i] = "get",
           NEW stored \in Readable,
           NEW updated \in UpdatedEntries(LoadedEntry(stored), VisitorOf(i), now[i]),
           NEW v, FullOfLater(updated.recent_visitors, v),
           NEW j \in Invocations, v.tag = TagOf[j], v.last_seen \in Nat,
           v.last_seen >= (seen[j] \div TICKS_PER_SEC) * TICKS_PER_SEC
    PROVE  Crowded(j, clock)
<1> DEFINE second == seen[j] \div TICKS_PER_SEC
           visitors == updated.recent_visitors
           others == {u.tag : u \in visitors}
           f == [u \in visitors |-> u.tag]
<1>1. second \in Nat
  BY DivNat DEF TypeOK
<1>2. updated \in CountEntry
  BY GetSomeType
<1>3. GoodList(visitors)
  <2>1. GoodList(LoadedEntry(stored).recent_visitors)
    BY LoadedGood DEF ListInv
  <2> QED
    BY <2>1, UpdatedGood
<1>4. \A u \in visitors :
         /\ u.tag \in Tags /\ u.last_seen \in Nat
         /\ u.tag # v.tag /\ u.last_seen >= v.last_seen
  BY <1>2 DEF CountEntry, Visitor, FullOfLater
<1>5. \A u \in visitors : \E k \in Invocations :
         /\ TagOf[k] = u.tag
         /\ Called(k)
         /\ now[k] \div TICKS_PER_SEC >= second
  <2> SUFFICES ASSUME NEW u \in visitors
               PROVE  \E k \in Invocations : /\ TagOf[k] = u.tag
                                             /\ Called(k)
                                             /\ now[k] \div TICKS_PER_SEC >= second
    OBVIOUS
  <2>1. PICK k \in Invocations :
           /\ TagOf[k] = u.tag
           /\ Called(k)
           /\ now[k] \div TICKS_PER_SEC >= u.last_seen \div TICKS_PER_SEC
    <3>1. CameBy(ToStored(u))
      BY GetSomeCame
    <3> QED
      BY <3>1 DEF CameBy, ToStored
  <2>2. second <= u.last_seen \div TICKS_PER_SEC
    <3> HIDE DEF second
    <3>1. v.last_seen >= second * TICKS_PER_SEC
      BY DEF second
    <3>2. second * TICKS_PER_SEC \in Nat
      BY <1>1, TimesNat
    <3>3. second * TICKS_PER_SEC <= u.last_seen
      BY <1>4, <3>1, <3>2
    <3> QED
      BY <1>1, <1>4, <3>3, SecondsIn
  <2>3. now[k] \div TICKS_PER_SEC \in Nat /\ u.last_seen \div TICKS_PER_SEC \in Nat
    BY <1>4, DivNat DEF TypeOK
  <2> HIDE DEF second
  <2> QED
    BY <1>1, <2>1, <2>2, <2>3
<1>6. f \in Bijection(visitors, others)
  BY <1>3 DEF Bijection, Injection, Surjection, IsInjective, GoodList, UniqueTags
<1>7. IsFiniteSet(others) /\ Cardinality(others) = Cardinality(visitors)
  BY <1>3, <1>6, FS_Bijection DEF ExistsBijection, GoodList
<1>8. Cardinality(others) = MAX_RECENT_VISITORS
  BY <1>7 DEF FullOfLater
<1>9. others \subseteq Tags \ {TagOf[j]}
  BY <1>4
<1>10. \A other \in others : \E k \in Invocations :
          /\ TagOf[k] = other
          /\ Called(k)
          /\ now[k] \div TICKS_PER_SEC >= second
          /\ now[k] <= clock
  BY <1>5 DEF VisitInv
<1> HIDE DEF others
<1> QED
  BY <1>7, <1>8, <1>9, <1>10 DEF Crowded

-----------------------------------------------------------------------------
(* Memory *)

\* The put that GetSome makes remembers what the version it read remembers, ...
LEMMA GetSomeRemembers ==
    ASSUME TypeOK, ListInv, TimeInv, VisitInv, NEW i \in Invocations, pc[i] = "get",
           NEW stored \in Readable,
           ~SomeSeenAfter(LoadedEntry(stored).recent_visitors, now[i]),
           NEW updated \in UpdatedEntries(LoadedEntry(stored), VisitorOf(i), now[i]),
           NEW j \in Invocations, Remembers(stored.recent_visitors, j)
    PROVE  Remembers(StoredEntry(updated).recent_visitors, j)
<1> DEFINE second == seen[j] \div TICKS_PER_SEC
           loaded == LoadedEntry(stored)
<1>1. CASE clock >= (second + RECENT_CUTOFF) * TICKS_PER_SEC \/ Crowded(j, clock)
  BY <1>1 DEF Remembers
<1>2. CASE ~(clock >= (second + RECENT_CUTOFF) * TICKS_PER_SEC \/ Crowded(j, clock))
  <2>1. PICK w \in stored.recent_visitors : w.tag = TagOf[j] /\ w.last_seen >= second
    BY <1>2 DEF Remembers
  <2>2. /\ stored \in CountEntry /\ loaded \in CountEntry
        /\ VisitorOf(i) \in Visitor /\ updated \in CountEntry
    BY GetSomeType
  <2>3. w \in Visitor /\ w.last_seen \in Nat /\ second \in Nat
    BY <2>2, DivNat DEF CountEntry, Visitor, TypeOK
  <2>4. FromStored(w) \in loaded.recent_visitors
    BY DEF LoadedEntry
  <2>5. FromStored(w).tag = w.tag /\ FromStored(w).last_seen = w.last_seen * TICKS_PER_SEC
    BY DEF FromStored
  <2>6. now[i] \in Nat /\ clock \in Nat /\ now[i] <= clock
    BY DEF TypeOK, TimeInv, Alive, Called
  <2>7. w.last_seen * TICKS_PER_SEC \in Nat /\ w.last_seen * TICKS_PER_SEC <= now[i]
    BY <2>3, <2>4, <2>5, <2>6, TimesNat DEF SomeSeenAfter
  <2>8. SeenRecently(FromStored(w), now[i])
    <3>1. SUFFICES ASSUME now[i] - w.last_seen * TICKS_PER_SEC
                             >= RECENT_CUTOFF * TICKS_PER_SEC
                   PROVE  FALSE
      BY <2>5, <2>6, <2>7, CutoffPositive DEF SeenRecently
    <3>2. second * TICKS_PER_SEC <= w.last_seen * TICKS_PER_SEC
      BY <2>1, <2>3, TicksGrow
    <3>3. second * TICKS_PER_SEC + RECENT_CUTOFF * TICKS_PER_SEC <= clock
      BY <2>3, <2>6, <2>7, <3>1, <3>2, TimesNat, CutoffPositive
    <3>4. (second + RECENT_CUTOFF) * TICKS_PER_SEC
             = second * TICKS_PER_SEC + RECENT_CUTOFF * TICKS_PER_SEC
      BY <2>3, TicksAssumption, CutoffAssumption, SMT
    <3> HIDE DEF second
    <3> QED
      BY <1>2, <3>3, <3>4
  <2>9. UniqueTags(loaded.recent_visitors)
    BY LoadedGood DEF ListInv, GoodList
  <2>10. PICK u \in updated.recent_visitors :
            u.tag = w.tag /\ u.last_seen >= w.last_seen * TICKS_PER_SEC
    <3>1. \/ \E u \in updated.recent_visitors :
                u.tag = w.tag /\ u.last_seen >= w.last_seen * TICKS_PER_SEC
          \/ FullOfLater(updated.recent_visitors, FromStored(w))
      <4> HIDE DEF loaded
      <4>1. LoadedEntry(stored) = loaded
        BY DEF loaded
      <4>2. FromStored(w).last_seen <= now[i]
        BY <2>5, <2>7
      <4> QED
        BY <2>2, <2>4, <2>5, <2>6, <2>8, <2>9, <4>1, <4>2, UpdatedRemembers
    <3>2. ~FullOfLater(updated.recent_visitors, FromStored(w))
      <4>1. FromStored(w).tag = TagOf[j] /\ FromStored(w).last_seen \in Nat
        BY <2>1, <2>5, <2>7
      <4>2. FromStored(w).last_seen >= second * TICKS_PER_SEC
        BY <2>1, <2>3, <2>5, <2>7, TicksGrow, TimesNat
      <4> QED
        BY <1>2, <4>1, <4>2, FullMeansCrowded
    <3> QED
      BY <3>1, <3>2
  <2>11. u.last_seen \in Nat
    BY <2>2 DEF CountEntry, Visitor
  <2>12. w.last_seen <= u.last_seen \div TICKS_PER_SEC
    BY <2>3, <2>7, <2>10, <2>11, SecondsIn
  <2>13. ToStored(u) \in StoredEntry(updated).recent_visitors
    BY DEF StoredEntry
  <2>14. ToStored(u).tag = TagOf[j] /\ ToStored(u).last_seen >= second
    BY <2>1, <2>3, <2>10, <2>11, <2>12, DivNat DEF ToStored
  <2> QED
    BY <2>13, <2>14 DEF Remembers
<1> QED
  BY <1>1, <1>2

\* ... and the visit it counts itself, ...
LEMMA GetSomeRemembersItself ==
    ASSUME TypeOK, ListInv, TimeInv, VisitInv, NEW i \in Invocations, pc[i] = "get",
           NEW stored \in Readable,
           NEW updated \in UpdatedEntries(LoadedEntry(stored), VisitorOf(i), now[i])
    PROVE  Remembers(StoredEntry(updated).recent_visitors, i)
<1> DEFINE second == seen[i] \div TICKS_PER_SEC
           loaded == LoadedEntry(stored)
<1>1. /\ loaded \in CountEntry /\ VisitorOf(i) \in Visitor /\ updated \in CountEntry
  BY GetSomeType
<1>2. /\ now[i] \in Nat /\ clock \in Nat /\ seen[i] \in Nat
      /\ seen[i] <= now[i] /\ now[i] <= clock
  BY DEF TypeOK, TimeInv, Alive, Called
<1>3. VisitorOf(i).last_seen = seen[i] /\ VisitorOf(i).tag = TagOf[i]
  BY DEF VisitorOf
<1>4. /\ second \in Nat /\ second * TICKS_PER_SEC \in Nat
      /\ second * TICKS_PER_SEC <= seen[i]
  BY <1>2, DivNat, TimesNat, SecondBegins
<1>5. (second + RECENT_CUTOFF) * TICKS_PER_SEC
         = second * TICKS_PER_SEC + RECENT_CUTOFF * TICKS_PER_SEC
  BY <1>4, TicksAssumption, CutoffAssumption, SMT
<1>6. CASE SeenRecently(VisitorOf(i), now[i])
  <2>1. UniqueTags(loaded.recent_visitors)
    BY LoadedGood DEF ListInv, GoodList
  <2>2. CASE FullOfLater(updated.recent_visitors, VisitorOf(i))
    <3>1. Crowded(i, clock)
      BY <1>2, <1>3, <1>4, <2>2, FullMeansCrowded
    <3> QED
      BY <3>1 DEF Remembers
  <2> SUFFICES ASSUME ~FullOfLater(updated.recent_visitors, VisitorOf(i))
               PROVE  Remembers(StoredEntry(updated).recent_visitors, i)
    BY <2>2
  <2>7. PICK u \in updated.recent_visitors :
           u.tag = VisitorOf(i).tag /\ u.last_seen >= VisitorOf(i).last_seen
    <3> HIDE DEF loaded
    <3>1. LoadedEntry(stored) = loaded
      BY DEF loaded
    <3>2. VisitorOf(i).last_seen <= now[i]
      BY <1>2, <1>3
    <3> QED
      BY <1>1, <1>2, <1>6, <2>1, <3>1, <3>2, UpdatedHasVisitor
  <2>3. u.last_seen \in Nat
    BY <1>1 DEF CountEntry, Visitor
  <2>4. second <= u.last_seen \div TICKS_PER_SEC
    <3> HIDE DEF second
    <3> QED
      BY <1>2, <1>3, <1>4, <2>7, <2>3, SecondsIn
  <2>5. ToStored(u) \in StoredEntry(updated).recent_visitors
    BY DEF StoredEntry
  <2>6. ToStored(u).tag = TagOf[i] /\ ToStored(u).last_seen >= second
    BY <1>3, <1>4, <2>7, <2>3, <2>4, DivNat DEF ToStored
  <2> QED
    BY <2>5, <2>6 DEF Remembers
<1>7. CASE ~SeenRecently(VisitorOf(i), now[i])
  <2>1. now[i] - seen[i] >= RECENT_CUTOFF * TICKS_PER_SEC
    BY <1>2, <1>3, <1>7, CutoffPositive DEF SeenRecently
  <2> HIDE DEF second
  <2>2. clock >= (second + RECENT_CUTOFF) * TICKS_PER_SEC
    BY <1>2, <1>4, <1>5, <2>1, CutoffPositive
  <2> QED
    BY <2>2 DEF Remembers, second
<1> QED
  BY <1>6, <1>7

\* ... and counts that visit only if enough time has passed since the others.
LEMMA GetSomeApart ==
    ASSUME TypeOK, TimeInv, NEW i \in Invocations, pc[i] = "get",
           NEW stored \in Readable,
           ~SomeSeenAfter(LoadedEntry(stored).recent_visitors, now[i]),
           NEW updated \in UpdatedEntries(LoadedEntry(stored), VisitorOf(i), now[i]),
           StoredEntry(updated).count # stored.count,
           NEW j \in Invocations, Remembers(stored.recent_visitors, j)
    PROVE  Apart(j, i)
<1>6. clock \in Nat /\ clock <= Deadline(i)
  BY DEF TypeOK, TimeInv, Alive, Deadline
<1>7. Crowded(j, clock) => Crowded(j, Deadline(i))
  <2>1. PICK s \in Nat : s = clock
    BY <1>6
  <2>2. PICK t \in Nat : t = Deadline(i)
    BY DeadlineType
  <2> QED
    BY <1>6, <2>1, <2>2, CrowdLater
<1> SUFFICES ASSUME TagOf[j] = TagOf[i], ~Crowded(j, clock)
             PROVE  now[i] >= (seen[j] \div TICKS_PER_SEC + RECENT_CUTOFF - LAMBDA_TIMEOUT)
                                 * TICKS_PER_SEC
  BY <1>7 DEF Apart
<1> DEFINE second == seen[j] \div TICKS_PER_SEC
           loaded == LoadedEntry(stored)
           from == second * TICKS_PER_SEC
           cutoff == RECENT_CUTOFF * TICKS_PER_SEC
           timeout == LAMBDA_TIMEOUT * TICKS_PER_SEC
<1>1. /\ now[i] \in Nat /\ clock \in Nat /\ seen[i] \in Nat /\ seen[j] \in Nat
      /\ seen[i] <= now[i] /\ now[i] <= clock
      /\ clock <= seen[i] + timeout
  BY DEF TypeOK, TimeInv, Alive, Called
<1>2. second \in Nat /\ from \in Nat /\ cutoff \in Nat /\ timeout \in Nat
  <2>1. second \in Nat
    BY <1>1, DivNat
  <2>2. timeout \in Nat
    BY TimeoutAssumption, TimesNat
  <2> QED
    BY <2>1, <2>2, TimesNat, CutoffPositive
<1>3. /\ (second + RECENT_CUTOFF) * TICKS_PER_SEC = from + cutoff
      /\ (second + RECENT_CUTOFF - LAMBDA_TIMEOUT) * TICKS_PER_SEC
            = from + cutoff - timeout
  <2> HIDE DEF second
  <2> QED
    BY <1>2, TicksAssumption, CutoffAssumption, TimeoutAssumption, SMT
<1>4. CASE clock >= (second + RECENT_CUTOFF) * TICKS_PER_SEC
  <2> HIDE DEF second, from, cutoff, timeout
  <2>1. now[i] >= from + cutoff - timeout
    BY <1>1, <1>2, <1>3, <1>4
  <2> QED
    BY <1>3, <2>1 DEF second
<1>5. CASE ~(clock >= (second + RECENT_CUTOFF) * TICKS_PER_SEC)
  <2>1. PICK w \in stored.recent_visitors : w.tag = TagOf[i] /\ w.last_seen >= second
    BY <1>5 DEF Remembers
  <2>2. /\ stored \in CountEntry /\ loaded \in CountEntry
        /\ VisitorOf(i) \in Visitor
    BY GetSomeType
  <2>3. w.last_seen \in Nat
    BY <2>2 DEF CountEntry, Visitor
  <2>4. FromStored(w) \in loaded.recent_visitors
    BY DEF LoadedEntry
  <2>5. FromStored(w).tag = w.tag /\ FromStored(w).last_seen = w.last_seen * TICKS_PER_SEC
    BY DEF FromStored
  <2>6. RecordVisit(loaded, VisitorOf(i), now[i]).count # loaded.count
    <3> HIDE DEF loaded
    <3>1. LoadedEntry(stored) = loaded /\ loaded.count = stored.count
      BY DEF loaded, LoadedEntry
    <3>2. StoredEntry(updated).count = updated.count
      BY DEF StoredEntry
    <3>3. updated.count = RecordVisit(loaded, VisitorOf(i), now[i]).count
      BY <1>1, <2>2, <3>1, UpdatedType
    <3> QED
      BY <3>1, <3>2, <3>3
  <2>7. ~SeenRecently(FromStored(w), now[i])
    <3> HIDE DEF loaded
    <3>1. FromStored(w).tag = VisitorOf(i).tag
      BY <2>1, <2>5 DEF VisitorOf
    <3> QED
      BY <1>1, <2>2, <2>4, <2>6, <3>1, CountedUnseen
  <2>8. w.last_seen * TICKS_PER_SEC \in Nat /\ from <= w.last_seen * TICKS_PER_SEC
    BY <1>2, <2>1, <2>3, TimesNat, TicksGrow
  <2>9. now[i] - w.last_seen * TICKS_PER_SEC >= cutoff
    BY <1>1, <1>2, <2>5, <2>7, <2>8 DEF SeenRecently
  <2> HIDE DEF second, from, cutoff, timeout
  <2>10. now[i] >= from + cutoff - timeout
    BY <1>1, <1>2, <2>8, <2>9
  <2> QED
    BY <1>3, <2>10 DEF second
<1> QED
  BY <1>4, <1>5

\* What was remembered, and what is apart, stays so.
LEMMA LedgerGrows ==
    ASSUME TypeOK, [Next]_vars
    PROVE  /\ DOMAIN ledger = 1 .. Len(ledger) /\ Len(ledger) \in Nat
           /\ \A k \in DOMAIN ledger' : k <= Len(ledger) =>
                 k \in DOMAIN ledger /\ ledger'[k] = ledger[k]
<1>1. DOMAIN ledger = 1 .. Len(ledger) /\ Len(ledger) \in Nat
  BY DEF TypeOK
<1>2. CASE ledger' = ledger
  BY <1>1, <1>2
<1>3. CASE Accepts
  <2>1. PICK m \in network : AcceptPut(m)
    BY <1>3 DEF Accepts
  <2> QED
    BY <1>1, <2>1, AcceptPutLedger
<1>4. ASSUME NEW i \in Invocations, GetNothing(i) \/ GetSome(i) PROVE ledger' = ledger
  BY <1>4, SendPutPending DEF GetNothing, GetSome
<1> QED
  BY <1>1, <1>2, <1>3, <1>4, Steps DEF Quiet

LEMMA RemembersStays ==
    ASSUME TypeOK, [Next]_vars, NEW j \in Invocations, Called(j),
           NEW visitors, Remembers(visitors, j)
    PROVE  Remembers(visitors, j)'
<1>1. /\ clock \in Nat /\ clock' \in Nat /\ clock <= clock'
      /\ seen'[j] = seen[j]
  BY TimesSettle
<1>2. (seen[j] \div TICKS_PER_SEC + RECENT_CUTOFF) * TICKS_PER_SEC \in Nat
  <2>1. seen[j] \div TICKS_PER_SEC \in Nat
    BY DivNat DEF TypeOK
  <2>2. seen[j] \div TICKS_PER_SEC + RECENT_CUTOFF \in Nat
    BY <2>1, CutoffAssumption
  <2> QED
    BY <2>2, TimesNat
<1> DEFINE seconds == seen[j] \div TICKS_PER_SEC
           until == (seconds + RECENT_CUTOFF) * TICKS_PER_SEC
<1>3. clock >= until => clock' >= until
  <2> HIDE DEF until
  <2>1. until \in Nat
    BY <1>2 DEF until
  <2> QED
    BY <1>1, <2>1
<1>4. Crowded(j, clock) => Crowded(j, clock)'
  <2> SUFFICES ASSUME Crowded(j, clock) PROVE Crowded(j, clock)'
    OBVIOUS
  <2>1. PICK s \in Nat : s = clock
    BY <1>1
  <2>2. PICK t \in Nat : t = clock'
    BY <1>1
  <2>3. s <= t /\ Crowded(j, s)
    BY <1>1, <2>1, <2>2
  <2>4. Crowded(j, t)
    BY <2>3, CrowdLater
  <2>5. Crowded(j, t)'
    BY <2>4, CrowdStays
  <2> QED
    BY <2>2, <2>5 DEF Crowded
<1> QED
  BY <1>1, <1>3, <1>4 DEF Remembers

LEMMA RemembersUpToStays ==
    ASSUME TypeOK, TimeInv, [Next]_vars, NEW visitors, NEW n \in Nat, n <= Len(ledger),
           RemembersUpTo(visitors, n)
    PROVE  RemembersUpTo(visitors, n)'
<1> SUFFICES ASSUME NEW k \in DOMAIN ledger', k <= n, NEW j, j = ledger'[k]
             PROVE  Remembers(visitors, j)'
  BY DEF RemembersUpTo, Remembers
<1>1. DOMAIN ledger' = 1 .. Len(ledger') /\ Len(ledger) \in Nat
  <2>1. ledger \in Seq(Invocations) /\ ledger' \in Seq(Invocations)
    BY NextType DEF TypeOK
  <2> QED
    BY <2>1
<1>2. k <= Len(ledger)
  BY <1>1
<1>3. k \in DOMAIN ledger /\ j = ledger[k]
  BY <1>2, LedgerGrows
<1>4. j \in Invocations /\ Called(j)
  BY <1>3 DEF TypeOK, TimeInv
<1>5. Remembers(visitors, j)
  BY <1>3 DEF RemembersUpTo
<1> QED
  BY <1>4, <1>5, RemembersStays

LEMMA ApartStays ==
    ASSUME TypeOK, [Next]_vars, NEW i \in Invocations, Called(i),
           NEW j \in Invocations, Called(j), Apart(i, j)
    PROVE  Apart(i, j)'
<1>1. seen'[i] = seen[i] /\ seen'[j] = seen[j] /\ now'[j] = now[j]
  BY TimesSettle
<1>2. PICK t : t = Deadline(j) /\ t = Deadline(j)'
  BY <1>1 DEF Deadline
<1>3. Crowded(i, Deadline(j)) => Crowded(i, Deadline(j))'
  <2> SUFFICES ASSUME Crowded(i, Deadline(j)) PROVE Crowded(i, Deadline(j))'
    OBVIOUS
  <2>1. Crowded(i, t)'
    BY <1>2, CrowdStays
  <2> QED
    BY <1>2, <2>1 DEF Crowded
<1> QED
  BY <1>1, <1>3 DEF Apart

LEMMA ApartUpToStays ==
    ASSUME TypeOK, TimeInv, [Next]_vars, NEW n \in Nat, n <= Len(ledger),
           NEW i \in Invocations, Called(i), ApartUpTo(n, i)
    PROVE  ApartUpTo(n, i)'
<1> SUFFICES ASSUME NEW k \in DOMAIN ledger', k <= n, NEW j, j = ledger'[k]
             PROVE  Apart(j, i)'
  BY DEF ApartUpTo, Apart
<1>1. DOMAIN ledger' = 1 .. Len(ledger') /\ Len(ledger) \in Nat
  <2>1. ledger \in Seq(Invocations) /\ ledger' \in Seq(Invocations)
    BY NextType DEF TypeOK
  <2> QED
    BY <2>1
<1>2. k <= Len(ledger)
  BY <1>1
<1>3. k \in DOMAIN ledger /\ j = ledger[k]
  BY <1>2, LedgerGrows
<1>4. j \in Invocations /\ Called(j)
  BY <1>3 DEF TypeOK, TimeInv
<1>5. Apart(j, i)
  BY <1>3 DEF ApartUpTo
<1> QED
  BY <1>4, <1>5, ApartStays

\* The counts of the versions and of the pending puts are within the ledger.
LEMMA WithinLedger ==
    ASSUME TypeOK, CountInv
    PROVE  /\ item.count = Len(ledger)
           /\ \A v \in Readable : v.count \in Nat /\ v.count <= Len(ledger)
           /\ \A m \in Pending : m.from \in Invocations
                                 /\ m.condition \in Nat /\ m.condition <= Len(ledger)
<1>1. item.count = Len(ledger)
  BY DEF CountInv, CountIsLedger
<1>2. \A v \in Readable : v.count \in Nat /\ v.count <= item.count
  BY DEF TypeOK, CountEntry, Readable, CountInv, VersionsCounted
<1>3. \A m \in Pending : m.from \in Invocations
                         /\ m.condition \in Nat /\ m.condition <= item.count
  BY PendingType DEF PutRequest, CountInv, PutsCounted
<1> QED
  BY <1>1, <1>2, <1>3

\* What the memory invariant says of one put.
PutRemembers(m) ==
    /\ RemembersUpTo(m.put.recent_visitors, m.condition)
    /\ CountsVisit(m) => /\ Remembers(m.put.recent_visitors, m.from)
                         /\ ApartUpTo(m.condition, m.from)

\* A put whose maker has called the store still remembers, whether it is pending
\* already or just about to be sent.
LEMMA PutRemembersStays ==
    ASSUME TypeOK, TimeInv, [Next]_vars,
           NEW m, m.from \in Invocations, Called(m.from),
           m.condition \in Nat, m.condition <= Len(ledger), PutRemembers(m)
    PROVE  PutRemembers(m)'
<1>1. RemembersUpTo(m.put.recent_visitors, m.condition)'
  BY RemembersUpToStays DEF PutRemembers
<1>2. CASE CountsVisit(m)
  <2>1. Remembers(m.put.recent_visitors, m.from)'
    BY <1>2, RemembersStays DEF PutRemembers
  <2>2. ApartUpTo(m.condition, m.from)'
    BY <1>2, ApartUpToStays DEF PutRemembers
  <2> QED
    BY <1>1, <2>1, <2>2 DEF PutRemembers
<1>3. CASE ~CountsVisit(m)
  BY <1>1, <1>3 DEF PutRemembers, CountsVisit
<1> QED
  BY <1>2, <1>3

LEMMA VersionsStay ==
    ASSUME TypeOK, CountInv, TimeInv, VersionsRemember, [Next]_vars, NEW v \in Readable
    PROVE  RemembersUpTo(v.recent_visitors, v.count)'
BY WithinLedger, RemembersUpToStays DEF VersionsRemember

LEMMA DedupStays ==
    ASSUME TypeOK, TimeInv, DedupWindow, [Next]_vars,
           NEW k \in DOMAIN ledger, NEW l \in DOMAIN ledger, k < l,
           NEW i, i = ledger[k], NEW j, j = ledger[l]
    PROVE  Apart(i, j)'
<1>1. /\ i \in Invocations /\ Called(i)
      /\ j \in Invocations /\ Called(j)
  BY DEF TypeOK, TimeInv
<1>2. Apart(i, j)
  BY DEF DedupWindow, Apart, CountedAt
<1> QED
  BY <1>1, <1>2, ApartStays

\* The memory invariant, part by part.
LEMMA MemoryParts ==
    ASSUME \A v \in Readable' : RemembersUpTo(v.recent_visitors, v.count)',
           \A m \in Pending' : PutRemembers(m)',
           ASSUME NEW k \in DOMAIN ledger', NEW l \in DOMAIN ledger', k < l,
                  NEW i, i = ledger'[k], NEW j, j = ledger'[l]
           PROVE  Apart(i, j)'
    PROVE  MemoryInv'
<1>1. VersionsRemember'
  BY DEF VersionsRemember
<1>2. PutsRemember' /\ PutsApart'
  BY DEF PutsRemember, PutsApart, PutRemembers, CountsVisit
<1>3. DedupWindow'
  BY DEF DedupWindow, Apart, CountedAt
<1> QED
  BY <1>1, <1>2, <1>3 DEF MemoryInv

\* A step that leaves the table alone keeps the memory if its puts remember.
LEMMA SameTableMemory ==
    ASSUME TypeOK, CountInv, TimeInv, MemoryInv, [Next]_vars,
           UNCHANGED <<item, stale, ledger>>,
           \A m \in Pending' : PutRemembers(m)'
    PROVE  MemoryInv'
<1>1. \A v \in Readable' : RemembersUpTo(v.recent_visitors, v.count)'
  <2>1. Readable' = Readable
    BY DEF Readable
  <2> QED
    BY <2>1, VersionsStay DEF MemoryInv
<1>2. ASSUME NEW k \in DOMAIN ledger', NEW l \in DOMAIN ledger', k < l,
             NEW i, i = ledger'[k], NEW j, j = ledger'[l]
      PROVE  Apart(i, j)'
  BY <1>2, DedupStays DEF MemoryInv
<1> QED
  BY <1>1, <1>2, MemoryParts

LEMMA AllPutsRemember ==
    ASSUME MemoryInv, NEW m \in Pending
    PROVE  PutRemembers(m)
BY DEF MemoryInv, PutsRemember, PutsApart, PutRemembers

LEMMA AllPutsStay ==
    ASSUME TypeOK, CountInv, TimeInv, MemoryInv, [Next]_vars, NEW m \in Pending
    PROVE  PutRemembers(m)'
<1>1. /\ m.from \in Invocations /\ Called(m.from)
      /\ m.condition \in Nat /\ m.condition <= Len(ledger)
  BY WithinLedger DEF TimeInv
<1> QED
  BY <1>1, AllPutsRemember, PutRemembersStays

LEMMA QuietMemory ==
    ASSUME TypeOK, CountInv, TimeInv, MemoryInv, [Next]_vars, Quiet
    PROVE  MemoryInv'
<1>1. ASSUME NEW m \in Pending' PROVE PutRemembers(m)'
  <2>1. PICK n \in Pending :
           m.from = n.from /\ m.condition = n.condition /\ m.put = n.put
    BY DEF Quiet
  <2>2. PutRemembers(n)'
    BY AllPutsStay
  <2> QED
    BY <2>1, <2>2 DEF PutRemembers, CountsVisit
<1> QED
  BY <1>1, SameTableMemory DEF Quiet

LEMMA AcceptMemory ==
    ASSUME TypeOK, CountInv, TimeInv, MemoryInv, [Next]_vars, Accepts
    PROVE  MemoryInv'
<1>1. PICK m \in network : AcceptPut(m)
  BY DEF Accepts
<1>2. m \in Pending /\ Pending' \subseteq Pending
  BY DEF Accepts, Pending
<1>3. PutRemembers(m)'
  BY <1>2, AllPutsStay
<1>4. /\ item.count = m.condition /\ item'.count = m.put.count
      /\ item.count = Len(ledger)
  BY <1>1, <1>2, AcceptPutCount, WithinLedger
<1>5. \A k \in DOMAIN ledger' \ DOMAIN ledger :
         k = Len(ledger) + 1 /\ CountsVisit(m) /\ ledger'[k] = m.from
  BY <1>1, AcceptPutLedger
<1>6. /\ DOMAIN ledger = 1 .. Len(ledger) /\ Len(ledger) \in Nat
      /\ \A k \in DOMAIN ledger : k \in DOMAIN ledger' /\ ledger'[k] = ledger[k]
  BY <1>1, AcceptPutLedger
<1>7. /\ RemembersUpTo(m.put.recent_visitors, m.condition)'
      /\ CountsVisit(m) => /\ Remembers(m.put.recent_visitors, m.from)'
                           /\ ApartUpTo(m.condition, m.from)'
  BY <1>3 DEF PutRemembers, CountsVisit
<1>8. RemembersUpTo(m.put.recent_visitors, m.put.count)'
  <2> SUFFICES ASSUME NEW k \in DOMAIN ledger', NEW j, j = ledger'[k]
               PROVE  Remembers(m.put.recent_visitors, j)'
    BY DEF RemembersUpTo, Remembers
  <2>1. CASE k \in DOMAIN ledger
    <3>1. k <= m.condition
      BY <1>4, <1>6, <2>1
    <3> QED
      BY <1>7, <3>1 DEF RemembersUpTo, Remembers
  <2>2. CASE k \notin DOMAIN ledger
    BY <1>5, <1>7, <2>2
  <2> QED
    BY <2>1, <2>2
<1>9. ASSUME NEW v \in Readable' PROVE RemembersUpTo(v.recent_visitors, v.count)'
  <2>1. v \in Readable \/ v = m.put
    BY <1>1 DEF Readable, AcceptPut
  <2> QED
    BY <1>8, <2>1, VersionsStay DEF MemoryInv
<1>10. ASSUME NEW n \in Pending' PROVE PutRemembers(n)'
  BY <1>2, AllPutsStay
<1>11. ASSUME NEW k \in DOMAIN ledger', NEW l \in DOMAIN ledger', k < l,
              NEW i, i = ledger'[k], NEW j, j = ledger'[l]
       PROVE  Apart(i, j)'
  <2>1. k \in DOMAIN ledger
    <3>1. k \notin DOMAIN ledger => k = Len(ledger) + 1
      BY <1>5
    <3>2. l \in Nat /\ l <= Len(ledger) + 1
      BY <1>5, <1>6
    <3> QED
      BY <1>6, <1>11, <3>1, <3>2
  <2>2. CASE l \in DOMAIN ledger
    BY <1>6, <1>11, <2>1, <2>2, DedupStays DEF MemoryInv
  <2>3. CASE l \notin DOMAIN ledger
    <3>1. CountsVisit(m) /\ j = m.from
      BY <1>5, <1>11, <2>3
    <3>2. k <= m.condition
      BY <1>4, <1>6, <2>1
    <3> QED
      BY <1>7, <1>11, <3>1, <3>2 DEF ApartUpTo, Apart
  <2> QED
    BY <2>2, <2>3
<1> QED
  BY <1>9, <1>10, <1>11, MemoryParts

\* A sent put that remembers keeps the memory.
LEMMA SentMemory ==
    ASSUME TypeOK, CountInv, TimeInv, MemoryInv, [Next]_vars,
           NEW i \in Invocations, NEW condition \in Nat, NEW put,
           condition <= Len(ledger), SendPut(i, condition, put),
           RemembersUpTo(put.recent_visitors, condition),
           put.count # condition => /\ Remembers(put.recent_visitors, i)
                                    /\ ApartUpTo(condition, i)
    PROVE  MemoryInv'
<1>1. /\ UNCHANGED <<clock, item, stale, ledger, seen, now>>
      /\ \A m \in Pending' :
            m \in Pending \/ (m.from = i /\ m.condition = condition /\ m.put = put)
  BY SendPutPending
<1>2. ASSUME NEW m \in Pending' PROVE PutRemembers(m)'
  <2>1. CASE m \in Pending
    BY <2>1, AllPutsStay
  <2>2. CASE m.from = i /\ m.condition = condition /\ m.put = put
    <3>1. PutRemembers(m)
      BY <2>2 DEF PutRemembers, CountsVisit
    <3>2. Called(m.from)
      BY <2>2 DEF SendPut, Called
    <3> QED
      BY <2>2, <3>1, <3>2, PutRemembersStays
  <2> QED
    BY <1>1, <2>1, <2>2
<1> QED
  BY <1>1, <1>2, SameTableMemory

\* The first put for a counter.
LEMMA GetNothingMemory ==
    ASSUME TypeOK, CountInv, TimeInv, MemoryInv, [Next]_vars,
           NEW i \in Invocations, GetNothing(i)
    PROVE  MemoryInv'
<1> DEFINE visitor == ToStored(VisitorOf(i))
           put == [count |-> 1, recent_visitors |-> {visitor}]
<1>1. SendPut(i, AttributeNotExists, put)
  BY DEF GetNothing
<1>5. AttributeNotExists \in Nat /\ AttributeNotExists <= Len(ledger)
  BY LedgerGrows DEF AttributeNotExists
<1>2. \A k \in DOMAIN ledger : ~(k <= AttributeNotExists)
  BY LedgerGrows DEF AttributeNotExists
<1>3. RemembersUpTo(put.recent_visitors, AttributeNotExists)
      /\ ApartUpTo(AttributeNotExists, i)
  BY <1>2 DEF RemembersUpTo, ApartUpTo
<1>4. Remembers(put.recent_visitors, i)
  <2>1. visitor.tag = TagOf[i] /\ visitor.last_seen = seen[i] \div TICKS_PER_SEC
    BY DEF ToStored, VisitorOf
  <2>2. seen[i] \div TICKS_PER_SEC \in Nat
    BY DivNat DEF TypeOK
  <2> HIDE DEF visitor
  <2> QED
    BY <2>1, <2>2 DEF Remembers
<1> HIDE DEF put
<1> QED
  BY <1>1, <1>3, <1>4, <1>5, SentMemory

LEMMA GetSomeMemory ==
    ASSUME TypeOK, CountInv, ListInv, TimeInv, VisitInv, MemoryInv, [Next]_vars,
           NEW i \in Invocations, GetSome(i)
    PROVE  MemoryInv'
<1>1. PICK stored \in Readable \ {NoItem} :
         /\ ~SomeSeenAfter(LoadedEntry(stored).recent_visitors, now[i])
         /\ \E updated \in UpdatedEntries(LoadedEntry(stored), VisitorOf(i), now[i]) :
               SendPut(i, LoadedEntry(stored).count, StoredEntry(updated))
  BY DEF GetSome
<1>2. PICK updated \in UpdatedEntries(LoadedEntry(stored), VisitorOf(i), now[i]) :
         SendPut(i, LoadedEntry(stored).count, StoredEntry(updated))
  BY <1>1
<1> DEFINE put == StoredEntry(updated)
<1>3. pc[i] = "get"
  BY <1>2 DEF SendPut
<1>4. LoadedEntry(stored).count = stored.count /\ stored.count \in Nat
  BY GetSomeCount
<1>5. \A k \in DOMAIN ledger : k <= stored.count =>
         ledger[k] \in Invocations /\ Remembers(stored.recent_visitors, ledger[k])
  <2>1. \A k \in DOMAIN ledger : ledger[k] \in Invocations
    BY DEF TypeOK
  <2>2. RemembersUpTo(stored.recent_visitors, stored.count)
    BY DEF MemoryInv, VersionsRemember
  <2> QED
    BY <2>1, <2>2 DEF RemembersUpTo
<1>6. RemembersUpTo(put.recent_visitors, stored.count)
  <2>1. ASSUME NEW j \in Invocations, Remembers(stored.recent_visitors, j)
        PROVE  Remembers(put.recent_visitors, j)
    BY <1>1, <1>3, <2>1, GetSomeRemembers
  <2> HIDE DEF put
  <2> QED
    BY <1>5, <2>1 DEF RemembersUpTo
<1>7. Remembers(put.recent_visitors, i)
  BY <1>3, GetSomeRemembersItself
<1>8. put.count # stored.count => ApartUpTo(stored.count, i)
  <2>1. put.count # stored.count =>
           \A j \in Invocations : Remembers(stored.recent_visitors, j) => Apart(j, i)
    BY <1>1, <1>3, GetSomeApart
  <2> HIDE DEF put
  <2> QED
    BY <1>5, <2>1 DEF ApartUpTo
<1>9. SendPut(i, stored.count, put)
  BY <1>2, <1>4
<1>10. stored.count \in Nat /\ stored.count <= Len(ledger)
  BY WithinLedger
<1> HIDE DEF put
<1> QED
  BY <1>6, <1>7, <1>8, <1>9, <1>10, SentMemory

LEMMA InitMemory == Init => MemoryInv
<1> SUFFICES ASSUME Init PROVE MemoryInv
  OBVIOUS
<1>1. DOMAIN ledger = {} /\ Pending = {}
  BY DEF Init, Pending, Awaited
<1> QED
  BY <1>1 DEF MemoryInv, VersionsRemember, RemembersUpTo, PutsRemember, PutsApart,
              DedupWindow

\* The inductive invariant of Store holds in every state: every version that can be
\* read and every put that can still arrive agree with the ledger and remember the
\* visits it counts, or the list was full of later ones.
THEOREM InvariantCorrect == Spec => []IInv
<1>1. Init => IInv
  BY InitType, InitCount, InitList, InitTime, InitVisits, InitMemory DEF IInv
<1>2. IInv /\ [Next]_vars => IInv'
  <2> SUFFICES ASSUME IInv, [Next]_vars PROVE IInv'
    OBVIOUS
  <2>1. TypeOK /\ CountInv /\ ListInv /\ TimeInv /\ VisitInv /\ MemoryInv
    BY DEF IInv
  <2>2. TypeOK' /\ CountInv' /\ ListInv' /\ TimeInv' /\ VisitInv'
    BY <2>1, NextType, NextCount, NextList, NextTime, NextVisits
  <2>3. MemoryInv'
    BY <2>1, Steps, QuietMemory, AcceptMemory, GetNothingMemory, GetSomeMemory
  <2> QED
    BY <2>2, <2>3 DEF IInv
<1> QED
  BY <1>1, <1>2, PTL DEF Spec

\* No visitor is counted twice within the cutoff, less the time that an invocation
\* may run, unless as many others as the list has room for have come in between.
THEOREM DedupCorrect == Spec => []DedupWindow
<1>1. IInv => DedupWindow
  BY DEF IInv, MemoryInv
<1> QED
  BY <1>1, InvariantCorrect, PTL

-----------------------------------------------------------------------------
(* Work *)

\* What a step can do to an invocation: let it start, call, send a put, send it
\* again, start over with the next attempt, or end.
Advances(i) ==
    \/ pc[i] = "idle" /\ pc'[i] = "identified" /\ attempt'[i] = attempt[i]
    \/ pc[i] = "identified" /\ pc'[i] = "get" /\ attempt'[i] = attempt[i]
    \/ /\ pc[i] = "get" /\ pc'[i] = "put" /\ attempt'[i] = attempt[i]
       /\ request'[i].send = 1
    \/ /\ pc[i] = "put" /\ pc'[i] = "put" /\ attempt'[i] = attempt[i]
       /\ request[i].send < MAX_SENDS
       /\ request'[i].send = request[i].send + 1
    \/ /\ pc[i] = "put" /\ pc'[i] = "get" /\ attempt'[i] = attempt[i] + 1
       /\ attempt'[i] < MAX_ATTEMPTS_FOR_OPTIMISTIC_LOCKING
    \/ ~Finished(i) /\ Finished(i)'

LEMMA GoToAdvances ==
    ASSUME TypeOK, NEW i \in Invocations, NEW p \in {"done", "failed", "panicked"},
           pc[i] \in {"identified", "get", "put"}, GoTo(i, p)
    PROVE  Advances(i)
<1>1. pc'[i] = p
  BY DEF GoTo, TypeOK
<1> QED
  BY <1>1 DEF Advances, Finished

LEMMA SendPutAdvances ==
    ASSUME TypeOK, NEW i \in Invocations, NEW condition, NEW put, SendPut(i, condition, put)
    PROVE  Advances(i)
<1> DEFINE m == [from |-> i, attempt |-> attempt[i], send |-> 1,
                 condition |-> condition, put |-> put]
<1>1. /\ pc[i] = "get"
      /\ pc' = [pc EXCEPT ![i] = "put"]
      /\ request' = [request EXCEPT ![i] = m]
      /\ attempt' = attempt
  BY DEF SendPut
<1>2. m.send = 1
  OBVIOUS
<1> HIDE DEF m
<1>3. pc'[i] = "put" /\ request'[i] = m /\ attempt'[i] = attempt[i]
  BY <1>1 DEF TypeOK
<1> QED
  BY <1>1, <1>2, <1>3 DEF Advances

\* A step of one invocation touches no other.
Others(i) == \A j \in Invocations \ {i} : Local(j)' = Local(j)

LEMMA GoToOthers ==
    ASSUME TypeOK, NEW i \in Invocations, NEW p, GoTo(i, p),
           UNCHANGED <<seen, now, floor>>,
           \A j \in Invocations \ {i} : attempt'[j] = attempt[j] /\ answer'[j] = answer[j]
    PROVE  Others(i)
BY DEF GoTo, TypeOK, Others, Local

LEMMA SendPutOthers ==
    ASSUME TypeOK, NEW i \in Invocations, NEW condition, NEW put, SendPut(i, condition, put)
    PROVE  Others(i)
BY DEF SendPut, TypeOK, Others, Local

LEMMA StepAdvances ==
    ASSUME TypeOK, [Next]_vars, NEW j \in Invocations, Local(j)' # Local(j)
    PROVE  Advances(j)
<1>1. ASSUME NEW i \in Invocations, Identify(i) PROVE Others(i) /\ Advances(i)
  BY <1>1 DEF Identify, TypeOK, Others, Local, Advances
<1>2. ASSUME NEW i \in Invocations, Call(i) PROVE Others(i) /\ Advances(i)
  BY <1>2 DEF Call, TypeOK, Others, Local, Advances
<1>3. ASSUME NEW i \in Invocations, GetFails(i) PROVE Others(i) /\ Advances(i)
  BY <1>3, GoToAdvances, GoToOthers DEF GetFails
<1>4. ASSUME NEW i \in Invocations, GetNothing(i) PROVE Others(i) /\ Advances(i)
  BY <1>4, SendPutAdvances, SendPutOthers DEF GetNothing
<1>5. ASSUME NEW i \in Invocations, GetPanics(i) PROVE Others(i) /\ Advances(i)
  BY <1>5, GoToAdvances, GoToOthers DEF GetPanics
<1>6. ASSUME NEW i \in Invocations, GetSome(i) PROVE Others(i) /\ Advances(i)
  BY <1>6, SendPutAdvances, SendPutOthers DEF GetSome
<1>7. ASSUME NEW i \in Invocations, ResendPut(i) PROVE Others(i) /\ Advances(i)
  <2> DEFINE again == [request[i] EXCEPT !.send = @ + 1]
  <2>1. /\ pc[i] = "put"
        /\ request[i].send < MAX_SENDS
        /\ request' = [request EXCEPT ![i] = again]
        /\ UNCHANGED <<pc, seen, now, attempt, answer, floor>>
    BY <1>7 DEF ResendPut
  <2>2. again.send = request[i].send + 1
    BY DEF TypeOK, PutRequest
  <2> HIDE DEF again
  <2>3. request'[i] = again /\ pc'[i] = "put" /\ attempt'[i] = attempt[i]
    BY <2>1 DEF TypeOK
  <2> QED
    BY <2>1, <2>2, <2>3 DEF TypeOK, Others, Local, Advances
<1>8. ASSUME NEW i \in Invocations, PutFails(i) PROVE Others(i) /\ Advances(i)
  BY <1>8, GoToAdvances, GoToOthers DEF PutFails
<1>9. ASSUME NEW i \in Invocations, PutSucceeds(i) PROVE Others(i) /\ Advances(i)
  <2>1. \A k \in Invocations \ {i} : attempt'[k] = attempt[k] /\ answer'[k] = answer[k]
    BY <1>9 DEF PutSucceeds, TypeOK
  <2> QED
    BY <1>9, <2>1, GoToAdvances, GoToOthers DEF PutSucceeds
<1>10. ASSUME NEW i \in Invocations, PutConflicts(i) PROVE Others(i) /\ Advances(i)
  <2>1. /\ attempt'[i] = attempt[i] + 1
        /\ \A k \in Invocations \ {i} : attempt'[k] = attempt[k] /\ answer'[k] = answer[k]
    BY <1>10 DEF PutConflicts, TypeOK
  <2>2. Others(i)
    BY <1>10, <2>1, GoToOthers DEF PutConflicts
  <2>3. CASE attempt'[i] < MAX_ATTEMPTS_FOR_OPTIMISTIC_LOCKING
    <3>1. pc[i] = "put" /\ pc'[i] = "get"
      BY <1>10, <2>3 DEF PutConflicts, GoTo, TypeOK
    <3> QED
      BY <2>1, <2>2, <2>3, <3>1 DEF Advances
  <2>4. CASE ~(attempt'[i] < MAX_ATTEMPTS_FOR_OPTIMISTIC_LOCKING)
    BY <1>10, <2>2, <2>4, GoToAdvances DEF PutConflicts
  <2> QED
    BY <2>3, <2>4
<1>11. ASSUME NEW i \in Invocations, Kill(i) PROVE Others(i) /\ Advances(i)
  BY <1>11, GoToAdvances, GoToOthers DEF Kill, Alive
<1>12. CASE AcceptUnheard
  BY <1>12 DEF AcceptUnheard, client, Local
<1>13. CASE Tick
  BY <1>13 DEF Tick, client, Local
<1>14. CASE UNCHANGED vars
  BY <1>14 DEF vars, client, Local
<1>15. ASSUME NEW i \in Invocations, Others(i) /\ Advances(i) PROVE Advances(j)
  BY <1>15 DEF Others
<1> QED
  BY <1>1, <1>2, <1>3, <1>4, <1>5, <1>6, <1>7, <1>8, <1>9, <1>10, <1>11, <1>12,
     <1>13, <1>14, <1>15 DEF Next, Proceed

LEMMA InitWork == Init => WorkInv
BY MaxAttemptsAssumption DEF Init, WorkInv, Finished

LEMMA NextWork == TypeOK /\ WorkInv /\ [Next]_vars => WorkInv'
<1> SUFFICES ASSUME TypeOK, WorkInv, [Next]_vars, NEW i \in Invocations
             PROVE  /\ ~Finished(i)' => attempt'[i] < MAX_ATTEMPTS_FOR_OPTIMISTIC_LOCKING
                    /\ pc'[i] = "put" => request'[i].send \in 1..MAX_SENDS
  BY DEF WorkInv
<1>1. /\ ~Finished(i) => attempt[i] < MAX_ATTEMPTS_FOR_OPTIMISTIC_LOCKING
      /\ pc[i] = "put" => request[i].send \in 1..MAX_SENDS
  BY DEF WorkInv
<1>2. CASE Local(i)' = Local(i)
  <2>1. pc'[i] = pc[i] /\ attempt'[i] = attempt[i] /\ request'[i] = request[i]
    BY <1>2 DEF Local
  <2> QED
    BY <1>1, <2>1 DEF Finished
<1>3. CASE Local(i)' # Local(i)
  BY <1>1, <1>3, StepAdvances, MaxSendsAssumption DEF Advances, Finished
<1> QED
  BY <1>2, <1>3

\* An attempt is worth its get and the sends of its put.
LEMMA AttemptSteps ==
    ASSUME NEW left \in Nat \ {0}, NEW sends \in Nat
    PROVE  /\ left * (sends + 1) \in Nat
           /\ (left - 1) * (sends + 1) \in Nat
           /\ left * (sends + 1) = (left - 1) * (sends + 1) + (sends + 1)
OBVIOUS

LEMMA NextAdvance ==
    ASSUME TypeOK, WorkInv, [Next]_vars, NEW i \in Invocations
    PROVE  CallAdvances(i)
<1> SUFFICES ASSUME Local(i)' # Local(i)
             PROVE  StepsLeft(i)' \in 0 .. StepsLeft(i) - 1
  BY DEF CallAdvances
<1> DEFINE A == MAX_ATTEMPTS_FOR_OPTIMISTIC_LOCKING
           each == MAX_SENDS + 1
           rest == (A - attempt[i]) * each
           less == (A - (attempt[i] + 1)) * each
<1>1. Advances(i)
  BY StepAdvances
<1>2. /\ attempt[i] \in Nat
      /\ ~Finished(i) => attempt[i] < A
      /\ pc[i] = "put" => request[i].send \in 1..MAX_SENDS
  BY DEF WorkInv, TypeOK
<1>3. WorkInv'
  BY NextWork
<1>4. pc'[i] = "put" => request'[i].send \in 1..MAX_SENDS
  BY <1>3 DEF WorkInv
<1>5. ~Finished(i)
  BY <1>1 DEF Advances, Finished
<1>6. rest \in Nat /\ less \in Nat /\ rest = less + MAX_SENDS + 1
  <2>1. A - attempt[i] \in Nat \ {0} /\ A - (attempt[i] + 1) = (A - attempt[i]) - 1
    BY <1>2, <1>5, MaxAttemptsAssumption
  <2> QED
    BY <2>1, AttemptSteps, MaxSendsAssumption
<1>7. /\ pc[i] = "idle" => StepsLeft(i) = rest + 2
      /\ pc[i] = "identified" => StepsLeft(i) = rest + 1
      /\ pc[i] = "get" => StepsLeft(i) = rest + 0
      /\ pc[i] = "put" => StepsLeft(i) = rest + (-request[i].send)
  BY DEF StepsLeft, Finished
<1>8. /\ Finished(i)' => StepsLeft(i)' = 0
      /\ attempt'[i] = attempt[i] =>
            /\ pc'[i] = "identified" => StepsLeft(i)' = rest + 1
            /\ pc'[i] = "get" => StepsLeft(i)' = rest + 0
            /\ pc'[i] = "put" => StepsLeft(i)' = rest + (-request'[i].send)
      /\ attempt'[i] = attempt[i] + 1 /\ pc'[i] = "get" => StepsLeft(i)' = less + 0
  BY DEF StepsLeft, Finished
<1>9. pc[i] \in {"idle", "identified", "get", "put"}
  BY <1>5 DEF TypeOK, PCs, Finished
<1> HIDE DEF rest, less
<1> QED
  BY <1>1, <1>2, <1>4, <1>5, <1>6, <1>7, <1>8, <1>9, MaxSendsAssumption DEF Advances

\* The work of every invocation is bounded, however the table, the network and the
\* other invocations behave: each of its steps leaves it fewer of them. So it
\* ends as long as it takes steps at all.
THEOREM AdvanceCorrect == Spec => CallsAdvance
<1>1. Init => TypeOK /\ WorkInv
  BY InitType, InitWork
<1>2. TypeOK /\ WorkInv /\ [Next]_vars => (TypeOK /\ WorkInv)'
  BY NextType, NextWork
<1>3. TypeOK /\ WorkInv /\ [Next]_vars => [\A i \in Invocations : CallAdvances(i)]_vars
  BY NextAdvance
<1> QED
  BY <1>1, <1>2, <1>3, PTL DEF Spec, CallsAdvance

=============================================================================
