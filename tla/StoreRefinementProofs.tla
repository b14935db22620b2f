------------------------ MODULE StoreRefinementProofs ------------------------
(***************************************************************************)
(* The proof that Store implements VisitorCounter.  A step of the store is *)
(* a step of the counter when a put is accepted, and a stutter otherwise:  *)
(* one that counts its visit maps to Count, one that refreshes the list    *)
(* and is heard of maps to Answer.  What has to be shown is that nothing   *)
(* is counted twice or after its answer, and no stranger is answered.      *)
(***************************************************************************)
EXTENDS StoreProofs

-----------------------------------------------------------------------------
(* Attempts *)

\* What AttemptInv says of one put.
AttemptOK(m) ==
    /\ pc[m.from] = "get" => Spent(m)
    /\ pc[m.from] = "put" =>
          \/ Spent(m)
          \/ /\ m.condition = request[m.from].condition
             /\ m.put = request[m.from].put
    /\ answer[m.from] # 0 /\ CountsVisit(m) => Spent(m)

\* Only an answer ends an invocation as done.
AnswerOK(i) == answer[i] # 0 => pc[i] = "done"

LEMMA AttemptParts ==
    AttemptInv <=> /\ \A i \in Invocations : AnswerOK(i)
                   /\ \A m \in Pending : AttemptOK(m)
BY DEF AttemptInv, AttemptOK, AnswerOK

LEMMA AttemptPartsNext ==
    ASSUME \A i \in Invocations : AnswerOK(i)',
           \A m \in Pending' : AttemptOK(m)'
    PROVE  AttemptInv'
BY DEF AttemptInv, AttemptOK, AnswerOK

\* A put that comes too late does so for ever.
LEMMA SpentStays ==
    ASSUME TypeOK, CountInv, NEW n \in network, AcceptPut(n), Pending' \subseteq Pending,
           NEW m \in Pending, Spent(m)
    PROVE  Spent(m)'
<1>1. /\ item.count \in Nat /\ item'.count \in Nat
      /\ item'.count \in {item.count, item.count + 1}
  BY AcceptPutCount
<1>2. m.condition \in Nat
  BY WithinLedger
<1> QED
  BY <1>1, <1>2 DEF Spent

\* A step of the others, or one that ends the sender without an answer.
LEMMA AttemptStays ==
    ASSUME NEW m, AttemptOK(m), UNCHANGED <<item, answer>>,
           \/ pc'[m.from] \notin {"get", "put"}
           \/ pc'[m.from] = pc[m.from] /\ request'[m.from] = request[m.from]
    PROVE  AttemptOK(m)'
BY DEF AttemptOK, Spent, CountsVisit

\* What GoTo changes.
LEMMA GoToOne ==
    ASSUME TypeOK, NEW i \in Invocations, NEW p, GoTo(i, p)
    PROVE  /\ pc'[i] = p
           /\ \A j \in Invocations \ {i} : pc'[j] = pc[j] /\ request'[j] = request[j]
BY DEF GoTo, TypeOK

LEMMA EndsAttempt ==
    ASSUME TypeOK, CountInv, AttemptInv, NEW i \in Invocations, pc[i] # "done",
           NEW p \in {"failed", "panicked"}, GoTo(i, p), UNCHANGED <<network, item, answer>>
    PROVE  AttemptInv'
<1>1. Pending' \subseteq Pending
  BY GoToPending DEF PCs
<1>2. ASSUME NEW j \in Invocations PROVE AnswerOK(j)'
  BY GoToOne, AttemptParts DEF AnswerOK
<1>3. ASSUME NEW m \in Pending' PROVE AttemptOK(m)'
  <2>1. m \in Pending /\ m.from \in Invocations /\ AttemptOK(m)
    BY <1>1, <1>3, WithinLedger, AttemptParts
  <2> QED
    BY <2>1, GoToOne, AttemptStays
<1> QED
  BY <1>2, <1>3, AttemptPartsNext

LEMMA BeginsAttempt ==
    ASSUME TypeOK, CountInv, TimeInv, AttemptInv, NEW i \in Invocations,
           Identify(i) \/ Call(i)
    PROVE  AttemptInv'
<1>1. /\ ~Called(i) /\ pc'[i] # "put"
      /\ \A j \in Invocations \ {i} : pc'[j] = pc[j]
      /\ UNCHANGED <<network, item, request, answer>>
  BY DEF Identify, Call, Called, TypeOK, table
<1>2. Pending' \subseteq Pending
  BY <1>1, SamePending
<1>3. ASSUME NEW j \in Invocations PROVE AnswerOK(j)'
  BY <1>1, AttemptParts DEF AnswerOK, Called
<1>4. ASSUME NEW m \in Pending' PROVE AttemptOK(m)'
  <2>1. m \in Pending /\ m.from \in Invocations /\ AttemptOK(m)
    BY <1>2, <1>4, WithinLedger, AttemptParts
  <2>2. m.from # i
    BY <1>1, <2>1 DEF TimeInv
  <2> QED
    BY <1>1, <2>1, <2>2, AttemptStays
<1> QED
  BY <1>3, <1>4, AttemptPartsNext

LEMMA SendsAttempt ==
    ASSUME TypeOK, CountInv, AttemptInv,
           NEW i \in Invocations, NEW condition, NEW put, SendPut(i, condition, put)
    PROVE  AttemptInv'
<1>1. PICK sent : sent = [from |-> i, attempt |-> attempt[i], send |-> 1,
                          condition |-> condition, put |-> put]
  OBVIOUS
<1>2. /\ pc[i] = "get" /\ pc' = [pc EXCEPT ![i] = "put"]
      /\ request' = [request EXCEPT ![i] = sent]
      /\ network' = network \cup {sent}
      /\ UNCHANGED <<item, answer>>
      /\ sent.from = i /\ sent.condition = condition /\ sent.put = put
  BY <1>1 DEF SendPut, table
<1>3. /\ pc'[i] = "put" /\ request'[i] = sent
      /\ \A j \in Invocations \ {i} : pc'[j] = pc[j] /\ request'[j] = request[j]
  BY <1>2 DEF TypeOK
<1>4. Pending' \subseteq Pending \cup {sent}
  BY <1>2, <1>3, SentPending
<1>5. ASSUME NEW j \in Invocations PROVE AnswerOK(j)'
  BY <1>2, <1>3, AttemptParts DEF AnswerOK
<1>6. answer[i] = 0
  BY <1>2, AttemptParts DEF AnswerOK
<1>7. AttemptOK(sent)'
  BY <1>2, <1>3, <1>6 DEF AttemptOK
<1>8. ASSUME NEW m \in Pending PROVE AttemptOK(m)'
  <2>1. m.from \in Invocations /\ AttemptOK(m)
    BY WithinLedger, AttemptParts
  <2>2. CASE m.from = i
    BY <1>2, <2>1, <2>2 DEF AttemptOK, Spent, CountsVisit
  <2>3. CASE m.from # i
    BY <1>2, <1>3, <2>1, <2>3, AttemptStays
  <2> QED
    BY <2>2, <2>3
<1> QED
  BY <1>4, <1>5, <1>7, <1>8, AttemptPartsNext

LEMMA ResendsAttempt ==
    ASSUME TypeOK, CountInv, AttemptInv, NEW i \in Invocations, ResendPut(i)
    PROVE  AttemptInv'
<1>1. PICK r \in PutRequest \cap Pending : r = request[i]
  BY PendingType DEF ResendPut, Pending, Awaited
<1>2. PICK again : again = [r EXCEPT !.send = @ + 1]
  OBVIOUS
<1>3. again.from = r.from /\ again.condition = r.condition /\ again.put = r.put
  BY <1>1, <1>2 DEF PutRequest
<1>4. /\ pc[i] = "put" /\ UNCHANGED <<pc, item, answer>>
      /\ request' = [request EXCEPT ![i] = again] /\ network' = network \cup {again}
  BY <1>1, <1>2 DEF ResendPut, table
<1>5. /\ request'[i] = again
      /\ \A j \in Invocations \ {i} : request'[j] = request[j]
  BY <1>4 DEF TypeOK
<1>6. Pending' \subseteq Pending \cup {again}
  BY <1>4, SentPending
<1>7. ASSUME NEW j \in Invocations PROVE AnswerOK(j)'
  BY <1>4, AttemptParts DEF AnswerOK
<1>8. ASSUME NEW m \in Pending PROVE AttemptOK(m)'
  <2>1. m.from \in Invocations /\ AttemptOK(m)
    BY WithinLedger, AttemptParts
  <2>2. CASE m.from = i
    BY <1>1, <1>3, <1>4, <1>5, <2>1, <2>2 DEF AttemptOK, Spent, CountsVisit
  <2>3. CASE m.from # i
    BY <1>4, <1>5, <2>1, <2>3, AttemptStays
  <2> QED
    BY <2>2, <2>3
<1>9. AttemptOK(again)'
  BY <1>1, <1>3, <1>8 DEF AttemptOK, Spent, CountsVisit
<1> QED
  BY <1>6, <1>7, <1>8, <1>9, AttemptPartsNext

LEMMA FailsAttempt ==
    ASSUME TypeOK, CountInv, AttemptInv, NEW i \in Invocations, PutConflicts(i)
    PROVE  AttemptInv'
<1>1. PICK p \in {"get", "failed"} : GoTo(i, p)
  BY DEF PutConflicts
<1>2. /\ pc[i] = "put" /\ request[i] \in network /\ RejectPut(request[i])
      /\ network' \subseteq network /\ UNCHANGED <<item, answer>>
  BY DEF PutConflicts, RejectPut, table
<1>3. Pending' \subseteq Pending
  BY <1>1, <1>2, GoToPending DEF PCs
<1>4. Spent(request[i])
  <2>1. request[i] \in Pending
    BY <1>2 DEF Pending
  <2>2. request[i].condition \in Nat /\ request[i].condition <= item.count
    BY <2>1, WithinLedger
  <2>3. item.count # request[i].condition
    BY <1>2, <2>2, ConditionIsCount DEF RejectPut, CountInv
  <2>4. item.count \in Nat
    BY DEF TypeOK, CountEntry
  <2> QED
    BY <2>2, <2>3, <2>4 DEF Spent
<1>5. ASSUME NEW j \in Invocations PROVE AnswerOK(j)'
  BY <1>1, <1>2, GoToOne, AttemptParts DEF AnswerOK
<1>6. ASSUME NEW m \in Pending PROVE AttemptOK(m)'
  <2>1. m.from \in Invocations /\ AttemptOK(m)
    BY WithinLedger, AttemptParts
  <2>2. CASE m.from = i
    <3>1. Spent(m)
      BY <1>2, <1>4, <2>1, <2>2 DEF AttemptOK, Spent
    <3>2. Spent(m)'
      BY <1>2, <3>1 DEF Spent
    <3> QED
      BY <3>2 DEF AttemptOK
  <2>3. CASE m.from # i
    BY <1>1, <1>2, <2>1, <2>3, GoToOne, AttemptStays
  <2> QED
    BY <2>2, <2>3
<1> QED
  BY <1>3, <1>5, <1>6, AttemptPartsNext

LEMMA SucceedsAttempt ==
    ASSUME TypeOK, CountInv, AttemptInv, NEW i \in Invocations, PutSucceeds(i)
    PROVE  AttemptInv'
<1>1. /\ pc[i] = "put" /\ request[i] \in network /\ AcceptPut(request[i])
      /\ GoTo(i, "done") /\ network' \subseteq network
  BY DEF PutSucceeds, AcceptPut
<1>2. Pending' \subseteq Pending
  BY <1>1, GoToPending DEF PCs
<1>3. \A j \in Invocations \ {i} : answer'[j] = answer[j]
  BY DEF PutSucceeds, TypeOK
<1>4. ASSUME NEW j \in Invocations PROVE AnswerOK(j)'
  BY <1>1, <1>3, GoToOne, AttemptParts DEF AnswerOK
<1>5. /\ item.count = request[i].condition /\ item'.count = request[i].put.count
      /\ item.count \in Nat /\ item'.count \in {item.count, item.count + 1}
  BY <1>1, <1>2, AcceptPutCount
<1>6. ASSUME NEW m \in Pending PROVE AttemptOK(m)'
  <2>1. m.from \in Invocations /\ AttemptOK(m)
    BY WithinLedger, AttemptParts
  <2>2. Spent(m) => Spent(m)'
    BY <1>1, <1>2, SpentStays
  <2>3. CASE m.from = i
    <3>1. CountsVisit(m) => Spent(m)'
      <4>1. CASE Spent(m)
        BY <2>2, <4>1
      <4>2. CASE m.condition = request[i].condition /\ m.put = request[i].put
        BY <1>5, <4>2 DEF CountsVisit, Spent
      <4> QED
        BY <1>1, <2>1, <2>3, <4>1, <4>2 DEF AttemptOK
    <3>2. pc'[i] = "done"
      BY <1>1, GoToOne
    <3> QED
      BY <2>3, <3>1, <3>2 DEF AttemptOK, CountsVisit
  <2>4. CASE m.from # i
    <3>1. /\ pc'[m.from] = pc[m.from] /\ request'[m.from] = request[m.from]
          /\ answer'[m.from] = answer[m.from]
      BY <1>1, <1>3, <2>1, <2>4, GoToOne
    <3> QED
      BY <2>1, <2>2, <3>1 DEF AttemptOK, CountsVisit
  <2> QED
    BY <2>3, <2>4
<1> QED
  BY <1>2, <1>4, <1>6, AttemptPartsNext

LEMMA UnheardAttempt ==
    ASSUME TypeOK, CountInv, AttemptInv, AcceptUnheard
    PROVE  AttemptInv'
<1>1. PICK n \in network : AcceptPut(n)
  BY DEF AcceptUnheard
<1>2. UNCHANGED <<pc, request, answer>> /\ network' \subseteq network
  BY <1>1 DEF AcceptUnheard, AcceptPut, client
<1>3. Pending' \subseteq Pending
  BY <1>2, SamePending
<1>4. ASSUME NEW j \in Invocations PROVE AnswerOK(j)'
  BY <1>2, AttemptParts DEF AnswerOK
<1>5. ASSUME NEW m \in Pending PROVE AttemptOK(m)'
  <2>1. AttemptOK(m)
    BY AttemptParts
  <2>2. Spent(m) => Spent(m)'
    BY <1>1, <1>3, SpentStays
  <2> QED
    BY <1>2, <2>1, <2>2 DEF AttemptOK, CountsVisit
<1> QED
  BY <1>3, <1>4, <1>5, AttemptPartsNext

LEMMA NextAttempt ==
    ASSUME TypeOK, CountInv, TimeInv, AttemptInv, [Next]_vars
    PROVE  AttemptInv'
<1>1. ASSUME NEW i \in Invocations, Identify(i) \/ Call(i) PROVE AttemptInv'
  BY <1>1, BeginsAttempt
<1>2. ASSUME NEW i \in Invocations, GetFails(i) PROVE AttemptInv'
  BY <1>2, EndsAttempt DEF GetFails, table
<1>3. ASSUME NEW i \in Invocations, GetPanics(i) PROVE AttemptInv'
  BY <1>3, EndsAttempt DEF GetPanics, table
<1>4. ASSUME NEW i \in Invocations, PutFails(i) PROVE AttemptInv'
  BY <1>4, EndsAttempt DEF PutFails, table
<1>5. ASSUME NEW i \in Invocations, Kill(i) PROVE AttemptInv'
  BY <1>5, EndsAttempt DEF Kill, Alive, table
<1>6. ASSUME NEW i \in Invocations, GetNothing(i) \/ GetSome(i) PROVE AttemptInv'
  BY <1>6, SendsAttempt DEF GetNothing, GetSome
<1>7. ASSUME NEW i \in Invocations, ResendPut(i) PROVE AttemptInv'
  BY <1>7, ResendsAttempt
<1>8. ASSUME NEW i \in Invocations, PutConflicts(i) PROVE AttemptInv'
  BY <1>8, FailsAttempt
<1>9. ASSUME NEW i \in Invocations, PutSucceeds(i) PROVE AttemptInv'
  BY <1>9, SucceedsAttempt
<1>10. CASE AcceptUnheard
  BY <1>10, UnheardAttempt
<1>11. CASE UNCHANGED <<network, item, client>>
  BY <1>11 DEF AttemptInv, Pending, Awaited, Spent, CountsVisit, client
<1> QED
  BY <1>1, <1>2, <1>3, <1>4, <1>5, <1>6, <1>7, <1>8, <1>9, <1>10, <1>11
     DEF Next, Proceed, Tick, vars, table

-----------------------------------------------------------------------------
(* Tags *)

\* The tags in an entry's list.
TagsIn(entry) == {v.tag : v \in entry.recent_visitors}

\* The loop body takes no tag from elsewhere, and keeps the count only for a
\* visitor that is in the list.
LEMMA UpdatedTags ==
    ASSUME NEW entry, NEW visitor, NEW t, entry.count \in Nat,
           NEW updated \in UpdatedEntries(entry, visitor, t)
    PROVE  /\ \A u \in updated.recent_visitors :
                 \/ u.tag \in TagsIn(entry)
                 \/ updated.count # entry.count /\ u.tag = visitor.tag
           /\ updated.count = entry.count => visitor.tag \in TagsIn(entry)
<1> USE DEF TagsIn
<1> DEFINE recorded == RecordVisit(entry, visitor, t)
           recent == FindRecent(entry.recent_visitors, visitor, t)
<1>1. PICK kept \in PruneVisitors(recorded.recent_visitors, t, MAX_RECENT_VISITORS) :
         updated = [count |-> recorded.count, recent_visitors |-> kept]
  BY DEF UpdatedEntries
<1>2. kept \subseteq recorded.recent_visitors
  BY DEF PruneVisitors
<1>3. updated.count = recorded.count /\ updated.recent_visitors = kept
  BY <1>1
<1>4. CASE recent # {}
  <2>1. PICK w \in recent : TRUE
    BY <1>4
  <2>2. w \in entry.recent_visitors /\ w.tag = visitor.tag
    BY DEF FindRecent
  <2>3. /\ recorded.count = entry.count
        /\ recorded.recent_visitors \subseteq
              entry.recent_visitors \cup {[tag |-> visitor.tag, last_seen |-> t]}
    BY <1>4 DEF RecordVisit
  <2> HIDE DEF recorded
  <2> QED
    BY <1>2, <1>3, <2>2, <2>3
<1>5. CASE recent = {}
  <2>1. /\ recorded.count = entry.count + 1
        /\ recorded.recent_visitors = entry.recent_visitors \cup {visitor}
    BY <1>5 DEF RecordVisit
  <2> HIDE DEF recorded
  <2> QED
    BY <1>2, <1>3, <2>1
<1> QED
  BY <1>4, <1>5

\* What TagInv says of one put.
TagsOK(m) ==
    /\ \A e \in m.put.recent_visitors :
          e.tag \in CountedTags \/ (CountsVisit(m) /\ e.tag = TagOf[m.from])
    /\ CountsVisit(m) \/ TagOf[m.from] \in CountedTags

\* The conversions keep the tags.
LEMMA ConvertedTags ==
    ASSUME NEW entry
    PROVE  /\ StoredEntry(entry).count = entry.count
           /\ LoadedEntry(entry).count = entry.count
           /\ TagsIn(LoadedEntry(entry)) = TagsIn(entry)
           /\ TagsIn(StoredEntry(entry)) = TagsIn(entry)
<1>1. \A v : FromStored(v).tag = v.tag /\ ToStored(v).tag = v.tag
  BY DEF FromStored, ToStored
<1> QED
  BY <1>1 DEF StoredEntry, LoadedEntry, TagsIn

LEMMA GetSomeTags ==
    ASSUME TypeOK, CountInv, TagInv, NEW i \in Invocations,
           NEW stored \in Readable \ {NoItem},
           NEW updated \in UpdatedEntries(LoadedEntry(stored), VisitorOf(i), now[i]),
           NEW m, m.from = i, m.condition = stored.count, m.put = StoredEntry(updated)
    PROVE  TagsOK(m)
<1>1. PICK entry : entry = LoadedEntry(stored)
  OBVIOUS
<1>2. entry.count = stored.count /\ stored.count \in Nat
  BY <1>1, GetSomeCount
<1>3. TagsIn(entry) = TagsIn(stored) /\ TagsIn(m.put) = TagsIn(updated)
  BY <1>1, ConvertedTags
<1>4. VisitorOf(i).tag = TagOf[i]
  BY DEF VisitorOf
<1>5. /\ \A u \in updated.recent_visitors :
            \/ u.tag \in TagsIn(entry)
            \/ updated.count # entry.count /\ u.tag = VisitorOf(i).tag
      /\ updated.count = entry.count => VisitorOf(i).tag \in TagsIn(entry)
  BY <1>1, <1>2, UpdatedTags
<1>6. TagsIn(stored) \subseteq CountedTags
  BY DEF TagInv, TagsIn
<1>7. CountsVisit(m) <=> updated.count # stored.count
  BY ConvertedTags DEF CountsVisit
<1>8. ASSUME NEW e \in m.put.recent_visitors
      PROVE  e.tag \in CountedTags \/ (CountsVisit(m) /\ e.tag = TagOf[i])
  <2>1. PICK u \in updated.recent_visitors : u.tag = e.tag
    BY <1>3 DEF TagsIn
  <2> QED
    BY <1>2, <1>3, <1>4, <1>5, <1>6, <1>7, <2>1
<1>9. CountsVisit(m) \/ TagOf[i] \in CountedTags
  BY <1>2, <1>3, <1>4, <1>5, <1>6, <1>7
<1> QED
  BY <1>8, <1>9 DEF TagsOK

LEMMA GetNothingTags ==
    ASSUME NEW i \in Invocations, NEW m, m.from = i, m.condition = AttributeNotExists,
           m.put = [count |-> 1, recent_visitors |-> {ToStored(VisitorOf(i))}]
    PROVE  TagsOK(m)
<1>1. ToStored(VisitorOf(i)).tag = TagOf[i]
  BY DEF ToStored, VisitorOf
<1>2. m.put.count = 1 /\ m.put.recent_visitors = {ToStored(VisitorOf(i))}
  OBVIOUS
<1>3. CountsVisit(m)
  BY <1>2 DEF CountsVisit, AttributeNotExists
<1> QED
  BY <1>1, <1>2, <1>3 DEF TagsOK

\* A sent put that has good tags keeps the tags.
LEMMA SentTags ==
    ASSUME TypeOK, TagInv, NEW i \in Invocations, NEW condition, NEW put,
           SendPut(i, condition, put),
           ASSUME NEW m, m.from = i, m.condition = condition, m.put = put PROVE TagsOK(m)
    PROVE  TagInv'
<1>1. /\ UNCHANGED <<item, stale, ledger>>
      /\ \A m \in Pending' :
            m \in Pending \/ (m.from = i /\ m.condition = condition /\ m.put = put)
  BY SendPutPending
<1>2. ASSUME NEW m \in Pending' PROVE TagsOK(m)
  BY <1>1, <1>2 DEF TagInv, TagsOK
<1>3. CountedTags' = CountedTags /\ Readable' = Readable
  BY <1>1 DEF CountedTags, Readable
<1> QED
  BY <1>2, <1>3 DEF TagInv, TagsOK, CountsVisit

LEMMA AcceptTags ==
    ASSUME TypeOK, TagInv, Accepts
    PROVE  TagInv'
<1>1. PICK m \in network : AcceptPut(m)
  BY DEF Accepts
<1>2. m \in Pending /\ Pending' \subseteq Pending
  BY DEF Accepts, Pending
<1>3. Readable' \subseteq Readable \cup {m.put}
  BY <1>1 DEF Readable, AcceptPut
<1>4. CountedTags \subseteq CountedTags'
  BY <1>1, AcceptPutLedger DEF CountedTags
<1>5. CountsVisit(m) => TagOf[m.from] \in CountedTags'
  <2> SUFFICES ASSUME CountsVisit(m) PROVE TagOf[m.from] \in CountedTags'
    OBVIOUS
  <2>1. ledger \in Seq(Invocations) /\ m.from \in Invocations
    BY DEF TypeOK, PutRequest
  <2>2. ledger' = Append(ledger, m.from)
    BY <1>1 DEF AcceptPut
  <2>3. Len(ledger) + 1 \in DOMAIN ledger' /\ ledger'[Len(ledger) + 1] = m.from
    BY <2>1, <2>2
  <2> QED
    BY <2>3 DEF CountedTags
<1>6. \A v \in Readable' : \A e \in v.recent_visitors : e.tag \in CountedTags'
  BY <1>2, <1>3, <1>4, <1>5 DEF TagInv
<1> QED
  BY <1>2, <1>4, <1>6 DEF TagInv, CountsVisit

LEMMA NextTags ==
    ASSUME TypeOK, CountInv, TagInv, [Next]_vars
    PROVE  TagInv'
<1>1. CASE Quiet
  <2>1. CountedTags' = CountedTags /\ Readable' = Readable
    BY <1>1 DEF Quiet, CountedTags, Readable
  <2> QED
    BY <1>1, <2>1 DEF Quiet, TagInv, CountsVisit
<1>2. CASE Accepts
  BY <1>2, AcceptTags
<1>3. ASSUME NEW i \in Invocations, GetNothing(i) PROVE TagInv'
  BY <1>3, GetNothingTags, SentTags DEF GetNothing
<1>4. ASSUME NEW i \in Invocations, GetSome(i) PROVE TagInv'
  <2>1. PICK stored \in Readable \ {NoItem} :
           \E updated \in UpdatedEntries(LoadedEntry(stored), VisitorOf(i), now[i]) :
              SendPut(i, LoadedEntry(stored).count, StoredEntry(updated))
    BY <1>4 DEF GetSome
  <2>2. PICK updated \in UpdatedEntries(LoadedEntry(stored), VisitorOf(i), now[i]) :
           SendPut(i, LoadedEntry(stored).count, StoredEntry(updated))
    BY <2>1
  <2>3. LoadedEntry(stored).count = stored.count
    BY ConvertedTags
  <2>4. ASSUME NEW m, m.from = i, m.condition = stored.count,
               m.put = StoredEntry(updated)
        PROVE  TagsOK(m)
    BY <2>4, GetSomeTags
  <2>5. SendPut(i, stored.count, StoredEntry(updated))
    BY <2>2, <2>3
  <2> QED
    BY <2>4, <2>5, SentTags
<1> QED
  BY <1>1, <1>2, <1>3, <1>4, Steps

-----------------------------------------------------------------------------
(* Times *)

LEMMA NextSettled ==
    ASSUME TypeOK, TimeInv, SettledInv, [Next]_vars
    PROVE  SettledInv'
<1> DEFINE Kept == \A j \in Invocations :
              /\ pc'[j] = "idle" => now'[j] = 0
              /\ now'[j] <= seen'[j] + LAMBDA_TIMEOUT * TICKS_PER_SEC
<1>1. LAMBDA_TIMEOUT * TICKS_PER_SEC \in Nat
  BY TimeoutAssumption, TimesNat
<1>2. \A j \in Invocations : /\ pc[j] = "idle" => now[j] = 0
                             /\ now[j] <= seen[j] + LAMBDA_TIMEOUT * TICKS_PER_SEC
  BY DEF SettledInv
<1>3. ASSUME NEW i \in Invocations, Identify(i) PROVE Kept
  BY <1>1, <1>2, <1>3 DEF Identify, TypeOK
<1>4. ASSUME NEW i \in Invocations, Call(i) PROVE Kept
  <2>1. clock <= seen[i] + LAMBDA_TIMEOUT * TICKS_PER_SEC
    BY <1>4 DEF Call, TimeInv, Alive
  <2> QED
    BY <1>2, <1>4, <2>1 DEF Call, TypeOK
<1>5. ASSUME UNCHANGED <<seen, now>>,
             \A j \in Invocations : pc'[j] = "idle" => pc[j] = "idle"
      PROVE  Kept
  BY <1>2, <1>5
<1> HIDE DEF Kept
<1>6. ASSUME NEW i \in Invocations,
             GetFails(i) \/ GetPanics(i) \/ PutFails(i) \/ Kill(i) \/ PutSucceeds(i)
      PROVE  Kept
  BY <1>5, <1>6, GoToOne DEF GetFails, GetPanics, PutFails, Kill, PutSucceeds
<1>7. ASSUME NEW i \in Invocations, PutConflicts(i) PROVE Kept
  <2>1. PICK p \in {"get", "failed"} : GoTo(i, p)
    BY <1>7 DEF PutConflicts
  <2> QED
    BY <1>5, <1>7, <2>1, GoToOne DEF PutConflicts
<1>8. ASSUME NEW i \in Invocations, GetNothing(i) \/ GetSome(i) PROVE Kept
  BY <1>5, <1>8 DEF GetNothing, GetSome, SendPut, TypeOK
<1>9. ASSUME NEW i \in Invocations, ResendPut(i) PROVE Kept
  BY <1>5, <1>9 DEF ResendPut
<1>10. ASSUME UNCHANGED client PROVE Kept
  BY <1>5, <1>10 DEF client
<1>11. Kept
  BY <1>3, <1>4, <1>6, <1>7, <1>8, <1>9, <1>10
     DEF Next, Proceed, AcceptUnheard, Tick, vars
<1> QED
  BY <1>11 DEF Kept, SettledInv

LEMMA NextOwn ==
    ASSUME TypeOK, OwnInv, [Next]_vars
    PROVE  OwnInv'
<1>1. ASSUME NEW i \in Invocations, NEW m, m.from = i,
             request' = [request EXCEPT ![i] = m]
      PROVE  OwnInv'
  BY <1>1 DEF OwnInv, TypeOK
<1>2. ASSUME NEW i \in Invocations, NEW p, GoTo(i, p) PROVE OwnInv'
  BY <1>1, <1>2 DEF GoTo, NoRequest
<1>3. ASSUME UNCHANGED request PROVE OwnInv'
  BY <1>3 DEF OwnInv
<1>4. ASSUME NEW i \in Invocations, NEW condition, NEW put, SendPut(i, condition, put)
      PROVE  OwnInv'
  BY <1>1, <1>4 DEF SendPut
<1>5. ASSUME NEW i \in Invocations, ResendPut(i) PROVE OwnInv'
  <2>1. request[i] \in PutRequest /\ request[i].from = i
    BY DEF OwnInv, TypeOK
  <2>2. [request[i] EXCEPT !.send = @ + 1].from = i
    BY <2>1 DEF PutRequest
  <2> QED
    BY <1>1, <1>5, <2>2 DEF ResendPut
<1>6. ASSUME NEW i \in Invocations, Identify(i) \/ Call(i) PROVE OwnInv'
  BY <1>3, <1>6 DEF Identify, Call
<1>7. ASSUME NEW i \in Invocations,
             \/ GetFails(i) \/ GetPanics(i) \/ PutFails(i) \/ Kill(i)
             \/ PutSucceeds(i) \/ PutConflicts(i)
      PROVE  OwnInv'
  BY <1>2, <1>7 DEF GetFails, GetPanics, PutFails, Kill, PutSucceeds, PutConflicts
<1>8. ASSUME NEW i \in Invocations, GetNothing(i) \/ GetSome(i) PROVE OwnInv'
  BY <1>4, <1>8 DEF GetNothing, GetSome
<1>9. ASSUME UNCHANGED client PROVE OwnInv'
  BY <1>3, <1>9 DEF client
<1> QED
  BY <1>5, <1>6, <1>7, <1>8, <1>9 DEF Next, Proceed, AcceptUnheard, Tick, vars

-----------------------------------------------------------------------------
(* The implementation *)

\* An invocation whose visit was counted does not count it again: its own time is
\* too short for its entry to expire.
LEMMA CountedOnce ==
    ASSUME NoRush, 2 * LAMBDA_TIMEOUT < RECENT_CUTOFF,
           TypeOK, CountInv, TimeInv, MemoryInv, SettledInv,
           NEW m \in Pending, CountsVisit(m), m.condition = item.count
    PROVE  \A k \in DOMAIN ledger : ledger[k] # m.from
<1> SUFFICES ASSUME NEW k \in DOMAIN ledger, ledger[k] = m.from PROVE FALSE
  OBVIOUS
<1>1. PICK i \in Invocations : i = m.from
  BY WithinLedger
<1>2. k <= m.condition
  <2>1. ledger \in Seq(Invocations)
    BY DEF TypeOK
  <2>2. DOMAIN ledger = 1 .. Len(ledger) /\ Len(ledger) \in Nat
    BY <2>1
  <2>3. m.condition = Len(ledger)
    BY WithinLedger
  <2> QED
    BY <2>2, <2>3
<1>3. Apart(i, i)
  BY <1>1, <1>2 DEF MemoryInv, PutsApart, ApartUpTo
<1>4. PICK s \in Nat : s = seen[i] \div TICKS_PER_SEC
  BY DivNat DEF TypeOK
<1>5. now[i] >= (s + RECENT_CUTOFF - LAMBDA_TIMEOUT) * TICKS_PER_SEC
  <2>1. Called(i)
    BY <1>1 DEF TimeInv
  <2>2. ~Crowded(i, Deadline(i))
    BY <2>1 DEF NoRush
  <2> QED
    BY <1>3, <1>4, <2>2 DEF Apart
<1>6. now[i] <= seen[i] + LAMBDA_TIMEOUT * TICKS_PER_SEC
  BY DEF SettledInv
<1>7. now[i] \in Nat /\ seen[i] \in Nat
  BY DEF TypeOK
<1>8. seen[i] < (s + 1) * TICKS_PER_SEC
  BY <1>4, <1>7, TicksAssumption, SMT
<1>9. (s + 1) * TICKS_PER_SEC + LAMBDA_TIMEOUT * TICKS_PER_SEC
        <= (s + RECENT_CUTOFF - LAMBDA_TIMEOUT) * TICKS_PER_SEC
  <2>1. s + 1 + LAMBDA_TIMEOUT <= s + RECENT_CUTOFF - LAMBDA_TIMEOUT
    BY TimeoutAssumption, CutoffAssumption
  <2>2. (s + 1 + LAMBDA_TIMEOUT) * TICKS_PER_SEC
          <= (s + RECENT_CUTOFF - LAMBDA_TIMEOUT) * TICKS_PER_SEC
    BY <2>1, TimeoutAssumption, CutoffAssumption, TicksGrow
  <2>3. (s + 1 + LAMBDA_TIMEOUT) * TICKS_PER_SEC
          = (s + 1) * TICKS_PER_SEC + LAMBDA_TIMEOUT * TICKS_PER_SEC
    BY TimeoutAssumption, TicksAssumption, SMT
  <2> QED
    BY <2>2, <2>3
<1>10. /\ LAMBDA_TIMEOUT * TICKS_PER_SEC \in Nat /\ (s + 1) * TICKS_PER_SEC \in Nat
       /\ (s + RECENT_CUTOFF - LAMBDA_TIMEOUT) * TICKS_PER_SEC \in Int
  BY TimeoutAssumption, CutoffAssumption, TicksAssumption, SMT
<1> QED
  BY <1>5, <1>6, <1>7, <1>8, <1>9, <1>10

\* What an accepted put adds to the ledger.
LEMMA AcceptCounts ==
    ASSUME NoRush, 2 * LAMBDA_TIMEOUT < RECENT_CUTOFF,
           TypeOK, CountInv, TimeInv, MemoryInv, SettledInv,
           NEW m \in network, AcceptPut(m), Pending' \subseteq Pending, CountsVisit(m)
    PROVE  /\ m.from \in Invocations
           /\ m.from \notin Counter!Counted
           /\ ledger' = Append(ledger, m.from)
           /\ Len(ledger') = m.put.count
           /\ m \in Pending /\ m.condition = item.count
<1>1. m \in Pending
  BY DEF Pending
<1>2. item.count = m.condition /\ item'.count = m.put.count /\ item'.count = Len(ledger')
  BY AcceptPutCount
<1>3. m.from \in Invocations
  BY <1>1, WithinLedger
<1>4. m.from \notin Counter!Counted
  BY <1>1, <1>2, CountedOnce DEF Counter!Counted
<1>5. ledger' = Append(ledger, m.from)
  BY DEF AcceptPut
<1> QED
  BY <1>1, <1>2, <1>3, <1>4, <1>5

\* A put that is heard of is counted and answered, or answered for another one.
LEMMA HeardRefines ==
    ASSUME NoRush, 2 * LAMBDA_TIMEOUT < RECENT_CUTOFF,
           TypeOK, CountInv, TimeInv, MemoryInv, RefinementInv,
           NEW i \in Invocations, PutSucceeds(i)
    PROVE  Counter!Next
<1>1. /\ pc[i] = "put" /\ request[i] \in network /\ AcceptPut(request[i])
      /\ GoTo(i, "done") /\ network' \subseteq network
      /\ answer' = [answer EXCEPT ![i] = request[i].put.count]
  BY DEF PutSucceeds, AcceptPut
<1>2. Pending' \subseteq Pending
  BY <1>1, GoToPending DEF PCs
<1>3. request[i].from = i /\ request[i] \in Pending
  BY <1>1 DEF RefinementInv, OwnInv, Pending
<1>4. answer[i] = 0
  BY <1>1 DEF RefinementInv, AttemptInv
<1>5. CASE CountsVisit(request[i])
  <2>1. /\ i \notin Counter!Counted /\ ledger' = Append(ledger, i)
        /\ Len(ledger') = request[i].put.count
    BY <1>1, <1>2, <1>3, <1>5, AcceptCounts DEF RefinementInv
  <2>2. Counter!Count(i)
    BY <1>1, <1>4, <2>1 DEF Counter!Count
  <2> QED
    BY <2>2 DEF Counter!Next
<1>6. CASE ~CountsVisit(request[i])
  <2>1. ledger' = ledger
    BY <1>1, <1>6 DEF AcceptPut
  <2>2. TagOf[i] \in CountedTags
    BY <1>3, <1>6 DEF RefinementInv, TagInv
  <2>3. \E j \in Counter!Counted : TagOf[j] = TagOf[i]
    BY <2>2 DEF CountedTags, Counter!Counted
  <2>4. request[i].put.count = Len(ledger)
    <3>1. request[i].put.count = item'.count /\ item'.count = Len(ledger')
      BY <1>1, <1>2, AcceptPutCount
    <3> QED
      BY <2>1, <3>1
  <2>5. Counter!Answer(i)
    BY <1>1, <1>4, <2>1, <2>3, <2>4 DEF Counter!Answer
  <2> QED
    BY <2>5 DEF Counter!Next
<1> QED
  BY <1>5, <1>6

\* A put that nobody hears of is counted without an answer, or changes nothing.
LEMMA UnheardRefines ==
    ASSUME NoRush, 2 * LAMBDA_TIMEOUT < RECENT_CUTOFF,
           TypeOK, CountInv, TimeInv, MemoryInv, RefinementInv, AcceptUnheard
    PROVE  Counter!Next \/ UNCHANGED <<ledger, answer>>
<1>1. PICK m \in network : AcceptPut(m)
  BY DEF AcceptUnheard
<1>2. UNCHANGED <<pc, request, answer>> /\ network' \subseteq network
  BY <1>1 DEF AcceptUnheard, AcceptPut, client
<1>3. Pending' \subseteq Pending
  BY <1>2, SamePending
<1>4. CASE ~CountsVisit(m)
  BY <1>1, <1>2, <1>4 DEF AcceptPut
<1>5. CASE CountsVisit(m)
  <2>1. /\ m.from \in Invocations /\ m.from \notin Counter!Counted
        /\ ledger' = Append(ledger, m.from)
        /\ m \in Pending /\ m.condition = item.count
    BY <1>1, <1>3, <1>5, AcceptCounts DEF RefinementInv
  <2>2. item.count \in Nat
    BY DEF TypeOK, CountEntry
  <2>3. ~Spent(m)
    BY <2>1, <2>2 DEF Spent
  <2>4. answer[m.from] = 0
    BY <1>5, <2>1, <2>3 DEF RefinementInv, AttemptInv
  <2>5. Counter!Count(m.from)
    BY <1>2, <2>1, <2>4 DEF Counter!Count
  <2> QED
    BY <2>1, <2>5 DEF Counter!Next
<1> QED
  BY <1>4, <1>5

LEMMA StepRefines ==
    ASSUME NoRush, 2 * LAMBDA_TIMEOUT < RECENT_CUTOFF,
           TypeOK, CountInv, TimeInv, MemoryInv, RefinementInv, [Next]_vars
    PROVE  [Counter!Next]_(Counter!vars)
<1>1. ASSUME NEW i \in Invocations,
             \/ Identify(i) \/ Call(i) \/ GetFails(i) \/ GetPanics(i)
             \/ ResendPut(i) \/ PutFails(i) \/ Kill(i)
      PROVE  UNCHANGED <<ledger, answer>>
  BY <1>1 DEF Identify, Call, GetFails, GetPanics, ResendPut, PutFails, Kill, table
<1>2. ASSUME NEW i \in Invocations, GetNothing(i) \/ GetSome(i)
      PROVE  UNCHANGED <<ledger, answer>>
  BY <1>2 DEF GetNothing, GetSome, SendPut, table
<1>3. ASSUME NEW i \in Invocations, PutConflicts(i) PROVE UNCHANGED <<ledger, answer>>
  BY <1>3 DEF PutConflicts, RejectPut, table
<1>4. ASSUME NEW i \in Invocations, PutSucceeds(i) PROVE Counter!Next
  BY <1>4, HeardRefines
<1>5. ASSUME AcceptUnheard PROVE Counter!Next \/ UNCHANGED <<ledger, answer>>
  BY <1>5, UnheardRefines
<1>6. ASSUME Tick \/ UNCHANGED vars PROVE UNCHANGED <<ledger, answer>>
  BY <1>6 DEF Tick, vars, table, client
<1>7. Counter!Next \/ UNCHANGED <<ledger, answer>>
  BY <1>1, <1>2, <1>3, <1>4, <1>5, <1>6 DEF Next, Proceed
<1> QED
  BY <1>7 DEF Counter!vars

LEMMA InitRefinement == Init => RefinementInv
<1> SUFFICES ASSUME Init PROVE RefinementInv
  OBVIOUS
<1>1. Pending = {} /\ Readable = {NoItem}
  BY DEF Init, Pending, Awaited, Readable
<1>2. LAMBDA_TIMEOUT * TICKS_PER_SEC \in Nat
  BY TimeoutAssumption, TimesNat
<1>3. AttemptInv
  BY <1>1 DEF Init, AttemptInv
<1>4. TagInv
  BY <1>1 DEF TagInv, NoItem
<1>5. SettledInv
  BY <1>2 DEF Init, SettledInv
<1>6. OwnInv
  BY DEF Init, OwnInv, NoRequest
<1> QED
  BY <1>3, <1>4, <1>5, <1>6 DEF RefinementInv

\* In every state, a put that is late or sent twice can no longer count its visit
\* after its sender started over or was answered, and whoever is answered without
\* being counted is of a visitor that was.
THEOREM RefinementInvariantCorrect == Spec => []RefinementInv
<1>1. Init => TypeOK /\ CountInv /\ TimeInv /\ RefinementInv
  BY InitType, InitCount, InitTime, InitRefinement
<1>2. TypeOK /\ CountInv /\ TimeInv /\ RefinementInv /\ [Next]_vars
         => (TypeOK /\ CountInv /\ TimeInv /\ RefinementInv)'
  BY NextType, NextCount, NextTime, NextAttempt, NextTags, NextSettled, NextOwn
     DEF RefinementInv
<1> QED
  BY <1>1, <1>2, PTL DEF Spec

\* The store implements VisitorCounter: whatever is read stale, sent twice, late,
\* lost or rejected, and whoever is killed, every invocation is counted at most
\* once and answered with the count of that moment, and only one whose visitor was
\* counted.  As many other visitors as the list holds must not come in the time of
\* one invocation, and an invocation must not run for half as long as a visit is
\* recent.
THEOREM ImplementsCorrect ==
    ASSUME 2 * LAMBDA_TIMEOUT < RECENT_CUTOFF
    PROVE  Spec /\ []NoRush => ImplementsCounter
<1>1. Init => Counter!Init
  BY DEF Init, Counter!Init
<1>2. NoRush /\ IInv /\ RefinementInv /\ [Next]_vars => [Counter!Next]_(Counter!vars)
  BY StepRefines DEF IInv
<1> QED
  BY <1>1, <1>2, InvariantCorrect, RefinementInvariantCorrect, PTL
     DEF Spec, ImplementsCounter, Counter!Spec

\* The list has room for every visitor.
RoomForAll == IsFiniteSet(Tags) /\ Cardinality(Tags) <= MAX_RECENT_VISITORS

\* Then no visitor is ever crowded out of it.
LEMMA NeverCrowded ==
    ASSUME RoomForAll, NEW i \in Invocations, NEW t
    PROVE  ~Crowded(i, t)
<1> SUFFICES ASSUME NEW others \in SUBSET (Tags \ {TagOf[i]}),
                    Cardinality(others) = MAX_RECENT_VISITORS
             PROVE  FALSE
  BY DEF Crowded
<1> DEFINE rest == Tags \ {TagOf[i]}
<1>1. TagOf[i] \in Tags
  BY TagOfAssumption
<1>2. IsFiniteSet(rest) /\ Cardinality(rest) = Cardinality(Tags) - 1
  BY <1>1, FS_RemoveElement DEF RoomForAll
<1>3. Cardinality(others) <= Cardinality(rest)
  BY <1>2, FS_Subset
<1>4. Cardinality(Tags) \in Nat
  BY FS_CardinalityType DEF RoomForAll
<1> QED
  BY <1>2, <1>3, <1>4, MaxRecentAssumption DEF RoomForAll

\* So it implements VisitorCounter in any case if the list has room for everybody.
THEOREM ImplementsWithRoom ==
    ASSUME RoomForAll, 2 * LAMBDA_TIMEOUT < RECENT_CUTOFF
    PROVE  Spec => ImplementsCounter
<1>1. TypeOK => NoRush
  BY NeverCrowded DEF NoRush
<1> QED
  BY <1>1, TypeCorrect, ImplementsCorrect, PTL
=============================================================================
