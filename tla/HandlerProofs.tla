---------------------------- MODULE HandlerProofs ----------------------------
(***************************************************************************)
(* Proofs about Handler, for all requests, names and settings.             *)
(***************************************************************************)
EXTENDS Handler, TLAPS

Name(r) == CountName(Event[r])
SameVisitor(r, s) == VisitorTag(Event[s]) = VisitorTag(Event[r])

\* What is known of a request at each of its stages.
StageInv ==
    \A r \in Requests :
        /\ pc[r] \in {"idle", "store"} => count[r] = 0 /\ response[r] = NoResponse
        /\ pc[r] = "render" => count[r] > 0 /\ response[r] = NoResponse
        /\ pc[r] = "failed" => response[r] = NoImage("error")
        /\ pc[r] \in {"store", "render", "failed"} => Admitted(Event[r])
        /\ pc[r] = "done" =>
              \/ ~Admitted(Event[r]) /\ response[r] = Refusal(Event[r])
              \/ /\ Admitted(Event[r])
                 /\ count[r] > 0
                 /\ response[r] = [status |-> "ok", name |-> Name(r), count |-> count[r]]
        /\ pc[r] # "idle" => allowed # {}

\* The requests in the ledger of a name were made for it and admitted.
LedgerInv ==
    \A n \in Names : \A k \in 1..Len(ledger[n]) :
        /\ Name(ledger[n][k]) = n
        /\ Admitted(Event[ledger[n][k]])
        /\ pc[ledger[n][k]] # "idle"

\* A count that the store returned covers a visit of the caller.
AnswerInv ==
    \A r \in Requests :
        count[r] > 0 =>
            /\ count[r] <= Len(ledger[Name(r)])
            /\ \E k \in 1..count[r] : SameVisitor(r, ledger[Name(r)][k])

\* What others had been told when a request came was in the ledger by then.
ToldInv ==
    \A r \in Requests : \A c \in told[r] :
        /\ c <= Len(ledger[Name(r)])
        /\ count[r] > 0 => c <= count[r]

HInv == TypeOK /\ StageInv /\ LedgerInv /\ AnswerInv /\ ToldInv

-----------------------------------------------------------------------------
(* Lemmas on requests *)

\* The name that a request asks for, or the default, is one of the names.
LEMMA NameIsName == ASSUME NEW r \in Requests PROVE Name(r) \in Names
<1>1. Event[r] \in Events
  BY EventAssumption
<1>2. Event[r].name \in Names \cup {Missing}
  BY <1>1 DEF Events
<1> QED BY <1>2, NamesAssumption DEF Name, CountName

\* A refusal is a response without an image, and none of them names a counter.
LEMMA RefusalType ==
    ASSUME NEW e
    PROVE  /\ Refusal(e) \in {NoImage("error"), NoImage("not_found")}
           /\ Refusal(e) \in Responses
           /\ NoResponse \in Responses
           /\ NoImage("error") \in Responses
BY DEF Refusal, Responses, NoImage, NoResponse

LEMMA NoImageNamesNone ==
    ASSUME NEW status
    PROVE  NoImage(status).name \notin Names /\ NoImage(status).status = status
BY NamesAssumption DEF NoImage

\* The requests counted under a name, as entries of its ledger.
LEMMA CountedEntries ==
    ASSUME TypeOK, NEW n \in Names
    PROVE  Counted(n) = {ledger[n][k] : k \in 1..Len(ledger[n])}
<1>1. ledger[n] \in Seq(Requests)
  BY DEF TypeOK
<1>2. DOMAIN ledger[n] = 1..Len(ledger[n])
  BY <1>1
<1> QED BY <1>2 DEF Counted

\* A request's admission depends on the configuration, which is read once.
LEMMA AdmittedNeedsConfig ==
    ASSUME NEW e, Admitted(e)
    PROVE  allowed # {}
BY DEF Admitted
-----------------------------------------------------------------------------
(* Lemmas on the ledgers *)

\* Ledgers grow at their end, each by the requests for its name.
Extends(r) ==
    /\ ledger' = [ledger EXCEPT ![Name(r)] = Append(@, r)]

LEMMA ExtendsLedger ==
    ASSUME TypeOK, NEW r \in Requests, Extends(r)
    PROVE  /\ ledger' \in [Names -> Seq(Requests)]
           /\ \A n \in Names \ {Name(r)} : ledger'[n] = ledger[n]
           /\ ledger'[Name(r)] = Append(ledger[Name(r)], r)
           /\ Len(ledger'[Name(r)]) = Len(ledger[Name(r)]) + 1
           /\ \A k \in 1..Len(ledger[Name(r)]) :
                 ledger'[Name(r)][k] = ledger[Name(r)][k]
           /\ ledger'[Name(r)][Len(ledger[Name(r)]) + 1] = r
<1>1. Name(r) \in Names
  BY NameIsName
<1>2. ledger \in [Names -> Seq(Requests)] /\ ledger[Name(r)] \in Seq(Requests)
  BY <1>1 DEF TypeOK
<1>3. Append(ledger[Name(r)], r) \in Seq(Requests)
  BY <1>2
<1>4. /\ ledger' \in [Names -> Seq(Requests)]
      /\ \A n \in Names \ {Name(r)} : ledger'[n] = ledger[n]
      /\ ledger'[Name(r)] = Append(ledger[Name(r)], r)
  BY <1>1, <1>2, <1>3 DEF Extends
<1> QED BY <1>2, <1>4

\* What a step does to the ledgers: nothing, or one request more.
LEMMA StepExtends ==
    ASSUME Next
    PROVE  UNCHANGED ledger \/ \E r \in Requests : Extends(r)
<1>1. ASSUME NEW r \in Requests, StoreCounts(r) \/ LateCount(r)
      PROVE  Extends(r)
  BY <1>1 DEF StoreCounts, LateCount, Extends, Name
<1>2. ASSUME NEW r \in Requests, Receive(r) \/ StoreKnows(r) \/ Fail(r) \/ Respond(r)
      PROVE  UNCHANGED ledger
  BY <1>2 DEF Receive, StoreKnows, Fail, Respond
<1>3. Start => UNCHANGED ledger
  BY DEF Start
<1> QED BY <1>1, <1>2, <1>3 DEF Next

\* An entry of a ledger stays where it is.
LEMMA EntriesStay ==
    ASSUME TypeOK, [Next]_vars
    PROVE  \A n \in Names :
              /\ Len(ledger[n]) \in Nat
              /\ Len(ledger'[n]) \in Nat
              /\ Len(ledger[n]) <= Len(ledger'[n])
              /\ \A k \in 1..Len(ledger[n]) :
                    ledger'[n][k] = ledger[n][k] /\ ledger[n][k] \in Requests
<1> SUFFICES ASSUME NEW n \in Names
             PROVE  /\ Len(ledger[n]) \in Nat
                    /\ Len(ledger'[n]) \in Nat
                    /\ Len(ledger[n]) <= Len(ledger'[n])
                    /\ \A k \in 1..Len(ledger[n]) :
                          ledger'[n][k] = ledger[n][k] /\ ledger[n][k] \in Requests
  OBVIOUS
<1>1. ledger[n] \in Seq(Requests) /\ Len(ledger[n]) \in Nat
  BY DEF TypeOK
<1>2. \A k \in 1..Len(ledger[n]) : ledger[n][k] \in Requests
  BY <1>1
<1>3. CASE UNCHANGED ledger
  BY <1>1, <1>2, <1>3
<1>4. ASSUME NEW r \in Requests, Extends(r), n # Name(r)
      PROVE  ledger'[n] = ledger[n]
  BY <1>4, ExtendsLedger
<1>5. ASSUME NEW r \in Requests, Extends(r), n = Name(r)
      PROVE  /\ Len(ledger'[n]) = Len(ledger[n]) + 1
             /\ \A k \in 1..Len(ledger[n]) : ledger'[n][k] = ledger[n][k]
  BY <1>5, ExtendsLedger
<1>6. CASE \E r \in Requests : Extends(r)
  BY <1>1, <1>2, <1>4, <1>5, <1>6
<1> QED BY <1>3, <1>6, StepExtends DEF vars
-----------------------------------------------------------------------------
(* Type correctness *)

LEMMA InitType == Init => TypeOK
<1> SUFFICES ASSUME Init PROVE TypeOK
  OBVIOUS
<1>1. NoResponse \in Responses
  BY RefusalType
<1>2. <<>> \in Seq(Requests)
  OBVIOUS
<1> QED BY <1>1, <1>2 DEF Init, TypeOK

LEMMA LedgerType ==
    ASSUME TypeOK, Next
    PROVE  ledger' \in [Names -> Seq(Requests)]
<1>1. CASE UNCHANGED ledger
  BY <1>1 DEF TypeOK
<1>2. CASE \E r \in Requests : Extends(r)
  BY <1>2, ExtendsLedger
<1> QED BY <1>1, <1>2, StepExtends

\* The counts of responses are natural numbers.
LEMMA ResponseCount ==
    ASSUME TypeOK, NEW r \in Requests
    PROVE  response[r].count \in Nat
<1>1. response[r] \in Responses
  BY DEF TypeOK
<1> QED BY <1>1 DEF Responses, NoImage

LEMMA StepType == TypeOK /\ StageInv /\ [Next]_vars => TypeOK'
<1> SUFFICES ASSUME TypeOK, StageInv, [Next]_vars PROVE TypeOK'
  OBVIOUS
<1> USE DEF TypeOK
<1>1. CASE Start
  <2>1. allowed' \subseteq Names
    BY <1>1, SettingsAssumption, NamesAssumption DEF Start
  <2> QED BY <1>1, <2>1 DEF Start
<1>2. ASSUME NEW r \in Requests, Receive(r) PROVE TypeOK'
  <2>1. told' \in [Requests -> SUBSET Nat]
    <3>1. {response[s].count : s \in {s \in Requests :
                response[s].name = CountName(Event[r])}} \in SUBSET Nat
      BY ResponseCount
    <3>2. CASE UNCHANGED told
      BY <3>2
    <3>3. CASE told' = [told EXCEPT ![r] = {response[s].count : s \in {s \in Requests :
                            response[s].name = CountName(Event[r])}}]
      BY <3>1, <3>3
    <3> QED BY <1>2, <3>2, <3>3 DEF Receive
  <2>2. Refusal(Event[r]) \in Responses
    BY RefusalType
  <2>3. pc' \in [Requests -> {"idle", "store", "render", "failed", "done"}]
    BY <1>2 DEF Receive
  <2>4. response' \in [Requests -> Responses]
    BY <1>2, <2>2 DEF Receive
  <2> QED BY <1>2, <2>1, <2>3, <2>4 DEF Receive
<1>3. ASSUME NEW r \in Requests, StoreCounts(r) PROVE TypeOK'
  <2>1. ledger' \in [Names -> Seq(Requests)]
    BY <1>3, LedgerType DEF Next
  <2>2. Len(ledger'[Name(r)]) \in Nat
    BY <2>1, NameIsName
  <2> QED BY <1>3, <2>1, <2>2 DEF StoreCounts, Name
<1>4. ASSUME NEW r \in Requests, StoreKnows(r) PROVE TypeOK'
  <2>1. Len(ledger[Name(r)]) \in Nat
    BY NameIsName
  <2> QED BY <1>4, <2>1 DEF StoreKnows, Name
<1>5. ASSUME NEW r \in Requests, LateCount(r) PROVE TypeOK'
  <2>1. ledger' \in [Names -> Seq(Requests)]
    BY <1>5, LedgerType DEF Next
  <2> QED BY <1>5, <2>1 DEF LateCount
<1>6. ASSUME NEW r \in Requests, Fail(r) PROVE TypeOK'
  BY <1>6, RefusalType DEF Fail
<1>7. ASSUME NEW r \in Requests, Respond(r) PROVE TypeOK'
  <2>1. count[r] \in Nat \ {0}
    BY <1>7 DEF Respond, StageInv
  <2>2. [status |-> "ok", name |-> Name(r), count |-> count[r]] \in Responses
    BY <2>1, NameIsName DEF Responses
  <2> QED BY <1>7, <2>2 DEF Respond, Name
<1>8. CASE UNCHANGED vars
  BY <1>8 DEF vars
<1> QED BY <1>1, <1>2, <1>3, <1>4, <1>5, <1>6, <1>7, <1>8 DEF Next

-----------------------------------------------------------------------------
(* Stages *)

\* The count of a request for which the store has counted or looked is positive.
LEMMA StoreAnswers ==
    ASSUME TypeOK, LedgerInv, NEW r \in Requests, StoreCounts(r) \/ StoreKnows(r)
    PROVE  \/ UNCHANGED <<pc, count>>
           \/ /\ pc' = [pc EXCEPT ![r] = "render"]
              /\ count'[r] = Len(ledger'[Name(r)])
              /\ count'[r] \in Nat \ {0}
              /\ \A s \in Requests \ {r} : count'[s] = count[s]
              /\ \E k \in 1..count'[r] : SameVisitor(r, ledger'[Name(r)][k])
<1> DEFINE n == Name(r)
<1>1. n \in Names /\ ledger[n] \in Seq(Requests)
  BY NameIsName DEF TypeOK
<1>2. CASE StoreCounts(r)
  <2>1. Extends(r)
    BY <1>2 DEF StoreCounts, Extends, Name
  <2>2. /\ Len(ledger'[n]) = Len(ledger[n]) + 1
        /\ ledger'[n][Len(ledger[n]) + 1] = r
    BY <2>1, ExtendsLedger
  <2>3. Len(ledger'[n]) \in Nat \ {0}
    BY <1>1, <2>2
  <2>4. SameVisitor(r, ledger'[n][Len(ledger'[n])])
    BY <2>2 DEF SameVisitor
  <2>5. Len(ledger'[n]) \in 1..Len(ledger'[n])
    BY <2>3
  <2>6. \/ UNCHANGED <<pc, count>>
        \/ /\ pc' = [pc EXCEPT ![r] = "render"]
           /\ count' = [count EXCEPT ![r] = Len(ledger'[n])]
    BY <1>2 DEF StoreCounts, Name
  <2> HIDE DEF n
  <2> QED BY <2>3, <2>4, <2>5, <2>6 DEF TypeOK, n
<1>3. CASE StoreKnows(r)
  <2>1. PICK s \in Counted(n) : VisitorTag(Event[s]) = VisitorTag(Event[r])
    BY <1>3 DEF StoreKnows, Name
  <2>2. PICK k \in 1..Len(ledger[n]) : ledger[n][k] = s
    BY <1>1, <2>1, CountedEntries
  <2>3. SameVisitor(r, ledger[n][k])
    BY <2>1, <2>2 DEF SameVisitor
  <2>4. /\ pc' = [pc EXCEPT ![r] = "render"]
        /\ count' = [count EXCEPT ![r] = Len(ledger[n])]
        /\ ledger' = ledger
    BY <1>3 DEF StoreKnows, Name
  <2>5. Len(ledger[n]) \in Nat \ {0}
    BY <1>1, <2>2
  <2> HIDE DEF n
  <2> QED BY <2>2, <2>3, <2>4, <2>5 DEF TypeOK, n
<1> QED BY <1>2, <1>3

LEMMA StepStage == HInv /\ [Next]_vars => StageInv'
<1> SUFFICES ASSUME HInv, [Next]_vars PROVE StageInv'
  OBVIOUS
<1>1. TypeOK /\ StageInv /\ LedgerInv
  BY DEF HInv
<1>2. CASE Start
  <2>1. \A s \in Requests : pc[s] = "idle"
    BY <1>1, <1>2 DEF Start, StageInv
  <2> QED BY <1>1, <1>2, <2>1 DEF Start, StageInv
<1>3. ASSUME allowed' = allowed
      PROVE  \A e : (Admitted(e) <=> Admitted(e)')
  BY <1>3 DEF Admitted
<1>4. ASSUME NEW r \in Requests, Receive(r) PROVE StageInv'
  <2>1. allowed' = allowed /\ allowed # {} /\ count' = count /\ pc[r] = "idle"
    BY <1>4 DEF Receive
  <2>2. \A s \in Requests \ {r} : pc'[s] = pc[s] /\ response'[s] = response[s]
    BY <1>1, <1>4 DEF Receive, TypeOK
  <2>3. \/ Admitted(Event[r]) /\ pc'[r] = "store" /\ response'[r] = response[r]
        \/ ~Admitted(Event[r]) /\ pc'[r] = "done" /\ response'[r] = Refusal(Event[r])
    BY <1>1, <1>4 DEF Receive, TypeOK
  <2>4. count[r] = 0 /\ response[r] = NoResponse
    BY <1>1, <2>1 DEF StageInv
  <2> QED BY <1>1, <1>3, <2>1, <2>2, <2>3, <2>4 DEF StageInv
<1>5. ASSUME NEW r \in Requests, StoreCounts(r) \/ StoreKnows(r) PROVE StageInv'
  <2>1. allowed' = allowed /\ response' = response /\ pc[r] = "store"
    BY <1>5 DEF StoreCounts, StoreKnows
  <2>2. CASE UNCHANGED <<pc, count>>
    BY <1>1, <1>3, <2>1, <2>2 DEF StageInv
  <2>3. ASSUME /\ pc' = [pc EXCEPT ![r] = "render"]
               /\ count'[r] \in Nat \ {0}
               /\ \A s \in Requests \ {r} : count'[s] = count[s]
        PROVE  StageInv'
    <3>1. pc'[r] = "render" /\ \A s \in Requests \ {r} : pc'[s] = pc[s]
      BY <1>1, <2>3 DEF TypeOK
    <3>2. count'[r] > 0
      BY <2>3
    <3>3. response[r] = NoResponse /\ Admitted(Event[r]) /\ allowed # {}
      BY <1>1, <2>1 DEF StageInv
    <3> QED BY <1>1, <1>3, <2>1, <2>3, <3>1, <3>2, <3>3 DEF StageInv
  <2> QED BY <1>1, <1>5, <2>2, <2>3, StoreAnswers
<1>6. ASSUME NEW r \in Requests, LateCount(r) PROVE StageInv'
  BY <1>1, <1>3, <1>6 DEF LateCount, StageInv
<1>7. ASSUME NEW r \in Requests, Fail(r) PROVE StageInv'
  <2>1. allowed' = allowed /\ count' = count /\ pc[r] \in {"store", "render"}
    BY <1>7 DEF Fail
  <2>2. /\ pc'[r] = "failed" /\ response'[r] = NoImage("error")
        /\ \A s \in Requests \ {r} : pc'[s] = pc[s] /\ response'[s] = response[s]
    BY <1>1, <1>7 DEF Fail, TypeOK
  <2> QED BY <1>1, <1>3, <2>1, <2>2 DEF StageInv
<1>8. ASSUME NEW r \in Requests, Respond(r) PROVE StageInv'
  <2>1. allowed' = allowed /\ count' = count /\ pc[r] = "render"
    BY <1>8 DEF Respond
  <2>2. /\ pc'[r] = "done"
        /\ response'[r] = [status |-> "ok", name |-> Name(r), count |-> count[r]]
        /\ \A s \in Requests \ {r} : pc'[s] = pc[s] /\ response'[s] = response[s]
    BY <1>1, <1>8 DEF Respond, TypeOK, Name
  <2> QED BY <1>1, <1>3, <2>1, <2>2 DEF StageInv
<1>9. CASE UNCHANGED vars
  BY <1>1, <1>3, <1>9 DEF StageInv, vars
<1> QED BY <1>2, <1>4, <1>5, <1>6, <1>7, <1>8, <1>9 DEF Next
-----------------------------------------------------------------------------
(* Ledgers, answers and what was told before *)

\* A request that has come stays, and so does the configuration it came under.
LEMMA StepKeeps ==
    ASSUME TypeOK, StageInv, [Next]_vars
    PROVE  \A r \in Requests :
              /\ pc[r] # "idle" => pc'[r] # "idle"
              /\ pc[r] # "idle" => (Admitted(Event[r])' <=> Admitted(Event[r]))
<1>1. ASSUME allowed' = allowed
      PROVE  \A e : (Admitted(e)' <=> Admitted(e))
  BY <1>1 DEF Admitted
<1>2. CASE Start
  BY <1>2 DEF Start, StageInv
<1>3. ASSUME NEW r \in Requests,
             \/ Receive(r) \/ StoreCounts(r) \/ StoreKnows(r)
             \/ LateCount(r) \/ Fail(r) \/ Respond(r)
      PROVE  /\ allowed' = allowed
             /\ \A s \in Requests : pc[s] # "idle" => pc'[s] # "idle"
  BY <1>3 DEF TypeOK, Receive, StoreCounts, StoreKnows, LateCount, Fail, Respond
<1>4. CASE UNCHANGED vars
  BY <1>1, <1>4 DEF vars
<1> QED BY <1>1, <1>2, <1>3, <1>4 DEF Next

LEMMA StepLedger == HInv /\ [Next]_vars => LedgerInv'
<1> SUFFICES ASSUME HInv, [Next]_vars PROVE LedgerInv'
  OBVIOUS
<1>1. TypeOK /\ StageInv /\ LedgerInv
  BY DEF HInv
<1> DEFINE Good(n, r) == Name(r) = n /\ Admitted(Event[r]) /\ pc[r] # "idle"
<1>2. \A n \in Names : \A k \in 1..Len(ledger[n]) : Good(n, ledger[n][k])'
  BY <1>1, StepKeeps, EntriesStay DEF LedgerInv
<1>3. ASSUME UNCHANGED ledger
      PROVE  \A n \in Names : \A k \in 1..Len(ledger'[n]) : Good(n, ledger[n][k])'
  BY <1>2, <1>3
<1>4. ASSUME NEW r \in Requests, StoreCounts(r) \/ LateCount(r)
      PROVE  \A n \in Names : \A k \in 1..Len(ledger'[n]) : Good(n, ledger[n][k])'
  <2>1. Extends(r)
    BY <1>4 DEF StoreCounts, LateCount, Extends, Name
  <2>2. pc[r] \in {"store", "failed"}
    BY <1>4 DEF StoreCounts, LateCount
  <2>3. Good(Name(r), r)'
    BY <1>1, <2>2, StepKeeps DEF StageInv
  <2>4. \A n \in Names : Len(ledger[n]) \in Nat
    BY <1>1, EntriesStay
  <2>5. ASSUME NEW n \in Names, NEW k \in 1..Len(ledger'[n]), n # Name(r)
        PROVE  Good(n, ledger[n][k])'
    BY <1>1, <1>2, <2>1, <2>5, ExtendsLedger
  <2>6. ASSUME NEW k \in 1..Len(ledger'[Name(r)])
        PROVE  Good(Name(r), ledger[Name(r)][k])'
    <3>1. /\ Len(ledger'[Name(r)]) = Len(ledger[Name(r)]) + 1
          /\ ledger'[Name(r)][Len(ledger[Name(r)]) + 1] = r
      BY <1>1, <2>1, ExtendsLedger
    <3>2. Len(ledger[Name(r)]) \in Nat
      BY <2>4, NameIsName
    <3>3. k = Len(ledger[Name(r)]) + 1 \/ k \in 1..Len(ledger[Name(r)])
      BY <3>1, <3>2
    <3> HIDE DEF Good
    <3> QED BY <1>2, <2>3, <3>1, <3>3, NameIsName
  <2> QED BY <2>5, <2>6
<1>5. UNCHANGED ledger \/ \E r \in Requests : StoreCounts(r) \/ LateCount(r)
  BY DEF Next, vars, Start, Receive, StoreKnows, Fail, Respond
<1> QED BY <1>3, <1>4, <1>5 DEF LedgerInv

\* Only the store's answer sets the count of a request.
LEMMA CountChanges ==
    ASSUME [Next]_vars
    PROVE  UNCHANGED count \/ \E r \in Requests : StoreCounts(r) \/ StoreKnows(r)
BY DEF Next, vars, Start, Receive, LateCount, Fail, Respond

LEMMA StepAnswer == HInv /\ [Next]_vars => AnswerInv'
<1> SUFFICES ASSUME HInv, [Next]_vars PROVE AnswerInv'
  OBVIOUS
<1>1. TypeOK /\ StageInv /\ LedgerInv /\ AnswerInv
  BY DEF HInv
<1> DEFINE Answered(r) ==
        count[r] > 0 =>
            /\ count[r] <= Len(ledger[Name(r)])
            /\ \E k \in 1..count[r] : SameVisitor(r, ledger[Name(r)][k])
<1>2. ASSUME NEW r \in Requests, count'[r] = count[r] PROVE Answered(r)'
  <2>1. count[r] \in Nat /\ Name(r) \in Names
    BY <1>1, NameIsName DEF TypeOK
  <2>2. /\ Len(ledger[Name(r)]) \in Nat /\ Len(ledger'[Name(r)]) \in Nat
        /\ Len(ledger[Name(r)]) <= Len(ledger'[Name(r)])
        /\ \A k \in 1..Len(ledger[Name(r)]) : ledger'[Name(r)][k] = ledger[Name(r)][k]
    BY <1>1, <2>1, EntriesStay
  <2>3. ASSUME count[r] > 0
        PROVE  /\ count'[r] <= Len(ledger'[Name(r)])
               /\ \E k \in 1..count'[r] : SameVisitor(r, ledger'[Name(r)][k])
    <3>1. count[r] <= Len(ledger[Name(r)])
      BY <1>1, <2>3 DEF AnswerInv
    <3>2. PICK k \in 1..count[r] : SameVisitor(r, ledger[Name(r)][k])
      BY <1>1, <2>3 DEF AnswerInv
    <3>3. k \in 1..Len(ledger[Name(r)])
      BY <2>1, <2>2, <3>1
    <3> QED BY <1>2, <2>1, <2>2, <3>1, <3>2, <3>3
  <2> QED BY <1>2, <2>3 DEF SameVisitor
<1>3. CASE UNCHANGED count
  BY <1>2, <1>3 DEF AnswerInv
<1>4. ASSUME NEW r \in Requests, StoreCounts(r) \/ StoreKnows(r)
      PROVE  \A s \in Requests : Answered(s)'
  <2>1. CASE UNCHANGED <<pc, count>>
    BY <1>2, <2>1
  <2>2. ASSUME /\ count'[r] = Len(ledger'[Name(r)])
               /\ count'[r] \in Nat \ {0}
               /\ \A s \in Requests \ {r} : count'[s] = count[s]
               /\ \E k \in 1..count'[r] : SameVisitor(r, ledger'[Name(r)][k])
        PROVE  \A s \in Requests : Answered(s)'
    <3>1. Answered(r)'
      BY <2>2 DEF SameVisitor
    <3>2. \A s \in Requests \ {r} : Answered(s)'
      BY <1>2, <2>2
    <3> QED BY <3>1, <3>2
  <2> QED BY <1>1, <1>4, <2>1, <2>2, StoreAnswers
<1> QED BY <1>3, <1>4, CountChanges DEF AnswerInv

\* A response that is none of those without an image is the one with the count.
LEMMA ImageResponse ==
    ASSUME TypeOK, StageInv, NEW r \in Requests,
           response[r] \notin {NoResponse, NoImage("error"), Refusal(Event[r])}
    PROVE  /\ response[r].status = "ok"
           /\ response[r].name = Name(r)
           /\ response[r].count = count[r]
           /\ count[r] > 0
<1>1. pc[r] \in {"idle", "store", "render", "failed", "done"}
  BY DEF TypeOK
<1>2. pc[r] = "done"
  BY <1>1 DEF StageInv
<1>3. /\ response[r] = [status |-> "ok", name |-> Name(r), count |-> count[r]]
      /\ count[r] > 0
  BY <1>2 DEF StageInv
<1> QED BY <1>3

\* A response that names a counter was given to a request for it, with its count.
LEMMA NamedResponse ==
    ASSUME TypeOK, StageInv, NEW r \in Requests, response[r].name \in Names
    PROVE  /\ response[r].name = Name(r)
           /\ response[r].count = count[r]
           /\ count[r] > 0
<1>1. response[r] \notin {NoResponse, NoImage("error"), Refusal(Event[r])}
  BY RefusalType, NoImageNamesNone DEF NoResponse
<1> QED BY <1>1, ImageResponse

LEMMA StepTold == HInv /\ [Next]_vars => ToldInv'
<1> SUFFICES ASSUME HInv, [Next]_vars PROVE ToldInv'
  OBVIOUS
<1>1. TypeOK /\ StageInv /\ AnswerInv /\ ToldInv
  BY DEF HInv
<1> DEFINE Before(r) ==
        \A c \in told[r] : /\ c <= Len(ledger[Name(r)])
                           /\ count[r] > 0 => c <= count[r]
<1>2. ASSUME NEW r \in Requests
      PROVE  /\ count[r] \in Nat /\ Name(r) \in Names
             /\ told[r] \subseteq Nat
             /\ Len(ledger[Name(r)]) \in Nat /\ Len(ledger'[Name(r)]) \in Nat
             /\ Len(ledger[Name(r)]) <= Len(ledger'[Name(r)])
  BY <1>1, NameIsName, EntriesStay DEF TypeOK
<1>3. ASSUME NEW r \in Requests, told'[r] = told[r], count'[r] = count[r]
      PROVE  Before(r)'
  BY <1>1, <1>2, <1>3 DEF ToldInv
<1>4. ASSUME NEW r \in Requests, told'[r] = told[r], count'[r] = Len(ledger'[Name(r)])
      PROVE  Before(r)'
  BY <1>1, <1>2, <1>4 DEF ToldInv
<1>5. ASSUME NEW r \in Requests, Receive(r) PROVE \A s \in Requests : Before(s)'
  <2>1. /\ \A s \in Requests \ {r} : told'[s] = told[s]
        /\ count' = count /\ ledger' = ledger /\ pc[r] = "idle"
    BY <1>1, <1>5 DEF Receive, TypeOK
  <2>2. \/ told'[r] = told[r]
        \/ told'[r] = {response[s].count :
                           s \in {s \in Requests : response[s].name = Name(r)}}
    BY <1>1, <1>5 DEF Receive, TypeOK, Name
  <2>3. count'[r] = 0
    BY <1>1, <2>1 DEF StageInv
  <2>4. ASSUME NEW s \in Requests, response[s].name = Name(r)
        PROVE  response[s].count <= Len(ledger[Name(r)])
    <3>1. /\ Name(s) = Name(r)
          /\ response[s].count = count[s] /\ count[s] > 0
      BY <1>1, <2>4, NameIsName, NamedResponse
    <3>2. count[s] <= Len(ledger[Name(s)])
      BY <1>1, <3>1 DEF AnswerInv
    <3> QED BY <3>1, <3>2
  <2>5. Before(r)'
    BY <1>3, <2>1, <2>2, <2>3, <2>4
  <2> QED BY <1>3, <2>1, <2>5
<1>6. ASSUME NEW r \in Requests, StoreCounts(r) \/ StoreKnows(r)
      PROVE  \A s \in Requests : Before(s)'
  <2>1. told' = told
    BY <1>6 DEF StoreCounts, StoreKnows
  <2>2. /\ \A s \in Requests \ {r} : count'[s] = count[s]
        /\ count'[r] \in {count[r], Len(ledger'[Name(r)])}
    BY <1>1, <1>6, StoreAnswers DEF HInv
  <2> QED BY <1>3, <1>4, <2>1, <2>2
<1>7. ASSUME UNCHANGED <<told, count>> PROVE \A s \in Requests : Before(s)'
  BY <1>3, <1>7
<1>8. \/ UNCHANGED <<told, count>>
      \/ \E r \in Requests : Receive(r) \/ StoreCounts(r) \/ StoreKnows(r)
  BY DEF Next, vars, Start, LateCount, Fail, Respond
<1> QED BY <1>5, <1>6, <1>7, <1>8 DEF ToldInv

-----------------------------------------------------------------------------
(* The invariant *)

LEMMA InitHInv == Init => HInv
<1> SUFFICES ASSUME Init PROVE HInv
  OBVIOUS
<1>1. TypeOK
  BY InitType
<1>2. StageInv /\ ToldInv /\ AnswerInv
  BY DEF Init, StageInv, ToldInv, AnswerInv
<1>3. LedgerInv
  <2> SUFFICES ASSUME NEW n \in Names PROVE Len(ledger[n]) = 0
    BY DEF LedgerInv
  <2> QED BY DEF Init
<1> QED BY <1>1, <1>2, <1>3 DEF HInv

LEMMA StepHInv == HInv /\ [Next]_vars => HInv'
BY StepType, StepStage, StepLedger, StepAnswer, StepTold DEF HInv

LEMMA HandlerInvariant == Spec => []HInv
BY InitHInv, StepHInv, PTL DEF Spec

-----------------------------------------------------------------------------
(* Theorems *)

\* Every variable of the handler always has its type.
THEOREM HandlerTypeCorrect == Spec => []TypeOK
<1>1. HInv => TypeOK
  BY DEF HInv
<1> QED BY <1>1, HandlerInvariant, PTL

\* Whatever requests come, with whatever settings: what function_handler refuses is
\* never counted, and nothing is counted under a name it was not asked for.
THEOREM VisitorsCorrect == Spec => []OnlyVisitorsCounted
<1>1. HInv => OnlyVisitorsCounted
  <2> SUFFICES ASSUME HInv, NEW n \in Names, NEW r \in Counted(n)
               PROVE  /\ n \in allowed
                      /\ Event[r].root /\ Event[r].user_agent \in Agents
                      /\ Event[r].name \in IF n = Default THEN {n, Missing} ELSE {n}
                      /\ response[r].status # "not_found"
    BY DEF OnlyVisitorsCounted
  <2>1. TypeOK /\ StageInv /\ LedgerInv
    BY DEF HInv
  <2>2. PICK k \in 1..Len(ledger[n]) : ledger[n][k] = r
    BY <2>1, CountedEntries
  <2>3. r \in Requests
    BY <2>1, <2>2 DEF TypeOK
  <2>4. Name(r) = n /\ Admitted(Event[r]) /\ pc[r] # "idle"
    BY <2>1, <2>2 DEF LedgerInv
  <2>5. Event[r] \in Events
    BY <2>3, EventAssumption
  <2>6. Event[r].root /\ RequestInfo(Event[r]) = "Ok" /\ n \in allowed
    BY <2>4 DEF Admitted, Name
  <2>7. Event[r].user_agent \in Agents
    BY <2>5, <2>6 DEF Events, RequestInfo
  <2>8. Event[r].name \in IF n = Default THEN {n, Missing} ELSE {n}
    BY <2>4 DEF Name, CountName
  <2>9. response[r].status # "not_found"
    <3>1. pc[r] \in {"store", "render", "failed", "done"}
      BY <2>1, <2>3, <2>4 DEF TypeOK
    <3>2. CASE response[r] \in {NoResponse, NoImage("error")}
      BY <3>2 DEF NoResponse, NoImage
    <3>3. CASE pc[r] # "done"
      BY <2>1, <2>3, <3>1, <3>2, <3>3 DEF StageInv
    <3>4. CASE pc[r] = "done"
      <4>1. response[r] = [status |-> "ok", name |-> Name(r), count |-> count[r]]
        BY <2>1, <2>3, <2>4, <3>4 DEF StageInv
      <4> QED BY <4>1
    <3> QED BY <3>2, <3>3, <3>4
  <2> QED BY <2>6, <2>7, <2>8, <2>9
<1> QED BY <1>1, HandlerInvariant, PTL

\* A response with an image is that of its request's name and answer.
LEMMA OkResponse ==
    ASSUME TypeOK, StageInv, NEW r \in Requests, response[r].status = "ok"
    PROVE  response[r].name = Name(r) /\ response[r].count = count[r] /\ count[r] > 0
<1>1. response[r] \notin {NoResponse, NoImage("error"), Refusal(Event[r])}
  BY RefusalType, NoImageNamesNone DEF NoResponse, NoImage
<1> QED BY <1>1, ImageResponse

\* For any interleaving of any requests, the count in a response includes its caller.
THEOREM CallerCorrect == Spec => []CallerIsCounted
<1>1. HInv => CallerIsCounted
  <2> SUFFICES ASSUME HInv, NEW r \in Requests, response[r].status = "ok"
               PROVE  \E k \in 1..response[r].count :
                         /\ k <= Len(ledger[response[r].name])
                         /\ VisitorTag(Event[ledger[response[r].name][k]])
                               = VisitorTag(Event[r])
    BY DEF CallerIsCounted
  <2>1. response[r].name = Name(r) /\ response[r].count = count[r] /\ count[r] > 0
    BY OkResponse DEF HInv
  <2>2. count[r] <= Len(ledger[Name(r)])
    BY <2>1 DEF HInv, AnswerInv
  <2>3. PICK k \in 1..count[r] : SameVisitor(r, ledger[Name(r)][k])
    BY <2>1 DEF HInv, AnswerInv
  <2>4. count[r] \in Nat /\ Len(ledger[Name(r)]) \in Nat
    BY NameIsName DEF HInv, TypeOK
  <2> QED BY <2>1, <2>2, <2>3, <2>4 DEF SameVisitor
<1> QED BY <1>1, HandlerInvariant, PTL

\* For any interleaving of any requests, no counter goes back.
THEOREM NeverBackCorrect == Spec => []AnswersNeverGoBack
<1>1. HInv => AnswersNeverGoBack
  <2> SUFFICES ASSUME HInv, NEW r \in Requests, response[r].status = "ok"
               PROVE  /\ \A c \in told[r] : c <= response[r].count
                      /\ response[r].name = CountName(Event[r])
    BY DEF AnswersNeverGoBack
  <2>1. response[r].name = Name(r) /\ response[r].count = count[r] /\ count[r] > 0
    BY OkResponse DEF HInv
  <2> QED BY <2>1 DEF HInv, ToldInv, Name
<1> QED BY <1>1, HandlerInvariant, PTL
=============================================================================
