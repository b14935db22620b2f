------------------------------- MODULE Store --------------------------------
(***************************************************************************)
(* One counter of src/src/store.rs: the Lambda invocations that call       *)
(* maybe_increment_visitors for it, the DynamoDB item that holds it, and   *)
(* the network between them.                                               *)
(*                                                                         *)
(* An invocation loads the item, computes the next one and puts it under   *)
(* the condition that the count has not changed, and starts over when the  *)
(* condition fails.  The item is read with GetItem's default consistency,  *)
(* so a read may return a version that has been replaced.  The SDK sends a *)
(* put again when it hears nothing; a put that the client gave up on may   *)
(* still reach the table.                                                  *)
(***************************************************************************)
EXTENDS RecentVisitors, Sequences

CONSTANTS
    Invocations,      \* the calls made to this counter
    TagOf,            \* TagOf[i]: the tag of the visitor invocation i is for
    StaleReads,       \* whether a read may return a replaced version
    MAX_ATTEMPTS_FOR_OPTIMISTIC_LOCKING,
    MAX_SENDS,        \* RetryConfig::with_max_attempts: sends of one request
    LAMBDA_TIMEOUT,   \* seconds an invocation may run
    MaxClock          \* bound: the last tick of the model's clock

ASSUME TagOfAssumption == TagOf \in [Invocations -> Tags]
ASSUME StaleReadsAssumption == StaleReads \in BOOLEAN
ASSUME MaxAttemptsAssumption == MAX_ATTEMPTS_FOR_OPTIMISTIC_LOCKING \in Nat \ {0}
ASSUME MaxSendsAssumption == MAX_SENDS \in Nat \ {0}
ASSUME TimeoutAssumption == LAMBDA_TIMEOUT \in Nat
ASSUME MaxClockAssumption == MaxClock \in Nat

VARIABLES
    clock,     \* the system clock of every host, in ticks
    item,      \* the counter's item in the table, or NoItem
    stale,     \* replaced versions, which a read may still return
    network,   \* put requests the table has not handled yet
    pc,        \* where each invocation is
    seen,      \* its visitor's last_seen: the clock when it was identified
    now,       \* its argument now: the clock when it called the store
    attempt,   \* its failed attempts of the optimistic lock
    request,   \* the put request it awaits the result of
    answer,    \* the count it returned, 0 for none
    \* history variables
    ledger,    \* the invocations whose puts changed the count, in order
    floor,     \* the count when each invocation called the store
    outdated   \* how many of its gets returned a count no longer current

table == <<item, stale, ledger>>
client == <<pc, seen, now, attempt, request, answer, floor, outdated>>
vars == <<clock, network, table, client>>

-----------------------------------------------------------------------------
(* The table *)

\* No item has count 0: try_put_new_count_entry writes 1, updates only add.
NoItem == [count |-> 0, recent_visitors |-> {}]

\* The two condition expressions: a put carries the count it expects to find,
\* or 0 for attribute_not_exists(key).
AttributeNotExists == 0

\* Mutant: the creation is not conditional.
CreatesAlways(condition) ==
    condition = AttributeNotExists \/ (item # NoItem /\ item.count = condition)

\* Mutant: the update is not conditional.
UpdatesAlways(condition) ==
    condition # AttributeNotExists \/ item = NoItem

ConditionHolds(condition) ==
    \/ condition = AttributeNotExists /\ item = NoItem
    \/ condition # AttributeNotExists /\ item # NoItem /\ item.count = condition

PutRequest ==
    [from: Invocations, attempt: Nat, send: Nat, condition: Nat, put: CountEntry]

NoRequest(i) ==
    [from |-> i, attempt |-> 0, send |-> 0,
     condition |-> AttributeNotExists, put |-> NoItem]

\* Whether a put counts a visit, or only refreshes the list.
CountsVisit(m) == m.put.count # m.condition

\* What a GetItem may return.
Readable == {item} \cup stale

\* The table handles a put: the item is replaced if its condition holds.
AcceptPut(m) ==
    /\ ConditionHolds(m.condition)
    /\ item' = m.put
    /\ stale' = IF StaleReads THEN stale \cup {item} ELSE stale
    /\ ledger' = IF CountsVisit(m) THEN Append(ledger, m.from) ELSE ledger
    /\ network' = network \ {m}

RejectPut(m) ==
    /\ ~ConditionHolds(m.condition)
    /\ network' = network \ {m}
    /\ UNCHANGED table

-----------------------------------------------------------------------------
(* The invocations *)

PCs == {"idle", "identified", "get", "put",
        "done", "failed", "panicked"}
Alive(i) == pc[i] \in {"identified", "get", "put"}
Finished(i) == pc[i] \in {"done", "failed", "panicked"}

\* The visitor an invocation is for.
VisitorOf(i) == [tag |-> TagOf[i], last_seen |-> seen[i]]

Init ==
    /\ clock = 0
    /\ item = NoItem
    /\ stale = {}
    /\ network = {}
    /\ pc = [i \in Invocations |-> "idle"]
    /\ seen = [i \in Invocations |-> 0]
    /\ now = [i \in Invocations |-> 0]
    /\ attempt = [i \in Invocations |-> 0]
    /\ request = [i \in Invocations |-> NoRequest(i)]
    /\ answer = [i \in Invocations |-> 0]
    /\ ledger = <<>>
    /\ floor = [i \in Invocations |-> 0]
    /\ outdated = [i \in Invocations |-> 0]

\* Invocation i ends at p or goes back to the get, and awaits no put any more.
GoTo(i, p) ==
    /\ pc' = [pc EXCEPT ![i] = p]
    /\ request' = [request EXCEPT ![i] = NoRequest(i)]

\* put_item hands the request to the SDK, which sends it.
SendPut(i, condition, put) ==
    LET m == [from |-> i, attempt |-> attempt[i], send |-> 1,
              condition |-> condition, put |-> put]
    IN  /\ pc[i] = "get"
        /\ pc' = [pc EXCEPT ![i] = "put"]
        /\ request' = [request EXCEPT ![i] = m]
        /\ network' = network \cup {m}
        /\ outdated' = [outdated EXCEPT ![i] = IF condition < item.count THEN @ + 1 ELSE @]
        /\ UNCHANGED <<clock, table, seen, now, attempt, answer, floor>>

\* Visitor::from(&request_info) reads the clock.
Identify(i) ==
    /\ pc[i] = "idle"
    /\ pc' = [pc EXCEPT ![i] = "identified"]
    /\ seen' = [seen EXCEPT ![i] = clock]
    /\ UNCHANGED <<clock, network, table, now, attempt, request, answer, floor, outdated>>

\* The handler calls maybe_increment_visitors and reads the clock for its now.
Call(i) ==
    /\ pc[i] = "identified"
    /\ pc' = [pc EXCEPT ![i] = "get"]
    /\ now' = [now EXCEPT ![i] = clock]
    /\ floor' = [floor EXCEPT ![i] = item.count]
    /\ UNCHANGED <<clock, network, table, seen, attempt, request, answer, outdated>>

\* get_item ends with an error, or the item cannot be decoded.
GetFails(i) ==
    /\ pc[i] = "get"
    /\ GoTo(i, "failed")
    /\ UNCHANGED <<clock, network, table, seen, now, attempt, answer, floor, outdated>>

\* get_item finds no item: try_put_new_count_entry.
GetNothing(i) ==
    /\ NoItem \in Readable
    /\ SendPut(i, AttributeNotExists,
               [count |-> 1, recent_visitors |-> {ToStored(VisitorOf(i))}])

\* get_item finds an item with an entry from the future: the lookup or the
\* pruning panics, which aborts the process.
GetPanics(i) ==
    /\ pc[i] = "get"
    /\ \E stored \in Readable \ {NoItem} :
          SomeSeenAfter(LoadedEntry(stored).recent_visitors, now[i])
    /\ GoTo(i, "panicked")
    /\ UNCHANGED <<clock, network, table, seen, now, attempt, answer, floor, outdated>>

\* Mutant: initial_count is taken after the visit was recorded.
GetSomeCountedFirst(i) ==
    \E stored \in Readable \ {NoItem} :
        LET entry == LoadedEntry(stored)
        IN  /\ ~SomeSeenAfter(entry.recent_visitors, now[i])
            /\ \E updated \in UpdatedEntries(entry, VisitorOf(i), now[i]) :
                  SendPut(i, updated.count, StoredEntry(updated))

\* get_item finds an item: record the visit, prune, try_put_count_entry.
GetSome(i) ==
    \E stored \in Readable \ {NoItem} :
        LET entry == LoadedEntry(stored)
        IN  /\ ~SomeSeenAfter(entry.recent_visitors, now[i])
            /\ \E updated \in UpdatedEntries(entry, VisitorOf(i), now[i]) :
                  SendPut(i, entry.count, StoredEntry(updated))

\* The SDK hears nothing, or an error worth a retry, and sends the put again.
ResendPut(i) ==
    LET again == [request[i] EXCEPT !.send = @ + 1]
    IN  /\ pc[i] = "put"
        /\ request[i].send < MAX_SENDS
        /\ request' = [request EXCEPT ![i] = again]
        /\ network' = network \cup {again}
        /\ UNCHANGED <<clock, table, pc, seen, now, attempt, answer, floor, outdated>>

\* Mutant: a put that timed out is retried like one that failed its condition.
PutFailsAndRetries(i) ==
    /\ pc[i] = "put"
    /\ GoTo(i, "get")
    /\ UNCHANGED <<clock, network, table, seen, now, attempt, answer, floor, outdated>>

\* Mutant: no operation timeout, so that only an answer ends the wait for a put.
PutFailsWhenAnswered(i) ==
    /\ pc[i] = "put"
    /\ request[i] \in network
    /\ GoTo(i, "failed")
    /\ UNCHANGED <<clock, network, table, seen, now, attempt, answer, floor, outdated>>

\* put_item ends with an error that is not a failed condition, such as the
\* operation timeout.
PutFails(i) ==
    /\ pc[i] = "put"
    /\ GoTo(i, "failed")
    /\ UNCHANGED <<clock, network, table, seen, now, attempt, answer, floor, outdated>>

\* The awaited put is accepted and the invocation returns its count.
PutSucceeds(i) ==
    /\ pc[i] = "put"
    /\ request[i] \in network
    /\ AcceptPut(request[i])
    /\ GoTo(i, "done")
    /\ answer' = [answer EXCEPT ![i] = request[i].put.count]
    /\ UNCHANGED <<clock, seen, now, attempt, floor, outdated>>

\* Mutant: one attempt more than the constant says.
ConflictsOnceMore(i) ==
    /\ pc[i] = "put"
    /\ request[i] \in network
    /\ RejectPut(request[i])
    /\ attempt' = [attempt EXCEPT ![i] = @ + 1]
    /\ GoTo(i, IF attempt'[i] <= MAX_ATTEMPTS_FOR_OPTIMISTIC_LOCKING
               THEN "get" ELSE "failed")
    /\ UNCHANGED <<clock, seen, now, answer, floor, outdated>>

\* The awaited put fails its condition: attempt += 1, and start over or give up.
PutConflicts(i) ==
    /\ pc[i] = "put"
    /\ request[i] \in network
    /\ RejectPut(request[i])
    /\ attempt' = [attempt EXCEPT ![i] = @ + 1]
    /\ GoTo(i, IF attempt'[i] < MAX_ATTEMPTS_FOR_OPTIMISTIC_LOCKING
               THEN "get" ELSE "failed")
    /\ UNCHANGED <<clock, seen, now, answer, floor, outdated>>

\* The Lambda is stopped, by its timeout or by a crash: for its caller a failure
\* like any other.
Kill(i) ==
    /\ Alive(i)
    /\ GoTo(i, "failed")
    /\ UNCHANGED <<clock, network, table, seen, now, attempt, answer, floor, outdated>>

-----------------------------------------------------------------------------
(* The environment *)

\* The table accepts a put and nobody hears of it: the response was lost, or the
\* client has sent the put again or given up on it.  (A put that is rejected
\* unheard changes nothing but the network, like one that never arrives.)
AcceptUnheard ==
    /\ \E m \in network : AcceptPut(m)
    /\ UNCHANGED <<clock, client>>

\* Time passes, but not beyond the deadline of a running invocation.
Tick ==
    /\ clock < MaxClock
    /\ \A i \in Invocations :
          Alive(i) => clock < seen[i] + LAMBDA_TIMEOUT * TICKS_PER_SEC
    /\ clock' = clock + 1
    /\ UNCHANGED <<network, table, client>>

-----------------------------------------------------------------------------

\* What an invocation does by itself, given that its SDK calls end.
Proceed(i) ==
    \/ Call(i)
    \/ GetFails(i) \/ GetNothing(i) \/ GetPanics(i) \/ GetSome(i)
    \/ PutSucceeds(i) \/ PutConflicts(i) \/ PutFails(i)

Next ==
    \/ \E i \in Invocations : Identify(i) \/ Proceed(i) \/ ResendPut(i) \/ Kill(i)
    \/ AcceptUnheard
    \/ Tick

Spec == Init /\ [][Next]_vars

\* Every SDK call has a timeout, so an invocation that is not killed proceeds.
FairSpec == Spec /\ \A i \in Invocations : WF_vars(Proceed(i))

-----------------------------------------------------------------------------
(* Properties *)

\* Every variable has its type.
TypeOK ==
    /\ clock \in Nat
    /\ item \in CountEntry
    /\ stale \subseteq CountEntry
    /\ network \subseteq PutRequest
    /\ pc \in [Invocations -> PCs]
    /\ seen \in [Invocations -> Nat]
    /\ now \in [Invocations -> Nat]
    /\ attempt \in [Invocations -> Nat]
    /\ request \in [Invocations -> PutRequest]
    /\ answer \in [Invocations -> Nat]
    /\ ledger \in Seq(Invocations)
    /\ floor \in [Invocations -> Nat]
    /\ outdated \in [Invocations -> Nat]

\* The stored list never holds two entries for one visitor, although a visitor
\* whose entry has expired is pushed while that entry is still in the list: the
\* pruning that follows drops exactly what the lookup did not find recent.
TagsUnique == UniqueTags(item.recent_visitors)

\* The stored count is the number of accepted puts that counted a visit: under concurrent
\* invocations, stale reads, resent, delayed and lost puts no increment is lost,
\* undone or written over by another one.
CountIsLedger == item.count = Len(ledger)

\* A returned count was the count at some moment between call and return, so an
\* invocation that starts after another has returned never returns less than it,
\* even when it reads a stale version.
AnswersInWindow ==
    \A i \in Invocations :
        pc[i] = "done" => /\ answer[i] > 0
                          /\ floor[i] <= answer[i]
                          /\ answer[i] <= item.count

\* The second that the stored entry of a counted visit says.
CountedAt(k) == seen[ledger[k]] \div TICKS_PER_SEC

\* The invocations that have called the store, whose times are settled.
Called(i) == pc[i] \notin {"idle", "identified"}

\* The last tick at which an invocation may be running.
Deadline(i) == seen[i] + LAMBDA_TIMEOUT * TICKS_PER_SEC

\* As many other visitors as the list has room for have come between the visit of
\* invocation i, or its second, and the tick t.
Crowded(i, t) ==
    \E others \in SUBSET (Tags \ {TagOf[i]}) :
        /\ IsFiniteSet(others)
        /\ Cardinality(others) = MAX_RECENT_VISITORS
        /\ \A other \in others : \E j \in Invocations :
              /\ TagOf[j] = other
              /\ Called(j)
              /\ now[j] \div TICKS_PER_SEC >= seen[i] \div TICKS_PER_SEC
              /\ now[j] <= t

\* One visitor is not counted twice within RECENT_CUTOFF, up to the time that an
\* invocation may run, unless the list was filled by others between the two visits:
\* no interleaving of the invocations, no stale read, no put that is lost, late or
\* sent twice and no cull makes the program forget it earlier.
DedupWindow ==
    \A k, l \in DOMAIN ledger :
        k < l /\ TagOf[ledger[k]] = TagOf[ledger[l]]
            => \/ now[ledger[l]] >=
                    (CountedAt(k) + RECENT_CUTOFF - LAMBDA_TIMEOUT) * TICKS_PER_SEC
               \/ Crowded(ledger[k], Deadline(ledger[l]))

\* An attempt of the optimistic lock fails only for a visit that was counted since
\* the call, or for a get that returned a count no longer current, and each of these
\* costs an invocation one attempt at most: no refresh of the list, by however many
\* invocations, no put sent twice and no late put ever makes it start over otherwise.
ConflictsExplained ==
    \A i \in Invocations :
        attempt[i] > 0 => attempt[i] <= item.count - floor[i] + outdated[i]

\* store.rs:36 says that an invocation whose put fails its condition reloads the
\* current count: then as many visits were counted since its call as its attempts
\* that failed.
ConflictsAreCounted ==
    \A i \in Invocations :
        attempt[i] > 0 => attempt[i] <= item.count - floor[i]

\* The list is no longer than MAX_RECENT_VISITORS, so that the item can be put.
ListFits == Cardinality(item.recent_visitors) <= MAX_RECENT_VISITORS

\* The counter behaves as VisitorCounter: it counts every invocation at most once
\* and answers none whose visitor was not counted.
Counter == INSTANCE VisitorCounter
ImplementsCounter == Counter!Spec

\* The steps that invocation i can still take: for every attempt that is left a get,
\* with the send that follows it, the other sends of its put, and the put's result.
StepsLeft(i) ==
    IF Finished(i) THEN 0
    ELSE (MAX_ATTEMPTS_FOR_OPTIMISTIC_LOCKING - attempt[i]) * (MAX_SENDS + 1)
         + (CASE pc[i] = "idle" -> 2
              [] pc[i] = "identified" -> 1
              [] pc[i] = "get" -> 0
              [] pc[i] = "put" -> -request[i].send)

Local(i) == <<pc[i], seen[i], now[i], attempt[i], request[i], answer[i], floor[i]>>

\* The work of an invocation is bounded: each of its steps leaves it fewer ones, also
\* those that go back to the get or send a put again, so that no order of events
\* makes it take more than StepsLeft says when it starts.
CallAdvances(i) == Local(i)' # Local(i) => StepsLeft(i)' \in 0 .. StepsLeft(i) - 1
CallsAdvance == [][\A i \in Invocations : CallAdvances(i)]_vars

\* An invocation that has called the store finishes: the retry loop is bounded, and no
\* put is awaited forever, although it or its answer may be lost.
CallsEnd == \A i \in Invocations : pc[i] = "get" ~> Finished(i)

\* store.rs:414 and store.rs:426 expect that no entry of a loaded list is later
\* than the now of the invocation that loads it.
NowIsAfterLastSeen == \A i \in Invocations : pc[i] # "panicked"

\* store.rs:34 says that the optimistic lock keeps concurrent invocations from
\* overwriting each other's updates: the update of a visitor's last_seen that an
\* invocation made is not undone by another one.
LastSeenNeverRewinds ==
    [][\A v \in item.recent_visitors, w \in item'.recent_visitors :
          v.tag = w.tag => v.last_seen <= w.last_seen]_item
=============================================================================
