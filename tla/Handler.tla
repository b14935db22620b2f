------------------------------- MODULE Handler -------------------------------
(***************************************************************************)
(* The Lambda function of src/src/bin/bootstrap.rs with the extraction of  *)
(* src/src/request_info.rs: requests for several named counters, the       *)
(* checks that refuse some of them, the call of the store for the others   *)
(* and the response with the count.                                        *)
(*                                                                         *)
(* Requests are handled concurrently, by processes that share only the     *)
(* table.  The store is what VisitorCounter says of it, once for each      *)
(* name: it counts the invocation or finds its visitor counted before, and *)
(* answers or fails.                                                       *)
(***************************************************************************)
EXTENDS Naturals, Sequences

CONSTANTS
    Requests,       \* the requests made
    Event,          \* Event[r]: what request r carries
    Names,          \* the names of counters that requests or settings mention
    Settings,       \* the values that DGVC_ALLOWED_NAMES may have
    Agents,         \* user agents that are no bot's
    Addresses,      \* source addresses
    TagOf           \* TagOf[<<address, agent>>]: the hash that identifies a visitor

\* A field that a request lacks, and a user agent of a bot.
Missing == "missing"
Bot == "bot"
Default == "default"

Events ==
    [root: BOOLEAN,                        \* whether uri().path() is "/"
     context: BOOLEAN,                     \* whether it has a request context
     user_agent: Agents \cup {Missing, Bot},
     source_ip: Addresses \cup {Missing},
     name: Names \cup {Missing}]           \* the query parameter

ASSUME NamesAssumption == Default \in Names /\ Missing \notin Names
ASSUME EventAssumption == Event \in [Requests -> Events]
ASSUME AgentsAssumption == {Missing, Bot} \cap Agents = {} /\ Missing \notin Addresses

\* The list after split(','), which is never empty: {} is for a variable not set.
ASSUME SettingsAssumption == Settings \subseteq SUBSET Names

VARIABLES
    allowed,    \* Config::allowed_names, {} before main has read it
    pc,         \* where each request is
    count,      \* what the store returned for it, 0 for nothing yet
    response,   \* what its sender received
    ledger,     \* for each name, the requests counted under it, in order
    told        \* history: what others had been told when it was admitted

vars == <<allowed, pc, count, response, ledger, told>>

-----------------------------------------------------------------------------
(* The request *)

\* RequestInfo::try_from: the first check that fails.  The one of the context is an
\* expect, which aborts the process.
RequestInfo(e) ==
    IF ~e.context THEN "Panics"
    ELSE IF e.user_agent = Missing THEN "MissingUserAgent"
    ELSE IF e.user_agent = Bot THEN "LooksLikeABot"
    ELSE IF e.source_ip = Missing THEN "MissingSourceIp"
    ELSE "Ok"

CountName(e) == IF e.name = Missing THEN Default ELSE e.name

VisitorTag(e) == TagOf[<<e.source_ip, e.user_agent>>]

\* Mutant: the allow list is not consulted.
AdmittedWhateverName(e) == e.root /\ RequestInfo(e) = "Ok"

\* The requests that get as far as the store.
Admitted(e) ==
    e.root /\ RequestInfo(e) = "Ok" /\ CountName(e) \in allowed

\* What the others are answered with; after a panic the runtime answers.
NoImage(status) == [status |-> status, name |-> Missing, count |-> 0]

Refusal(e) ==
    IF e.root /\ RequestInfo(e) \in {"Panics", "MissingUserAgent", "MissingSourceIp"}
    THEN NoImage("error") ELSE NoImage("not_found")

NoResponse == NoImage("none")

Responses ==
    [status: {"ok"}, name: Names, count: Nat \ {0}]
        \cup {NoImage(status) : status \in {"none", "not_found", "error"}}

-----------------------------------------------------------------------------
(* Actions *)

Counted(n) == {ledger[n][k] : k \in DOMAIN ledger[n]}

Init ==
    /\ allowed = {}
    /\ pc = [r \in Requests |-> "idle"]
    /\ count = [r \in Requests |-> 0]
    /\ response = [r \in Requests |-> NoResponse]
    /\ ledger = [n \in Names |-> <<>>]
    /\ told = [r \in Requests |-> {}]

\* Config::from_env, before the first request.
Start ==
    /\ allowed = {}
    /\ \E setting \in Settings :
          allowed' = IF setting = {} THEN {Default} ELSE setting
    /\ UNCHANGED <<pc, count, response, ledger, told>>

\* A request comes, and is refused or identified.
Receive(r) ==
    LET e == Event[r]
    IN  /\ allowed # {}
        /\ pc[r] = "idle"
        /\ \/ /\ Admitted(e)
              /\ pc' = [pc EXCEPT ![r] = "store"]
              /\ told' = [told EXCEPT ![r] =
                             {response[s].count : s \in {s \in Requests :
                                  response[s].name = CountName(e)}}]
              /\ UNCHANGED response
           \/ /\ ~Admitted(e)
              /\ pc' = [pc EXCEPT ![r] = "done"]
              /\ response' = [response EXCEPT ![r] = Refusal(e)]
              /\ UNCHANGED told
        /\ UNCHANGED <<allowed, count, ledger>>

\* Mutant: the answer is the count before the increment.
StoreCountsBefore(r) ==
    LET n == CountName(Event[r])
    IN  /\ pc[r] = "store"
        /\ r \notin Counted(n)
        /\ ledger' = [ledger EXCEPT ![n] = Append(@, r)]
        /\ \/ /\ pc' = [pc EXCEPT ![r] = "render"]
              /\ count' = [count EXCEPT ![r] = Len(ledger[n])]
           \/ UNCHANGED <<pc, count>>
        /\ UNCHANGED <<allowed, response, told>>

\* The store counts the request.  The answer may get lost, and the store look again.
StoreCounts(r) ==
    LET n == CountName(Event[r])
    IN  /\ pc[r] = "store"
        /\ r \notin Counted(n)
        /\ ledger' = [ledger EXCEPT ![n] = Append(@, r)]
        /\ \/ /\ pc' = [pc EXCEPT ![r] = "render"]
              /\ count' = [count EXCEPT ![r] = Len(ledger'[n])]
           \/ UNCHANGED <<pc, count>>
        /\ UNCHANGED <<allowed, response, told>>

\* Mutant: the visitor is looked up in the list of another counter.
StoreKnowsAnyName(r) ==
    LET n == CountName(Event[r])
    IN  /\ pc[r] = "store"
        /\ \E m \in Names : \E s \in Counted(m) :
              VisitorTag(Event[s]) = VisitorTag(Event[r])
        /\ pc' = [pc EXCEPT ![r] = "render"]
        /\ count' = [count EXCEPT ![r] = Len(ledger[n])]
        /\ UNCHANGED <<allowed, response, ledger, told>>

\* The store knows the visitor from the list of this counter.
StoreKnows(r) ==
    LET n == CountName(Event[r])
    IN  /\ pc[r] = "store"
        /\ \E s \in Counted(n) : VisitorTag(Event[s]) = VisitorTag(Event[r])
        /\ pc' = [pc EXCEPT ![r] = "render"]
        /\ count' = [count EXCEPT ![r] = Len(ledger[n])]
        /\ UNCHANGED <<allowed, response, ledger, told>>

\* The put of a request that failed, or whose Lambda was killed, arrives late.
\* (After an answer none is left that the table would accept: see ImplementsCounter.)
LateCount(r) ==
    LET n == CountName(Event[r])
    IN  /\ pc[r] = "failed"
        /\ count[r] = 0
        /\ r \notin Counted(n)
        /\ ledger' = [ledger EXCEPT ![n] = Append(@, r)]
        /\ UNCHANGED <<allowed, pc, count, response, told>>

\* The store or the encoding fails, or the Lambda panics or is killed.
Fail(r) ==
    /\ pc[r] \in {"store", "render"}
    /\ pc' = [pc EXCEPT ![r] = "failed"]
    /\ response' = [response EXCEPT ![r] = NoImage("error")]
    /\ UNCHANGED <<allowed, count, ledger, told>>

\* Mutant: the response names the counter that is the default.
RespondDefault(r) ==
    /\ pc[r] = "render"
    /\ pc' = [pc EXCEPT ![r] = "done"]
    /\ response' = [response EXCEPT ![r] =
                       [status |-> "ok", name |-> Default, count |-> count[r]]]
    /\ UNCHANGED <<allowed, count, ledger, told>>

\* The image and the headers x-count-name and x-count.
Respond(r) ==
    /\ pc[r] = "render"
    /\ pc' = [pc EXCEPT ![r] = "done"]
    /\ response' = [response EXCEPT ![r] =
                       [status |-> "ok", name |-> CountName(Event[r]), count |-> count[r]]]
    /\ UNCHANGED <<allowed, count, ledger, told>>

Next ==
    \/ Start
    \/ \E r \in Requests :
          \/ Receive(r)
          \/ StoreCounts(r) \/ StoreKnows(r)
          \/ Fail(r) \/ LateCount(r) \/ Respond(r)

Spec == Init /\ [][Next]_vars

-----------------------------------------------------------------------------
(* Properties *)

\* Every variable has its type.
TypeOK ==
    /\ allowed \subseteq Names
    /\ pc \in [Requests -> {"idle", "store", "render", "failed", "done"}]
    /\ count \in [Requests -> Nat]
    /\ response \in [Requests -> Responses]
    /\ ledger \in [Names -> Seq(Requests)]
    /\ told \in [Requests -> SUBSET Nat]

\* Only a person's request for the root path is counted, only under the name it
\* asked for, and only if that name is allowed: a counter that nobody configured
\* is never created in the table, whatever else is counted meanwhile.
OnlyVisitorsCounted ==
    \A n \in Names : \A r \in Counted(n) :
        /\ n \in allowed
        /\ Event[r].root /\ Event[r].user_agent \in Agents
        /\ Event[r].name \in IF n = Default THEN {n, Missing} ELSE {n}
        /\ response[r].status # "not_found"

\* The count in a response includes its caller: the visitor is among the first
\* x-count that were counted under x-count-name, by this request or by an earlier one
\* of the same visitor, also one whose sender was told of a failure.
CallerIsCounted ==
    \A r \in Requests :
        response[r].status = "ok" =>
            \E k \in 1..response[r].count :
                /\ k <= Len(ledger[response[r].name])
                /\ VisitorTag(Event[ledger[response[r].name][k]]) = VisitorTag(Event[r])

\* A counter never seems to go back: a response never has a smaller x-count than a
\* response with the same x-count-name that had been given when its request came,
\* however the handling of the two, and of others, interleaves.
AnswersNeverGoBack ==
    \A r \in Requests :
        response[r].status = "ok" =>
            /\ \A c \in told[r] : c <= response[r].count
            /\ response[r].name = CountName(Event[r])
=============================================================================
