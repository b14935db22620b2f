# A verification of the digital garden visitor counter

This directory holds TLA+ models of the visitor counter (a Lambda function that
counts the visitors of a page in DynamoDB and answers with the count as an
image), the TLC configurations that check them on small instances, and proofs
that TLAPS checks for every value of the constants.

All sources below are relative to the root of the repository. The Rust crate is
in `src/`, so its store is `src/store.rs`, and `PROJECT.json` names it with the
directory the repository is checked out in (`src/src/store.rs`).

## The system

| Part | Source | State | Operations |
|---|---|---|---|
| Visitor store | `src/store.rs` | one DynamoDB item per counter: `count`, and `value`, the CBOR list of recent visitors; in memory, one `CountEntry` per attempt | `maybe_increment_visitors` = `get_count_entry`, `find_recent_mut`, `prune_visitors`, then `try_put_new_count_entry` or `try_put_count_entry`, up to 5 times |
| Request handler | `src/bin/bootstrap.rs` | none beyond one request; the configuration is read once | path check, `RequestInfo`, `Visitor`, name, allow list, store, render, respond |
| Request information | `src/request_info.rs` | none | user agent, bot check, source IP |
| Rendering | `src/counter.rs` | the pixel buffer of one image | `render_separated_number`, glyph blits, PNG |
| Infrastructure | `infrastructure/` | none | table with one string key, Lambda with a timeout of one second, function URL |
| Local test and benchmark | `local-render-test/`, `benches/` | none | call the rendering |

How they interact: every request starts, or reuses, a Lambda process, which
handles one request at a time; several processes run at once. Processes share
nothing but the table. The handler reads the system clock twice, once for the
visitor's `last_seen` (`Visitor::from`, `src/bin/bootstrap.rs:82`) and once for
`now` (`src/bin/bootstrap.rs:98`), both before the store is asked for anything.
The store awaits the SDK, which awaits the table; the SDK has timeouts of its own
and sends a request again once (`RetryConfig::standard().with_max_attempts(2)`).
The crate is built with `panic = "abort"`, so a panic ends the process.

What is hard, and nearly untested by the repository's tests (which drive one
invocation against a mock):

 * interleaving: invocations load, compute and put concurrently, and only the
   condition of the put orders them;
 * stale reads: `get_item` is called with its default, eventual consistency;
 * lost, late and repeated puts: the put may be accepted although its sender was
   told of an error, or heard nothing and sent it again;
 * the kill after a second, and panics, between any two steps;
 * time: `now` is older than what the invocation then loads, the stored times are
   whole seconds, and the lookup and the pruning use the same cutoff separately;
 * the bound on the list, and the layout arithmetic of the image.

What makes each part correct:

 * store: no increment is lost or applied twice; an answer is a count between call
   and return; a visitor is not counted again within the cutoff; the list keeps
   one entry per visitor and fits in the item; every call ends;
 * handler: only allowed names and requests that are no bots reach the table; a
   caller that is answered with a count was counted;
 * rendering: no write outside the buffer, digits do not overlap, the image keeps
   its width while the number fits the reserved width.

## Modules

| Module | What it models |
|---|---|
| `RecentVisitors` | the list of recent visitors, as a set, and the pure operations on it: conversion to and from the stored form, lookup, pruning, the update one visit makes |
| `Store` | one counter: the invocations that call the store for it, the item, the versions a stale read may return, the puts on the network, the clock; the properties |
| `VisitorCounter` | the abstract counter: a ledger of the invocations counted, and the answers |
| `StoreInvariant` | the inductive invariants of `Store`, in named parts |
| `MCStore` | instances of `Store` for TLC |
| `VisitorList` | the list as the `Vec` it is, absolute times, clocks that disagree; the same operations as `RecentVisitors`, shown to do the same |
| `ItemSize` | the bytes of the encoded list against the limit of an item |
| `MCItemSize` | lists for `ItemSize` |
| `Handler` | the Lambda function: the checks of a request, the allow list and its setting, requests for several named counters, the response; the store enters as its abstract specification |
| `MCHandler` | instances of `Handler` for TLC |
| `Font` | the glyph bitmaps, the place of a digit in them, the width of a text |
| `CounterRender` | the layout of the image and the drawing of a number, group by group, and the pixels |
| `MCCounterRender` | instances of `CounterRender` for TLC |
| `RecentVisitorsProofs` | lemmas about the list operations |
| `VisitorListProofs` | the theorems about `VisitorList` |
| `StoreProofs` | the theorems about `Store` alone |
| `StoreRefinementProofs` | that `Store` implements `VisitorCounter` |
| `HandlerProofs` | the theorems about `Handler` |
| `ItemSizeProofs` | that the item fits |
| `CounterRenderProofs` | the theorems about `CounterRender` |

The modules compose as follows. `Store` uses `RecentVisitors` for what one visit
makes of the list. `VisitorList` stands beside it and justifies its abstractions:
the set for the `Vec`, and times without the offset. `Store` implements
`VisitorCounter` (`ImplementsCounter`), and `Handler` takes the same promises for its
store, one `VisitorCounter` for each name. That items of different names do not
disturb each other is an assumption of `Handler`: every request of the store to the
table carries the name as its key (`src/store.rs:307`, `:359`, `:388`).

### State and actions of `Store`

An invocation is a call of `maybe_increment_visitors` for the counter; its `pc`
says where it is: `idle`, `identified` (the visitor has been made), `get` (awaits
`get_item`), `put` (awaits `put_item`), or one of the ends `done`, `failed`,
`panicked`. `seen`, `now`, `attempt` and `request` are its local variables,
`answer` what it returned. `item` is the item in the table and `stale` the
versions that were replaced; `network` holds the put requests that the table has
not handled. `ledger`, `floor` and `outdated` are history variables that no action
reads: who was counted, in order, the count when each call began, and how many of
its gets returned a count that was no longer current.

| Action | Code |
|---|---|
| `Identify` | `Visitor::from(&request_info)` reads the clock |
| `Call` | the handler reads the clock for `now` and calls the store |
| `GetFails` | `get_item` ends with an error, or the item does not decode |
| `GetNothing` | there is no item: `try_put_new_count_entry` sends its put |
| `GetPanics` | an `expect("now is after last_seen")` fails |
| `GetSome` | the item is loaded, the visit recorded, the list pruned, and `try_put_count_entry` sends its put |
| `ResendPut` | the SDK sends the put again |
| `PutSucceeds`, `PutConflicts`, `PutFails` | the result of `put_item` |
| `Kill` | the Lambda's timeout, or a crash |
| `AcceptUnheard` | the table accepts a put of which nobody hears |
| `Tick` | time passes |

Between the load and the put the code computes only on local data, so loading and
sending are one step; the delays before and after it are the put's on the network
and the reads of replaced versions. A put that the table refuses and whose sender
does not wait for it changes nothing, like one that never arrives, so neither is
an action.

Abstractions. The list is a set: with one entry per tag (`TagsUnique`, proved)
the order matters only to the cull among entries of the same instant, which the
model leaves open; `UpdatesAsSet` of `VisitorList` checks that the `Vec` does one
of the things the set may do. Times are counted from `TIMESTAMP_OFFSET`. All hosts
read one clock that does not go back (`VisitorList` has the other case); the panic
that `NowIsAfterLastSeen` shows needs no clock skew. A GetItem may return any version that ever was, which is weaker than
what DynamoDB gives. A tag stands for a visitor: that two visitors may share a
32-bit hash is not modelled.

### State and actions of `VisitorList`

Visits of one counter, one after the other; whether the put is accepted is the
business of `Store`. `stored` is the list as a sequence, in the order in which it is
serialised, and `visitor` the visitor between the two readings of the clock. `clock`
is the clock of the host at work, in ticks since the epoch: `MoveClock` lets it
advance by one tick or go back by up to `MaxSkew`, when it is set or when a host
that is behind takes over. `latest`, `result` are history.

| Action | Code |
|---|---|
| `Identify` | `Visitor::from(&request_info)` |
| `CreateItem` | the visit finds no item: the visitor is converted to the stored form, or an `expect` of the conversion fails |
| `UpdateItem` | load, `find_recent_mut`, refresh or push, `prune_visitors` with its filter, stable sort and `truncate`, and the conversion; or one of the `expect`s on the way fails |

The stored time is an integer modulo `U32_MAX + 1`, so that a conversion that
wrapped would show.

### State and actions of `ItemSize`

`to_cbor` writes a list of visitors one after the other; `bytes` is what was
written. `Kept` is the cull, and the sizes are those of the CBOR heads: an entry is
a map of two names of one letter and two integers of at most 5 bytes, so at most
15 bytes, the `SIZE_SINGLE_VISITOR_BYTES` of the code. How DynamoDB counts the other
attributes is taken from its documentation's rules, with a name of at most 1000
bytes.

### State and actions of `Handler`

A request is a record of what the checks look at: whether its path is the root, its
user agent and address (each may be missing, the agent may be a bot's), and the
name in its query, and whether the runtime gave it a request context. Its `pc` is `idle`, `store` (the store was called), `render` (it
has returned), `failed` or `done`. `allowed` is the configuration, which `Start`
reads before the first request; a setting that is absent is the empty set, which no
`split` yields. `ledger` is the table, one ledger for each name.
`told` is a history variable: the counts of the same name that had been given when
the request was admitted.

| Action | Code |
|---|---|
| `Start` | `main`, `Config::from_env` |
| `Receive` | `function_handler` up to the call of the store: refused with 404 or an error (also that of the panic without a request context), or admitted |
| `StoreCounts`, `StoreKnows` | what `maybe_increment_visitors` does for the request, as `Count` and `Answer` of `VisitorCounter`; an answer may get lost |
| `LateCount` | a put that arrives after its sender has failed |
| `Fail` | an error of the store or the encoder, a panic, the kill |
| `Respond` | the image with its headers |

`Handler` and `Store` meet in `VisitorCounter`: `ImplementsCounter` says that one
counter of `Store` implements it, and the store actions of `Handler` are its actions,
on the ledger of the request's name.

### State and actions of `CounterRender`

`text` and `reserve_width` are the arguments, the number as its digits; `drawn`
and `x` are the loop over the groups, and `glyphs` stands for the pixels: the
digits that were blitted, each with its left column. `Init` is the computation of
the size and the first column, `DrawGroup` one iteration, with all blits of the
group. The rows are the same for all glyphs, so a write beyond the buffer or into
the next row shows in the column of a glyph and in the index of its last byte.
`Shows(x, d)` goes down to the pixels: the columns from `x` on show digit `d`, after
all blits with their backgrounds, with the bitmaps of `Font`.

## Runs

| Run | Instance | Question |
|---|---|---|
| `store_safety` | 3 invocations of 2 visitors, stale reads, 2 attempts, 1 send, 4 ticks | are counts, answers, tags and deduplication right under every interleaving, and what makes an attempt fail? |
| `store_resend` | 2 invocations of 1 visitor, stale reads, 2 sends of each put, half-second ticks | are the invariants that the proofs rest on kept where they could fail first, with resends and truncated seconds, and does the store implement `VisitorCounter`? |
| `store_cull` | 3 invocations, current reads, 3 attempts, room for 1 of 2 visitors | does the cull keep the list bounded, cost no increment and forget a visit only for a later visitor's sake, and does the inductive invariant hold although visitors are crowded out? |
| `store_live` | 2 invocations, stale reads, 2 sends, 1 tick | does every call end, and does each of its steps bring it nearer to its end? |
| `handler` | 2 visitors of 2 names, one with two requests for one of them, 4 requests refused or ended each for its own reason, allow list set or not | does what is refused leave no trace, does an answer count its caller, does no counter go back? |
| `visitor_list` | 3 visitors, a list of 2, clocks set back by up to 3 ticks, stored times of 2 bits | does the `Vec` keep one entry per visitor and do what the set does, is no time stored as another, and does a counter that panics recover? |
| `item_size` | the longest list of the largest entries, one more, and lists at the sizes where a CBOR head grows | does the item fit? |
| `render` | 16 numbers of 1 to 10 digits, 0 to 12 reserved | is every glyph in its place, in bounds and readable? |
| `store_panic` | violation | the panic of an invocation whose `now` is older than the list |
| `store_rewind` | violation | a refresh overwritten by a put with the same expected count |
| `store_stale` | violation | an attempt that fails although nothing was counted |
| `render_align` | violation | numbers with full groups end elsewhere |

Bounds. Two invocations of one visitor and one of another are the least in which
a visit, its repetition and a stranger between them interleave. Two attempts let
every invocation conflict, start over and give up; three let it lose to both others
and still succeed. The cutoff is two
seconds and the Lambda's timeout one, so that a visit can expire
during a run of three or four seconds while an invocation cannot outlive the cutoff
(the code has 7200 and 1). `store_resend` runs on ticks of half a second, so that
the stored time is really truncated, up to tick 5. The proofs have none of these
bounds. Alice's two invocations are interchangeable, so `store_safety`, `store_cull`
and `store_resend` use symmetry, and `handler` does for the two requests of one
visitor; `store_live` does not, since symmetry is unsound for liveness. Deadlock is not
checked: the system stops when all invocations have ended and the clock has
reached its bound.

Three visitors and a list of two are the least in which the cull has a choice
between entries of the same second. With stored times of two bits and an offset of
one second, the model's clock starts before the offset and runs past the last time
that can be stored. The instance of `item_size` has the constants of the code.

The handler's visits are one visitor at two counters, twice at the second, and
another visitor at the second: the least in which a lookup in the wrong counter, or
an answer under the wrong name, shows, and in which a visitor asks again after a
failure that had counted it. The lengths of the drawn numbers and of the
reservations cover every remainder by three on both sides of each other; ten digits
are the most that TLC's integers have.

Fairness. `FairSpec` assumes weak fairness of `Proceed(i)`, what an invocation
does by itself. The code justifies it: the SDK's operation timeout of 200 ms ends
every call with some result, and an executor that runs the Lambda polls the task.
Nothing is assumed of the table, of the network or of which result a call has.

## What the runs found

 * `store_panic`: `now` is read before the item is loaded, so the list may hold an
   entry that another invocation made later. `duration_since` is then an error,
   and `src/store.rs:414` or `src/store.rs:426` panics with "now is after
   last_seen". Two requests within a second, one overtaking the other, suffice.
 * `store_rewind`: the condition of the put is the count alone. A refresh does not
   change the count, so a put made from the version before the refresh is accepted
   and undoes it, which the comment at `src/store.rs:34` excludes. What is lost is
   a refresh; `DedupWindow` shows that no counted visit is forgotten over it.
 * `store_stale`: the reload after a conflict is eventually consistent and may
   return the version whose count was just refused, so an attempt is spent with
   nobody counted since (`src/store.rs:36` says that it reloads the current count).

 * `render_align`: a number of 3, 6 or 9 digits ends three pixels left of the right
   edge where the others end, since the first column skips a space for each three
   digits and the number has one space less than it has full groups. The comment at
   `src/counter.rs:72` promises right alignment.

Seen while modelling, with no run of its own: the comments at
`src/bin/bootstrap.rs:28` and `:32` name variables `GHC_TABLE_NAME` and
`GHC_ALLOWED_NAMES`; the code and the deployment use `DGVC_TABLE_NAME` and
`DGVC_ALLOWED_NAMES`.

Seen while modelling `VisitorList`, and allowed by `OutageEnds`: a visit made by a
host whose clock is ahead, or before a clock is set back, stops the counter for every
visitor, since the lookup or the pruning panics on its entry, until the other clocks
have passed it. No time is ever stored as another one, and once a clock has caught up
the counter works as before.

## Proofs

TLAPS checks the theorems below for every value of the constants, under the named
assumptions of the modules, which TLC evaluates in the runs, and those in the
theorems themselves.

### The store

For every set of invocations and visitors, every number of attempts and sends,
every cutoff, timeout and clock resolution, and an unbounded clock
(`MaxClock` is any number):

| Theorem | States |
|---|---|
| `TypeCorrect` | `Spec => []TypeOK` |
| `CountCorrect` | `Spec => []CountIsLedger` |
| `AnswersCorrect` | `Spec => []AnswersInWindow` |
| `LockCorrect` | `Spec => []ConflictsExplained` |
| `TagsCorrect` | `Spec => []TagsUnique` |
| `ListBoundCorrect` | `Spec => []ListFits` |
| `AdvanceCorrect` | `Spec => CallsAdvance` |
| `InvariantCorrect` | `Spec => []IInv` |
| `DedupCorrect` | `Spec => []DedupWindow` |
| `RefinementInvariantCorrect` | `Spec => []RefinementInv` |
| `ImplementsCorrect` | if two Lambda timeouts are less than the cutoff, `Spec /\ []NoRush => ImplementsCounter`: never in the time of one invocation do as many other visitors come as the list holds |
| `ImplementsWithRoom` | the same without `[]NoRush`, if the visitors are finitely many and fit in the list (`RoomForAll`) |

The argument. A property of the item is not inductive by itself, since the next
item is a put that is already on its way, made from a version that may be long
replaced. So `StoreInvariant` speaks of every readable version and of every
*pending* put: those on the network, and those a waiting invocation may send
again. Its parts:

 * `CountInv`: a pending put expects a count that existed and adds at most one to
   it. With the condition of the put, this makes the count the length of the
   ledger.
 * `ListInv`: every list has unique tags and fits. That a push after an expired
   entry leaves the tag unique is `RecordedUnique`: the lookup and the pruning ask
   the same question, so the pruning drops what the lookup did not find.
 * `TimeInv`: the times of a running invocation are in order and within its
   deadline, and those of a counted one are settled.
 * `VisitInv`: every entry of a list, readable or pending, is of a visitor whose
   invocation has called the store, at the entry's second or later and by now.
 * `MemoryInv`: a version with count n has an entry at least as late for every one
   of the first n counted visits, or the cutoff has passed, or the visit is
   `Crowded`: as many other visitors as the list holds have come since. When the put
   of a second visit is made, that has become "between the two visits". A put
   remembers as much as the version it was made from, and the visit it counts. This
   survives lost refreshes and stale versions, because an older version remembers
   fewer visits but also expects a smaller count.
 * `WorkInv`: an invocation that has not ended has an attempt left, and none of its
   sends is beyond the last. From it, `AdvanceCorrect`: what a step can do to an
   invocation is one of six things (`Advances`), and each lowers `StepsLeft`.
 * `LockInv` (in `StoreProofs`): the awaited put expects a count that has grown with
   every failed attempt but those of outdated gets; if it does not, its own failure is
   explained already, by a visit counted since it was made or by its own get.

`Steps` reduces the actions to three kinds (nothing new, a put accepted, a put
sent), which the later parts use instead of the full list.

A full list costs the invariant nothing but the word "unless". The cull drops an
entry only when the list holds `MAX_RECENT_VISITORS` others that are at least as
late, and by `VisitInv` each of them stands for a visitor that came then
(`FullMeansCrowded`). Once a visit is crowded it stays so (`CrowdStays`), because
invocations that have called the store are never forgotten.

For the refinement, the abstract counter counts an invocation at most once and
answers only an invocation whose visitor was counted. That takes four parts more:

 * `AttemptInv`: of all puts of an invocation only those of its last attempt can
   still be accepted. It starts over only after a refusal, and the refused condition
   is below the count for good.
 * `TagInv`: whoever is in a list was counted, or is about to be by the put the list
   is in. So a refresh answers for a visitor that was counted.
 * `SettledInv`, `OwnInv`: the times of an invocation are within its time even when
   it has ended, and the put it awaits is its own.

That an invocation is not counted twice, although its put may be sent twice and its
attempts start over, is then an instance of `PutsApart`, the deduplication, with
both visits the same: two counted visits of a visitor are a cutoff less a timeout
apart, and the visit of one invocation is over within a timeout. The code's cutoff
is 7200 times its timeout.
The condition on the timeout is what this argument needs, and
no more is claimed: the instance of `store_resend`, where two timeouts are the
cutoff, implements `VisitorCounter` as well. `NoRush` is really needed: an invocation
whose put was accepted, and is sent again because the answer was lost, starts over
when the second one conflicts, and if the others have crowded its visitor out by
then it counts it again. The code would need 26598 other visitors of one counter in
a second for that.

### The handler

For every set of requests, names, agents, addresses and settings:

| Theorem | States |
|---|---|
| `HandlerTypeCorrect` | `Spec => []TypeOK` |
| `VisitorsCorrect` | `Spec => []OnlyVisitorsCounted` |
| `CallerCorrect` | `Spec => []CallerIsCounted` |
| `NeverBackCorrect` | `Spec => []AnswersNeverGoBack` |

`HInv` ties together the stage of a request, its response and the ledgers: a request
that passed the checks has an allowed name; whoever has a count was counted in
the ledger of that name, among the first so many; and no count that was told
exceeds the ledger of its name.

### The list

For every set of visitors, every offset, cutoff, bound and width of the stored
times, and clocks that are set back by any amount:

| Theorem | States |
|---|---|
| `ListInvariantCorrect` | `Spec => []IInv` |
| `ListTypeCorrect` | `Spec => []TypeOK` |
| `AsSetCorrect` | `Spec => UpdatesAsSet` |
| `PanicCorrect` | `Spec => PanicsAsSet` |
| `StoredTimesCorrect` | `Spec => StoredTimesTrue` |
| `OutageCorrect` | `Spec => OutageEnds` |

The argument has three parts. First the operators: a list can be put in any strict
order by a permutation of its places, so the places that the filter keeps and the
places of the sorted list exist, and the filter, the stable sort and the
`truncate` give a list of the entries that `RecentVisitors` says, without
repetitions. Then the invariant: `UniqueList`, one entry for each visitor, and
`TimesPassed`, no stored time later than any clock has shown; neither the lookup
nor the cull can be replaced by what it does to a set without the first, and an
outage has no end without the second. Last, the operations one by one: with
unique entries the first match of the lookup is the only one, the refresh in place
is the replacement of an entry, and the filter and the truncation are those of the
set, whichever of the entries of one second the sort puts first.

### The size of the item

`ItemFitsCorrect` states `Spec => []ItemFits` for every list of visitors and every
name of up to 1000 bytes. An entry takes at most 15 bytes (`VisitorFits`), and
26598 of them with the 6 bytes of the heads are 398976: exactly what
`DYNAMO_MAX_ITEM_SIZE_BYTES` less `RESERVED_NON_VALUE_SIZE_BYTES` leaves. One visitor
more, or heads one byte larger, would not fit.

### The rendering

For every number and reserved width:

| Theorem | States |
|---|---|
| `RenderTypeCorrect` | `Spec => []TypeOK` |
| `LayoutCorrect` | `Spec => []Layout` |
| `BoundsCorrect` | `Spec => []InBounds` |
| `LegibleCorrect` | `Spec => []Legible` |
| `EdgeCorrect` | `Spec => []EndsNearRightEdge` |
| `SameWidthCorrect` | `Spec => []SameWidth` |
| `ReadableCorrect` | `Spec => []DigitsReadable` |

`Layout` is the inductive invariant: the column of the k-th digit by one formula
over the whole number, which the loops over groups and digits reach by adding up.
The step needs that all digits of a group have the same number of spaces before
them (`SpacesBefore`); the rest is arithmetic about the formula. From it follows
that glyphs never overlap, so that the pixels at the place of a digit are those of
its own bitmap; that no two bitmaps are alike is `GlyphsAssumption`, which TLC
evaluates on the bitmaps of the code. That the decimal digits of a number are a
non-empty sequence of digits (`ToStringType`), and that no two numbers have the same
ones (`ToStringTells`), is proved from the recursion of `ToString`. The induction
over numbers is done by hand, since the prover cannot instantiate a theorem with an
operator: if some number had no such digits there would be a least one
(`LeastNumber`), and the recursion leads from it to a smaller one. In the same way
`FollowsExists` and `FollowsUnique` show that the recursion defines a function on
all numbers at all.

### Only model-checked

`CallsEnd`, since liveness under fairness is out of the prover's reach: proved is
its safety half, `CallsAdvance`, and only that an invocation which can proceed will
do so rests on TLC. And the violations, which are single behaviours. Every other
property of the runs is proved.

The filter and the sort of `VisitorList` are written with the order of places and
not with the recursive `SelectSeq` and `SortSeq` of the libraries, which the prover
has no definition of.

## Coverage and what is left

The order in which this was built: the store, its properties and proofs; the
handler; the rendering and its proofs; then the `Vec` and the clocks, the size of
the item, and the proofs about the handler, the refinement and the pixels; then
those about full lists, the `Vec`, the digits and the bounded work of a call. Left to
prove is that the handler, with `Store` in the place of its ledgers, implements what
`Handler` says of it.

Not modelled, and why:

 * the durations of the attempts: five attempts of two calls of 200 ms each do not
   fit in the Lambda's second, so the five that `src/store.rs:36` documents are
   reached only when the calls are faster. `Store` lets `Kill` end an invocation
   anywhere, so the safety properties hold however many fit;
 * the parsing of `DGVC_MIN_WIDTH`, whose `unwrap` ends the process when it is no
   number: no request was handled then, and none will be;
 * two visitors of one 32-bit hash: the code takes them for one visitor, and so does
   the model when its tags are read as hashes;
 * libraries: the PNG encoder, the list of bots, MD5, CBOR beyond its sizes, the AWS
   SDK beyond the outcomes its calls can have;
 * the CDK code, which declares resources (the table's key and the Lambda's timeout
   are in `Store`), and the local render test and the benchmark, which keep no state
   of the service.
