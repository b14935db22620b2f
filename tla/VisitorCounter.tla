--------------------------- MODULE VisitorCounter ---------------------------
(***************************************************************************)
(* What a counter promises its callers, without the store behind it.  The  *)
(* counter is a ledger of the invocations that were counted, in the order  *)
(* they were counted; the count is its length.  An invocation is counted   *)
(* at most once, a caller is told the count of a moment between its call   *)
(* and its answer, and only when its visitor is among those counted.  An   *)
(* invocation that is never answered may have been counted or not.         *)
(***************************************************************************)
EXTENDS Naturals, Sequences

CONSTANTS
    Invocations,   \* the calls of maybe_increment_visitors for this counter
    TagOf          \* the visitor each of them is made for

VARIABLES
    ledger,        \* the invocations counted, in order
    answer         \* the count an invocation was answered with, 0 for none

vars == <<ledger, answer>>

Counted == {ledger[k] : k \in DOMAIN ledger}

Init ==
    /\ ledger = <<>>
    /\ answer = [i \in Invocations |-> 0]

\* Count an invocation, and answer it or lose the answer.
Count(i) ==
    /\ answer[i] = 0
    /\ i \notin Counted
    /\ ledger' = Append(ledger, i)
    /\ \/ answer' = [answer EXCEPT ![i] = Len(ledger')]
       \/ UNCHANGED answer

\* Answer an invocation whose visitor was counted before, by whichever one.
Answer(i) ==
    /\ answer[i] = 0
    /\ \E j \in Counted : TagOf[j] = TagOf[i]
    /\ answer' = [answer EXCEPT ![i] = Len(ledger)]
    /\ UNCHANGED ledger

Next == \E i \in Invocations : Count(i) \/ Answer(i)

Spec == Init /\ [][Next]_vars
=============================================================================
