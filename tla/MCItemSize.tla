----------------------------- MODULE MCItemSize ------------------------------
(***************************************************************************)
(* Instances of ItemSize for TLC.                                          *)
(***************************************************************************)
EXTENDS ItemSize

\* Visitors with tags from first on, last seen at one time.
Visitors(count, first, last_seen) ==
    [k \in 1..count |-> [tag |-> first + k, last_seen |-> last_seen]]

\* The longest list and one too long, with times and tags of the largest size, and
\* lists on both sides of the sizes of an array's head and of an integer.
MCLists == <<
    Visitors(MAX_RECENT_VISITORS, 65535, 2147483647),
    Visitors(MAX_RECENT_VISITORS + 1, 65535, 2147483647),
    Visitors(MAX_RECENT_VISITORS + 1, 0, 65535),
    Visitors(23, 0, 23), Visitors(24, 0, 24),
    Visitors(255, 1, 255), Visitors(256, 0, 256), Visitors(1, 65535, 65536)
>>
=============================================================================
