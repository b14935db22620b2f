--------------------------- MODULE MCCounterRender ---------------------------
(***************************************************************************)
(* Instances of CounterRender for TLC.                                     *)
(***************************************************************************)
EXTENDS CounterRender

\* Numbers of one to ten digits, around the boundaries of the groups.  TLC's
\* integers end at ten digits.
MCNumbers == {0, 9, 10, 42, 100, 999, 1000, 99999, 100000, 123456, 1234567,
              98765432, 102030405, 999999999, 1000000000, 2147483647}

MCReserves == 0..12
=============================================================================
