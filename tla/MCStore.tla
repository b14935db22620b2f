------------------------------ MODULE MCStore -------------------------------
(***************************************************************************)
(* Instances of Store for TLC.                                             *)
(***************************************************************************)
EXTENDS StoreInvariant, TLC

CONSTANTS i1, i2, i3, alice, bob

\* Two requests of one visitor and one of another, the smallest number in which
\* a visit, its repetition and a stranger between them can interleave.
MCTagOf == (i1 :> alice) @@ (i2 :> alice) @@ (i3 :> bob)

\* Two requests of one visitor, for the runs that need more of something else.
MCTagOfTwo == (i1 :> alice) @@ (i2 :> alice)

\* The invocations of alice are interchangeable.
MCSymmetry == Permutations({i1, i2})
=============================================================================
