----------------------------- MODULE MCRuntime -----------------------------
(***************************************************************************)
(* Runtime for TLC.                                                        *)
(***************************************************************************)
EXTENDS Runtime, TLC

CONSTANTS r1, r2, f1, f2, alice, bob

\* Two requests of one client, and two transactions of another runtime, one
\* of them by a client that has the first one's name.
OneName == (r1 :> alice) @@ (r2 :> alice) @@ (f1 :> alice) @@ (f2 :> bob)

\* The requests of one client are interchangeable.
Symmetry == Permutations({r1, r2})

=============================================================================
