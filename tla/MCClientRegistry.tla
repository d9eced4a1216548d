-------------------------- MODULE MCClientRegistry --------------------------
(***************************************************************************)
(* ClientRegistry for TLC.                                                 *)
(***************************************************************************)
EXTENDS ClientRegistry, TLC

CONSTANTS alice, i1, i2, u1, u2, u3, a1, c1, c2

\* Every call gives one name; the other names there are do not matter to it.
OneName == [c \in Call |-> alice]

\* Calls of one kind are interchangeable, and so are modules of one kind.
Symmetry ==
  Permutations(InitCall) \cup Permutations(UploadCall) \cup Permutations(Contract)

=============================================================================
