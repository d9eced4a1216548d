---------------------------- MODULE MCBachelorEgo ----------------------------
(***************************************************************************)
(* BachelorEgo for TLC.                                                    *)
(***************************************************************************)
EXTENDS BachelorEgo, TLC

CONSTANT alice

\* The other runtime has a client of the same name.
OneName == [m \in Message |-> alice]

\* With four I32s: the runtime's value wraps, the other runtime's key is its key.
Keys == [m \in Message |-> IF m \in Request THEN 1 ELSE 5]
Values == [m \in Message |-> IF m \in Request THEN 1 ELSE 4]

\* Bound: what is in the Send channel of another runtime is written and read
\* before anything else happens.  The channels that fill up are Here's.
Prompt ==
  \A c \in Conn \ {Here} :
    seen[c] < Len(frames[c]) =>
      <<taken'[c], written'[c], seen'[c]>> # <<taken[c], written[c], seen[c]>>

\* The requests of each runtime are interchangeable.
Symmetry == Permutations(Request) \cup Permutations(Foreign)

=============================================================================
