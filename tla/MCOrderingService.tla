------------------------- MODULE MCOrderingService -------------------------
(***************************************************************************)
(* OrderingService for TLC.                                                *)
(***************************************************************************)
EXTENDS OrderingService, TLC

\* Connections are interchangeable, and so are the frames that parse.
Symmetry == Permutations(Conn) \cup Permutations(Message \ Malformed)

=============================================================================
