-------------------------------- MODULE Lists --------------------------------
(***************************************************************************)
(* SelectSeq with the set of what to keep, said with FlattenSeq so that it *)
(* can be reasoned about.                                                  *)
(***************************************************************************)
EXTENDS Naturals, SequencesExt

\* The elements of a sequence that are in a set, in their order.
Only(s, S) == FlattenSeq([i \in 1 .. Len(s) |-> IF s[i] \in S THEN <<s[i]>> ELSE <<>>])

=============================================================================
