----------------------------- MODULE MCAdmission -----------------------------
(***************************************************************************)
(* Small instances of Admission.  A call costs a reserve and a top-up is   *)
(* worth one and a half, so that three requests of one owner meet at the   *)
(* gate of a balance of half a reserve, of exactly one or two, or of       *)
(* something between.                                                      *)
(***************************************************************************)
EXTENDS Admission, TLC

CONSTANTS u1, u2, n1, n2, r1, r2, r3

Symmetric == Permutations(Users) \cup Permutations(Names) \cup Permutations(Requests)

=============================================================================
