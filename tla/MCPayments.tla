----------------------------- MODULE MCPayments -----------------------------
(***************************************************************************)
(* Small instances of Payments.  Money is in units; where top-ups start at *)
(* two, the difference to the plan's price is more than a minimal top-up,  *)
(* or less, when an operator gave a unit.                                  *)
(***************************************************************************)
EXTENDS Payments, TLC

CONSTANTS u1, u2, i1, i2, v1, v2, gold

MCPrice == [p \in Plans |-> 3]
MCBundle == [p \in Plans |-> 1]
MCTerm == [p \in Plans |-> 1]

\* Accounts are interchangeable, and so are settlements and the bridge's invoice
\* numbers.
Symmetric == Permutations(Users) \cup Permutations(Visits) \cup Permutations(Invoices)

=============================================================================
