------------------------------- MODULE Ledger -------------------------------
(***************************************************************************)
(* What a buyer is promised about top-ups, whatever the handlers, the      *)
(* flush and the crashes do: an invoice is credited at most once, to the   *)
(* account it was raised for and by the amount it was raised for; once it  *)
(* is credited it stays credited, through a restart too; whatever else     *)
(* moves a balance moves one account, and by what its other rows say; and  *)
(* a restart brings the accounts back to a state that was durable.         *)
(***************************************************************************)
EXTENDS Integers

CONSTANTS Users, Invoices

VARIABLES
    invoice,   \* invoice[i]: the account and the amount i was raised for
    credited,  \* invoices whose money is in a wallet
    bal,       \* balances
    rest,      \* what grants, plans, access and usage add up to, per account
    durable    \* the balances and rests a restart brings back

ledger == <<invoice, credited, bal, rest, durable>>

\* A credited invoice keeps its account and its amount.
Bound == \A i \in credited : invoice'[i] = invoice[i]

\* The step may have been written, or is left for a later write.
Kept == durable' \in {durable, <<bal', rest'>>}

Zero == [u \in Users |-> 0]

Init == credited = {} /\ bal = Zero /\ rest = Zero /\ durable = <<Zero, Zero>>

\* An invoice not yet credited is raised, or forgotten.
Raise == Bound /\ Kept /\ UNCHANGED <<credited, bal, rest>>

\* The credit is durable the moment it exists.
Credit(i) ==
    /\ i \notin credited
    /\ credited' = credited \cup {i}
    /\ bal' = [bal EXCEPT ![invoice[i].owner] = @ + invoice[i].amount]
    /\ durable' = <<bal', rest'>>
    /\ UNCHANGED <<invoice, rest>>

\* A debit, a plan, an operator's top-up: one account, no invoice.
Move(u) ==
    /\ rest' = [rest EXCEPT ![u] = rest'[u]]
    /\ bal' = [bal EXCEPT ![u] = @ + (rest'[u] - rest[u])]
    /\ Kept
    /\ UNCHANGED <<invoice, credited>>

Restart == Bound /\ <<bal', rest'>> = durable /\ UNCHANGED <<credited, durable>>

Next ==
    \/ Raise
    \/ \E i \in Invoices : Credit(i)
    \/ \E u \in Users : Move(u)
    \/ Restart

Spec == Init /\ [][Next]_ledger

=============================================================================
