------------------------------- MODULE Wallet -------------------------------
(***************************************************************************)
(* The wallet half of the admin store (internal/adminstore): what each     *)
(* operation of payments.go, subscriptions.go and the money operations of  *)
(* store.go does to the in-memory state, as operators from a store record  *)
(* to a store record.  The operations run under one mutex, so each is one  *)
(* step; when they are written to disk, what a failed write leaves behind  *)
(* and who calls them is the business of the modules that EXTEND this one. *)
(*                                                                         *)
(* Money is counted in whole units (the code invoices in cents), time in   *)
(* days.  The payment history of an account is kept as                     *)
(*   rows[i]   the top-up row of invoice i (one row per invoice in the     *)
(*             whole deployment), its owner being the account it is under, *)
(*             pos counting the account's rows in the order of appending,  *)
(*   grants[u], plans[u]  the totals of the rows that are only ever        *)
(*             appended as "success": the operator's top-ups, and the      *)
(*             plan charges (negative) with their bundled credit.          *)
(* Two things move a balance without a row: spent[u] is the metered cost   *)
(* recorded against u's keys, access[u] the credit given with approvals of *)
(* provider requests, which is on the requests' cards.                     *)
(***************************************************************************)
EXTENDS Integers, FiniteSets

CONSTANTS
    Users,          \* accounts
    Invoices,       \* invoice numbers the bridge can issue
    Plans,          \* plans this deployment sells
    Keys,           \* idempotency keys a buyer's page can send
    NoPlan, NoKey, NoUser, NoInvoice,
    Price,          \* Price[p]: PriceUSD
    Bundle,         \* Bundle[p]: IncludesCreditUSD
    Term,           \* Term[p]: Plan.Term(), in days
    PendingMaxAge,  \* days an unconfirmed invoice is asked about
    PendingLimit    \* how many invoices one settlement asks about

ASSUME PlanAssumption ==
    /\ Price \in [Plans -> Nat]
    /\ Bundle \in [Plans -> Nat]
    /\ Term \in [Plans -> Nat \ {0}]
    /\ NoPlan \notin Plans

ASSUME KeyAssumption ==
    /\ NoKey \notin Keys \cup Invoices
    /\ Keys \cap Invoices = {}
    /\ NoUser \notin Users
    /\ NoInvoice \notin Invoices
    /\ IsFiniteSet(Invoices)

ASSUME PendingAssumption ==
    /\ PendingMaxAge \in Nat
    /\ PendingLimit \in Nat \ {0}

(***************************************************************************)
(* Records.                                                                *)
(***************************************************************************)

Status == {"none", "pending", "success", "failed", "expired", "underpaid"}

Row == [owner : Users \cup {NoUser}, amount : Nat, status : Status,
        plan : Plans \cup {NoPlan}, at : Nat, pos : Nat]

NoRow == [owner |-> NoUser, amount |-> 0, status |-> "none",
          plan |-> NoPlan, at |-> 0, pos |-> 0]

\* A subscription; plan = NoPlan is the nil pointer.  A purchase made by a
\* settlement carries the key "invoice:<number>", here the invoice itself.
Sub == [plan : Plans \cup {NoPlan}, started : Nat, expires : Nat,
        renewals : Nat, key : Keys \cup Invoices \cup {NoKey}]

NoSub == [plan |-> NoPlan, started |-> 0, expires |-> 0,
          renewals |-> 0, key |-> NoKey]

Store == [rows : [Invoices -> Row],
          bal : [Users -> Int], sub : [Users -> Sub],
          grants : [Users -> Nat], plans : [Users -> Int],
          spent : [Users -> Nat], access : [Users -> Nat]]

EmptyStore == [rows   |-> [i \in Invoices |-> NoRow],
               bal    |-> [u \in Users |-> 0],
               sub    |-> [u \in Users |-> NoSub],
               grants |-> [u \in Users |-> 0],
               plans  |-> [u \in Users |-> 0],
               spent  |-> [u \in Users |-> 0],
               access |-> [u \in Users |-> 0]]

(***************************************************************************)
(* payments.go                                                             *)
(***************************************************************************)

\* The uniqueness check of StartPaymentFor runs over every account.
InvoiceFree(st, i) == st.rows[i].status = "none"

RowsOf(st, u) == {i \in Invoices : st.rows[i].owner = u}

StartPaymentFor(st, u, amount, i, plan, now) ==
    [st EXCEPT !.rows[i] = [owner |-> u, amount |-> amount, status |-> "pending",
                            plan |-> plan, at |-> now,
                            pos |-> Cardinality(RowsOf(st, u)) + 1]]

\* A settler reaches only rows of its own account.
OwnRow(st, u, i) == st.rows[i].owner = u

\* Variant: a row already credited is credited again.
SettleableAgain(st, u, i) == OwnRow(st, u, i)

\* The row SettleVerified will act on: the account's own, still pending.
Settleable(st, u, i) == OwnRow(st, u, i) /\ st.rows[i].status = "pending"

Credit(st, u, i) ==
    [st EXCEPT !.rows[i].status = "success",
               !.bal[u] = @ + st.rows[i].amount]

\* The bridge collected less than the invoice asked for: nothing is credited.
SetAside(st, i) == [st EXCEPT !.rows[i].status = "underpaid"]

\* Variant: what was collected is not compared with what was asked.
SettleUnchecked(st, u, i, told) == Credit(st, u, i)

\* told is the amount the bridge reported, "none" when it did not say: then
\* there is nothing to compare and the row is credited.
SettleVerified(st, u, i, told) ==
    IF told = "short" THEN SetAside(st, i) ELSE Credit(st, u, i)

\* ClosePayment refuses only a credited row; it does not ask for "pending".
Closable(st, u, i) == OwnRow(st, u, i) /\ st.rows[i].status # "success"

ClosePayment(st, i, status) == [st EXCEPT !.rows[i].status = status]

Stale(st, u, now) ==
    {i \in Invoices : /\ st.rows[i].owner = u
                      /\ st.rows[i].status = "pending"
                      /\ now - st.rows[i].at > PendingMaxAge}

ExpireStalePayments(st, u, now) ==
    [st EXCEPT !.rows = [i \in Invoices |->
        IF i \in Stale(st, u, now) THEN [@[i] EXCEPT !.status = "expired"]
                                   ELSE @[i]]]

\* At most PendingLimit of them, the oldest.
PendingPayments(st, u) ==
    LET pending == {i \in RowsOf(st, u) : st.rows[i].status = "pending"}
        Older(i) == {j \in pending : st.rows[j].pos < st.rows[i].pos}
    IN  {i \in pending : Cardinality(Older(i)) < PendingLimit}

\* They are gone through in that order.
Oldest(st, S, i) == i \in S /\ \A j \in S : st.rows[i].pos <= st.rows[j].pos

(***************************************************************************)
(* subscriptions.go                                                        *)
(***************************************************************************)

Active(sub, now) == sub.plan # NoPlan /\ now < sub.expires

\* The same click arriving twice: answered with the term already bought.
SameClick(st, u, key) ==
    key # NoKey /\ st.sub[u].plan # NoPlan /\ st.sub[u].key = key

Affordable(st, u, price) == price = 0 \/ st.bal[u] >= price

\* Buying the plan one holds renews it, and extends it while it runs; any
\* other purchase starts over from now.
NextTerm(cur, plan, days, key, now) ==
    LET renewal == cur.plan = plan
        running == renewal /\ Active(cur, now)
    IN  [plan     |-> plan,
         started  |-> IF running THEN cur.started ELSE now,
         expires  |-> days + (IF running THEN cur.expires ELSE now),
         renewals |-> IF renewal THEN cur.renewals + 1 ELSE 0,
         key      |-> key]

\* Variant: the bundled credit has no row.
SubscribeNoCreditRow(st, u, plan, price, bundle, days, key, now) ==
    [st EXCEPT !.bal[u]   = (@ - price) + bundle,
               !.plans[u] = @ - price,
               !.sub[u]   = NextTerm(@, plan, days, key, now)]

\* The charge, the bundled credit and their rows land in one write.
Subscribe(st, u, plan, price, bundle, days, key, now) ==
    [st EXCEPT !.bal[u]   = (@ - price) + bundle,
               !.plans[u] = (@ - price) + bundle,
               !.sub[u]   = NextTerm(@, plan, days, key, now)]

Unsubscribe(st, u) == [st EXCEPT !.sub[u] = NoSub]

(***************************************************************************)
(* store.go: the operator's top-up and the metered debit.                  *)
(***************************************************************************)

AddPayment(st, u, amount) ==
    [st EXCEPT !.bal[u] = @ + amount, !.grants[u] = @ + amount]

\* Variant: the counter moves the way the balance does.
RecordUsageDown(st, u, cost) ==
    [st EXCEPT !.bal[u] = @ - cost, !.spent[u] = @ - cost]

RecordUsage(st, u, cost) ==
    [st EXCEPT !.bal[u] = @ - cost, !.spent[u] = @ + cost]

\* provideraccess.go, an approval that comes with credit: CreditUSD and the
\* balance go up, and no payment row is appended.
CreditLocked(st, u, amount) ==
    [st EXCEPT !.bal[u] = @ + amount, !.access[u] = @ + amount]

\* The one debit written at once: the one that empties the account.
Exhausted(st, u, cost) == st.bal[u] > 0 /\ st.bal[u] - cost <= 0

=============================================================================
