------------------------------ MODULE Payments ------------------------------
(***************************************************************************)
(* Top-ups through the payment bridge: rechargeMe raises an invoice and    *)
(* records it, the payer pays (or not) outside, and every visit to the     *)
(* account screen runs settleMyPayments, which asks the bridge about the   *)
(* account's pending invoices and credits the paid ones, buying the plan a *)
(* top-up was raised for.                                                  *)
(*                                                                         *)
(* The store is a memory image (mem) and a state file (disk).  Settlements *)
(* of several tabs, other requests, the periodic flush, failing writes and *)
(* a killed process interleave between the points where a handler holds no *)
(* lock.                                                                   *)
(***************************************************************************)
EXTENDS Wallet, Functions

CONSTANTS
    Visits,        \* settlement requests that can be in flight at once
    TopUps,        \* amounts a buyer asks to top up by
    MinTopUp, MaxTopUp,
    Payable,       \* what payers pay of an invoice: "full", "short"
    SavesMayFail,  \* whether a write of the state file can fail
    BridgeRefunds, \* whether the bridge can refund a collected payment
    MaxStarts,     \* recharges that can be in flight at once
    MaxDay, MaxCrashes, MaxSpent, MaxGrants, Costs   \* bounds of the model

ASSUME TopUpAssumption ==
    /\ MinTopUp \in Nat \ {0} /\ MaxTopUp \in Nat
    /\ TopUps \subseteq Nat \ {0}
    /\ Payable \subseteq {"full", "short"}
    /\ SavesMayFail \in BOOLEAN /\ BridgeRefunds \in BOOLEAN

ASSUME BoundAssumption ==
    /\ {MaxStarts, MaxDay, MaxCrashes, MaxSpent, MaxGrants} \subseteq Nat
    /\ Costs \subseteq Nat \ {0}

VARIABLES
    mem,      \* Store.st
    disk,     \* the state file
    dirty,    \* Store.dirty
    now,      \* the day
    crashes,  \* how often the process was killed
    bridge,   \* external: what the bridge and the banks know of each invoice
    started,  \* recharges between the bridge's answer and the store
    given,    \* invoices whose checkout URL the buyer holds
    visit,    \* the settlements in flight
    sold,     \* the plans in the config of this start
    bought,   \* history: invoices whose settlement bought their plan
    unsaid    \* history: invoices credited on an answer without an amount

vars == <<mem, disk, dirty, now, crashes, bridge, started, given, visit, sold,
          bought, unsaid>>

\* What the bridge knows of an invoice: its word, and the money it collected,
\* which a later refund does not change.  As an answer: its word, and the
\* amount it reports, "none" when it does not say.
Verdict == [status : {"none", "open", "paid", "dead"},
            collected : {"none", "full", "short"}]

Checkout == [user : Users, amount : Nat, inv : Invoices, plan : Plans \cup {NoPlan}]

\* pc: where the handler is; queue: the pending invoices it has still to ask
\* about; inv: the one it is at; verdict: the bridge's answer about it.
Visit == [pc : {"idle", "list", "ask", "act", "buy"}, user : Users \cup {NoUser},
          queue : SUBSET Invoices, inv : Invoices \cup {NoInvoice},
          verdict : Verdict]

NoVerdict == [status |-> "none", collected |-> "none"]
Idle == [pc |-> "idle", user |-> NoUser, queue |-> {}, inv |-> NoInvoice,
         verdict |-> NoVerdict]

TypeOK ==
    /\ mem \in Store /\ disk \in Store /\ dirty \in BOOLEAN
    /\ now \in Nat /\ crashes \in Nat
    /\ bridge \in [Invoices -> Verdict]
    /\ started \subseteq Checkout
    /\ given \subseteq Invoices /\ sold \subseteq Plans
    /\ bought \subseteq Invoices /\ unsaid \subseteq Invoices
    /\ visit \in [Visits -> Visit]

Init ==
    /\ mem = EmptyStore /\ disk = EmptyStore /\ dirty = FALSE
    /\ now = 0 /\ crashes = 0
    /\ bridge = [i \in Invoices |-> NoVerdict]
    /\ started = {} /\ given = {} /\ bought = {} /\ unsaid = {}
    /\ sold = Plans
    /\ visit = [v \in Visits |-> Idle]

-----------------------------------------------------------------------------
(***************************************************************************)
(* Writing the state file.  A failed write leaves the file alone and the   *)
(* store dirty; what it leaves in memory differs from operation to         *)
(* operation.                                                              *)
(***************************************************************************)
Saved(new) == mem' = new /\ disk' = new /\ dirty' = FALSE

\* Variant: dirty is cleared whether or not the write landed.
SaveFailedClean(left) == SavesMayFail /\ mem' = left /\ dirty' = FALSE /\ UNCHANGED disk

SaveFailed(left) == SavesMayFail /\ mem' = left /\ dirty' = TRUE /\ UNCHANGED disk

\* The change stays in memory when the write fails.
SaveOrKeep(new) == Saved(new) \/ SaveFailed(new)

\* The change is undone in memory when the write fails.
SaveOrUndo(new) == Saved(new) \/ SaveFailed(mem)

env == <<now, crashes, bridge, sold>>
handlers == <<started, given, visit, bought, unsaid>>

-----------------------------------------------------------------------------
(***************************************************************************)
(* rechargeMe                                                              *)
(***************************************************************************)

\* What a "pay the difference and activate" raises: the shortfall as it is
\* when the invoice is raised, at least the minimum.
Shortfall(u, p) == LET short == Price[p] - mem.bal[u]
                   IN  IF short < MinTopUp THEN MinTopUp ELSE short

\* The bridge raises an invoice; nothing is recorded yet.  The number is the
\* bridge's choice, the store does not assume it is a new one.
BridgeStart(u, amount, i, plan) ==
    /\ amount \in MinTopUp .. MaxTopUp
    /\ Cardinality(started) < MaxStarts
    /\ bridge' = [bridge EXCEPT ![i] =
                    IF @.status = "none" THEN [@ EXCEPT !.status = "open"] ELSE @]
    /\ started' = started \cup {[user |-> u, amount |-> amount, inv |-> i, plan |-> plan]}
    /\ UNCHANGED <<mem, disk, dirty, now, crashes, given, visit, sold, bought, unsaid>>

\* "Pay the difference and activate", for a plan that is sold and has a price.
StartPlan(u, i, p) == p \in sold /\ Price[p] > 0 /\ BridgeStart(u, Shortfall(u, p), i, p)

\* Variant: the URL is handed out whether or not the row was written.
RecordStartEager(c) ==
    /\ c \in started
    /\ started' = started \ {c}
    /\ IF InvoiceFree(mem, c.inv)
       THEN SaveOrKeep(StartPaymentFor(mem, c.user, c.amount, c.inv, c.plan, now))
       ELSE UNCHANGED <<mem, disk, dirty>>
    /\ given' = given \cup {c.inv}
    /\ UNCHANGED <<env, visit, bought, unsaid>>

\* StartPaymentFor, before the buyer is sent to the gateway.
RecordStart(c) ==
    /\ c \in started
    /\ started' = started \ {c}
    /\ \/ /\ InvoiceFree(mem, c.inv)
          /\ LET new == StartPaymentFor(mem, c.user, c.amount, c.inv, c.plan, now)
             IN  \/ Saved(new) /\ given' = given \cup {c.inv}
                 \/ SaveFailed(new) /\ UNCHANGED given
       \/ /\ ~InvoiceFree(mem, c.inv)
          /\ UNCHANGED <<mem, disk, dirty, given>>
    /\ UNCHANGED <<env, visit, bought, unsaid>>

-----------------------------------------------------------------------------
(***************************************************************************)
(* settleMyPayments, one step per stretch between two unlocked points.     *)
(***************************************************************************)

\* On to the next invoice, or out of the loop.
Continue(v, queue) ==
    visit' = [visit EXCEPT ![v] =
        IF queue = {} THEN Idle
        ELSE [Idle EXCEPT !.pc = "ask", !.user = visit[v].user, !.queue = queue]]

\* ExpireStalePayments; nothing is written when nothing is stale.
VisitExpire(v, u) ==
    /\ visit[v].pc = "idle"
    /\ visit' = [visit EXCEPT ![v] = [Idle EXCEPT !.pc = "list", !.user = u]]
    /\ IF Stale(mem, u, now) = {}
       THEN UNCHANGED <<mem, disk, dirty>>
       ELSE SaveOrKeep(ExpireStalePayments(mem, u, now))
    /\ UNCHANGED <<env, started, given, bought, unsaid>>

VisitList(v) ==
    /\ visit[v].pc = "list"
    /\ Continue(v, PendingPayments(mem, visit[v].user))
    /\ UNCHANGED <<mem, disk, dirty, env, started, given, bought, unsaid>>

\* What the bridge may answer about an invoice: with a payment it may or may
\* not say how much it collected.
Answers(i) ==
    {bridge[i]} \cup
    (IF bridge[i].status = "paid" THEN {[bridge[i] EXCEPT !.collected = "none"]} ELSE {})

\* The bridge answers about the invoice at hand.
VisitVerify(v, i) ==
    /\ visit[v].pc = "ask"
    /\ Oldest(mem, visit[v].queue, i)
    /\ \E verdict \in Answers(i) :
          visit' = [visit EXCEPT ![v].pc = "act", ![v].queue = @ \ {i},
                                 ![v].inv = i, ![v].verdict = verdict]
    /\ UNCHANGED <<mem, disk, dirty, env, started, given, bought, unsaid>>

\* Variant: no answer is taken for "not paid".
VerifyFailsCloses(v, i) ==
    /\ visit[v].pc = "ask"
    /\ Oldest(mem, visit[v].queue, i)
    /\ Continue(v, visit[v].queue \ {i})
    /\ SaveOrKeep(ClosePayment(mem, i, "failed"))
    /\ UNCHANGED <<env, started, given, bought, unsaid>>

\* It does not answer: the invoice is left for another visit.
VerifyFails(v, i) ==
    /\ visit[v].pc = "ask"
    /\ Oldest(mem, visit[v].queue, i)
    /\ Continue(v, visit[v].queue \ {i})
    /\ UNCHANGED <<mem, disk, dirty, env, started, given, bought, unsaid>>

\* Neither paid nor final: the invoice stays pending.
VisitSkip(v) ==
    /\ visit[v].pc = "act"
    /\ visit[v].verdict.status \notin {"paid", "dead"}
    /\ Continue(v, visit[v].queue)
    /\ UNCHANGED <<mem, disk, dirty, env, started, given, bought, unsaid>>

\* FailPayment, on an answer that says the invoice can no longer be paid.
VisitFail(v) ==
    LET u == visit[v].user
        i == visit[v].inv
    IN  /\ visit[v].pc = "act"
        /\ visit[v].verdict.status = "dead"
        /\ Continue(v, visit[v].queue)
        /\ IF Closable(mem, u, i) THEN SaveOrKeep(ClosePayment(mem, i, "failed"))
                                  ELSE UNCHANGED <<mem, disk, dirty>>
        /\ UNCHANGED <<env, started, given, bought, unsaid>>

\* SettleVerified, on an answer that says "paid".  Only the request that
\* credited the row goes on to buy the plan.
VisitSettle(v) ==
    LET u        == visit[v].user
        i        == visit[v].inv
        told     == visit[v].verdict.collected
        credited == Settleable(mem, u, i) /\ mem'.rows[i].status = "success"
    IN  /\ visit[v].pc = "act"
        /\ visit[v].verdict.status = "paid"
        /\ IF Settleable(mem, u, i) THEN SaveOrUndo(SettleVerified(mem, u, i, told))
                                    ELSE UNCHANGED <<mem, disk, dirty>>
        /\ unsaid' = IF credited /\ told = "none" THEN unsaid \cup {i} ELSE unsaid
        /\ IF credited /\ mem.rows[i].plan # NoPlan
           THEN visit' = [visit EXCEPT ![v].pc = "buy", ![v].verdict = NoVerdict]
           ELSE Continue(v, visit[v].queue)
        /\ UNCHANGED <<env, started, given, bought>>

\* buyPlan with the switch confirmed and the invoice as purchase key, unless
\* the plan is no longer sold: then the credit stays in the wallet.
VisitBuy(v) ==
    LET u == visit[v].user
        i == visit[v].inv
        p == mem.rows[i].plan
        buys == /\ p \in sold
                /\ ~SameClick(mem, u, i) /\ Affordable(mem, u, Price[p])
    IN  /\ visit[v].pc = "buy"
        /\ Continue(v, visit[v].queue)
        /\ \/ ~buys /\ UNCHANGED <<mem, disk, dirty, bought>>
           \/ /\ buys
              /\ \/ /\ Saved(Subscribe(mem, u, p, Price[p], Bundle[p], Term[p], i, now))
                    /\ bought' = bought \cup {i}
                 \/ SaveFailed(mem) /\ UNCHANGED bought
        /\ UNCHANGED <<env, started, given, unsaid>>

-----------------------------------------------------------------------------
(***************************************************************************)
(* The other requests that move money, and the flush.                      *)
(***************************************************************************)

\* The buy button (subscribe), the switch confirmed, no idempotency key.
Activate(u, p) ==
    /\ p \in sold
    /\ Affordable(mem, u, Price[p])
    /\ SaveOrUndo(Subscribe(mem, u, p, Price[p], Bundle[p], Term[p], NoKey, now))
    /\ UNCHANGED <<env, handlers>>

\* Unsubscribe undoes nothing when the write fails.
Cancel(u) ==
    /\ mem.sub[u].plan # NoPlan
    /\ SaveOrKeep(Unsubscribe(mem, u))
    /\ UNCHANGED <<env, handlers>>

\* adminRechargeUser
Recharge(u, amount) ==
    /\ SumFunction(mem.grants) + SumFunction(mem.access) + amount <= MaxGrants
    /\ SaveOrKeep(AddPayment(mem, u, amount))
    /\ UNCHANGED <<env, handlers>>

\* An administrator approves a provider request of u's with credit.
DecideProviderRequest(u, amount) ==
    /\ SumFunction(mem.grants) + SumFunction(mem.access) + amount <= MaxGrants
    /\ SaveOrKeep(CreditLocked(mem, u, amount))
    /\ UNCHANGED <<env, handlers>>

\* A metered call of one of u's keys ends: written only when it empties the
\* account, left for the flush otherwise.
Debit(u, cost) ==
    /\ SumFunction(mem.spent) + cost <= MaxSpent
    /\ IF Exhausted(mem, u, cost)
       THEN SaveOrKeep(RecordUsage(mem, u, cost))
       ELSE mem' = RecordUsage(mem, u, cost) /\ dirty' = TRUE /\ UNCHANGED disk
    /\ UNCHANGED <<env, handlers>>

\* The flush every 30 seconds, and the last one of a shutdown.
Persist ==
    /\ dirty
    /\ SaveOrKeep(mem)
    /\ UNCHANGED <<env, handlers>>

-----------------------------------------------------------------------------
(***************************************************************************)
(* The environment.                                                        *)
(***************************************************************************)

\* The payer pays, all of it or short, an invoice whose URL they hold.
Pay(i, collected) ==
    /\ i \in given /\ bridge[i].status = "open"
    /\ bridge' = [bridge EXCEPT ![i] = [status |-> "paid", collected |-> collected]]
    /\ UNCHANGED <<mem, disk, dirty, now, crashes, sold, handlers>>

\* The invoice is cancelled, or expires at the gateway, or is refunded.
Close(i) ==
    /\ bridge[i].status \in {"open"} \cup (IF BridgeRefunds THEN {"paid"} ELSE {})
    /\ bridge' = [bridge EXCEPT ![i].status = "dead"]
    /\ UNCHANGED <<mem, disk, dirty, now, crashes, sold, handlers>>

Tick ==
    /\ now < MaxDay
    /\ now' = now + 1
    /\ UNCHANGED <<mem, disk, dirty, crashes, bridge, sold, handlers>>

\* The process is killed and started again: the requests in flight are gone,
\* the state is what the file holds, and the config may sell other plans.
Crash ==
    /\ crashes < MaxCrashes
    /\ crashes' = crashes + 1
    /\ mem' = disk /\ dirty' = FALSE
    /\ started' = {} /\ visit' = [v \in Visits |-> Idle]
    /\ sold' \in SUBSET Plans
    /\ UNCHANGED <<disk, now, bridge, given, bought, unsaid>>

-----------------------------------------------------------------------------
VisitStep(v) ==
    \/ \E u \in Users : VisitExpire(v, u)
    \/ VisitList(v)
    \/ \E i \in Invoices : VisitVerify(v, i) \/ VerifyFails(v, i)
    \/ VisitSkip(v) \/ VisitFail(v) \/ VisitSettle(v) \/ VisitBuy(v)

Buyer(u) ==
    \/ \E i \in Invoices : \/ \E a \in TopUps : BridgeStart(u, a, i, NoPlan)
                           \/ \E p \in Plans : StartPlan(u, i, p)
    \/ \E p \in Plans : Activate(u, p)
    \/ Cancel(u)
    \/ \E a \in TopUps : Recharge(u, a) \/ DecideProviderRequest(u, a)
    \/ \E c \in Costs : Debit(u, c)

Next ==
    \/ \E u \in Users : Buyer(u)
    \/ \E c \in started : RecordStart(c)
    \/ \E v \in Visits : VisitStep(v)
    \/ Persist
    \/ \E i \in Invoices : Close(i) \/ \E amt \in Payable : Pay(i, amt)
    \/ Tick
    \/ Crash

Spec == Init /\ [][Next]_vars

\* The panel settles on every load and every buyer keeps coming back, whoever
\* else takes the slots of Visits; a handler that is running goes on; the bridge
\* does not refuse to answer about one invoice forever, nor the disk to take a
\* write.
Fairness ==
    /\ \A u \in Users : SF_vars(\E v \in Visits : VisitExpire(v, u))
    /\ \A v \in Visits :
        /\ WF_vars(VisitStep(v) /\ visit[v].pc # "idle")
        /\ SF_vars(VisitSettle(v) /\ ~dirty')
        /\ \A i \in Invoices : SF_vars(VisitVerify(v, i))

FairSpec == Spec /\ Fairness

-----------------------------------------------------------------------------
(***************************************************************************)
(* What makes it correct.                                                  *)
(***************************************************************************)

Credited(st) == {i \in Invoices : st.rows[i].status = "success"}

\* An invoice is credited only for money: all of it, unless the answer it was
\* credited on did not say how much was paid.  An answer that names a short
\* amount credits nothing, however many settlements hold other answers.  (The
\* answer may be old: a payment refunded meanwhile is credited.)
NoCreditWithoutMoney ==
    \A i \in Credited(mem) :
        \/ bridge[i].collected = "full"
        \/ bridge[i].collected = "short" /\ i \in unsaid

\* A credit the buyer can see is on disk: SettleVerified credits and writes in
\* one step and takes the credit back when the write fails, so a restart never
\* loses a confirmed payment.
CreditIsDurable == Credited(mem) \subseteq Credited(disk)

\* What the credited top-up rows of u come to.
ToppedUp(st, u) == {i \in Credited(st) : st.rows[i].owner = u}
TopUpTotal(st, u) == SumFunction([i \in ToppedUp(st, u) |-> st.rows[i].amount])

\* What everything but the top-ups adds to the balances.
Rest(st) == [u \in Users |-> st.grants[u] + st.plans[u] + st.access[u] - st.spent[u]]

\* No money appears in a wallet or leaves it without a trace: what an account
\* has is its credited rows, the operator's and the plans' rows and the credit
\* on its access requests, less the metered cost, in memory and on disk, after
\* any failed write.
BalanceIsAccounted ==
    \A st \in {mem, disk} : \A u \in Users : st.bal[u] = TopUpTotal(st, u) + Rest(st)[u]

\* Recorded before the buyer leaves: an invoice whose checkout URL was handed
\* out is on disk, so no restart can leave a payment nobody is bound to.
CheckoutRecorded == \A i \in given : disk.rows[i].status # "none"

\* A store that thinks it has nothing to write has nothing to write: a failed
\* write never makes the periodic flush skip a change.
CleanMeansSaved == ~dirty => mem = disk

\* A visit that finds a bridge or a disk that does not answer strands nothing:
\* a payment the bridge collected is credited in the end, whatever else the
\* buyer opens or the process is restarted.
PaidIsCredited ==
    \A i \in Invoices :
        (mem.rows[i].status = "pending" /\ bridge[i].status = "paid"
            /\ bridge[i].collected = "full") ~> (i \in Credited(mem))

\* Top-ups keep the promises of Ledger.
LedgerView == INSTANCE Ledger WITH
    invoice  <- [i \in Invoices |-> [owner  |-> mem.rows[i].owner,
                                     amount |-> mem.rows[i].amount]],
    credited <- Credited(mem),
    bal      <- mem.bal,
    rest     <- Rest(mem),
    durable  <- <<disk.bal, Rest(disk)>>

ImplementsLedger == LedgerView!Spec

(***************************************************************************)
(* What the texts say and the code does not do.                            *)
(***************************************************************************)

\* docs/payments.md: the settle that credits a plan's top-up buys the plan in
\* the same request.  Crediting and buying are two writes with nothing between
\* them to resume from.
PlanBoughtWithTopUp ==
    \A i \in Credited(mem) :
        \/ mem.rows[i].plan = NoPlan
        \/ i \in bought
        \/ mem.rows[i].plan \notin sold
        \/ \E v \in Visits : visit[v].pc = "buy" /\ visit[v].inv = i

\* subscriptions.go:155, "a buyer's history always explains their balance":
\* what an account was metered and the rows of its history make its balance.
\* Credit that comes with an approval has no row.
HistoryExplainsBalance ==
    \A u \in Users :
        mem.bal[u] = TopUpTotal(mem, u) + mem.grants[u] + mem.plans[u] - mem.spent[u]

=============================================================================
