--------------------------- MODULE PaymentsProofs ---------------------------
(***************************************************************************)
(* Proofs about Payments, for every set of accounts, plans, settlements in *)
(* flight and any finite set of invoices, whatever the prices, terms and   *)
(* limits, with failing writes, refunds and crashes.                       *)
(*                                                                         *)
(* What is credited on disk and in memory is related by Agreement: every   *)
(* step but SettleVerified and a crash leaves the credited rows of memory  *)
(* alone (Keeps), and every write copies memory to disk (Written).         *)
(***************************************************************************)
EXTENDS Payments, DataLemmas

\* A handler that is running knows whose account it works on.
VisitorOK == \A v \in Visits : visit[v].pc # "idle" => visit[v].user \in Users

\* Memory and file credit the same invoices, to the same accounts by the same
\* amounts, and memory has every row the file has.
Agreement ==
    \A i \in Invoices :
        /\ mem.rows[i].status = "success" <=> disk.rows[i].status = "success"
        /\ disk.rows[i].status = "success" =>
              /\ mem.rows[i].owner = disk.rows[i].owner
              /\ mem.rows[i].amount = disk.rows[i].amount
        /\ disk.rows[i].status # "none" => mem.rows[i].status # "none"

\* Money is collected only on a paid invoice and stays collected.
BridgeOK ==
    \A i \in Invoices :
        /\ bridge[i].status \in {"none", "open"} => bridge[i].collected = "none"
        /\ bridge[i].status = "paid" => bridge[i].collected # "none"

\* A verdict may be stale about the status, never about collected money.
VerdictOK ==
    \A v \in Visits : visit[v].pc = "act" =>
        /\ visit[v].inv \in Invoices
        /\ visit[v].verdict.status = "paid" =>
              /\ bridge[visit[v].inv].collected # "none"
              /\ visit[v].verdict.collected \in {"none", bridge[visit[v].inv].collected}

\* The plan is bought for a credited row that was raised for one.
BuyingOK ==
    \A v \in Visits : visit[v].pc = "buy" =>
        /\ visit[v].inv \in Invoices
        /\ mem.rows[visit[v].inv].status = "success"
        /\ mem.rows[visit[v].inv].plan \in Plans

IInv == /\ TypeOK /\ VisitorOK /\ Agreement /\ BridgeOK /\ VerdictOK /\ BuyingOK
        /\ CleanMeansSaved /\ CheckoutRecorded /\ NoCreditWithoutMoney

-----------------------------------------------------------------------------
\* What a step that credits nothing does to the rows.
Keeps(st, new) ==
    \A i \in Invoices :
        /\ st.rows[i].status = "success" <=> new.rows[i].status = "success"
        /\ st.rows[i].status = "success" =>
              /\ st.rows[i].owner = new.rows[i].owner
              /\ st.rows[i].amount = new.rows[i].amount
              /\ st.rows[i].plan = new.rows[i].plan
        /\ st.rows[i].status # "none" => new.rows[i].status # "none"

\* A step that leaves every account as it was.
Balanced(st, new) == new.bal = st.bal /\ Rest(new) = Rest(st)

\* How any step but a crash treats the file.
Written ==
    \/ Saved(mem')
    \/ disk' = disk /\ dirty' = TRUE
    \/ UNCHANGED <<mem, disk, dirty>>

-----------------------------------------------------------------------------
(***************************************************************************)
(* The operators of Wallet: each maps stores to stores, and only Credit    *)
(* adds to what is credited.                                               *)
(***************************************************************************)

LEMMA EmptyTyped == EmptyStore \in Store
BY KeyAssumption, PlanAssumption DEF EmptyStore, Store, Row, NoRow, Sub, NoSub, Status

LEMMA PosTyped ==
  ASSUME NEW st \in Store, NEW u
  PROVE  Cardinality(RowsOf(st, u)) + 1 \in Nat
<1>1. RowsOf(st, u) \subseteq Invoices  BY DEF RowsOf
<1>2. IsFiniteSet(RowsOf(st, u))  BY <1>1, KeyAssumption, FS_Subset
<1>3. Cardinality(RowsOf(st, u)) \in Nat  BY <1>2, FS_CardinalityType
<1> QED BY <1>3

LEMMA StartTyped ==
  ASSUME NEW st \in Store, NEW u \in Users, NEW amount \in Nat, NEW i \in Invoices,
         NEW plan \in Plans \cup {NoPlan}, NEW t \in Nat, InvoiceFree(st, i)
  PROVE  LET new == StartPaymentFor(st, u, amount, i, plan, t)
         IN  new \in Store /\ Keeps(st, new) /\ new.rows[i].status # "none"
             /\ Balanced(st, new)
<1> DEFINE pos == Cardinality(RowsOf(st, u)) + 1
           row == [owner |-> u, amount |-> amount, status |-> "pending",
                   plan |-> plan, at |-> t, pos |-> pos]
           new == [st EXCEPT !.rows = [@ EXCEPT ![i] = row]]
<1>1. row \in Row  BY PosTyped DEF Row, Status
<1>2. new = StartPaymentFor(st, u, amount, i, plan, t)
  BY DEF StartPaymentFor, Store
<1> HIDE DEF row
<1>3. new \in Store  BY <1>1 DEF Store
<1>4. row.status = "pending"  BY DEF row
<1>5. Keeps(st, new)  BY <1>4 DEF Keeps, InvoiceFree, Store
<1>6. new.rows[i].status # "none"  BY <1>4 DEF Store
<1>7. Balanced(st, new)  BY DEF Balanced, Rest, Store
<1> QED BY <1>2, <1>3, <1>5, <1>6, <1>7

LEMMA CloseTyped ==
  ASSUME NEW st \in Store, NEW i \in Invoices, NEW s \in Status \ {"none", "success"},
         st.rows[i].status # "success"
  PROVE  LET new == ClosePayment(st, i, s)
         IN  new \in Store /\ Keeps(st, new) /\ Balanced(st, new)
<1> DEFINE row == [st.rows[i] EXCEPT !.status = s]
           new == [st EXCEPT !.rows = [@ EXCEPT ![i] = row]]
<1>1. row \in Row  BY DEF Row, Store
<1>2. row.status = s  BY DEF Row, Store
<1>3. new = ClosePayment(st, i, s)  BY DEF ClosePayment, Store
<1> HIDE DEF row
<1>4. new \in Store  BY <1>1 DEF Store
<1>5. Keeps(st, new)  BY <1>2 DEF Keeps, Store
<1>6. Balanced(st, new)  BY DEF Balanced, Rest, Store
<1> QED BY <1>3, <1>4, <1>5, <1>6

LEMMA ExpireTyped ==
  ASSUME NEW st \in Store, NEW u, NEW t \in Nat
  PROVE  LET new == ExpireStalePayments(st, u, t)
         IN  new \in Store /\ Keeps(st, new) /\ Balanced(st, new)
<1> DEFINE rows == [i \in Invoices |->
                      IF i \in Stale(st, u, t)
                      THEN [st.rows[i] EXCEPT !.status = "expired"] ELSE st.rows[i]]
           new == [st EXCEPT !.rows = rows]
<1>1. new = ExpireStalePayments(st, u, t)  BY DEF ExpireStalePayments
<1>2. ASSUME NEW i \in Invoices
      PROVE  /\ rows[i] \in Row
             /\ \/ rows[i] = st.rows[i]
                \/ st.rows[i].status = "pending" /\ rows[i].status = "expired"
  BY DEF Store, Row, Status, Stale
<1> HIDE DEF rows
<1>3. rows \in [Invoices -> Row]  BY <1>2 DEF rows
<1>4. new \in Store  BY <1>3 DEF Store
<1>5. Keeps(st, new)  BY <1>2 DEF Keeps, Store
<1>6. Balanced(st, new)  BY DEF Balanced, Rest, Store
<1> QED BY <1>1, <1>4, <1>5, <1>6

\* The one operation that adds to what is credited.
CreditOf(st, new, u, i) ==
    /\ new \in Store
    /\ new.bal = [st.bal EXCEPT ![u] = @ + st.rows[i].amount]
    /\ Rest(new) = Rest(st)
    /\ new.rows = [st.rows EXCEPT ![i] = [st.rows[i] EXCEPT !.status = "success"]]

LEMMA CreditTyped ==
  ASSUME NEW st \in Store, NEW i \in Invoices, NEW u \in Users
  PROVE  CreditOf(st, Credit(st, u, i), u, i)
<1> DEFINE row == [st.rows[i] EXCEPT !.status = "success"]
           bal == [st.bal EXCEPT ![u] = @ + st.rows[i].amount]
           new == [st EXCEPT !.rows = [@ EXCEPT ![i] = row], !.bal = bal]
<1>1. row \in Row  BY DEF Row, Store, Status
<1>2. bal \in [Users -> Int]  BY DEF Row, Store
<1>3. new = Credit(st, u, i)  BY DEF Credit, Store
<1>4. new.bal = bal /\ new.rows = [st.rows EXCEPT ![i] = row]  BY DEF Store
<1> HIDE DEF row, bal
<1>5. new \in Store  BY <1>1, <1>2 DEF Store
<1>6. Rest(new) = Rest(st)  BY DEF Rest, Store
<1> QED BY <1>3, <1>4, <1>5, <1>6 DEF row, bal, CreditOf

\* The operations that leave the rows alone and move one account, balance and
\* history by the same amount.
Moves(st, new, u) ==
    /\ new \in Store /\ new.rows = st.rows
    /\ Rest(new) = [Rest(st) EXCEPT ![u] = Rest(new)[u]]
    /\ new.bal = [st.bal EXCEPT ![u] = @ + (Rest(new)[u] - Rest(st)[u])]

LEMMA OneAccount ==
  ASSUME NEW st \in Store, NEW new \in Store, NEW u \in Users, NEW d \in Int,
         new.rows = st.rows, new.bal = [st.bal EXCEPT ![u] = @ + d],
         \A w \in Users \ {u} : /\ new.grants[w] = st.grants[w]
                                /\ new.plans[w] = st.plans[w]
                                /\ new.access[w] = st.access[w]
                                /\ new.spent[w] = st.spent[w],
         new.grants[u] + new.plans[u] + new.access[u] - new.spent[u]
            = (st.grants[u] + st.plans[u] + st.access[u] - st.spent[u]) + d
  PROVE  Moves(st, new, u)
<1>1. /\ Rest(st) \in [Users -> Int] /\ Rest(new) \in [Users -> Int]
      /\ Rest(new)[u] = Rest(st)[u] + d
  BY DEF Store, Rest
<1>2. \A w \in Users \ {u} : Rest(new)[w] = Rest(st)[w]  BY DEF Store, Rest
<1>3. Rest(new)[u] - Rest(st)[u] = d  BY <1>1
<1>4. Rest(new) = [Rest(st) EXCEPT ![u] = Rest(new)[u]]  BY <1>1, <1>2
<1> QED BY <1>3, <1>4 DEF Moves

LEMMA SubscribeTyped ==
  ASSUME NEW st \in Store, NEW u \in Users, NEW p \in Plans, NEW t \in Nat,
         NEW key \in Keys \cup Invoices \cup {NoKey}
  PROVE  Moves(st, Subscribe(st, u, p, Price[p], Bundle[p], Term[p], key, t), u)
<1> DEFINE bal == [st.bal EXCEPT ![u] = (@ - Price[p]) + Bundle[p]]
           plans == [st.plans EXCEPT ![u] = (@ - Price[p]) + Bundle[p]]
           term == NextTerm(st.sub[u], p, Term[p], key, t)
           sub == [st.sub EXCEPT ![u] = term]
           new == [st EXCEPT !.bal = bal, !.plans = plans, !.sub = sub]
<1>1. bal \in [Users -> Int] /\ plans \in [Users -> Int]
  BY PlanAssumption DEF Store
<1>2. term \in Sub  BY PlanAssumption DEF NextTerm, Sub, Active, Store
<1>3. new = Subscribe(st, u, p, Price[p], Bundle[p], Term[p], key, t)
  BY DEF Subscribe, Store
<1>4. Bundle[p] - Price[p] \in Int  BY PlanAssumption
<1>5. bal = [st.bal EXCEPT ![u] = @ + (Bundle[p] - Price[p])]
  BY PlanAssumption DEF Store
<1>6. /\ plans[u] = st.plans[u] + (Bundle[p] - Price[p])
      /\ \A w \in Users \ {u} : plans[w] = st.plans[w]
  BY PlanAssumption DEF Store
<1> HIDE DEF bal, plans, term
<1>7. new \in Store  BY <1>1, <1>2 DEF Store
<1>8. /\ new.bal = bal /\ new.rows = st.rows /\ new.plans = plans
      /\ new.grants = st.grants /\ new.spent = st.spent /\ new.access = st.access
  BY DEF Store
<1>9. new.grants[u] + new.plans[u] + new.access[u] - new.spent[u]
        = (st.grants[u] + st.plans[u] + st.access[u] - st.spent[u]) + (Bundle[p] - Price[p])
  BY <1>4, <1>6, <1>8 DEF Store
<1> HIDE DEF new
<1>10. Moves(st, new, u)  BY <1>4, <1>5, <1>6, <1>7, <1>8, <1>9, OneAccount
<1> QED BY <1>3, <1>10 DEF new, sub

LEMMA UnsubscribeTyped ==
  ASSUME NEW st \in Store, NEW u \in Users
  PROVE  Moves(st, Unsubscribe(st, u), u)
<1> DEFINE new == Unsubscribe(st, u)
<1>1. new \in Store  BY KeyAssumption DEF Unsubscribe, Store, Sub, NoSub
<1>2. /\ new.bal = st.bal /\ new.rows = st.rows /\ new.plans = st.plans
      /\ new.grants = st.grants /\ new.spent = st.spent /\ new.access = st.access
  BY DEF Unsubscribe, Store
<1> HIDE DEF new
<1>3. /\ new.bal = [st.bal EXCEPT ![u] = @ + 0]
      /\ new.grants[u] + new.plans[u] + new.access[u] - new.spent[u]
            = (st.grants[u] + st.plans[u] + st.access[u] - st.spent[u]) + 0
  BY <1>2 DEF Store
<1>4. Moves(st, new, u)  BY <1>1, <1>2, <1>3, OneAccount
<1> QED BY <1>4 DEF new

LEMMA AddPaymentTyped ==
  ASSUME NEW st \in Store, NEW u \in Users, NEW a \in Nat
  PROVE  Moves(st, AddPayment(st, u, a), u)
<1> DEFINE bal == [st.bal EXCEPT ![u] = @ + a]
           grants == [st.grants EXCEPT ![u] = @ + a]
           new == [st EXCEPT !.bal = bal, !.grants = grants]
<1>1. new = AddPayment(st, u, a)  BY DEF AddPayment, Store
<1>2. bal = [st.bal EXCEPT ![u] = @ + (a)]  BY DEF Store
<1>3. bal \in [Users -> Int] /\ grants \in [Users -> Nat]  BY DEF Store
<1>4. grants[u] = st.grants[u] + a /\ \A w \in Users \ {u} : grants[w] = st.grants[w]
  BY DEF Store
<1> HIDE DEF bal, grants
<1>5. /\ new \in Store /\ new.bal = bal /\ new.rows = st.rows
      /\ new.grants = grants /\ new.spent = st.spent /\ new.plans = st.plans
      /\ new.access = st.access
  BY <1>3 DEF Store
<1> HIDE DEF new
<1>6. new.grants[u] + new.plans[u] + new.access[u] - new.spent[u]
        = (st.grants[u] + st.plans[u] + st.access[u] - st.spent[u]) + (a)
  BY <1>4, <1>5 DEF Store
<1>7. Moves(st, new, u)  BY <1>2, <1>4, <1>5, <1>6, OneAccount
<1> QED BY <1>1, <1>7 DEF new

LEMMA CreditLockedTyped ==
  ASSUME NEW st \in Store, NEW u \in Users, NEW a \in Nat
  PROVE  Moves(st, CreditLocked(st, u, a), u)
<1> DEFINE bal == [st.bal EXCEPT ![u] = @ + a]
           access == [st.access EXCEPT ![u] = @ + a]
           new == [st EXCEPT !.bal = bal, !.access = access]
<1>1. new = CreditLocked(st, u, a)  BY DEF CreditLocked, Store
<1>2. bal = [st.bal EXCEPT ![u] = @ + (a)]  BY DEF Store
<1>3. bal \in [Users -> Int] /\ access \in [Users -> Nat]  BY DEF Store
<1>4. access[u] = st.access[u] + a /\ \A w \in Users \ {u} : access[w] = st.access[w]
  BY DEF Store
<1> HIDE DEF bal, access
<1>5. /\ new \in Store /\ new.bal = bal /\ new.rows = st.rows
      /\ new.grants = st.grants /\ new.spent = st.spent /\ new.plans = st.plans
      /\ new.access = access
  BY <1>3 DEF Store
<1> HIDE DEF new
<1>6. new.grants[u] + new.plans[u] + new.access[u] - new.spent[u]
        = (st.grants[u] + st.plans[u] + st.access[u] - st.spent[u]) + (a)
  BY <1>4, <1>5 DEF Store
<1>7. Moves(st, new, u)  BY <1>2, <1>4, <1>5, <1>6, OneAccount
<1> QED BY <1>1, <1>7 DEF new

LEMMA RecordUsageTyped ==
  ASSUME NEW st \in Store, NEW u \in Users, NEW c \in Nat
  PROVE  Moves(st, RecordUsage(st, u, c), u)
<1> DEFINE bal == [st.bal EXCEPT ![u] = @ - c]
           spent == [st.spent EXCEPT ![u] = @ + c]
           new == [st EXCEPT !.bal = bal, !.spent = spent]
<1>1. new = RecordUsage(st, u, c)  BY DEF RecordUsage, Store
<1>2. bal = [st.bal EXCEPT ![u] = @ + (-c)]  BY DEF Store
<1>3. bal \in [Users -> Int] /\ spent \in [Users -> Nat]  BY DEF Store
<1>4. spent[u] = st.spent[u] + c /\ \A w \in Users \ {u} : spent[w] = st.spent[w]
  BY DEF Store
<1> HIDE DEF bal, spent
<1>5. /\ new \in Store /\ new.bal = bal /\ new.rows = st.rows
      /\ new.spent = spent /\ new.grants = st.grants /\ new.plans = st.plans
      /\ new.access = st.access
  BY <1>3 DEF Store
<1> HIDE DEF new
<1>6. new.grants[u] + new.plans[u] + new.access[u] - new.spent[u]
        = (st.grants[u] + st.plans[u] + st.access[u] - st.spent[u]) + (-c)
  BY <1>4, <1>5 DEF Store
<1>7. Moves(st, new, u)  BY <1>2, <1>4, <1>5, <1>6, OneAccount
<1> QED BY <1>1, <1>7 DEF new

LEMMA MovesKeeps ==
  ASSUME NEW st, NEW new, NEW u, Moves(st, new, u)
  PROVE  Keeps(st, new)
BY DEF Moves, Keeps

-----------------------------------------------------------------------------
(***************************************************************************)
(* What a step does to the store.                                          *)
(***************************************************************************)

\* A step that credits nothing and moves no balance.
Quiet == mem' \in Store /\ Keeps(mem, mem') /\ Balanced(mem, mem') /\ Written

\* A step that moves the balance of u and touches no row.
Moved(u) == Moves(mem, mem', u) /\ Written

\* The step that credits invoice i.
Credits(v, i) ==
    /\ visit[v].pc = "act" /\ visit[v].inv = i
    /\ visit[v].verdict.status = "paid" /\ visit[v].verdict.collected # "short"
    /\ visit[v].verdict.collected = "none" => i \in unsaid'
    /\ Settleable(mem, visit[v].user, i)
    /\ Saved(Credit(mem, visit[v].user, i))

Effect == \/ Quiet
          \/ \E u \in Users : Moved(u)
          \/ \E v \in Visits, i \in Invoices : Credits(v, i)

LEMMA Untouched == TypeOK /\ UNCHANGED <<mem, disk, dirty>> => Quiet
BY DEF TypeOK, Quiet, Keeps, Balanced, Written

LEMMA BuyerEffect ==
  ASSUME TypeOK, NEW u \in Users, Buyer(u)
  PROVE  Effect
<1> USE DEF TypeOK, Effect
<1>1. ASSUME NEW i \in Invoices, NEW a, NEW p, BridgeStart(u, a, i, p) PROVE Effect
  BY <1>1, Untouched DEF BridgeStart
<1>a. ASSUME NEW i \in Invoices, NEW p \in Plans, StartPlan(u, i, p) PROVE Effect
  BY <1>1, <1>a DEF StartPlan
<1>2. ASSUME NEW p \in Plans, Activate(u, p) PROVE Effect
  <2> DEFINE new == Subscribe(mem, u, p, Price[p], Bundle[p], Term[p], NoKey, now)
  <2>1. Moves(mem, new, u)  BY SubscribeTyped
  <2> HIDE DEF new
  <2>2. SaveOrUndo(new)  BY <1>2 DEF Activate, new
  <2>3. CASE Saved(new)  BY <2>1, <2>3 DEF Moved, Written, Saved
  <2>4. CASE SaveFailed(mem)
    BY <2>4 DEF Quiet, Keeps, Balanced, Written, SaveFailed
  <2> QED BY <2>2, <2>3, <2>4 DEF SaveOrUndo
<1>3. ASSUME NEW new, Moves(mem, new, u), SaveOrKeep(new) PROVE Effect
  BY <1>3 DEF Moved, Written, SaveOrKeep, Saved, SaveFailed
<1>4. ASSUME Cancel(u) PROVE Effect
  BY <1>3, <1>4, UnsubscribeTyped DEF Cancel
<1>5. ASSUME NEW a \in TopUps, Recharge(u, a) PROVE Effect
  <2>1. a \in Nat  BY TopUpAssumption
  <2> QED BY <1>3, <1>5, <2>1, AddPaymentTyped DEF Recharge
<1>b. ASSUME NEW a \in TopUps, DecideProviderRequest(u, a) PROVE Effect
  <2>1. a \in Nat  BY TopUpAssumption
  <2> QED BY <1>3, <1>b, <2>1, CreditLockedTyped DEF DecideProviderRequest
<1>6. ASSUME NEW c \in Costs, Debit(u, c) PROVE Effect
  <2>1. Moves(mem, RecordUsage(mem, u, c), u)  BY BoundAssumption, RecordUsageTyped
  <2>2. CASE SaveOrKeep(RecordUsage(mem, u, c))  BY <1>3, <2>1, <2>2
  <2>3. CASE mem' = RecordUsage(mem, u, c) /\ dirty' = TRUE /\ UNCHANGED disk
    BY <2>1, <2>3 DEF Moved, Written
  <2> QED BY <1>6, <2>2, <2>3 DEF Debit
<1> QED BY <1>1, <1>a, <1>2, <1>4, <1>5, <1>b, <1>6 DEF Buyer

LEMMA KeepEffect ==
  ASSUME NEW new \in Store, Keeps(mem, new), Balanced(mem, new), SaveOrKeep(new)
  PROVE  Quiet
BY DEF Quiet, Written, SaveOrKeep, Saved, SaveFailed

LEMMA RecordEffect ==
  ASSUME TypeOK, NEW c \in started, RecordStart(c)
  PROVE  /\ Quiet
         /\ \/ given' = given
            \/ given' = given \cup {c.inv} /\ disk'.rows[c.inv].status # "none"
<1> DEFINE new == StartPaymentFor(mem, c.user, c.amount, c.inv, c.plan, now)
<1>1. c \in Checkout  BY DEF TypeOK
<1>2. CASE InvoiceFree(mem, c.inv)
  <2>0. /\ c.user \in Users /\ c.amount \in Nat /\ c.inv \in Invoices
        /\ c.plan \in Plans \cup {NoPlan} /\ mem \in Store /\ now \in Nat
    BY <1>1 DEF TypeOK, Checkout
  <2>1. new \in Store /\ Keeps(mem, new) /\ new.rows[c.inv].status # "none"
        /\ Balanced(mem, new)
    BY <1>2, <2>0, StartTyped, ZenonT(30)
  <2> HIDE DEF new
  <2>2. \/ Saved(new) /\ given' = given \cup {c.inv}
        \/ SaveFailed(new) /\ UNCHANGED given
    BY <1>2 DEF RecordStart, new
  <2> QED BY <2>1, <2>2, KeepEffect DEF SaveOrKeep, Saved
<1>3. CASE ~InvoiceFree(mem, c.inv)
  BY <1>3, Untouched DEF RecordStart
<1> QED BY <1>2, <1>3

LEMMA VisitEffect ==
  ASSUME TypeOK, VisitorOK, VerdictOK, BuyingOK, NEW v \in Visits, VisitStep(v)
  PROVE  Effect
<1> DEFINE u == visit[v].user
           i == visit[v].inv
<1> USE DEF Effect
<1>1. ASSUME NEW w \in Users, VisitExpire(v, w) PROVE Effect
  <2> DEFINE new == ExpireStalePayments(mem, w, now)
  <2>1. new \in Store /\ Keeps(mem, new) /\ Balanced(mem, new)
    BY ExpireTyped DEF TypeOK
  <2> HIDE DEF new
  <2>2. UNCHANGED <<mem, disk, dirty>> \/ SaveOrKeep(new)
    BY <1>1 DEF VisitExpire, new
  <2> QED BY <2>1, <2>2, KeepEffect, Untouched
<1>2. ASSUME VisitList(v) PROVE Effect  BY <1>2, Untouched DEF VisitList
<1>3. ASSUME NEW j, VisitVerify(v, j) \/ VerifyFails(v, j) PROVE Effect
  BY <1>3, Untouched DEF VisitVerify, VerifyFails
<1>4. ASSUME VisitSkip(v) PROVE Effect  BY <1>4, Untouched DEF VisitSkip
<1>5. ASSUME VisitFail(v) PROVE Effect
  <2>1. CASE Closable(mem, u, i)
    <3> DEFINE new == ClosePayment(mem, i, "failed")
    <3>1. i \in Invoices  BY <1>5 DEF VisitFail, VerdictOK
    <3>2. mem.rows[i].status # "success" /\ "failed" \in Status \ {"none", "success"}
      BY <2>1 DEF Closable, Status
    <3>3. new \in Store /\ Keeps(mem, new) /\ Balanced(mem, new)
      BY <3>1, <3>2, CloseTyped DEF TypeOK
    <3>4. SaveOrKeep(new)  BY <1>5, <2>1 DEF VisitFail
    <3> HIDE DEF new
    <3> QED BY <3>3, <3>4, KeepEffect
  <2>2. CASE ~Closable(mem, u, i)  BY <1>5, <2>2, Untouched DEF VisitFail
  <2> QED BY <2>1, <2>2
<1>6. ASSUME VisitSettle(v) PROVE Effect
  <2>1. i \in Invoices /\ visit[v].pc = "act" /\ visit[v].verdict.status = "paid"
    BY <1>6 DEF VisitSettle, VerdictOK
  <2>2. CASE ~Settleable(mem, u, i)  BY <1>6, <2>2, Untouched DEF VisitSettle
  <2>3. CASE Settleable(mem, u, i) /\ visit[v].verdict.collected = "short"
    <3> DEFINE new == ClosePayment(mem, i, "underpaid")
    <3>1. mem.rows[i].status # "success" /\ "underpaid" \in Status \ {"none", "success"}
      BY <2>3 DEF Settleable, Status
    <3>2. new \in Store /\ Keeps(mem, new) /\ Balanced(mem, new)
      BY <2>1, <3>1, CloseTyped DEF TypeOK
    <3>3. new = SetAside(mem, i)  BY DEF ClosePayment, SetAside
    <3> HIDE DEF new
    <3>4. SaveOrUndo(new)  BY <1>6, <2>3, <3>3 DEF VisitSettle, SettleVerified
    <3>5. CASE Saved(new)  BY <3>2, <3>5 DEF Quiet, Written, Saved
    <3>6. CASE SaveFailed(mem)
      BY <3>6 DEF TypeOK, Quiet, Keeps, Balanced, Written, SaveFailed
    <3> QED BY <3>4, <3>5, <3>6 DEF SaveOrUndo
  <2>4. CASE Settleable(mem, u, i) /\ visit[v].verdict.collected # "short"
    <3>1. SaveOrUndo(Credit(mem, u, i))
      BY <1>6, <2>4 DEF VisitSettle, SettleVerified
    <3>2. CASE Saved(Credit(mem, u, i))
      <4>1. CreditOf(mem, mem', u, i)
        BY <1>6, <2>1, <3>2, CreditTyped DEF VisitSettle, VisitorOK, TypeOK, Saved
      <4>2. mem'.rows[i].status = "success"
        BY <2>1, <4>1 DEF CreditOf, TypeOK, Store, Row
      <4>3. visit[v].verdict.collected = "none" => i \in unsaid'
        BY <1>6, <2>4, <4>2 DEF VisitSettle
      <4> QED BY <2>1, <2>4, <3>2, <4>3 DEF Credits
    <3>3. CASE SaveFailed(mem)
      BY <3>3 DEF TypeOK, Quiet, Keeps, Balanced, Written, SaveFailed
    <3> QED BY <3>1, <3>2, <3>3 DEF SaveOrUndo
  <2> QED BY <2>2, <2>3, <2>4
<1>7. ASSUME VisitBuy(v) PROVE Effect
  <2> DEFINE p == mem.rows[i].plan
             new == Subscribe(mem, u, p, Price[p], Bundle[p], Term[p], i, now)
  <2>1. u \in Users /\ i \in Invoices /\ p \in Plans
    BY <1>7 DEF VisitBuy, VisitorOK, BuyingOK
  <2>2. Moves(mem, new, u)  BY <2>1, SubscribeTyped DEF TypeOK
  <2>3. UNCHANGED <<mem, disk, dirty>> \/ Saved(new) \/ SaveFailed(mem)
    BY <1>7 DEF VisitBuy
  <2> HIDE DEF new
  <2>4. CASE Saved(new)  BY <2>1, <2>2, <2>4 DEF Moved, Written, Saved
  <2>5. CASE SaveFailed(mem)
    BY <2>5 DEF TypeOK, Quiet, Keeps, Balanced, Written, SaveFailed
  <2> QED BY <2>3, <2>4, <2>5, Untouched
<1> QED BY <1>1, <1>2, <1>3, <1>4, <1>5, <1>6, <1>7 DEF VisitStep

LEMMA NextEffect ==
  ASSUME TypeOK, VisitorOK, VerdictOK, BuyingOK, [Next]_vars, ~Crash
  PROVE  Effect
<1>1. ASSUME NEW c \in started, RecordStart(c) PROVE Effect
  BY <1>1, RecordEffect DEF Effect
<1>2. ASSUME Persist PROVE Effect
  <2>1. Keeps(mem, mem) /\ Balanced(mem, mem)  BY DEF Keeps, Balanced
  <2> QED BY <1>2, <2>1, KeepEffect DEF Persist, Effect, TypeOK
<1>3. ASSUME NEW i \in Invoices, NEW amt, Close(i) \/ Pay(i, amt) PROVE Effect
  BY <1>3, Untouched DEF Close, Pay, Effect
<1>4. CASE Tick  BY <1>4, Untouched DEF Tick, Effect
<1>5. CASE UNCHANGED vars  BY <1>5, Untouched DEF vars, Effect
<1> QED BY <1>1, <1>2, <1>3, <1>4, <1>5, BuyerEffect, VisitEffect DEF Next

-----------------------------------------------------------------------------
(***************************************************************************)
(* What a step does to the settlements in flight and to the bridge.        *)
(***************************************************************************)

\* A settlement goes to w, which is justified by the new state.
Goes(v, w) ==
    /\ w \in Visit /\ visit' = [visit EXCEPT ![v] = w]
    /\ w.pc # "idle" => w.user \in Users
    /\ w.pc = "act" => /\ w.inv \in Invoices
                       /\ w.verdict.status = bridge'[w.inv].status
                       /\ w.verdict.collected \in {"none", bridge'[w.inv].collected}
    /\ w.pc = "buy" => /\ w.inv \in Invoices
                       /\ mem'.rows[w.inv].status = "success"
                       /\ mem'.rows[w.inv].plan \in Plans

LEMMA ContinueGoes ==
  ASSUME visit \in [Visits -> Visit], NEW v \in Visits, NEW queue \in SUBSET Invoices,
         visit[v].user \in Users, Continue(v, queue)
  PROVE  \E w : Goes(v, w)
<1> DEFINE ask == [Idle EXCEPT !.pc = "ask", !.user = visit[v].user, !.queue = queue]
           w == IF queue = {} THEN Idle ELSE ask
<1>1. Idle \in Visit /\ Idle.pc = "idle"
  BY DEF Idle, Visit, NoVerdict, Verdict
<1>2. ask \in Visit /\ ask.pc = "ask" /\ ask.user \in Users
  BY DEF Idle, Visit, NoVerdict, Verdict
<1>3. visit' = [visit EXCEPT ![v] = w]  BY DEF Continue
<1> HIDE DEF ask
<1> QED BY <1>1, <1>2, <1>3 DEF Goes

LEMMA VisitGoes ==
  ASSUME TypeOK, VisitorOK, VerdictOK, BuyingOK, NEW v \in Visits, VisitStep(v)
  PROVE  /\ \E w : Goes(v, w)
         /\ bought' \subseteq Invoices /\ unsaid' \subseteq Invoices /\ unsaid \subseteq unsaid'
         /\ UNCHANGED <<env, started, given>>
<1> DEFINE u == visit[v].user
           i == visit[v].inv
<1> USE DEF TypeOK, env
<1>0. visit[v] \in Visit /\ visit[v].queue \in SUBSET Invoices
  BY DEF Visit
<1>1. ASSUME NEW x \in Users, VisitExpire(v, x)
      PROVE  (\E w : Goes(v, w)) /\ UNCHANGED <<env, started, given, bought, unsaid>>
  <2> DEFINE w == [Idle EXCEPT !.pc = "list", !.user = x]
  <2>1. w \in Visit /\ w.pc = "list" /\ w.user = x
    BY DEF Idle, Visit, NoVerdict, Verdict
  <2>2. visit' = [visit EXCEPT ![v] = w]  BY <1>1 DEF VisitExpire
  <2> HIDE DEF w
  <2>3. Goes(v, w)  BY <2>1, <2>2 DEF Goes
  <2> QED BY <1>1, <2>3 DEF VisitExpire
<1>2. ASSUME NEW queue \in SUBSET Invoices, visit[v].pc # "idle", Continue(v, queue)
      PROVE  \E w : Goes(v, w)
  BY <1>2, ContinueGoes DEF VisitorOK
<1>3. ASSUME VisitList(v)
      PROVE  (\E w : Goes(v, w)) /\ UNCHANGED <<env, started, given, bought, unsaid>>
  <2>1. PendingPayments(mem, u) \in SUBSET Invoices  BY DEF PendingPayments, RowsOf
  <2> QED BY <1>2, <1>3, <2>1 DEF VisitList
<1>4. ASSUME NEW j \in Invoices, VisitVerify(v, j)
      PROVE  (\E w : Goes(v, w)) /\ UNCHANGED <<env, started, given, bought, unsaid>>
  <2>0. PICK answer \in Answers(j) :
          visit' = [visit EXCEPT ![v].pc = "act", ![v].queue = @ \ {j},
                                 ![v].inv = j, ![v].verdict = answer]
    BY <1>4 DEF VisitVerify
  <2> DEFINE w == [visit[v] EXCEPT !.pc = "act", !.queue = @ \ {j}, !.inv = j,
                                   !.verdict = answer]
  <2>a. /\ answer \in Verdict /\ answer.status = bridge[j].status
        /\ answer.collected \in {"none", bridge[j].collected}
    BY DEF Answers, Verdict
  <2>1. w \in Visit /\ w.pc = "act" /\ w.inv = j /\ w.verdict = answer /\ w.user = u
    BY <1>0, <2>a DEF Visit
  <2>2. visit' = [visit EXCEPT ![v] = w]  BY <1>0, <2>0 DEF Visit
  <2> HIDE DEF w
  <2>3. bridge' = bridge /\ u \in Users  BY <1>4 DEF VisitVerify, VisitorOK
  <2>4. Goes(v, w)  BY <2>a, <2>1, <2>2, <2>3 DEF Goes
  <2> QED BY <1>4, <2>4 DEF VisitVerify
<1>5. ASSUME NEW j \in Invoices, VerifyFails(v, j)
      PROVE  (\E w : Goes(v, w)) /\ UNCHANGED <<env, started, given, bought, unsaid>>
  BY <1>0, <1>2, <1>5 DEF VerifyFails
<1>6. ASSUME VisitSkip(v) \/ VisitFail(v)
      PROVE  (\E w : Goes(v, w)) /\ UNCHANGED <<env, started, given, bought, unsaid>>
  BY <1>0, <1>2, <1>6 DEF VisitSkip, VisitFail
<1>7. ASSUME VisitSettle(v)
      PROVE  /\ \E w : Goes(v, w)
             /\ unsaid' \subseteq Invoices /\ unsaid \subseteq unsaid'
             /\ UNCHANGED <<env, started, given, bought>>
  <2>0. unsaid' \subseteq Invoices /\ unsaid \subseteq unsaid'
    BY <1>7 DEF VisitSettle, VerdictOK
  <2> DEFINE w == [visit[v] EXCEPT !.pc = "buy", !.verdict = NoVerdict]
  <2>1. CASE Continue(v, visit[v].queue)  BY <1>0, <1>2, <1>7, <2>0, <2>1 DEF VisitSettle
  <2>2. CASE /\ Settleable(mem, u, i) /\ mem'.rows[i].status = "success"
             /\ mem.rows[i].plan # NoPlan /\ visit' = [visit EXCEPT ![v] = w]
    <3>1. w \in Visit /\ w.pc = "buy" /\ w.inv = i /\ w.user = u
      BY <1>0 DEF Visit, NoVerdict, Verdict
    <3>2. u \in Users /\ i \in Invoices  BY <1>7 DEF VisitSettle, VisitorOK, VerdictOK
    <3>3. mem.rows[i].plan \in Plans  BY <2>2, <3>2 DEF Store, Row
    <3>4. mem'.rows[i].plan = mem.rows[i].plan
      <4>1. mem' = mem \/ mem' = SetAside(mem, i) \/ mem' = Credit(mem, u, i)
        BY <1>7 DEF VisitSettle, SettleVerified, SaveOrUndo, Saved, SaveFailed
      <4>2. mem.rows[i] \in Row  BY <3>2 DEF Store
      <4>3. CASE mem' = SetAside(mem, i)  BY <3>2, <4>2, <4>3 DEF SetAside, Store, Row
      <4>4. CASE mem' = Credit(mem, u, i)
        <5>0. CreditOf(mem, mem', u, i)  BY <3>2, <4>4, CreditTyped
        <5>1. mem'.rows = [mem.rows EXCEPT ![i] = [mem.rows[i] EXCEPT !.status = "success"]]
          BY <5>0 DEF CreditOf
        <5>2. mem.rows \in [Invoices -> Row]  BY DEF Store
        <5> QED BY <3>2, <4>2, <5>1, <5>2 DEF Row
      <4> QED BY <4>1, <4>3, <4>4
    <3> HIDE DEF w
    <3>5. Goes(v, w)  BY <2>2, <3>1, <3>2, <3>3, <3>4 DEF Goes
    <3> QED BY <1>7, <2>0, <3>5 DEF VisitSettle
  <2>3. visit[v].pc = "act"  BY <1>7 DEF VisitSettle
  <2> QED BY <1>0, <1>7, <2>1, <2>2 DEF VisitSettle, Visit
<1>8. ASSUME VisitBuy(v)
      PROVE  /\ \E w : Goes(v, w)
             /\ bought' \subseteq Invoices /\ UNCHANGED <<env, started, given, unsaid>>
  <2>1. i \in Invoices  BY <1>8 DEF VisitBuy, BuyingOK
  <2>2. bought' = bought \/ bought' = bought \cup {i}  BY <1>8 DEF VisitBuy
  <2> QED BY <1>0, <1>2, <1>8, <2>1, <2>2 DEF VisitBuy
<1> QED BY <1>1, <1>3, <1>4, <1>5, <1>6, <1>7, <1>8 DEF VisitStep

\* Collected money stays collected.
MoneyStays ==
    \A i \in Invoices : bridge[i].collected # "none"
                          => bridge'[i].collected = bridge[i].collected

LEMMA BridgeGoes ==
  ASSUME TypeOK, VisitorOK, VerdictOK, BuyingOK, BridgeOK, [Next]_vars
  PROVE  bridge' \in [Invoices -> Verdict] /\ BridgeOK' /\ MoneyStays
<1> USE DEF TypeOK, BridgeOK, MoneyStays
<1>0. ASSUME bridge' = bridge
      PROVE  bridge' \in [Invoices -> Verdict] /\ BridgeOK' /\ MoneyStays
  BY <1>0
<1>1. ASSUME NEW u \in Users, NEW a, NEW i \in Invoices, NEW p, BridgeStart(u, a, i, p)
      PROVE  bridge' \in [Invoices -> Verdict] /\ BridgeOK' /\ MoneyStays
  BY <1>1 DEF BridgeStart, Verdict
<1>a. ASSUME NEW u \in Users, NEW i \in Invoices, NEW p \in Plans, StartPlan(u, i, p)
      PROVE  bridge' \in [Invoices -> Verdict] /\ BridgeOK' /\ MoneyStays
  BY <1>1, <1>a DEF StartPlan
<1>2. ASSUME NEW i \in Invoices, NEW amt \in Payable, Pay(i, amt)
      PROVE  bridge' \in [Invoices -> Verdict] /\ BridgeOK' /\ MoneyStays
  BY <1>2, TopUpAssumption DEF Pay, Verdict
<1>3. ASSUME NEW i \in Invoices, Close(i)
      PROVE  bridge' \in [Invoices -> Verdict] /\ BridgeOK' /\ MoneyStays
  BY <1>3 DEF Close, Verdict
<1>4. ASSUME NEW v \in Visits, VisitStep(v)
      PROVE  bridge' = bridge
  BY <1>4, VisitGoes DEF env
<1>5. ASSUME NEW c \in started, RecordStart(c) PROVE bridge' = bridge
  BY <1>5 DEF RecordStart, env
<1>6. ASSUME NEW u \in Users, NEW p \in Plans, Activate(u, p) PROVE bridge' = bridge
  BY <1>6 DEF Activate, env
<1>7. ASSUME NEW u \in Users, NEW x, Cancel(u) \/ Recharge(u, x) \/ DecideProviderRequest(u, x) \/ Debit(u, x)
      PROVE  bridge' = bridge
  BY <1>7 DEF Cancel, Recharge, DecideProviderRequest, Debit, env
<1>8. ASSUME Persist \/ Tick \/ Crash \/ UNCHANGED vars PROVE bridge' = bridge
  BY <1>8 DEF Persist, Tick, Crash, vars, env
<1> QED BY <1>0, <1>1, <1>a, <1>2, <1>3, <1>4, <1>5, <1>6, <1>7, <1>8 DEF Next, Buyer

LEMMA OtherGoes ==
  ASSUME TypeOK, [Next]_vars, \A v \in Visits : ~VisitStep(v)
  PROVE  /\ visit' = visit \/ visit' = [v \in Visits |-> Idle]
         /\ bought' = bought /\ unsaid' = unsaid /\ sold' \subseteq Plans
         /\ started' \subseteq Checkout
         /\ now' \in Nat /\ crashes' \in Nat
         /\ \/ given' = given
            \/ \E i \in Invoices : /\ given' = given \cup {i}
                                   /\ disk'.rows[i].status # "none"
<1> DEFINE Others == /\ visit' = visit \/ visit' = [v \in Visits |-> Idle]
                     /\ bought' = bought /\ unsaid' = unsaid /\ sold' \subseteq Plans
                     /\ started' \subseteq Checkout
                     /\ now' \in Nat /\ crashes' \in Nat
           Sent == \/ given' = given
                   \/ \E i \in Invoices : /\ given' = given \cup {i}
                                          /\ disk'.rows[i].status # "none"
<1> USE DEF TypeOK
<1>1. ASSUME NEW u \in Users, NEW a, NEW i \in Invoices, NEW p \in Plans \cup {NoPlan},
             BridgeStart(u, a, i, p)
      PROVE  Others /\ Sent
  <2>1. a \in Nat  BY <1>1, TopUpAssumption DEF BridgeStart
  <2> QED BY <1>1, <2>1 DEF BridgeStart, Checkout
<1>2. ASSUME NEW u \in Users, NEW p \in Plans, Activate(u, p) PROVE Others /\ Sent
  BY <1>2 DEF Activate, env, handlers
<1>3. ASSUME NEW u \in Users, NEW x,
             Cancel(u) \/ Recharge(u, x) \/ DecideProviderRequest(u, x) \/ Debit(u, x)
      PROVE  Others /\ Sent
  BY <1>3 DEF Cancel, Recharge, DecideProviderRequest, Debit, env, handlers
<1>4. ASSUME NEW u \in Users, Buyer(u) PROVE Others /\ Sent
  BY <1>1, <1>2, <1>3, <1>4 DEF Buyer, StartPlan
<1>5. ASSUME NEW c \in started, RecordStart(c) PROVE Others /\ Sent
  <2>1. c.inv \in Invoices  BY DEF Checkout
  <2>2. Sent  BY <1>5, <2>1, RecordEffect
  <2>3. Others  BY <1>5 DEF RecordStart, env
  <2> QED BY <2>2, <2>3
<1>6. ASSUME Persist \/ Tick \/ UNCHANGED vars PROVE Others /\ Sent
  BY <1>6 DEF Persist, Tick, vars, env, handlers
<1>7. ASSUME NEW i, NEW amt, Close(i) \/ Pay(i, amt) PROVE Others /\ Sent
  BY <1>7 DEF Close, Pay, handlers
<1>8. ASSUME Crash PROVE Others /\ Sent
  BY <1>8 DEF Crash
<1> QED BY <1>4, <1>5, <1>6, <1>7, <1>8 DEF Next

-----------------------------------------------------------------------------
(***************************************************************************)
(* The invariant.                                                          *)
(***************************************************************************)

LEMMA InitIInv == Init => IInv
<1> SUFFICES ASSUME Init PROVE IInv  OBVIOUS
<1> USE DEF Init
<1>1. TypeOK  BY EmptyTyped DEF TypeOK, NoVerdict, Verdict, Visit, Idle
<1>2. \A i \in Invoices : mem.rows[i].status = "none"  BY DEF EmptyStore, NoRow
<1>3. Agreement /\ NoCreditWithoutMoney  BY <1>2 DEF Agreement, NoCreditWithoutMoney, Credited
<1>4. VisitorOK /\ VerdictOK /\ BuyingOK  BY DEF VisitorOK, VerdictOK, BuyingOK, Idle
<1>5. BridgeOK /\ CleanMeansSaved /\ CheckoutRecorded
  BY DEF BridgeOK, NoVerdict, CleanMeansSaved, CheckoutRecorded
<1> QED BY <1>1, <1>3, <1>4, <1>5 DEF IInv

\* What the credit of an invoice rests on, after a step.
HasMoney(i) == \/ bridge[i].collected = "full"
               \/ bridge[i].collected = "short" /\ i \in unsaid'

\* What the store's invariants need of a step that credits nothing.
LEMMA QuietStep ==
  ASSUME IInv, mem' \in Store, Keeps(mem, mem'), Written
  PROVE  /\ disk' \in Store /\ dirty' \in BOOLEAN
         /\ Agreement' /\ CleanMeansSaved'
         /\ \A i \in Invoices : disk.rows[i].status # "none" => disk'.rows[i].status # "none"
         /\ Credited(mem') = Credited(mem)
<1> USE DEF IInv, TypeOK, Agreement, CleanMeansSaved, Keeps, Written, Saved
<1>1. disk' \in Store /\ dirty' \in BOOLEAN  OBVIOUS
<1>2. Agreement'
  <2>1. CASE disk' = mem'  BY <2>1
  <2>2. CASE disk' = disk  BY <2>2
  <2> QED BY <2>1, <2>2
<1>3. CleanMeansSaved'  OBVIOUS
<1>4. \A i \in Invoices : disk.rows[i].status # "none" => disk'.rows[i].status # "none"
  OBVIOUS
<1>5. Credited(mem') = Credited(mem)  BY DEF Credited
<1> QED BY <1>1, <1>2, <1>3, <1>4, <1>5

LEMMA CreditStep ==
  ASSUME IInv, NEW v \in Visits, NEW i \in Invoices, Credits(v, i)
  PROVE  /\ mem' \in Store /\ disk' = mem' /\ dirty' = FALSE
         /\ visit[v].user = mem.rows[i].owner /\ visit[v].user \in Users
         /\ mem'.rows = [mem.rows EXCEPT ![i] = [mem.rows[i] EXCEPT !.status = "success"]]
         /\ mem'.bal = [mem.bal EXCEPT ![mem.rows[i].owner] = @ + mem.rows[i].amount]
         /\ Rest(mem') = Rest(mem)
         /\ Credited(mem') = Credited(mem) \cup {i} /\ i \notin Credited(mem)
         /\ HasMoney(i)
<1> DEFINE u == visit[v].user
<1> USE DEF IInv
<1>1. u \in Users  BY DEF Credits, VisitorOK
<1>2. mem.rows[i].owner = u /\ mem.rows[i].status = "pending"
  BY DEF Credits, Settleable, OwnRow
<1>3. /\ mem' \in Store /\ disk' = mem' /\ dirty' = FALSE
      /\ mem'.rows = [mem.rows EXCEPT ![i] = [mem.rows[i] EXCEPT !.status = "success"]]
      /\ mem'.bal = [mem.bal EXCEPT ![u] = @ + mem.rows[i].amount]
      /\ Rest(mem') = Rest(mem)
  <2>1. mem \in Store /\ mem' = Credit(mem, u, i) /\ disk' = mem' /\ dirty' = FALSE
    BY DEF Credits, Saved, TypeOK
  <2>2. CreditOf(mem, mem', u, i)  BY <1>1, <2>1, CreditTyped
  <2> QED BY <2>1, <2>2 DEF CreditOf
<1>4. mem.rows \in [Invoices -> Row] /\ mem.rows[i] \in Row  BY DEF TypeOK, Store
<1>5. Credited(mem') = Credited(mem) \cup {i} /\ i \notin Credited(mem)
  BY <1>2, <1>3, <1>4 DEF Credited, Row
<1>6. HasMoney(i)
  <2>1. bridge[i].collected \in {"full", "short"}
    BY DEF Credits, VerdictOK, TypeOK, Verdict
  <2> QED BY <2>1 DEF Credits, VerdictOK, HasMoney
<1> QED BY <1>1, <1>2, <1>3, <1>5, <1>6

\* Credited rows are never taken back, their invoices never become free again.
LEMMA StoreStep ==
  ASSUME IInv, [Next]_vars, ~Crash
  PROVE  /\ mem' \in Store /\ disk' \in Store /\ dirty' \in BOOLEAN
         /\ Agreement' /\ CleanMeansSaved'
         /\ \A i \in Invoices : disk.rows[i].status # "none" => disk'.rows[i].status # "none"
         /\ \A i \in Credited(mem') : i \in Credited(mem) \/ HasMoney(i)
<1>1. Effect  BY NextEffect DEF IInv
<1>2. CASE Quiet  BY <1>2, QuietStep DEF Quiet
<1>3. ASSUME NEW u \in Users, Moved(u)
      PROVE  mem' \in Store /\ Keeps(mem, mem') /\ Written
  BY <1>3, MovesKeeps DEF Moved, Moves
<1>4. ASSUME NEW v \in Visits, NEW i \in Invoices, Credits(v, i)
      PROVE  /\ mem' \in Store /\ disk' = mem' /\ dirty' = FALSE
             /\ \A j \in Invoices : mem.rows[j].status # "none" => mem'.rows[j].status # "none"
             /\ \A j \in Credited(mem') : j \in Credited(mem) \/ HasMoney(j)
  <2>1. mem.rows \in [Invoices -> Row] /\ mem.rows[i] \in Row
    BY DEF IInv, TypeOK, Store
  <2>2. \A j \in Invoices : mem.rows[j].status # "none" => mem'.rows[j].status # "none"
    <3>1. mem'.rows = [mem.rows EXCEPT ![i] = [mem.rows[i] EXCEPT !.status = "success"]]
      BY <1>4, CreditStep
    <3> QED BY <2>1, <3>1 DEF Row
  <2> QED BY <1>4, <2>2, CreditStep
<1>5. CASE \E v \in Visits, i \in Invoices : Credits(v, i)
  BY <1>4, <1>5 DEF IInv, Agreement, CleanMeansSaved
<1> QED BY <1>1, <1>2, <1>3, <1>5, QuietStep DEF Effect

LEMMA HandlerStep ==
  ASSUME IInv, [Next]_vars, ~Crash
  PROVE  /\ visit' \in [Visits -> Visit] /\ VisitorOK' /\ VerdictOK' /\ BuyingOK'
<1> USE DEF IInv, TypeOK
<1>1. \A i \in Invoices : mem.rows[i].status = "success" =>
          mem'.rows[i].status = "success" /\ mem'.rows[i].plan = mem.rows[i].plan
  <2>1. Effect  BY NextEffect
  <2>2. CASE Quiet  BY <2>2 DEF Quiet, Keeps
  <2>3. CASE \E u \in Users : Moved(u)  BY <2>3 DEF Moved, Moves
  <2>4. ASSUME NEW v \in Visits, NEW i \in Invoices, Credits(v, i)
        PROVE  \A j \in Invoices : mem.rows[j].status = "success" =>
                 mem'.rows[j].status = "success" /\ mem'.rows[j].plan = mem.rows[j].plan
    <3>1. mem.rows \in [Invoices -> Row] /\ mem.rows[i] \in Row  BY DEF Store
    <3>2. mem'.rows = [mem.rows EXCEPT ![i] = [mem.rows[i] EXCEPT !.status = "success"]]
      BY <2>4, CreditStep
    <3> QED BY <3>1, <3>2 DEF Row
  <2> QED BY <2>1, <2>2, <2>3, <2>4 DEF Effect
<1>2. MoneyStays  BY BridgeGoes
<1>3. \/ visit' = visit
      \/ visit' = [v \in Visits |-> Idle]
      \/ \E v \in Visits : \E w : Goes(v, w)
  BY VisitGoes, OtherGoes
<1>4. BridgeOK' /\ bridge' \in [Invoices -> Verdict]  BY BridgeGoes
<1>5. CASE visit' = visit
  BY <1>1, <1>2, <1>5 DEF VisitorOK, VerdictOK, BuyingOK, MoneyStays
<1>6. CASE visit' = [v \in Visits |-> Idle]
  BY <1>6 DEF VisitorOK, VerdictOK, BuyingOK, Idle, NoVerdict, Verdict, Visit
<1>7. ASSUME NEW v \in Visits, NEW w, Goes(v, w)
      PROVE  visit' \in [Visits -> Visit] /\ VisitorOK' /\ VerdictOK' /\ BuyingOK'
  <2>1. visit' = [visit EXCEPT ![v] = w] /\ w \in Visit  BY <1>7 DEF Goes
  <2>2. \A x \in Visits : x # v => visit'[x] = visit[x]  BY <2>1
  <2>3. visit'[v] = w  BY <2>1
  <2>4. VisitorOK'  BY <1>7, <2>2, <2>3 DEF Goes, VisitorOK
  <2>5. VerdictOK'
    BY <1>2, <1>4, <1>7, <2>2, <2>3 DEF Goes, VerdictOK, BridgeOK, MoneyStays
  <2>6. BuyingOK'  BY <1>1, <1>7, <2>2, <2>3 DEF Goes, BuyingOK
  <2> QED BY <2>1, <2>4, <2>5, <2>6
<1> QED BY <1>3, <1>5, <1>6, <1>7

LEMMA NextIInv == IInv /\ [Next]_vars => IInv'
<1> SUFFICES ASSUME IInv, [Next]_vars PROVE IInv'  OBVIOUS
<1>1. bridge' \in [Invoices -> Verdict] /\ BridgeOK' /\ MoneyStays
  BY BridgeGoes DEF IInv
<1>2. CASE Crash
  <2> USE <1>2 DEF Crash
  <2>0. Idle \in Visit  BY DEF Idle, NoVerdict, Verdict, Visit
  <2>a. mem' \in Store /\ disk' \in Store /\ now' \in Nat /\ crashes' \in Nat
    BY DEF IInv, TypeOK
  <2>b. /\ given' \subseteq Invoices /\ bought' \subseteq Invoices
        /\ unsaid' \subseteq Invoices /\ sold' \subseteq Plans
    BY DEF IInv, TypeOK
  <2>c. started' \subseteq Checkout /\ visit' \in [Visits -> Visit]  BY <2>0
  <2>1. TypeOK'  BY <1>1, <2>a, <2>b, <2>c DEF TypeOK
  <2>2. VisitorOK' /\ VerdictOK' /\ BuyingOK'
    BY DEF VisitorOK, VerdictOK, BuyingOK, Idle
  <2>3. Agreement' /\ CleanMeansSaved' /\ CheckoutRecorded'
    BY DEF IInv, Agreement, CleanMeansSaved, CheckoutRecorded
  <2>4. NoCreditWithoutMoney'
    BY DEF IInv, NoCreditWithoutMoney, Agreement, Credited
  <2> QED BY <1>1, <2>1, <2>2, <2>3, <2>4 DEF IInv
<1>3. CASE ~Crash
  <2>1. /\ mem' \in Store /\ disk' \in Store /\ dirty' \in BOOLEAN
        /\ Agreement' /\ CleanMeansSaved'
        /\ \A i \in Invoices : disk.rows[i].status # "none" => disk'.rows[i].status # "none"
        /\ \A i \in Credited(mem') : i \in Credited(mem) \/ HasMoney(i)
    BY <1>3, StoreStep
  <2>2. visit' \in [Visits -> Visit] /\ VisitorOK' /\ VerdictOK' /\ BuyingOK'
    BY <1>3, HandlerStep
  <2>3. /\ started' \subseteq Checkout /\ bought' \subseteq Invoices
        /\ unsaid' \subseteq Invoices /\ unsaid \subseteq unsaid' /\ sold' \subseteq Plans
        /\ now' \in Nat /\ crashes' \in Nat
        /\ \/ given' = given
           \/ \E i \in Invoices : /\ given' = given \cup {i}
                                  /\ disk'.rows[i].status # "none"
    BY OtherGoes, VisitGoes DEF IInv, TypeOK, env
  <2>4. TypeOK'  BY <1>1, <2>1, <2>2, <2>3 DEF IInv, TypeOK
  <2>5. CheckoutRecorded'
    BY <2>1, <2>3 DEF IInv, TypeOK, CheckoutRecorded
  <2>6. NoCreditWithoutMoney'
    <3>1. ASSUME NEW i \in Credited(mem')
          PROVE  \/ bridge[i].collected = "full"
                 \/ bridge[i].collected = "short" /\ i \in unsaid'
      BY <2>1, <2>3 DEF IInv, NoCreditWithoutMoney, HasMoney
    <3>2. \A i \in Credited(mem') : i \in Invoices  BY DEF Credited
    <3> QED BY <1>1, <3>1, <3>2 DEF NoCreditWithoutMoney, MoneyStays
  <2> QED BY <1>1, <2>1, <2>2, <2>4, <2>5, <2>6 DEF IInv
<1> QED BY <1>2, <1>3

LEMMA Invariance == Spec => []IInv
BY InitIInv, NextIInv, PTL DEF Spec

\* Every state of the payment system is of its type.
THEOREM Typed == Spec => []TypeOK
<1>1. IInv => TypeOK  BY DEF IInv
<1> QED BY Invariance, <1>1, PTL

\* No invoice is credited unless the bridge collected all of it, or answered
\* without an amount, however many settlements hold whatever answers.
THEOREM MoneyBehindEveryCredit == Spec => []NoCreditWithoutMoney
<1>1. IInv => NoCreditWithoutMoney  BY DEF IInv
<1> QED BY Invariance, <1>1, PTL

\* A restart never loses a credited top-up: what memory shows as credited is
\* on disk after every step, failed writes included.
THEOREM CreditsAreDurable == Spec => []CreditIsDurable
<1>1. IInv => CreditIsDurable  BY DEF IInv, Agreement, CreditIsDurable, Credited
<1> QED BY Invariance, <1>1, PTL

\* An invoice is on disk before its buyer has anywhere to pay it.
THEOREM CheckoutsAreRecorded == Spec => []CheckoutRecorded
<1>1. IInv => CheckoutRecorded  BY DEF IInv
<1> QED BY Invariance, <1>1, PTL

\* The store never believes a change written that was not.
THEOREM CleanIsSaved == Spec => []CleanMeansSaved
<1>1. IInv => CleanMeansSaved  BY DEF IInv
<1> QED BY Invariance, <1>1, PTL

-----------------------------------------------------------------------------
(***************************************************************************)
(* Every balance is accounted for.                                         *)
(***************************************************************************)

\* The amounts of an account's top-ups, whose sum is TopUpTotal.
Amounts(st, u) == [i \in ToppedUp(st, u) |-> st.rows[i].amount]
AmountsTotal(st, u) == SumFunctionOnSet(Amounts(st, u), ToppedUp(st, u))

LEMMA TotalOfAmounts ==
  ASSUME NEW st, NEW u
  PROVE  TopUpTotal(st, u) = AmountsTotal(st, u)
<1>1. DOMAIN Amounts(st, u) = ToppedUp(st, u)  BY DEF Amounts
<1> QED BY <1>1 DEF SumFunction, TopUpTotal, AmountsTotal, Amounts

\* A store whose balances are accounted for.
Accounted(st) == \A u \in Users : st.bal[u] = AmountsTotal(st, u) + Rest(st)[u]

LEMMA AccountedBoth == BalanceIsAccounted <=> Accounted(mem) /\ Accounted(disk)
<1>1. \A st, u : TopUpTotal(st, u) = AmountsTotal(st, u)
  BY TotalOfAmounts
<1> QED BY <1>1 DEF BalanceIsAccounted, Accounted

LEMMA AccountedBothThen == BalanceIsAccounted' <=> Accounted(mem') /\ Accounted(disk')
<1>1. \A st, u : TopUpTotal(st, u) = AmountsTotal(st, u)
  BY TotalOfAmounts
<1> QED BY <1>1 DEF BalanceIsAccounted, Accounted

LEMMA AmountsTyped ==
  ASSUME NEW st \in Store, NEW u
  PROVE  /\ IsFiniteSet(ToppedUp(st, u))
         /\ \A i \in ToppedUp(st, u) : Amounts(st, u)[i] \in Int
<1>1. IsFiniteSet(ToppedUp(st, u))
  BY KeyAssumption, FS_Subset DEF ToppedUp, Credited
<1> QED BY <1>1 DEF Amounts, ToppedUp, Credited, Store, Row

\* Steps that credit nothing leave every total as it is.
LEMMA SameTotal ==
  ASSUME NEW st \in Store, NEW new \in Store, Keeps(st, new), NEW u
  PROVE  AmountsTotal(new, u) = AmountsTotal(st, u)
<1>1. ToppedUp(new, u) = ToppedUp(st, u)
  BY DEF Keeps, ToppedUp, Credited
<1>2. \A i \in ToppedUp(st, u) : Amounts(new, u)[i] = Amounts(st, u)[i]
  BY <1>1 DEF Keeps, Amounts, ToppedUp, Credited
<1> QED BY <1>1, <1>2, AmountsTyped, SumAgree DEF AmountsTotal

LEMMA QuietAccounted ==
  ASSUME NEW st \in Store, NEW new \in Store, Keeps(st, new), Balanced(st, new), Accounted(st)
  PROVE  Accounted(new)
<1>1. \A u \in Users : st.bal[u] = AmountsTotal(st, u) + Rest(st)[u]
  BY DEF Accounted
<1>2. \A u \in Users : new.bal[u] = AmountsTotal(new, u) + Rest(new)[u]
  BY <1>1, SameTotal DEF Balanced
<1> QED BY <1>2 DEF Accounted

LEMMA MovesAccounted ==
  ASSUME NEW st \in Store, NEW new, NEW w \in Users, Moves(st, new, w), Accounted(st)
  PROVE  Accounted(new)
<1>1. new \in Store /\ Keeps(st, new)
  BY MovesKeeps DEF Moves
<1>2. ASSUME NEW u \in Users PROVE new.bal[u] = AmountsTotal(new, u) + Rest(new)[u]
  <2> DEFINE total == AmountsTotal(st, u)
             before == Rest(st)[u]
             after == Rest(new)[u]
  <2>1. st.bal[u] = total + before
    BY DEF Accounted
  <2>2. AmountsTotal(new, u) = total
    BY <1>1, SameTotal
  <2>3. total \in Int /\ before \in Int /\ after \in Int
    <3>1. total \in Int  BY AmountsTyped, SumType DEF AmountsTotal
    <3>2. before \in Int /\ after \in Int  BY <1>1 DEF Rest, Store
    <3> QED BY <3>1, <3>2
  <2>4. new.bal[u] = st.bal[u] + (after - before)
    <3>1. CASE u = w
      BY <1>1, <3>1 DEF Moves, Store
    <3>2. CASE u # w
      <4>1. after = before
        <5>1. Rest(new) = [Rest(st) EXCEPT ![w] = Rest(new)[w]]  BY DEF Moves
        <5>2. DOMAIN Rest(st) = Users  BY DEF Rest
        <5> QED BY <5>1, <5>2, <3>2
      <4>2. new.bal[u] = st.bal[u] /\ st.bal[u] \in Int
        BY <3>2 DEF Moves, Store
      <4> QED BY <4>1, <4>2, <2>3
    <3> QED BY <3>1, <3>2
  <2> HIDE DEF total, before, after
  <2>5. new.bal[u] = total + after
    BY <2>1, <2>3, <2>4
  <2> QED BY <2>2, <2>5 DEF after
<1> QED BY <1>1, <1>2 DEF Accounted

LEMMA CreditAccounted ==
  ASSUME IInv, Accounted(mem), NEW v \in Visits, NEW i \in Invoices, Credits(v, i)
  PROVE  Accounted(mem')
<1> DEFINE o == mem.rows[i].owner
           a == mem.rows[i].amount
<1>1. /\ mem' \in Store /\ o \in Users /\ Rest(mem') = Rest(mem)
      /\ mem'.rows = [mem.rows EXCEPT ![i] = [mem.rows[i] EXCEPT !.status = "success"]]
      /\ mem'.bal = [mem.bal EXCEPT ![o] = @ + a]
      /\ Credited(mem') = Credited(mem) \cup {i} /\ i \notin Credited(mem)
  BY CreditStep
<1>2. mem \in Store /\ mem.rows \in [Invoices -> Row] /\ mem.rows[i] \in Row
  BY DEF IInv, TypeOK, Store
<1>3. /\ \A j \in Invoices : mem'.rows[j].owner = mem.rows[j].owner
      /\ \A j \in Invoices : mem'.rows[j].amount = mem.rows[j].amount
  BY <1>1, <1>2 DEF Row
<1>4. ASSUME NEW u \in Users PROVE mem'.bal[u] = AmountsTotal(mem', u) + Rest(mem')[u]
  <2> DEFINE old == ToppedUp(mem, u)
             amounts == Amounts(mem', u)
  <2>1. /\ IsFiniteSet(old) /\ \A j \in ToppedUp(mem', u) : amounts[j] \in Int
        /\ \A j \in old : Amounts(mem, u)[j] \in Int
    BY <1>1, <1>2, AmountsTyped
  <2>2. mem.bal[u] = AmountsTotal(mem, u) + Rest(mem)[u]
    BY <1>2 DEF Accounted
  <2>3. ToppedUp(mem', u) = IF u = o THEN old \cup {i} ELSE old
    BY <1>1, <1>3 DEF ToppedUp, Credited
  <2>4. old \subseteq ToppedUp(mem', u)
    BY <2>3
  <2>5. \A j \in old : amounts[j] = Amounts(mem, u)[j]
    BY <1>3, <2>4 DEF Amounts, ToppedUp, Credited
  <2>6. SumFunctionOnSet(amounts, old) = AmountsTotal(mem, u)
    BY <2>1, <2>5, SumAgree DEF AmountsTotal
  <2>7. AmountsTotal(mem, u) \in Int
    BY <2>1, SumType DEF AmountsTotal
  <2>8. /\ mem.bal[u] \in Int /\ Rest(mem)[u] \in Int /\ a \in Int
        /\ mem'.bal[u] = IF u = o THEN mem.bal[u] + a ELSE mem.bal[u]
    BY <1>1, <1>2 DEF Store, Row, Rest
  <2>9. CASE u = o
    <3>1. i \notin old /\ ToppedUp(mem', u) = old \cup {i}
      BY <1>1, <2>3, <2>9 DEF ToppedUp
    <3>2. amounts[i] = a
      BY <1>3, <3>1 DEF Amounts
    <3>3. AmountsTotal(mem', u) = SumFunctionOnSet(amounts, old) + a
      <4> HIDE DEF amounts, old
      <4>1. SumFunctionOnSet(amounts, old \cup {i}) = SumFunctionOnSet(amounts, old) + amounts[i]
        BY <2>1, <3>1, SumMore
      <4> QED BY <3>1, <3>2, <4>1 DEF AmountsTotal, amounts, old
    <3> QED BY <1>1, <2>2, <2>6, <2>7, <2>8, <2>9, <3>3
  <2>10. CASE u # o
    <3>1. AmountsTotal(mem', u) = AmountsTotal(mem, u)
      BY <2>3, <2>6, <2>10 DEF AmountsTotal
    <3> QED BY <1>1, <2>2, <2>8, <2>10, <3>1
  <2> QED BY <2>9, <2>10
<1> QED BY <1>1, <1>4 DEF Accounted

LEMMA InitAccounted == Init => BalanceIsAccounted
<1> SUFFICES ASSUME Init PROVE BalanceIsAccounted
  OBVIOUS
<1>1. \A u \in Users : ToppedUp(EmptyStore, u) = {}
  BY DEF EmptyStore, NoRow, ToppedUp, Credited
<1>2. \A u \in Users : AmountsTotal(EmptyStore, u) = 0
  BY <1>1, SumEmpty DEF AmountsTotal
<1>3. \A u \in Users : EmptyStore.bal[u] = 0 /\ Rest(EmptyStore)[u] = 0
  BY DEF EmptyStore, Rest
<1>4. Accounted(EmptyStore)
  BY <1>2, <1>3, EmptyTyped DEF Accounted
<1> QED BY <1>4, AccountedBoth DEF Init

LEMMA NextAccounted ==
  IInv /\ IInv' /\ BalanceIsAccounted /\ [Next]_vars => BalanceIsAccounted'
<1> SUFFICES ASSUME IInv, IInv', BalanceIsAccounted, [Next]_vars
             PROVE  BalanceIsAccounted'
  OBVIOUS
<1>1. mem \in Store /\ mem' \in Store /\ Accounted(mem) /\ Accounted(disk)
  BY AccountedBoth DEF IInv, TypeOK
<1>2. CASE Crash
  <2>1. mem' = disk /\ disk' = disk  BY <1>2 DEF Crash
  <2>2. BalanceIsAccounted' <=> Accounted(mem') /\ Accounted(disk')
    BY AccountedBothThen
  <2> QED BY <1>1, <2>1, <2>2
<1>3. CASE ~Crash
  <2>1. Effect  BY <1>3, NextEffect DEF IInv
  <2>2. Accounted(mem')
    <3>1. CASE Quiet  BY <1>1, <3>1, QuietAccounted DEF Quiet
    <3>2. CASE \E u \in Users : Moved(u)
      BY <1>1, <3>2, MovesAccounted DEF Moved
    <3>3. CASE \E v \in Visits, i \in Invoices : Credits(v, i)
      BY <1>1, <3>3, CreditAccounted
    <3> QED BY <2>1, <3>1, <3>2, <3>3 DEF Effect
  <2>3. disk' = mem' \/ disk' = disk
    BY <2>1 DEF Effect, Quiet, Moved, Written, Credits, Saved
  <2>4. BalanceIsAccounted' <=> Accounted(mem') /\ Accounted(disk')
    BY AccountedBothThen
  <2> QED BY <1>1, <2>2, <2>3, <2>4
<1> QED BY <1>2, <1>3

\* In memory and in the file, an account's balance is its credited top-ups, the
\* operator's grants, the plans' rows and the credit on its access requests less
\* what it was metered, through every settlement, failed write and crash.
THEOREM BalancesAreAccounted == Spec => []BalanceIsAccounted
BY Invariance, InitAccounted, NextAccounted, PTL DEF Spec

-----------------------------------------------------------------------------
(***************************************************************************)
(* Payments implements Ledger.                                             *)
(***************************************************************************)

LEMMA LedgerInit == Init => LedgerView!Init
<1>1. Rest(EmptyStore) = [u \in Users |-> 0]  BY DEF Rest, EmptyStore
<1> QED BY <1>1 DEF Init, LedgerView!Init, LedgerView!Zero, EmptyStore, NoRow, Credited

LEMMA LedgerBound ==
  ASSUME IInv, Keeps(mem, mem')
  PROVE  LedgerView!Bound /\ Credited(mem)' = Credited(mem)
<1>1. Credited(mem)' = Credited(mem)  BY DEF Keeps, Credited
<1>2. LedgerView!Bound  BY DEF LedgerView!Bound, Keeps, Credited
<1> QED BY <1>1, <1>2

LEMMA LedgerNext == IInv /\ [Next]_vars => [LedgerView!Next]_LedgerView!ledger
<1> SUFFICES ASSUME IInv, [Next]_vars PROVE [LedgerView!Next]_LedgerView!ledger
  OBVIOUS
<1>1. CASE Crash
  <2>1. mem' = disk /\ disk' = disk  BY <1>1 DEF Crash
  <2>2. Credited(mem)' = Credited(mem)
    BY <2>1 DEF IInv, Agreement, Credited
  <2>3. LedgerView!Bound
    BY <2>1 DEF LedgerView!Bound, IInv, Agreement, Credited
  <2>4. LedgerView!Restart  BY <2>1, <2>2, <2>3 DEF LedgerView!Restart
  <2> QED BY <2>4 DEF LedgerView!Next
<1>2. CASE ~Crash
  <2>1. Effect  BY <1>2, NextEffect DEF IInv
  <2>2. LedgerView!Kept
    BY <2>1 DEF Effect, Quiet, Moved, Written, Credits, Saved, LedgerView!Kept
  <2>3. CASE Quiet
    <3>1. LedgerView!Raise
      BY <2>2, <2>3, LedgerBound DEF Quiet, Balanced, LedgerView!Raise
    <3> QED BY <3>1 DEF LedgerView!Next
  <2>4. ASSUME NEW u \in Users, Moved(u) PROVE LedgerView!Next
    <3>1. Credited(mem)' = Credited(mem)  BY <2>4 DEF Moved, Moves, Credited
    <3>2. LedgerView!Move(u)
      BY <2>2, <2>4, <3>1 DEF Moved, Moves, LedgerView!Move
    <3> QED BY <3>2 DEF LedgerView!Next
  <2>5. ASSUME NEW v \in Visits, NEW i \in Invoices, Credits(v, i) PROVE LedgerView!Next
    <3> DEFINE inv == [j \in Invoices |-> [owner  |-> mem.rows[j].owner,
                                          amount |-> mem.rows[j].amount]]
    <3>1. mem.rows \in [Invoices -> Row] /\ mem.rows[i] \in Row
      BY DEF IInv, TypeOK, Store
    <3>2. mem'.rows = [mem.rows EXCEPT ![i] = [mem.rows[i] EXCEPT !.status = "success"]]
      BY <2>5, CreditStep
    <3>3. \A j \in Invoices : /\ mem'.rows[j].owner = mem.rows[j].owner
                              /\ mem'.rows[j].amount = mem.rows[j].amount
      BY <3>1, <3>2 DEF Row
    <3>4. [j \in Invoices |-> [owner  |-> mem.rows[j].owner,
                              amount |-> mem.rows[j].amount]]' = inv
      BY <3>3
    <3>5. mem'.bal = [mem.bal EXCEPT ![inv[i].owner] = @ + inv[i].amount]
      BY <2>5, CreditStep
    <3>6. /\ i \notin Credited(mem) /\ Credited(mem)' = Credited(mem) \cup {i}
          /\ disk'.bal = mem'.bal /\ Rest(disk') = Rest(mem')
          /\ Rest(mem') = Rest(mem)
      BY <2>5, CreditStep
    <3>7. LedgerView!Credit(i)  BY <3>4, <3>5, <3>6 DEF LedgerView!Credit
    <3> QED BY <3>7 DEF LedgerView!Next
  <2> QED BY <2>1, <2>3, <2>4, <2>5 DEF Effect
<1> QED BY <1>1, <1>2

\* Whatever the settlements, failed writes and crashes, the accounts move as
\* Ledger promises: each invoice credited at most once, to its account, by its
\* amount, durably, and a restart brings back a durable balance.
THEOREM PaymentsImplementLedger == Spec => ImplementsLedger
BY Invariance, LedgerInit, LedgerNext, PTL DEF Spec, ImplementsLedger, LedgerView!Spec

=============================================================================
