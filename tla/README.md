# Verification of NabuGate

NabuGate (Go) is a gateway in front of AI vendors. It authenticates callers by
key, checks the balance of the key's owner, routes the call over several
vendors and credentials with fallback, meters what it cost and takes it off a
wallet, runs agents and flows, brokers browser "live" voice sessions, and sells
wallet top-ups and plans through a payment bridge. This directory holds TLA+
models of its core logic, TLC runs that check them on small instances, and
TLAPS proofs about them for every instance.

Paths below are under `internal/` unless they start with another directory.

## Inventory

### Wallet and top-ups: `adminstore/payments.go`, `server/console.go`, `nabupay/`
- State: per account a balance and a list of payment rows (invoice, amount,
  status, plan, date); the whole store is one in-memory structure under one
  mutex, written whole to one JSON file (temp file, sync, rename), plus a
  `dirty` flag for changes left to the flush every 30 seconds.
- Operations: `rechargeMe` raises an invoice at the bridge and records it;
  `settleMyPayments` (every load of the account screen) expires stale rows,
  asks the bridge about the oldest pending ones and settles, fails or skips
  each; `AddPayment` is the operator's top-up; `RecordUsage` debits.
- Interaction: HTTP calls to the bridge with no lock held; the store's
  operations are called by console handlers and by the metering of every call.
- Hard: several tabs settling at once on answers that have gone stale, writes
  that fail (each operation leaves something different in memory), the process
  killed between two writes that belong together.
- Correct when: nothing is credited without money, or twice; a credit shown is
  durable; an invoice is on disk before its URL is handed out; a collected
  payment is credited in the end; every balance is accounted for.

### Plans: `adminstore/subscriptions.go`, `server/plans.go`, `server/payflow.go`
- State: one optional subscription per account (plan, term, renewals, purchase
  key). Operations: subscribe, cancel, operator edit, `buyPlan` from a
  settlement. Hard: the charge, the bundled credit and the term must land in one
  write; idempotency of the buy button; a plan paid by a top-up is bought by a
  second write after the credit. Correct when: a term is paid for exactly once.

### Admission: `server/server.go` (auth, metering), `server/reserve.go`, keys in `adminstore/store.go`
- State: console keys by name (owner, disabled, allow-list, rate, origins),
  usage rows by name, `reservations.held` per owner, what each request in flight
  read. Operations: the auth middleware's gates, hold and release, `meter`;
  create, delete, disable, re-scope a key; reset counters.
- Hard: balance, key and owner are each read under their own lock and used
  after it; the debit goes by name when the call ends; every exit must release;
  debits ride the flush and die with the process.
- Correct when: reservations match calls in flight; a small balance cannot fan
  out; an emptied account stays empty over a restart; debits reach the owner
  whose traffic it was.

### Live voice sessions: `server/live.go`
- State: a registry of sessions with its own file (project, created, billed
  mark, last report, reaped). Operations: create (reap, count, vendor call,
  register, bill the first minute), usage report (reap, advance the mark, bill),
  final report, prune, load at start. Hard: two files with different write
  policies, reports in any order and repeated, reaping racing reports, the cap
  checked before an unlocked vendor call. Correct when: every second marked is
  charged once, never beyond the clock.

### Routing: `router/`
- State: routes, adapters, the console's alias settings, the map of providers
  out of credit with the time each was marked, the cached model lists.
- Operations: expanding an alias to rungs (own keys and gateway keys by mode),
  trying them in order, marking and clearing credit, streaming with fallback
  only before the first byte; eight more loops over the same chains for images,
  speech, embeddings, transcripts, decisions, calibrations, the Responses API
  and live calls; discovery, health and the alias list.
- Hard: concurrent calls marking and clearing one provider; settings replaced
  in the middle of a call; commitment after the first delta; who is recorded as
  having paid. Correct when: every rung that may be tried is tried before an
  error, nothing is re-sent once bytes are out, out-of-credit only reorders,
  the gateway's work is booked and the caller's own is not, and what is asked is
  what health and the list show, but for the sections each leaves out.

### Provider access and stored keys: `adminstore/provideraccess.go`, `secrets.go`, `server/providers.go`, `server/callerkeys.go`
- State: requests and decisions per account and provider, encrypted stored keys
  (at most 8 per provider). A call reads keys, approvals and subscription under
  three locks. Hard: a decision repeated or reversed, credit that comes with an
  approval, grants that change between the readings. Correct when: a caller
  spends the gateway's key only where a grant said so, a grant that lasts is
  never ignored, and credit given is credit shown.

### Policy and rate limit: `policy/`
- A token bucket per key, made anew when its limit changes, and alias patterns.
  Hard: refill arithmetic across idleness and the burst limit. Correct when: no
  stretch of time admits more than the limit and what it earns in that time.

### Books: `usage/`, `adminstore/requests.go`, metering in `server/server.go`
- State: the in-memory tracker, the stored counters, the ring of recent requests,
  each under a lock of its own. Hard: calls end concurrently, the process starts
  anew, an operator clears the stored counters and not the tracker, and one of
  three recorders books a call by who ended it. Correct when: tracker and counters
  are one book but for what was cleared, and the ring lists its newest entries.

### Console accounts and sessions: `adminstore/store.go`, `server/console.go`, `server/throttle.go`, `server/nabuauth.go`, `server/account.go`
- Administrators, users, sign-in sessions with expiry, throttling of attempts, the
  external sign-in. Hard: the throttle is asked and told in two steps; accounts
  appear from several handlers; writes fail. Correct when: guesses are bounded,
  locks end, and nobody holds a session of no account.

### Agents, flows, conversation memory: `agent/`, `flow/`, `memory/`, `server/flows.go`, `server/tools.go`, `server/console_flows.go`, `server/conversation.go`
- State: two registries the console edits (maps without a lock, over the store),
  the frames of a running flow, a conversation's file. Hard: an edit while a flow
  runs, steps that fail after others cost money, turns of one conversation that
  overlap, a file that cannot be read. Correct when: runs end, each step hears the
  last draft, the registry follows the store, and a conversation is the end of all
  that was said in it since its file was last given up.

### Vendor adapters: `provider/`
- One HTTP dialect each; some take several exchanges (upload and wait, job and
  poll, one pass per question). Hard: the caller hangs up or an answer is lost
  between two of them. Correct when: uploads are tidied, waits end, and one
  question that fails does not throw away the others.

### The rest
Configuration (`config/`), the vendors' own catalogue (`vendors/`), the MCP
protocol, the Opsless and photo proxies, CORS and static files, the web console
(`web/`), the SDKs (`packages/`), deployment files and the agent and flow YAML.
They are I/O, formatting or data with little state of their own;
`PROJECT.json` lists each with its status.

## Modules

| Module | What it is |
|---|---|
| `Wallet` | the store's money operations as operators from a store record to a store record |
| `Payments` (EXTENDS `Wallet`) | top-ups through the bridge: handlers, file, flush, bridge, payer, crash |
| `Ledger` | what top-ups promise: an abstract ledger that `Payments` implements |
| `Admission` | keys, gate, reservations, metering, release, and the console's key operations |
| `LiveSessions` | the live-session registry and its billing |
| `Lists` | the part of a list that is in a set, a filter the provers can reason about |
| `Chains` | from a configured chain to the rungs one call may ask: what all routed calls share |
| `Routing` (EXTENDS `Chains`) | chat, streams and tool loops: fallback, credit marks, who is billed |
| `Capabilities` (EXTENDS `Chains`) | the other eight loops, the console's alias settings, health and the alias list |
| `Fallback` | what one routed call promises its caller; `Routing` and `Capabilities` implement it |
| `Accounts` | setup, sign-up, sign-in, single sign-on, throttle and sessions of the console |
| `Access` | provider requests and decisions, stored keys, and the gate of a call |
| `Flows` | the two registries under the console's edits, and the run of a flow |
| `Conversations` | replay, append, trim and deletion of conversation memory |
| `VendorJobs` | adapters that take a vendor several exchanges |
| `Discovery` | the cached model list of a passthrough provider |
| `Door` | the token bucket and the allow-list of a key |
| `Books` | tracker, stored counters and ring of recent requests, and what is read from them |
| `DataLemmas` | induction, and what lists and sums of functions compute, proved |
| `ChainLemmas` | what the operators of `Chains` make of any chain, proved |
| `PaymentsProofs`, `AdmissionProofs`, `RoutingProofs` | the theorems of these modules |
| `ConsoleProofs` | the theorems of `Accounts` and `Access` |
| `CapabilitiesProofs` | the theorems of `Capabilities` and of `LiveSessions` |
| `ServicesProofs` | the theorems of `Discovery`, `Door`, `VendorJobs`, `Flows`, `Books` and `Conversations` |
| `MCPayments`, `MCAdmission`, `MCLiveSessions`, `MCRouting`, `MCCapabilities`, `MCConsole`, `MCWorkshop`, `MCServices` | model values, symmetry and composed instances for TLC |

Operators named after a function of the code stand for that function. The ones
whose comment starts with "Variant" are wrong on purpose: each is what a
plausible mistake in the code would make of the definition next to it, and
`PROJECT.json` ("mutants") says which property it breaks. The `...TypeOK` of
a module says what its variables range over; those of `Payments` and `Admission`
are checked and proved, the others document.

### Payments and Wallet
`mem` is `Store.st`, `disk` the state file, `dirty` the flag. Every store
operation is one step (one mutex). `Saved`, `SaveFailed`, `SaveOrKeep` and
`SaveOrUndo` are the ways `save()` is used: `SettleVerified` and `Subscribe`
undo their change when the write fails, `StartPaymentFor`, `ClosePayment`,
`ExpireStalePayments`, `AddPayment` and `Unsubscribe` do not. A settlement is
the process `visit[v]`: `VisitExpire`, `VisitList`, then for each invoice
`VisitVerify` (the bridge answers) or `VerifyFails`, and `VisitSkip`,
`VisitFail` or `VisitSettle`, and `VisitBuy` when the row carried a plan. A
verdict is a copy: everything can change before it is used, and a "paid" may come
without the amount (`Answers`), in which case there is nothing to compare and the
row is credited; `unsaid` remembers those. `BridgeStart` and `RecordStart` are the
two halves of `rechargeMe`, of which several run at once (`started`). `sold` is
what this start's config sells: a plan that is gone when its top-up settles is not
bought (`VisitBuy`). The rows of an account that are only ever appended as
successful are kept as totals (`grants`, `plans`). Two things move a balance with
no row: metered cost (`spent`) and the credit an administrator gives with an
approval (`access`, `DecideProviderRequest`). Money is whole units: the code's sums
of floats rounded to cents are not modelled. `bridge` is external: what
`nabupay.Verify` can report of an invoice.

### Admission
A request is `req[r]`, with the balance it read (`seen`) and whether it has a
reservation (`holds`). `Arrive`, `Gate`, `ReadBalance`, `Hold`, `Meter` and
`Release` are the stretches of `auth` between two locks; `RefuseOrigin`,
`RefuseRate` and `Refused` are its other exits. What is held is a float sum of
0.05, which is a little more or less than the exact one: `Rounds` lets the
comparison of `reservations.hold` fall either way on an exact tie; a balance within
the sum's rounding error counts as a tie. `Meter` may charge a request of the
caller's own keys: a stream hung up on is not marked as theirs. `hist` is the set
of names with a usage row, which is all that `NewToken` asks of the usage counters. A call
that is metered several times (tool loops, flows) is metered here once with its
total.

### LiveSessions
`sessions` and `file` are the registry and its file, `charged[s]` the share of
the wallet's debits that session `s` caused and `flushed` what of it is on disk.
A request (`handler[h]`) carries in `owes` the seconds it took off the registry
under the lock and has yet to charge. Time and money are both call time.

### Chains, Routing and Fallback
`Chains` is `rungs`, `expand`, `Normalize` and `attempts` up to `creditLast`. In
`Routing`, `drained` is `Router.drained`, `primary` the alias's setting, `req[r]`
the request that uses slot `r` with the locals of the handler, of `Chat` or
`ChatStream`, and its recorder (`source`). `creditLast` is the steps `Sort`, one
per rung, because it takes the lock for each; `Skip`, `Call`, `FirstByte`, `Fail`,
`Empty`, `Serve` and `GiveUp` are the loop, with `failed`, `served` and the bill
that follows in the handler as part of the step that ends the call. A plain
completion is a tool loop of one round. An answer is one unit of work, and what
is charged of it is one unit or nothing: prices are in `Books`. The vendor's
verdict about money, the hang-up and the clock are free choices. A slot that is
done keeps only the outcome and the bill.

`Fallback` knows no order, no credit, no keys and no bill: a set of rungs is open
to the caller, one at a time is asked, and the call ends as it promises. The set
is defined in `Offered` from keys, modes, approvals and what a target expands to,
so that the refinement also says that `attempts` and `creditLast` lose and invent
nothing. A provider that never came up is still open on the caller's own key
where an alias names it, and not where a registry model does, for `expand`
drops it there.

### Capabilities
`Loop[op]` is what tells the eight loops apart (the sections of the config an
alias is looked up in, whether a registry model is expanded, whether a voice is
sent) and `Books[op]` what their handlers book of an answer. `job[r]` is a call,
from `Arrive` over `ReadVoice`, `Sort`, `AskNext`, `Serve`, `Fail` or `PassThrough`
to its end; a calibration asks once per sample (`NextSample`), and a live call
leaves out a rung whose voice cannot be set on the session (`PassOver`). A named
voice is what each provider calls it, and a provider may call it by the same name,
as `config.default.yaml` has it for marin and cedar. `deploy` is the
config of this start, `stored` and `saved` the alias settings in the store and on
disk, `settings` what the router holds: `SaveAliasSetting`, `AliasSettings` and
`SetAliasSettings` are the three steps of an administrator's save. A mark is a
member of `drained` that may vanish (`Age`): its clock is in `Routing`. `AliasHealth`
and `AliasInfos` are the health check and `GET /v1/models`, computed by rules
of their own as in the code: health goes through every section but the decisions,
the list through every section but transcription.

### Accounts and Access
`Accounts`: `book` and `file` are the accounts, administrators and sessions in
memory and on disk, `tries` the throttle, `at[b]` what the handler of browser `b`
is about to do: each call to the store or the throttle is a step. Time is what is
left of a lock or of a session. `guessed` counts the wrong passwords that were
compared since the count of a name began.

`Access` is about one account: `kept` and `saved` are its requests, credit and
stored keys, `covers` what its plan opens, `call[c]` a call that reads the three
under three locks (`ReadKeys`, `ReadGrants`, `ReadPlan`) and is then routed. A key
that was sealed under another secret is skipped. `watch[c]` remembers what was in
force all the while, and what a card of the console ever said.

### Flows and Conversations
`stored`, `onFile` and `registry` are the console's agents and flows in the store,
its file and the live registries; `edit[e]` a save or a delete, which reads the
whole list under the store's lock and registers it record by record under none.
`run[r]` is a flow: a stack of frames, one per nested `runFlow`, each with the last
output and the calls its outcomes carry. A text is the set of its sources, so
that "which draft did this step hear" can be asked. `spent`, `dead` and `orderly`
are history.

`file[c]` is a conversation's file, `turn[t]` a request between `loadHistory` and
`saveTurn`, `ever[c]` everything stored in `c` since it was last deleted or could
not be read. A file that cannot be read sends the request on without history
(`Replay`), and `Remember` then puts a file with the new turn alone in its place.

### VendorJobs, Discovery, Door and Books
`VendorJobs`: an adapter is its plan, a sequence of stages (`put`, `active`, `ask`,
`submit`, `await`, `fetch`, `extra`, `pass`), one exchange each; `Plans` and `Waits`
say which adapter does what. `task[u]` is a call, `upload[u]` and `work[u]` what
the vendor keeps and makes of it. The answer to a `put` may already say that the
file is ready or failed, and may name it without saying where it is
(`PutWithoutURI`): that one is left at the vendor. Vendors, lost answers and
hang-ups are free.

`Discovery`: `entry` is `Router.catalog` of one provider, `reader[r]` a request for
the list; the list is named by its number, 0 for one without models, which is a
success as well. `Door`: `bucket` counts a token in parts,
a key of limit n earning n parts a tick and a call costing `Ticks` of them, which
keeps the arithmetic of `bucket.allow` in the naturals; `over` is a meter that is
filled by every call let through and drained tick by tick. `Books`: `call[c]` is
written to `tracker`, `counters` and `ring` in three steps; `saved` is the file,
which `Persist` writes and a restart brings back. `ResetUsage` clears counters and
not the tracker. Whether a call is free is `marked`, what the recorder says when it
ended: a stream that breaks or is hung up on is not marked, whosever key it ran on.
`written`, `due` and `base` are history, `base` being what the counters hold beyond
what this process counted: what it found stored, less what was cleared since.

## Runs

Bounds are in the `.cfg` files; each is chosen so that the case a property is
about occurs, which its mutant shows: the property fails on the mutated model
within the same bounds.

| Run | Asks | Bounds |
|---|---|---|
| `topups` | `TypeOK`, `CreditIsDurable`, `CheckoutRecorded`, `PaidIsCredited` (liveness) | 1 account, 2 invoices, 2 recharges at once, 1 settlement at a time, a bridge and writes that fail at will, 1 unit of metered cost, a crash; no plans, under `FairSpec` |
| `plan` | `NoCreditWithoutMoney`, `BalanceIsAccounted`, `CleanMeansSaved`, `ImplementsLedger` | 2 accounts, 1 invoice, 2 settlements in flight, short payments and refunds, answers with and without an amount, an expiry, a plan with bundled credit, the buy button, cancellation, 1 unit from an operator or with an approval, failing writes, a crash after which the plan may not be sold |
| `unexplained` | `HistoryExplainsBalance`: violated | 1 account, 1 invoice, 1 settlement, no failing write, 1 unit from an operator or with an approval |
| `planlost` | `PlanBoughtWithTopUp`: violated | 1 account, 1 invoice, 1 settlement, a plan, no failing write, a crash |
| `admission` | `TypeOK`, `HeldIsRunning`, `FanOutCovered`, `ExhaustionIsDurable` | 2 owners, 1 key name (deleted, recreated, renamed to the other owner), 3 requests, calls of nothing or one reserve, 2 top-ups of one and a half (so that balances of exactly one and two reserves occur), a crash |
| `livebilling` | `BilledOnce`, `WithinTheClock` | 2 sessions of one key, 2 requests, reports of nothing and of more than the clock allows, a window, slack and first minute of 1 unit, TTL 2, instants up to 3, a crash |
| `routing` | `DemotedOnlyIfRefused`, `BilledAsServed`, `ImplementsFallback` | an alias of a pinned target and a registry model of two providers, one of which never came up; 2 requests, loops of up to 2 rounds on the gateway's keys or streams that go from the gateway's key to the caller's own and are denied the gateway's for one provider; one provider whose credit runs out; the second target may be put first; a cooldown of 1 in 2 instants |
| `ownbilled` | `OwnKeyNotBilled`: violated | 1 stream on the caller's key |
| `capabilities` | `SettingsFollow`, `MarkIsEarned`, `NoForeignVoice`, `LiveIsPriced`, `BookedAsServed`, `AskedIsShown`, `ImplementsFallback` | 2 callers, 2 administrators, 5 aliases (speech, transcripts, decisions, a registry model, live), callers with a key of their own and without, calibrations of 2 samples, 2 providers of which one's credit runs out, 2 configs, 3 arrivals, saves and restarts in any mix |
| `console` | `GuessesBounded`, `SessionsHaveAccounts`, `LockEnds` (liveness); `CreditAccounted`, `GrantHonoured` | 1 name, 2 browsers, a lock after 2 failures that lasts 2 ticks, sessions of 1, one lost write or crash; 1 account, 2 providers of which one is configured and on request, 1 call with or without header keys, at most 2 keys a provider, 2 decisions, 1 lost write or restart |
| `services` | `RegistryFollowsStore`, `HearsTheDraft`, `RunsEnd` (liveness); `HistoryIsTheTail`; `FilesTidied`, `RestIsKept`, `EndsByItself` (liveness); `GoodIsKept`; `BurstBounded`; `RecentIsTheTail`, `BooksAgree` | 4 flows, one of them 3 deep, 2 editors, 1 run, two edits or one edit and one run, 1 lost write or restart; 2 projects, 3 overlapping turns, at most 2 messages and 4 characters kept, 1 deletion or failed write; every adapter plan, 2 polls before a deadline, 2 lost or useless answers, hang-ups; 2 readers, 2 published lists and empty answers; 2 callers, a key of the config and one minted anew, limits of 1 and 2 a minute, 2 ticks a minute; 2 clients, 2 projects, a ring of 2, 3 calls, refusals, resets and restarts |
| `flowlost` | `EverythingSpentIsBooked`: violated | the flows of `services` |

Two of each actor is enough for a race between two of them; a third request in
`admission` is there because the bound it checks counts requests, a third turn
of a conversation because two can only overlap and a third sees the result.
`console`, `flowlost` and `services` compose modules that share no state: each
behaviour of the whole is one of every part, so a run explores one part at a
time (`half`, `part`), which the other parts' initial states only stand beside.
Accounts, settlements, invoices, names, requests, administrators and sessions
are interchangeable in the models that use symmetry; no symmetry is used with a
liveness property, nor with an action property other than the refinements, whose
abstract state is symmetric as well.

The violated properties are promises found in the texts of the repository; the
findings in `PROJECT.json` quote each line:

- `planlost`: "the settle that credits it buys the plan in the same request".
  Crediting and buying are two writes. A crash or a failed write between them
  leaves a top-up credited, no longer pending, and its plan never bought.
- `unexplained`: "a buyer's history always explains their balance: money never leaves
  without a row". An administrator who approves a provider request with credit moves
  the balance, and the credit is on the card of the request and in no row. What does
  hold of every balance is `BalanceIsAccounted`.
- `ownbilled`: "a call served by your key is not billed here". Whose key it was is
  recorded when a stream ends well; one that its caller hangs up on is billed
  for what was made, and by then nothing is recorded.
- `flowlost`: "a chain that died at step three already spent steps one and two"
  and is recorded. An inner flow that fails hands its outer flow the error and
  nothing of what ran, so what its steps spent is booked nowhere.

### Fairness
`topups` runs under `FairSpec`: the panel settles on every load and each buyer keeps
coming back (strong fairness of starting a settlement for each account, since the
slots of `Visits` are a bound of the model and may be taken); a running handler goes on
(weak fairness of each of its steps); the bridge does not refuse to answer about
one invoice forever and the disk does not refuse every write of a credit (strong
fairness of an answer, and of a settlement that lands). Nothing is assumed of the
payer, of crashes (bounded) or of operators. The run has room in the list for
every pending invoice and no expiry (`MaxDay = 0`): with fewer places than
abandoned checkouts, or once a row is seven days old, the code does give up on an
invoice, and no text promises otherwise.

`LockEnds` assumes that time passes and that a handler that runs goes on
(`AccountsFairness`); whoever keeps trying a name is free to. `RunsEnd` assumes that
a run is scheduled and that a vendor call ends, for the adapters' clients have
timeouts (`FlowsFairness`). `EndsByItself` assumes that an adapter goes on without
anything going wrong (`VendorJobsFairness`): each of its exchanges ends and its
sleeps are over some time; the vendor need not finish, nor the caller hang up. It
is stated for the adapters that set a deadline; AssemblyAI and Speechmatics wait
for as long as the request's own context lasts.

Deadlock is not checked: every run has bounded counters, and a program waiting
for its next request is not stuck.

## Proofs

Proved by `tlapm` for every value of the constants that meets the assumptions of
the modules: any accounts, plans, names, settlements, aliases, flows and calls,
any finite sets of the actors something is counted over (requests, browsers,
handlers, clients), any chain, prices, costs and limits, with writes that may fail
where the hypotheses below do not say otherwise.

Every invariant, action property and refinement that a passing run checks is a
theorem; what is not is at the end of this section. Each proof names the
inductive invariant it rests on, which says more than the property.

`DataLemmas` is where induction over data is. The library's induction theorems
take the predicate as an operator, which the installed provers cannot
instantiate; `NatSetInduction` takes it as the set of what satisfies it, and is
proved from the well-foundedness of the naturals. From it follow, for any
sequence and any finite set, what `FlattenSeq` and `Only` return (members, length,
no repetition) and how the sum of a function moves when it changes at one
argument or none. `ChainLemmas` says with these that `RungsOf` and `Attempts` hold
each rung a caller's keys and mode allow, once, and no other.

`PaymentsProofs`: `Typed`, `MoneyBehindEveryCredit`, `CreditsAreDurable`,
`CheckoutsAreRecorded`, `CleanIsSaved`, `BalancesAreAccounted`,
`PaymentsImplementLedger`. The inductive invariant `IInv` adds to the properties:
memory and file credit the same rows to the same accounts by the same amounts
(`Agreement`, which is what makes a crash harmless), collected money stays collected
(`BridgeOK`), a verdict may be stale about the status and silent about the money but
not wrong about it (`VerdictOK`), and a plan is bought for a credited row
(`BuyingOK`). Steps that credit nothing are shown to keep the credited rows
(`Keeps`) once and for all; the refinement then needs only what each kind of step
does to balances, and `BalancesAreAccounted` by how much one row more moves the sum
of an account's rows.

`AdmissionProofs`: `Typed`, `ReservationsMatchCalls`, `FanOutIsBounded`, and
`EmptiedStaysEmptied` (the last for a disk that takes every write). `FanOutCovered`
is not inductive by itself: it needs that what is held counts exactly the
requests that hold (`HeldIsRunning`) and that only running requests do
(`HoldersRun`). A request that read a balance of less than k reserves is admitted
only if fewer than k are held, for a tie at k would need all of k, hence by fewer
than k requests, so that it is at most the k-th; releases only shrink the set, and
no other step changes it. Of a balance of exactly k reserves the same holds of
k + 1, and that is what the code does: see the end.

`RoutingProofs`: `CreditReordersOnly`, `OneAnswerIsBilledAsServed`,
`CallsFallBack`. The marks other calls write and clear are never newer than the
last refusal, and no refusal is in the future (`MarksOK`): a rung that goes to the
back on a mark younger than the cooldown had a refusal that young when its call
began, and refusals only get younger (`RungOK`). For the bill, a request that has no
answer yet has an empty recorder (`NothingYet`), so the recorder's first answer is
the request's. For the refinement, a call's list holds each rung open to its
caller once, and `creditLast`, which goes through it rung by rung while others mark
and clear, only permutes it (`WalkInv`): what lies behind the call's place is what
`Fallback` has left.

`CapabilitiesProofs`: `LiveCallsCost`, `GatewayWorkIsBooked`, `NobodyAskedInHiding`,
`VoicesAreTheProviders`, `MarksAreEarned`, `SettingsAreHandedOver`,
`OtherCallsFallBack`. A call asks only what its alias's chain of this start and its
caller's keys allow, and has booked what it was served, sample by sample
(`JobInv`); the first four follow from it. While saves do not cross and writes
land, the list on its way to the router is the store's (`SettingsInv`). The
refinement is argued as in `Routing`, with the ways of asking one rung counted in
and the order an administrator may change under a call (`WalkInv`).

The same module has `EverySecondIsBilledOnce` and `NobodyPaysAheadOfTheClock` of
`LiveSessions`. What a session was charged and what requests in flight took off
the registry and have yet to charge (`Cost`) is its mark, or less once a process
died; and the mark is within the clock and its slack (`LiveInv`). A request that
reaps holds several sessions at once, so that the sum over handlers is of sums
over what each owes.

`ConsoleProofs`: `SessionsAreOwned`, `GuessesAreBounded`, `GrantsAreHonoured`,
`CreditIsAccounted`. No operation of the store takes an account away, and a handler
about to issue a session has made sure of one (`IssueOK`); a write that fails
leaves the file as it was, which had the accounts of its own sessions. Every wrong
password is in the throttle's count or in the hands of a handler that has yet to
count it, and each handler past the throttle has one more to compare (`GuessOK`). A
grant that lasted from a call's arrival is in force at each of its readings
(`WatchOK`), so the first reading has every lasting approval (`ReadOK`) and the second
every lasting plan (`RoutedOK`); and what either found was on a card at that
moment. A request that was never made has given no credit (`Credited`), so every
decision moves the account's credit and the sum of the cards' by the same amount.

`ServicesProofs`, part by part:
- `GoodListIsKept`: once a list is kept the entry holds one until the provider itself
  answers with an empty one, and a reader that came in between holds one too, whether
  it was found, cached or left by a refusal (`ListKept`).
- `BurstIsBounded`: what the meter holds and what the bucket has earned since are
  at most one full bucket together (`Together`): a call moves its parts from one
  to the other, a tick earns the one and drains the other alike.
- `FilesAreTidied`, `DecisionsKeepTheRest`: what a call has come to at each stage
  of its adapter's plan, and what is left of the plan (`JobsInv`). A call that knows
  the name of its file and where it is ends by way of the deferred deletion only; the
  passes a decision has behind and before it are all of them.
- `SavedIsFound`: while edits come one at a time and reach the disk, the live
  registries are the store over the config's own, but for what the edit in flight
  has still to register (`EditsInv`).
- `BooksAgreeAlways`: tracker, counters and bill differ by the calls that wrote the
  one and not yet the other, by what was stored at the start and by what was cleared
  since (`BooksInv`), each step moving one summand.
  `RecentIsTheNewest`: the ring's slots are the end of what was written, by
  arithmetic modulo its size (`RingInv`).
- `TurnsAreKept`: trimming what was trimmed and added to is trimming all of it
  (`TrimOfTrim`), because an end that fits within the limits after an addition did
  before it. What a turn has yet to store is nowhere in the file (`MemoryInv`). A file
  that could not be read starts over, as a deleted one does.
- `StepsHearTheDraft`: the frames of a run are nested, each opened by the call at
  which the one below it waits, and each carries the last of its own calls that
  answered (`RunsInv`). An inner flow that returns hands over what it carries, one
  that dies takes its calls out of every count.

Hypotheses. `EmptiedStaysEmptied`, `EverySecondIsBilledOnce` and
`NobodyPaysAheadOfTheClock` assume `SavesMayFail = FALSE`, as their runs do: with a
registry that is not written, a crash makes the same seconds billable again (see
below). The two refinements of `Fallback` assume that no registry model names one
provider twice (`ServedOnce`, `NamedOnce`): `expand` would put its rung in the list
twice. Nothing in `config/` refuses such a model; `config.default.yaml` has none.
Everything else holds under the assumptions of the modules, which give constants their
types, their finiteness and the order of limits.

Only model-checked: `PaidIsCredited`, `LockEnds`, `RunsEnd` and `EndsByItself`,
which are liveness and out of the provers' reach, and the four
violations.

## Seen in the code

Met while modelling, and not turned into a property of a run: each is a place
where the code does something a reader of it might not expect.

- Money at the door. "That overdraft is one request deep" (`server/reserve.go:17`):
  two calls that each cost more than a reserve run together and both overdraw. A
  key deleted with a call in flight has no usage row until the call ends, so
  another account may take its name and is debited for it
  (`adminstore/store.go:658`). A reminted key gets a full bucket. "A $5 balance a hundred
  at once" (`reserve.go:15`): a hundred reserves of 0.05 add up to less than 5, and
  the hundred and first call is admitted, as the ninth is on $0.40.
- Live sessions. The cap is counted before the vendor is called with no lock held,
  so requests that run together pass it together (`server/live.go:347`). A session
  the vendor opened is lost if the process dies before it is registered
  (`live.go:353`). A failed write of the registry followed by a crash makes the
  same seconds billable again (`live.go:415`).
- Who pays. "Must decide who pays per call" (`server/callerkeys.go:88`): the rounds
  of a tool loop share one recorder, which keeps its first answer
  (`server/tools.go`). A caller who sends the mode `own` with no key in the headers
  and has a stored one is routed `own-first` (`callerkeys.go:124`). What ends a
  stream is decided by the caller's context when it is recorded
  (`server/server.go:403`), so a vendor's failure just before a hang-up is billed.
  `testAgent` calls a vendor and books nothing. A broken or hung-up stream on the
  caller's own key is on the gateway's books as money it paid (`server.go:409`).
- Usage that is not seen. Transcripts and samples of a calibration without reported
  tokens are booked at nothing; a pass whose answer has no usable letters loses its
  usage (`provider/decision_engine.go`); a Replicate or Gamma job that is given up
  goes on at the vendor. The MCP tool for usage takes a project's name as it is
  written and the one for requests in any case (`mcp/tools.go`). An operator who
  clears a project's usage clears what is stored (`adminstore/store.go:1019`), while
  `GET /v1/usage` and the MCP tool go on with the tracker's sum until a restart.
- Payments. `StartPaymentFor` keeps its row in memory when the write fails
  (`payments.go:70`). A refund seen later turns an "underpaid" row into "failed"
  (`payments.go:187`). The purchase key is compared with the current term only
  (`subscriptions.go:125`). The confirmation of a switch of plans is asked and
  used under two locks (`payflow.go:45`), as is the right to edit a key
  (`console.go:487`). The directory is not synced after a rename (`store.go:345`).
  A "paid" that does not say how much is credited in full (`payments.go:133`), and a
  payment refunded between the bridge's answer and its use is credited
  (`console.go:893`).
- Settings and registries. Two administrators who save at once may leave the router
  with the older list until the next save (`server/aliases.go:202`). A managed agent
  that shadows one of the config takes it along when it is deleted, until a
  restart. Two discoveries at once may leave the older list (`router.go:771`).
- Files and lists that are lost. A conversation whose file cannot be read, for
  whatever reason, is replaced by one that holds the new turn alone
  (`memory/store.go:162`). An upload that is answered with a name and no URI stays at
  the vendor (`provider/gemini_transcribe.go:430`). A model list without a single id
  is a success and replaces a good one (`provider/openai_models.go:51`).
- Lists. `AliasInfos` omits transcription. "Every configured alias"
  (`router/health.go:59`) is every one but those of decisions. Only chat and
  Responses expand a model of the registry, while health counts its providers for
  every alias. An upstream error of the Responses API is passed through as served,
  which clears the provider's mark.

## Plan

1. Done: `Wallet`, `Payments`, `Ledger`, `Admission`, `LiveSessions` with the proofs
   of the first two.
2. Done: `Chains`, `Routing`, `Capabilities`, `Fallback`; `Accounts`, `Access`;
   `Flows`, `Conversations`; `VendorJobs`, `Discovery`, `Door`, `Books`.
3. Done: the theorems of all of these, with `DataLemmas` and `ChainLemmas`.
4. Done: what moves a balance without a row, ties of the reservations, answers that
   say less than they should, files that cannot be read, counters that are cleared.
5. Next, the hypotheses: the refinements of `Fallback` where a registry model names
   one provider twice, with a count of asks per rung in place of a set; and what
   `LiveSessions` keeps when the registry's writes fail (no session costs more
   than the clock allows between two restarts).

## Not modelled

Lost renames after a power cut (a crash here is a killed process). Float rounding of
money, but for the ties of the reservations: that what accumulates stays below the
smallest amount the models tell apart is assumed. The text of messages and headers,
HTTP, JSON and encryption, vendor dialects and the console's pages: data and
formatting, which no property here is about. The siblings of a passthrough model
name, which differ from a configured chain only in where they come from.
Deployment-config keys, which bill nobody, and origin patterns. The operator's edit
of a subscription. Configuration parsing and defaults: pure functions of a file read
once. Which tools an agent runs and what they return. The two proxies and the MCP
protocol, which keep no state. The web console, the SDKs, deployment files and YAML.
`PROJECT.json` gives the reason for each component.

The store is one structure under one mutex, but is modelled in parts (`Payments`,
`Admission`, `Accounts`, `Access`, `Capabilities`, `Flows`, `Books`): every operation of
it is atomic and touches one part, and no property relates two of them. What one
part needs of another is a free choice in it: accounts appear in `Accounts` at any
time, plans change in `Access` at any time, and the wallet that live sessions debit
is one counter per session.
