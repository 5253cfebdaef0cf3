------------------------------- MODULE Access -------------------------------
(***************************************************************************)
(* Whose key pays for a provider: requests to spend the gateway's key and  *)
(* the decisions on them, the credit that comes with a decision, the       *)
(* vendor keys an account has stored, and what a call of that account      *)
(* makes of all this (withCallerKeys, withOwnerCredentials, attempts).     *)
(*                                                                         *)
(* One account.  A call reads the stored keys, the approvals and the       *)
(* subscription under three locks, one after the other, and is routed on   *)
(* what it read; decisions, plans and keys change in between.              *)
(***************************************************************************)
EXTENDS Naturals, FiniteSetsExt, SequencesExt

CONSTANTS
    Providers,
    Configured,   \* the providers in this gateway's config
    Live,         \* of them, those whose adapter came up
    AutoGranted,  \* of them, those with access "auto"; the others are "request"
    Byok,         \* of them, those a caller's own key can be used with
    Calls,
    Headers,      \* what a call may send: keys by provider, and a mode
    KeyIds,       \* ids of stored keys
    MaxKeys,      \* MaxKeysPerProvider
    Gifts,        \* credit an administrator may give with an approval
    Secrets,      \* NABUGATE_SECRET_KEY of one start and the next
    MaxCredit, MaxTroubles, MaxDecisions,   \* bounds of the model; a trouble is a lost write or a restart
    NoSecret

ASSUME AccessAssumption ==
    /\ Live \subseteq Configured /\ AutoGranted \subseteq Configured /\ Byok \subseteq Configured
    /\ Configured \subseteq Providers /\ IsFiniteSet(Providers)
    /\ Gifts \subseteq Nat /\ MaxKeys \in Nat \ {0}
    /\ {MaxCredit, MaxTroubles, MaxDecisions} \subseteq Nat
    /\ NoSecret \notin Secrets

VARIABLES
    kept,      \* the account's requests, credit and keys in Store.st
    saved,     \* what the state file holds of them
    covers,    \* the providers an active subscription of the account opens
    secret,    \* the secret of this start
    call,      \* the calls in flight
    watch,     \* history: what each call could have seen since it began
    troubles, decisions

accessVars == <<kept, saved, covers, secret, call, watch, troubles, decisions>>

Modes == {"unset", "global", "own", "own-first", "global-first"}

Ask == [status : {"none", "pending", "approved", "denied"}, auto : BOOLEAN, credit : Nat]
NoAsk == [status |-> "none", auto |-> FALSE, credit |-> 0]

\* A stored key is sealed under the secret of the start that stored it.
StoredKey == [id : KeyIds, under : Secrets]

\* A key a call may try: the n-th of a header, or a stored one.
Key == (Nat \X {"header"}) \cup (KeyIds \X {"stored"})

Call == [pc : {"idle", "keys", "grants", "plan", "routed"},
         sent : [Providers -> Nat], asked : Modes, mode : Modes,
         keys : [Providers -> Seq(Key)],
         approved : SUBSET Providers, gated : SUBSET Providers, planRate : BOOLEAN]

AccessTypeOK ==
    /\ \A s \in {kept, saved} :
        /\ s.asks \in [Providers -> Ask] /\ s.balance \in Nat
        /\ s.keys \in [Providers -> Seq(StoredKey)]
    /\ covers \in SUBSET Providers /\ secret \in Secrets \cup {NoSecret}
    /\ call \in [Calls -> Call]
    /\ watch \in [Calls -> [approved : SUBSET Providers, covered : SUBSET Providers,
                            ever : SUBSET Providers]]
    /\ {troubles, decisions} \subseteq Nat

Nothing == [asks |-> [p \in Providers |-> NoAsk], balance |-> 0,
            keys |-> [p \in Providers |-> <<>>]]

Quiet == [pc |-> "idle", sent |-> [p \in Providers |-> 0], asked |-> "unset", mode |-> "global",
          keys |-> [p \in Providers |-> <<>>],
          approved |-> {}, gated |-> {}, planRate |-> FALSE]

Unwatched == [approved |-> {}, covered |-> {}, ever |-> {}]

AccessInit ==
    /\ kept = Nothing /\ saved = Nothing
    /\ covers = {} /\ secret \in Secrets \cup {NoSecret}
    /\ call = [c \in Calls |-> Quiet] /\ watch = [c \in Calls |-> Unwatched]
    /\ troubles = 0 /\ decisions = 0

-----------------------------------------------------------------------------
(***************************************************************************)
(* The store.                                                              *)
(***************************************************************************)

\* Every operation keeps its change in memory when the write fails.
Write(new) ==
    /\ kept' = new
    /\ \/ saved' = new /\ UNCHANGED troubles
       \/ troubles < MaxTroubles /\ troubles' = troubles + 1 /\ UNCHANGED saved

\* ApprovedProviders
Approved(s) == {p \in Providers : s.asks[p].status = "approved"}

\* Variant: an account that was refused starts over, its credit forgotten.
AskAfresh(p, auto) ==
    IF kept.asks[p].status \in {"none", "denied"}
    THEN [kept EXCEPT !.asks[p] = [status |-> IF auto THEN "approved" ELSE "pending",
                                   auto |-> auto, credit |-> 0]]
    ELSE kept

\* RequestProvider; its callers pass no credit.  A refused request is opened again
\* and any other is left alone.
RequestProvider(p, auto) ==
    CASE kept.asks[p].status = "none" ->
            [kept EXCEPT !.asks[p] = [status |-> IF auto THEN "approved" ELSE "pending",
                                      auto |-> auto, credit |-> 0]]
      [] kept.asks[p].status = "denied" -> [kept EXCEPT !.asks[p].status = "pending"]
      [] OTHER -> kept

\* DecideProviderRequest, on a request in any state; creditLocked.
DecideProviderRequest(p, approve, gift) ==
    LET given == IF approve THEN gift ELSE 0
    IN  [kept EXCEPT !.asks[p].status = IF approve THEN "approved" ELSE "denied",
                     !.asks[p].credit = @ + given,
                     !.balance        = @ + given]

StoredIds(s) == UNION {{s.keys[p][i].id : i \in DOMAIN s.keys[p]} : p \in Providers}

AddProviderKey(p, id) ==
    [kept EXCEPT !.keys[p] = Append(@, [id |-> id, under |-> secret])]

\* DeleteProviderKey of one key, or of all.
DeleteProviderKey(p, ids) ==
    [kept EXCEPT !.keys[p] = SelectSeq(@, LAMBDA k : k.id \notin ids)]

\* ProviderKeys: a key sealed under another secret is left out.
Readable(p) == SelectSeq(kept.keys[p], LAMBDA k : k.under = secret)

-----------------------------------------------------------------------------
(***************************************************************************)
(* The console's handlers, each one store operation.                       *)
(***************************************************************************)

\* requestProvider: granted at once only where this gateway can serve it.
AskFor(p) ==
    LET new == RequestProvider(p, p \in AutoGranted /\ p \in Live)
    IN  /\ IF new = kept THEN UNCHANGED <<kept, saved, troubles>> ELSE Write(new)
        /\ UNCHANGED <<covers, secret, call, decisions>>

\* decideProviderRequest
Decide(p, approve, gift) ==
    /\ kept.asks[p].status # "none"
    /\ decisions < MaxDecisions /\ decisions' = decisions + 1
    /\ approve => kept.balance + gift <= MaxCredit
    /\ Write(DecideProviderRequest(p, approve, gift))
    /\ UNCHANGED <<covers, secret, call>>

\* saveProviderKey: nothing is stored without a secret, or past the limit.
SaveKey(p, id) ==
    /\ p \in Byok /\ secret # NoSecret
    /\ id \notin StoredIds(kept)
    /\ Len(kept.keys[p]) < MaxKeys
    /\ Write(AddProviderKey(p, id))
    /\ UNCHANGED <<covers, secret, call, decisions>>

DeleteKeys(p, ids) ==
    /\ kept.keys[p] # <<>>
    /\ Write(DeleteProviderKey(p, ids))
    /\ UNCHANGED <<covers, secret, call, decisions>>

-----------------------------------------------------------------------------
(***************************************************************************)
(* A call.                                                                 *)
(***************************************************************************)

\* Normalize
Normal(mode, anyKeys) ==
    IF mode # "unset" THEN mode ELSE IF anyKeys THEN "own-first" ELSE "global"

HeaderKeys(sent) ==
    [p \in Providers |-> [n \in 1 .. (IF sent[p] < MaxKeys THEN sent[p] ELSE MaxKeys) |->
        <<n, "header">>]]

AnyKey(keys) == \E p \in Providers : keys[p] # <<>>

\* withCallerKeys, when the call arrives.
Arrive(c, h) ==
    LET keys == HeaderKeys(h.sent)
    IN  /\ call[c].pc = "idle"
        /\ call' = [call EXCEPT ![c] =
              [Quiet EXCEPT !.pc = "keys", !.sent = h.sent, !.asked = h.mode, !.keys = keys,
                            !.mode = Normal(h.mode, AnyKey(keys))]]
        /\ UNCHANGED <<kept, saved, covers, secret, troubles, decisions>>

\* Header keys are tried first; each list is capped, and so is their sum.
Merged(c, p) ==
    LET both == call[c].keys[p] \o [i \in DOMAIN Readable(p) |-> <<Readable(p)[i].id, "stored">>]
    IN  SubSeq(both, 1, Min({MaxKeys, Len(both)}))

\* The mode is derived anew when the headers carried no key.
MergedMode(c) == IF AnyKey(call[c].keys) THEN call[c].mode ELSE "own-first"

\* withOwnerCredentials: the stored keys,
ReadKeys(c) ==
    /\ call[c].pc = "keys"
    /\ call' = [call EXCEPT ![c] =
          IF \E p \in Providers : Readable(p) # <<>>
          THEN [@ EXCEPT !.pc = "grants", !.keys = [p \in Providers |-> Merged(c, p)],
                         !.mode = MergedMode(c)]
          ELSE [@ EXCEPT !.pc = "grants"]]
    /\ UNCHANGED <<kept, saved, covers, secret, troubles, decisions>>

\* then the approvals,
ReadGrants(c) ==
    /\ call[c].pc = "grants"
    /\ call' = [call EXCEPT ![c].pc = "plan", ![c].approved = Approved(kept)]
    /\ UNCHANGED <<kept, saved, covers, secret, troubles, decisions>>

\* The providers whose gateway key may not be spent.
Denied(approved, covered) == Configured \ (AutoGranted \cup approved \cup covered)

\* Variant: the plan replaces the approvals.
GatedByPlan(c) == Denied({}, covers)

Gated(c) == Denied(call[c].approved, covers)

\* catalogueFor: what the console's card of a provider says.
UsesGatewayKey(p) ==
    /\ p \in Live
    /\ p \in AutoGranted \/ kept.asks[p].status = "approved" \/ p \in covers

Routed(q, gated, planRate) ==
    [q EXCEPT !.pc = "routed", !.gated = gated, !.planRate = planRate]

\* then the subscription, which also sets the rate.
ReadPlan(c) ==
    /\ call[c].pc = "plan"
    /\ call' = [call EXCEPT ![c] = Routed(@, Gated(c), covers # {})]
    /\ UNCHANGED <<kept, saved, covers, secret, troubles, decisions>>

\* attempts: is there a rung of provider p on the gateway's key?
SpendsGateway(c, p) ==
    /\ call[c].mode # "own"
    /\ p \in Live /\ p \notin call[c].gated

End(c) ==
    /\ call[c].pc = "routed"
    /\ call' = [call EXCEPT ![c] = Quiet]
    /\ UNCHANGED <<kept, saved, covers, secret, troubles, decisions>>

-----------------------------------------------------------------------------
(***************************************************************************)
(* The rest of the gateway.                                                *)
(***************************************************************************)

\* A term is bought, edited, cancelled or runs out (Wallet).
PlanChanges(P) ==
    /\ P # covers /\ covers' = P
    /\ UNCHANGED <<kept, saved, secret, call, troubles, decisions>>

Persist ==
    /\ kept # saved /\ saved' = kept
    /\ UNCHANGED <<kept, covers, secret, call, troubles, decisions>>

\* The process starts again, perhaps with another secret or none.
Restart ==
    /\ troubles < MaxTroubles /\ troubles' = troubles + 1
    /\ kept' = saved /\ call' = [c \in Calls |-> Quiet]
    /\ secret' \in Secrets \cup {NoSecret}
    /\ UNCHANGED <<saved, covers, decisions>>

\* What call c could have seen: approved or covered all the time, shown as usable
\* on a card at some time.
Watch(c) ==
    LET now  == Approved(kept')
        card == {p \in Providers : UsesGatewayKey(p)'} IN
    CASE call'[c].pc = "idle" -> Unwatched
      [] call[c].pc = "idle" /\ call'[c].pc # "idle" ->
            [approved |-> now, covered |-> covers', ever |-> card]
      [] OTHER -> [approved |-> watch[c].approved \cap now,
                   covered  |-> watch[c].covered \cap covers',
                   ever     |-> watch[c].ever \cup card]

AccessNext ==
    /\ \/ \E p \in Providers :
            \/ AskFor(p)
            \/ \E approve \in BOOLEAN, gift \in Gifts : Decide(p, approve, gift)
            \/ \E id \in KeyIds : SaveKey(p, id) \/ DeleteKeys(p, {id})
            \/ DeleteKeys(p, KeyIds)
       \/ \E c \in Calls :
            \/ \E h \in Headers : Arrive(c, h)
            \/ ReadKeys(c) \/ ReadGrants(c) \/ ReadPlan(c) \/ End(c)
       \/ \E P \in SUBSET Providers : PlanChanges(P)
       \/ Persist \/ Restart
    /\ watch' = [c \in Calls |-> Watch(c)]

AccessSpec == AccessInit /\ [][AccessNext]_accessVars

-----------------------------------------------------------------------------
(***************************************************************************)
(* Properties.                                                             *)
(***************************************************************************)

\* The credit the requests show is the credit the account was given, in memory
\* and in the file, however often a request is decided, refused and opened again.
CreditAccounted ==
    \A s \in {kept, saved} : s.balance = SumFunction([p \in Providers |-> s.asks[p].credit])

\* A grant adds access and never takes it away (callerkeys.go): a call that had an
\* approval, or a plan, for a provider from its arrival on is not held back from
\* the gateway's key, whatever else changed while it read the store; and one whose
\* card in the console never said so is.  One that only the plan lets through pays
\* the plan's rate.
GrantHonoured ==
    \A c \in Calls, p \in Configured \ AutoGranted :
        call[c].pc = "routed" =>
            /\ SpendsGateway(c, p) => p \in watch[c].ever
            /\ p \in (watch[c].approved \cup watch[c].covered) \cap Live =>
                   SpendsGateway(c, p) \/ call[c].mode = "own"
            /\ SpendsGateway(c, p) /\ p \notin call[c].approved => call[c].planRate

=============================================================================
