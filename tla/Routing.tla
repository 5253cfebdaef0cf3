------------------------------- MODULE Routing -------------------------------
(***************************************************************************)
(* A chat call of a configured alias: the chain of rungs an alias and the  *)
(* caller's own vendor keys make, the fallback along it, the marks of      *)
(* providers that refused the gateway's key for money, which every call    *)
(* reads and writes, and what the caller is charged for.                   *)
(*                                                                         *)
(* A request is a plain completion, a stream, or an agent's tool loop,     *)
(* which makes one routed call per round.                                  *)
(***************************************************************************)
EXTENDS Chains

CONSTANTS
    Requests,
    Prepaid,     \* providers whose vendor account can run out of money
    Streaming,   \* providers whose adapter can stream
    Chain,       \* the alias's targets, in the config's order
    Chosen,     \* the targets an administrator may put first, 0 for none
    Callers,     \* who calls, and how
    Cooldown,    \* creditCooldown
    MaxSteps,    \* rounds of a tool loop before the tools are taken away
    MaxNow,      \* bound of the clock
    NoRung

\* What the caller asks for, and the keys the call may use.
Caller == [kind : {"chat", "stream", "loop"},
           mode : {"global", "own", "own-first", "global-first", "unset"},
           keys : [Providers -> Nat], denied : SUBSET Providers]

ASSUME RoutingAssumption ==
    /\ Live \subseteq Providers /\ Prepaid \subseteq Providers /\ Streaming \subseteq Providers
    /\ Chain \in Seq(Target) /\ Callers \subseteq Caller /\ Callers # {}
    /\ {Cooldown, MaxSteps, MaxNow} \subseteq Nat
    /\ Chosen \subseteq 0 .. Len(Chain)

ASSUME RungAssumption == NoRung \notin Rung

VARIABLES
    now,      \* the clock
    drained,  \* Router.drained: when a provider's gateway key was refused
    primary,  \* the target an administrator put first, 0 for none
    req,      \* the requests
    refused   \* history: the last refusal for money of a provider's gateway key

vars == <<now, drained, primary, req, refused>>

\* Times are counted from 1; Never is the missing entry of a map.
Never == 0

\* order: the chain as configured and chosen; funded and back: how creditLast
\* splits it; pos: how far the request is in it; at: the rung being asked,
\* broke: whether it will refuse for money; source: the KeySource recorder.
Request == [pc : {"idle", "sort", "call", "wait", "tools"}, caller : Callers,
            order : Seq(Rung), funded : Seq(Rung), back : Seq(Rung), pos : Nat,
            began : Nat, at : Rung \cup {NoRung}, broke : BOOLEAN,
            wire : BOOLEAN, hung : BOOLEAN, round : Nat,
            source : {"none", "caller", "gateway"},
            own : Nat, gateway : Nat, charged : Nat,
            result : {"none", "trying", "answered", "failed", "cut"}]

Fresh(c) == [pc |-> "idle", caller |-> c, order |-> <<>>, funded |-> <<>>,
             back |-> <<>>, pos |-> 1, began |-> 0, at |-> NoRung, broke |-> FALSE,
             wire |-> FALSE, hung |-> FALSE, round |-> 0, source |-> "none",
             own |-> 0, gateway |-> 0, charged |-> 0, result |-> "none"]

TypeOK ==
    /\ now \in Nat /\ primary \in 0 .. Len(Chain)
    /\ drained \in [Providers -> Nat] /\ refused \in [Providers -> Nat]
    /\ req \in [Requests -> Request]

Init ==
    /\ now = 1 /\ primary = 0
    /\ drained = [p \in Providers |-> Never] /\ refused = drained
    /\ req = [r \in Requests |-> Fresh(CHOOSE c \in Callers : TRUE)]

-----------------------------------------------------------------------------
(***************************************************************************)
(* The chain.                                                              *)
(***************************************************************************)

\* resolveChatTargets, and the rungs the caller's keys make of them.
ChatAttempts(c, first) ==
    Attempts(c, Ordered(Chain, first), [t \in DOMAIN Chain |-> Expand(Chain[t])])

Usable(c, g) == Available(c, g) /\ (c.kind = "stream" => g.prov \in Streaming)

-----------------------------------------------------------------------------
(***************************************************************************)
(* A routed call.                                                          *)
(***************************************************************************)

\* The alias setting is read once per routed call.
Routed(q) ==
    LET order == ChatAttempts(q.caller, primary)
    IN  [q EXCEPT !.pc = IF order = <<>> THEN "call" ELSE "sort", !.order = order,
                  !.funded = <<>>, !.back = <<>>, !.pos = 1, !.began = now,
                  !.result = "trying"]

\* A request comes in, with a recorder of its own.
Arrive(r, c) ==
    /\ req[r].pc = "idle"
    /\ req' = [req EXCEPT ![r] = Routed(Fresh(c))]
    /\ UNCHANGED <<now, drained, primary, refused>>

\* The next round of a tool loop, once its tools have run.
NextRound(r) ==
    /\ req[r].pc = "tools"
    /\ req' = [req EXCEPT ![r] = Routed(@)]
    /\ UNCHANGED <<now, drained, primary, refused>>

\* Variant: a mark is good for ever.
MarkedForGood(p) == drained[p] # Never

\* outOfCreditNow
Marked(p) == drained[p] # Never /\ now - drained[p] < Cooldown

\* Variant: a drained provider's rung is left out.
SplitDropped(q, g) ==
    IF Gateway(g) /\ Available(q.caller, g) /\ Marked(g.prov)
    THEN q
    ELSE [q EXCEPT !.funded = Append(@, g)]

\* One rung goes to the front part or to the back.
Split(q, g) ==
    IF Gateway(g) /\ Available(q.caller, g) /\ Marked(g.prov)
    THEN [q EXCEPT !.back = Append(@, g)]
    ELSE [q EXCEPT !.funded = Append(@, g)]

\* creditLast takes the lock anew for every rung, and forgets a mark it finds
\* too old.
Sort(r) ==
    LET q == req[r]
        g == q.order[q.pos]
        last == q.pos = Len(q.order)
    IN  /\ q.pc = "sort"
        /\ req' = [req EXCEPT ![r] =
             [Split(q, g) EXCEPT !.pc = IF last THEN "call" ELSE "sort",
                                 !.pos = IF last THEN 1 ELSE @ + 1]]
        /\ drained' = IF Gateway(g) /\ Available(q.caller, g) /\ ~Marked(g.prov)
                      THEN [drained EXCEPT ![g.prov] = Never] ELSE drained
        /\ UNCHANGED <<now, primary, refused>>

\* The chain as it will be tried.
Rungs(q) == q.funded \o q.back

\* The rung has no adapter, or one that cannot stream.
Skip(r) ==
    LET q == req[r]
    IN  /\ q.pc = "call" /\ q.pos <= Len(Rungs(q)) /\ ~Usable(q.caller, Rungs(q)[q.pos])
        /\ req' = [req EXCEPT ![r].pos = @ + 1]
        /\ UNCHANGED <<now, drained, primary, refused>>

\* The vendor decides on the money when the call reaches it; its answer comes
\* later.  broke: it will be a refusal for money, of the gateway or the caller.
Call(r, broke) ==
    LET q == req[r]
        g == Rungs(q)[q.pos]
    IN  /\ q.pc = "call" /\ q.pos <= Len(Rungs(q)) /\ Usable(q.caller, g)
        /\ broke /\ Gateway(g) => g.prov \in Prepaid
        /\ req' = [req EXCEPT ![r] =
             [q EXCEPT !.pc = "wait", !.at = g, !.broke = broke, !.pos = @ + 1]]
        /\ UNCHANGED <<now, drained, primary, refused>>

\* The first delta: header and bytes go out.
FirstByte(r) ==
    /\ req[r].pc = "wait" /\ req[r].caller.kind = "stream"
    /\ ~req[r].broke /\ ~req[r].wire
    /\ req' = [req EXCEPT ![r].wire = TRUE]
    /\ UNCHANGED <<now, drained, primary, refused>>

-----------------------------------------------------------------------------
(***************************************************************************)
(* Its end, and the bill.                                                  *)
(***************************************************************************)

\* Variant: the bill does not look at whose key served.
ChargeAll(source, units) == units

\* charge: what the recorder says the caller's key served costs nothing.
Charge(source, units) == IF source = "caller" THEN 0 ELSE units

\* The handler returns: what is left of the request is its outcome and bill.
Done(q, result) ==
    [Fresh(q.caller) EXCEPT !.result = result, !.charged = q.charged, !.own = q.own,
                            !.gateway = q.gateway, !.hung = q.hung]

\* The work of one answer, on the account of the key that was asked.
Worked(q) == IF Gateway(q.at) THEN [q EXCEPT !.gateway = @ + 1]
             ELSE [q EXCEPT !.own = @ + 1]

\* recordBrokenUsage: a caller who hung up pays for what was made, a vendor that
\* broke is not the caller's bill.
Broken(q) == [q EXCEPT !.charged = IF q.hung THEN Charge(q.source, q.own + q.gateway) ELSE 0]

\* KeySource.Set: the first answer of a request is kept.
Recorded(q) ==
    IF q.source # "none" THEN q
    ELSE [q EXCEPT !.source = IF Gateway(q.at) THEN "gateway" ELSE "caller"]

\* The rung fails.  Only a refusal of the gateway's key marks its provider, and
\* only a call of which nothing has gone out goes on to the next rung.
Fail(r) ==
    LET q == req[r]
        mark == Gateway(q.at) /\ q.broke
        next == [q EXCEPT !.pc = "call", !.at = NoRung, !.broke = FALSE]
        cut == Done(Broken(Worked(q)), "cut")
    IN  /\ q.pc = "wait"
        /\ req' = [req EXCEPT ![r] = IF q.wire THEN cut ELSE next]
        /\ drained' = IF mark THEN [drained EXCEPT ![q.at.prov] = now] ELSE drained
        /\ refused' = IF mark THEN [refused EXCEPT ![q.at.prov] = now] ELSE refused
        /\ UNCHANGED <<now, primary>>

\* A stream that closes without a delta is a failure that marks nothing.
Empty(r) ==
    /\ req[r].pc = "wait" /\ req[r].caller.kind = "stream"
    /\ ~req[r].broke /\ ~req[r].wire /\ ~req[r].hung
    /\ req' = [req EXCEPT ![r] = [@ EXCEPT !.pc = "call", !.at = NoRung]]
    /\ UNCHANGED <<now, drained, primary, refused>>

\* The rung answers, and its key is recorded.  A loop whose model
\* wants a tool goes on to the next round, any other request is billed.
Serve(r, more) ==
    LET q == req[r]
        served == Recorded(Worked(q))
        bill == Charge(served.source, served.own + served.gateway)
    IN  /\ q.pc = "wait" /\ ~q.broke /\ (q.hung => q.wire)
        /\ q.caller.kind = "stream" => q.wire
        /\ more => q.caller.kind = "loop" /\ q.round < MaxSteps
        /\ req' = [req EXCEPT ![r] =
             IF more THEN [served EXCEPT !.pc = "tools", !.round = @ + 1, !.at = NoRung,
                                         !.result = "answered"]
             ELSE Done([served EXCEPT !.charged = bill], "answered")]
        /\ drained' = IF Gateway(q.at) THEN [drained EXCEPT ![q.at.prov] = Never] ELSE drained
        /\ UNCHANGED <<now, primary, refused>>

\* Every rung failed.  A loop books what its earlier rounds made.
GiveUp(r) ==
    /\ req[r].pc = "call" /\ req[r].pos > Len(Rungs(req[r]))
    /\ req' = [req EXCEPT ![r] = Done(Broken(@), "failed")]
    /\ UNCHANGED <<now, drained, primary, refused>>

-----------------------------------------------------------------------------
(***************************************************************************)
(* The caller, the administrator and the clock.                            *)
(***************************************************************************)

\* The caller hangs up: the call at the vendor can only fail, and so will the
\* next ones, but for the end of a stream that was read before.  Between two
\* calls nobody looks.
HangUp(r) ==
    /\ req[r].pc = "wait" /\ ~req[r].hung
    /\ req' = [req EXCEPT ![r].hung = TRUE]
    /\ UNCHANGED <<now, drained, primary, refused>>

SetPrimary(k) ==
    /\ k # primary
    /\ primary' = k
    /\ UNCHANGED <<now, drained, req, refused>>

Tick ==
    /\ now < MaxNow
    /\ now' = now + 1
    /\ UNCHANGED <<drained, primary, req, refused>>

Step(r) ==
    \/ NextRound(r) \/ Sort(r) \/ Skip(r) \/ GiveUp(r)
    \/ \E b \in BOOLEAN : Call(r, b) \/ Serve(r, b)
    \/ Fail(r) \/ Empty(r)

Next ==
    \/ \E r \in Requests : \/ \E c \in Callers : Arrive(r, c)
                           \/ Step(r) \/ FirstByte(r) \/ HangUp(r)
    \/ \E k \in Chosen : SetPrimary(k)
    \/ Tick

Spec == Init /\ [][Next]_vars

-----------------------------------------------------------------------------
(***************************************************************************)
(* What makes it correct.                                                  *)
(***************************************************************************)

\* The rungs that stand open to a caller, by the keys, the mode and the
\* approvals: said without the setting, the marks, and the order in which
\* attempts builds them.
Offered ==
    [c \in Callers |->
        {g \in UNION {[target : DOMAIN Chain, prov : {p}, key : 0 .. c.keys[p]] : p \in Providers} :
            /\ g.prov \in Range(Expand(Chain[g.target])) /\ Usable(c, g)
            /\ Gateway(g) => Mode(c) # "own"
            /\ ~Gateway(g) => Mode(c) # "global"}]

\* What is still to be asked of the call at hand.
Left(q) ==
    IF q.pc \notin {"sort", "call", "wait"} THEN {}
    ELSE {g \in Range(IF q.pc = "sort" THEN q.order
                      ELSE SubSeq(Rungs(q), q.pos, Len(Rungs(q)))) : Usable(q.caller, g)}

\* Credit marks, alias settings, streams and other calls change which rung
\* answers, never whether one does: see Fallback.
FallbackView == INSTANCE Fallback WITH
    offer  <- [r \in Requests |-> Offered[req[r].caller]],
    left   <- [r \in Requests |-> Left(req[r])],
    at     <- [r \in Requests |-> req[r].at],
    wire   <- [r \in Requests |-> req[r].wire],
    result <- [r \in Requests |-> req[r].result]

ImplementsFallback == FallbackView!Spec

\* A rung is tried behind one that was configured after it only because the
\* gateway's key for its provider was refused for money within the cooldown
\* before the call: not on a caller's own refusal, not on an older mark.
DemotedOnlyIfRefused ==
    \A r \in Requests : LET q == req[r] IN
        q.pc \in {"call", "wait"} =>
            \A i, j \in DOMAIN q.order :
                i < j /\ q.order[i] \in Range(q.back) /\ q.order[j] \in Range(q.funded) =>
                    LET p == q.order[i].prov
                    IN  Gateway(q.order[i]) /\ refused[p] # Never
                        /\ refused[p] + Cooldown > q.began

\* A request served by one answer is charged for the gateway's work and for
\* nothing else, whichever key answered after which failures.  Loops of several
\* rounds and streams whose caller hung up are another matter (below).
BilledAsServed ==
    \A r \in Requests : LET q == req[r] IN
        q.pc = "idle" /\ q.own + q.gateway <= 1 /\ ~q.hung =>
            q.charged = (IF q.result = "answered" THEN q.gateway ELSE 0)

(***************************************************************************)
(* What the texts say and the code does not do.                            *)
(***************************************************************************)

\* README.md: a call served by the caller's key is not billed.  A stream whose
\* caller hangs up never reaches the recorder, and is.
OwnKeyNotBilled == \A r \in Requests : req[r].charged <= req[r].gateway

=============================================================================
