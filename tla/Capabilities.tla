----------------------------- MODULE Capabilities -----------------------------
(***************************************************************************)
(* Everything a caller may ask a vendor for besides chat: images, speech,  *)
(* embeddings, transcripts, decisions, the Responses API and the opening   *)
(* of a live call.  Each has its own loop over the chain of an alias; they *)
(* share the marks of providers out of credit, and the choices an          *)
(* administrator makes for an alias while they run.                        *)
(***************************************************************************)
EXTENDS Chains

CONSTANTS
    Requests, Admins,
    Aliases,      \* the configured aliases
    Names,        \* of rungs: RungKey
    Deployments,  \* the configs the gateway may be started with
    Voices,       \* the config's named voices: each a voice per provider, or None
    Speaks,       \* Speaks[op]: providers whose adapter implements it
    Native, Local,\* providers with a decisions API, and with log probabilities
    Priced,       \* providers whose live minute has a price
    Prepaid,      \* providers whose vendor account can run out of money
    Calls,        \* what callers ask for
    Edits,        \* what administrators save
    Units,        \* usage a vendor may report, 0 for none
    Samples,      \* labelled decisions of one calibration
    MaxEvents,    \* bound: calls, saves and restarts together
    None, NoAsk

Sections == {"models", "images", "audio", "transcription", "embeddings", "decisions", "live"}

Ops == {"image", "speech", "embedding", "transcription", "decision", "calibrate",
        "responses", "live"}

Words == {None} \cup DOMAIN Voices \cup UNION {Range(Voices[v]) : v \in DOMAIN Voices}

Route == [section : Sections, names : Seq(Names), chain : Seq(Target), voice : Words]

\* AliasSetting: an empty field leaves the config's choice in place.
Setting == [primary : Names \cup {None}, voice : Words]

Unset == [primary |-> None, voice |-> None]

\* One way of asking one rung.  final: the last way this rung has.
Ask == [rung : Rung, way : Ops \cup {"native", "local"}, final : BOOLEAN]

Call == [op : Ops, alias : Aliases, asked : Words, engine : {"auto", "native", "local"},
         ring : KeyRing]

ASSUME CapabilitiesAssumption ==
    /\ Live \cup Native \cup Local \cup Priced \cup Prepaid \subseteq Providers
    /\ Calls \subseteq Call /\ Calls # {} /\ Edits \subseteq [alias : Aliases, to : Setting]
    /\ Deployments # {} /\ \A d \in Deployments : d \in [Aliases -> Route]
    /\ \A d \in Deployments, a \in Aliases : Len(d[a].names) = Len(d[a].chain)
    /\ {Samples, MaxEvents} \subseteq Nat /\ Units \subseteq Nat
    /\ NoAsk \notin Ask /\ Samples > 0

VARIABLES
    deploy,    \* the config the process was started with
    saved,     \* the alias settings on disk
    stored,    \* Store.st.AliasSettings
    settings,  \* Router.settings, what routes
    admin,     \* the handlers of saveAliasSetting
    drained,   \* Router.drained, a mark vanishing when it is too old
    job,       \* the requests
    owing,     \* history: providers whose last answer on the gateway's key was
               \* a refusal for money
    crossed,   \* history: two saves of this process overlapped
    failed,    \* history: one of them was not written
    spent      \* the events so far, which bound the run

vars == <<deploy, saved, stored, settings, admin, drained, job, owing, crossed, failed, spent>>

store == <<saved, stored, settings, admin, crossed, failed>>

\* order: the places of the chain; voice: requestedVoice; rest: what is left to
\* ask; said: the voice sent; source: the KeySource recorder; made: the answers,
\* with whose key made them and the usage they report.
Job == [pc : {"idle", "voice", "sort", "call", "wait", "again"}, call : Calls,
        order : Seq(Nat), voice : Words, rest : Seq(Ask), at : Ask \cup {NoAsk},
        broke : BOOLEAN, said : Words, left : Nat,
        made : Seq([gateway : BOOLEAN, units : Units]), charged : Nat,
        result : {"none", "trying", "answered", "failed"}]

Blank == [pc |-> "idle", call |-> CHOOSE c \in Calls : TRUE, order |-> <<>>, voice |-> None,
          rest |-> <<>>, at |-> NoAsk, broke |-> FALSE, said |-> None, left |-> 0,
          made |-> <<>>, charged |-> 0, result |-> "none"]

Working == [pc : {"idle", "set", "read"}, list : [Aliases -> Setting]]

Off == [pc |-> "idle", list |-> [a \in Aliases |-> Unset]]

CapabilitiesTypeOK ==
    /\ deploy \in Deployments /\ admin \in [Admins -> Working]
    /\ {saved, stored, settings} \subseteq [Aliases -> Setting]
    /\ drained \subseteq Prepaid /\ owing \subseteq Prepaid
    /\ job \in [Requests -> Job] /\ {crossed, failed} \subseteq BOOLEAN /\ spent \in 0 .. MaxEvents

\* applyAliasSettings when the store is attached.
CapabilitiesInit ==
    /\ deploy \in Deployments
    /\ saved = [a \in Aliases |-> Unset] /\ stored = saved /\ settings = saved
    /\ admin = [x \in Admins |-> Off] /\ drained = {} /\ owing = {} /\ crossed = FALSE /\ failed = FALSE
    /\ job = [r \in Requests |-> Blank]
    /\ spent = 0

-----------------------------------------------------------------------------
(***************************************************************************)
(* What tells the loops apart.                                             *)
(***************************************************************************)

\* in: the sections of the config an alias is looked up in; expands: whether a
\* rung that names a model of the registry becomes its providers.
Image == [in |-> {"images"}, expands |-> FALSE, voiced |-> FALSE]
Speech == [in |-> {"audio"}, expands |-> FALSE, voiced |-> TRUE]
Embed == [in |-> {"embeddings"}, expands |-> FALSE, voiced |-> FALSE]
Transcribe == [in |-> {"transcription"}, expands |-> FALSE, voiced |-> FALSE]
Decide == [in |-> {"decisions", "models"}, expands |-> FALSE, voiced |-> FALSE]
Responses == [in |-> {"models", "decisions"}, expands |-> TRUE, voiced |-> FALSE]
LiveSession == [in |-> {"live"}, expands |-> FALSE, voiced |-> TRUE]

Loop == [image |-> Image, speech |-> Speech, embedding |-> Embed,
         transcription |-> Transcribe, decision |-> Decide, calibrate |-> Decide,
         responses |-> Responses, live |-> LiveSession]

\* What the handlers book for an answer, from the usage it reports: pictures and
\* characters are counted here; tokens a vendor does not report are estimated,
\* but for a transcript and a sample of a calibration; a live call is billed
\* by the minute, later.
HandleImages == [u \in Units |-> 1]
HandleSpeech == [u \in Units |-> 1]
HandleEmbeddings == [u \in Units |-> IF u = 0 THEN 1 ELSE u]
HandleResponses == [u \in Units |-> IF u = 0 THEN 1 ELSE u]
HandleDecisions == [u \in Units |-> IF u = 0 THEN 1 ELSE u]
HandleTranscription == [u \in Units |-> u]
HandleDecisionCalibrate == [u \in Units |-> u]
HandleLiveSession == [u \in Units |-> 0]

Books == [image |-> HandleImages, speech |-> HandleSpeech, embedding |-> HandleEmbeddings,
          transcription |-> HandleTranscription, decision |-> HandleDecisions,
          calibrate |-> HandleDecisionCalibrate, responses |-> HandleResponses,
          live |-> HandleLiveSession]

-----------------------------------------------------------------------------
(***************************************************************************)
(* The chain of an alias.                                                  *)
(***************************************************************************)

\* Where a name stands in a chain, 0 if the config has no such rung any more.
Place(route, name) ==
    IF name \notin Range(route.names) THEN 0
    ELSE Min({i \in DOMAIN route.names : route.names[i] = name})

\* rungs
RungOrder(route, setting) == Ordered(route.chain, Place(route, setting.primary))

\* The vendors at each place: without expand, a model of the registry has none.
Vendors(op, chain) ==
    [t \in DOMAIN chain |-> IF Loop[op].expands THEN Expand(chain[t])
                            ELSE IF chain[t].pinned THEN chain[t].serves ELSE <<>>]

\* decisionCandidates
DecisionCandidates(engine, p) ==
    Only(<<"native", "local">>,
         {w \in {"native", "local"} : /\ p \in (IF w = "native" THEN Native ELSE Local)
                                     /\ engine \in {"auto", w}})

\* The ways an adapter can do what is asked of it, none when it cannot.
Ways(c, p) ==
    IF c.op \in {"decision", "calibrate"} THEN DecisionCandidates(c.engine, p)
    ELSE IF p \in Speaks[c.op] THEN <<c.op>> ELSE <<>>

\* What one attempt asks, nothing when it has no adapter.
AsksOf(c, g) ==
    LET ways == IF Available(c.ring, g) THEN Ways(c, g.prov) ELSE <<>>
    IN  [i \in DOMAIN ways |-> [rung |-> g, way |-> ways[i], final |-> i = Len(ways)]]

\* creditLast, on the marks there are.
Moved(c, marks, g) == Gateway(g) /\ Available(c.ring, g) /\ g.prov \in marks

\* Variant: who is out of credit is not asked at all.
CreditLastDropped(c, marks, order) ==
    Only(order, {g \in Range(order) : ~Moved(c, marks, g)})

CreditLast(c, marks, order) ==
    LET back == {g \in Range(order) : Moved(c, marks, g)}
    IN  Only(order, Range(order) \ back) \o Only(order, back)

AllAsks(c, chain, order, marks) ==
    LET tries == CreditLast(c, marks, Attempts(c.ring, order, Vendors(c.op, chain)))
    IN  FlattenSeq([i \in DOMAIN tries |-> AsksOf(c, tries[i])])

\* Every provider and model an alias may be billed under.
Coordinates(t) == Range(t.serves)

\* Variant: only the primary of a live alias is looked at.
LiveProblemsFirst ==
    [d \in Deployments |->
        {a \in Aliases : /\ d[a].section = "live"
                         /\ Coordinates(d[a].chain[1]) \subseteq Providers \ Priced}]

\* LiveProblems: live aliases with a rung nobody serves or nobody priced.
LiveProblems ==
    [d \in Deployments |->
        {a \in Aliases : /\ d[a].section = "live"
                         /\ \/ d[a].chain = <<>>
                            \/ \E t \in Range(d[a].chain) :
                                  Coordinates(t) = {} \/ ~(Coordinates(t) \subseteq Priced)}]

-----------------------------------------------------------------------------
(***************************************************************************)
(* One call.                                                               *)
(***************************************************************************)

\* The alias is looked up and its rungs are ordered by the setting of now.  A
\* voice the caller names needs no second look at the settings.
Begun(q, c) ==
    [q EXCEPT !.pc = IF Loop[c.op].voiced /\ c.asked = None THEN "voice" ELSE "sort",
              !.call = c, !.order = RungOrder(deploy[c.alias], settings[c.alias]),
              !.voice = c.asked, !.result = "trying"]

\* A request for a live alias that must not be served is refused before this.
Arrive(r, c) ==
    /\ job[r].pc = "idle" /\ spent < MaxEvents
    /\ deploy[c.alias].section \in Loop[c.op].in
    /\ c.op = "live" => c.alias \notin LiveProblems[deploy]
    /\ job' = [job EXCEPT ![r] =
         Begun([Blank EXCEPT !.left = IF c.op = "calibrate" THEN Samples ELSE 1], c)]
    /\ spent' = spent + 1
    /\ UNCHANGED <<deploy, drained, owing, store>>

\* requestedVoice: the administrator's choice, else the config's.
ReadVoice(r) ==
    LET q == job[r]
        chosen == settings[q.call.alias].voice
    IN  /\ q.pc = "voice"
        /\ job' = [job EXCEPT ![r] =
             [q EXCEPT !.pc = "sort",
                       !.voice = IF chosen # None THEN chosen ELSE deploy[q.call.alias].voice]]
        /\ UNCHANGED <<deploy, drained, owing, spent, store>>

\* attempts.  Routing has its marks read one at a time.
Sort(r) ==
    LET q == job[r]
    IN  /\ q.pc = "sort"
        /\ job' = [job EXCEPT ![r] =
             [q EXCEPT !.pc = "call",
                       !.rest = AllAsks(q.call, deploy[q.call.alias].chain, q.order, drained)]]
        /\ UNCHANGED <<deploy, drained, owing, spent, store>>

\* Variant: a name without a voice for this provider is sent as it is.
VoiceForAny(voice, p) ==
    IF voice \in DOMAIN Voices /\ Voices[voice][p] # None THEN Voices[voice][p] ELSE voice

\* voiceFor
VoiceFor(voice, p) == IF voice \in DOMAIN Voices THEN Voices[voice][p] ELSE voice

\* A rung is taken up: its voice is looked up, and it is asked.  broke: its
\* answer will be a refusal for money.
AskNext(r, broke) ==
    LET q == job[r]
        k == Head(q.rest)
    IN  /\ q.pc = "call" /\ q.rest # <<>>
        /\ broke /\ Gateway(k.rung) => k.rung.prov \in Prepaid
        /\ job' = [job EXCEPT ![r] =
             [q EXCEPT !.pc = "wait", !.at = k, !.rest = Tail(@), !.broke = broke,
                       !.said = IF Loop[q.call.op].voiced THEN VoiceFor(q.voice, k.rung.prov)
                                ELSE None]]
        /\ UNCHANGED <<deploy, drained, owing, spent, store>>

\* Variant: a refusal is marked whosever key it was.
MarkAnyway(q) == q.broke /\ q.at.final /\ q.at.rung.prov \in Prepaid

\* failed: of the ways of one rung only the last is judged, of the keys only
\* the gateway's.
Mark(q) == q.broke /\ q.at.final /\ Gateway(q.at.rung)

Missed(q) == [q EXCEPT !.pc = "call", !.at = NoAsk, !.broke = FALSE, !.said = None]

\* The live loop could not write another voice into the body of the caller: the
\* rung is passed over before anything is sent, and says nothing of credit.
PassOver(r) ==
    LET q == job[r]
    IN  /\ q.pc = "wait" /\ q.call.op = "live" /\ q.said # q.call.asked
        /\ job' = [job EXCEPT ![r] = Missed(q)]
        /\ UNCHANGED <<deploy, drained, owing, spent, store>>

Fail(r) ==
    LET q == job[r]
    IN  /\ q.pc = "wait"
        /\ job' = [job EXCEPT ![r] = Missed(q)]
        /\ drained' = IF Mark(q) THEN drained \cup {q.at.rung.prov} ELSE drained
        /\ owing' = IF q.broke /\ q.at.final /\ Gateway(q.at.rung) THEN owing \cup {q.at.rung.prov} ELSE owing
        /\ UNCHANGED <<deploy, spent, store>>

\* Variant: a calibration keeps the recorder of its first sample.
ChargedOnce(q, units) ==
    IF q.made # <<>> /\ ~q.made[1].gateway THEN 0
    ELSE IF Gateway(q.at.rung) THEN Books[q.call.op][units] ELSE 0

\* record: work on the caller's own key costs nothing.  Every Decide of a
\* calibration has a recorder of its own.
Charged(q, units) == IF Gateway(q.at.rung) THEN Books[q.call.op][units] ELSE 0

\* The request is over: what it made and what it costs stay behind.
Over(q, result) ==
    [Blank EXCEPT !.call = q.call, !.made = q.made, !.charged = q.charged, !.result = result]

\* served, and the bill.  A calibration that has samples left goes on.
Serve(r, units) ==
    LET q == job[r]
        g == q.at.rung
        next == [q EXCEPT !.made = Append(@, [gateway |-> Gateway(g), units |-> units]),
                          !.charged = @ + Charged(q, units), !.left = @ - 1]
    IN  /\ q.pc = "wait" /\ ~q.broke
        /\ job' = [job EXCEPT ![r] =
             IF next.left = 0 THEN Over(next, "answered")
             ELSE [next EXCEPT !.pc = "again", !.at = NoAsk, !.said = None, !.result = "answered"]]
        /\ drained' = IF Gateway(g) THEN drained \ {g.prov} ELSE drained
        /\ owing' = IF Gateway(g) THEN owing \ {g.prov} ELSE owing
        /\ UNCHANGED <<deploy, spent, store>>

\* An HTTP error of the Responses API is an answer: it is passed through, clears
\* the mark of its provider, and is not booked.
PassThrough(r) ==
    LET q == job[r]
        g == q.at.rung
    IN  /\ q.pc = "wait" /\ q.call.op = "responses"
        /\ job' = [job EXCEPT ![r] = Over(q, "answered")]
        /\ drained' = IF Gateway(g) THEN drained \ {g.prov} ELSE drained
        /\ owing' = IF Gateway(g) /\ q.broke THEN owing \cup {g.prov} ELSE owing
        /\ UNCHANGED <<deploy, spent, store>>

\* Every rung failed.  What a calibration has booked stays booked.
GiveUp(r) ==
    /\ job[r].pc = "call" /\ job[r].rest = <<>>
    /\ job' = [job EXCEPT ![r] = Over(@, "failed")]
    /\ UNCHANGED <<deploy, drained, owing, spent, store>>

\* The next sample of a calibration is a call of its own.
NextSample(r) ==
    /\ job[r].pc = "again"
    /\ job' = [job EXCEPT ![r] = Begun(@, job[r].call)]
    /\ UNCHANGED <<deploy, drained, owing, spent, store>>

\* outOfCreditNow forgets a mark that is too old.
Age(p) ==
    /\ p \in drained
    /\ drained' = drained \ {p}
    /\ UNCHANGED <<deploy, job, owing, spent, store>>

-----------------------------------------------------------------------------
(***************************************************************************)
(* The administrators and the process.                                     *)
(***************************************************************************)

\* What the console accepts for an alias: one of its own rungs, a voice where
\* there is one.
Accepts(e) ==
    LET route == deploy[e.alias]
    IN  /\ e.to.primary # None => e.to.primary \in Range(route.names)
        /\ e.to.voice # None => route.section \in {"audio", "live"}

\* The config's own choice is no choice.
Normal(e) ==
    LET route == deploy[e.alias]
    IN  [primary |-> IF e.to.primary = route.names[1] THEN None ELSE e.to.primary,
         voice |-> IF e.to.voice = route.voice THEN None ELSE e.to.voice]

\* saveAliasSetting up to SetAliasSetting.  A write that fails is answered with
\* an error and leaves the choice in memory.
SaveAliasSetting(x, e, written) ==
    /\ admin[x].pc = "idle" /\ spent < MaxEvents /\ Accepts(e)
    /\ stored' = [stored EXCEPT ![e.alias] = Normal(e)]
    /\ saved' = IF written THEN stored' ELSE saved
    /\ admin' = IF written THEN [admin EXCEPT ![x].pc = "set"] ELSE admin
    /\ crossed' = (crossed \/ \E y \in Admins : admin[y].pc # "idle")
    /\ failed' = (failed \/ ~written)
    /\ spent' = spent + 1
    /\ UNCHANGED <<deploy, settings, drained, job, owing>>

\* Variant: only the alias that was edited is handed over.
AliasSettingsOf(x) ==
    /\ admin[x].pc = "set"
    /\ admin' = [admin EXCEPT ![x] = [pc |-> "read", list |-> settings]]
    /\ UNCHANGED <<deploy, saved, stored, settings, drained, job, owing, crossed, failed, spent>>

\* applyAliasSettings reads every alias's setting ...
AliasSettings(x) ==
    /\ admin[x].pc = "set"
    /\ admin' = [admin EXCEPT ![x] = [pc |-> "read", list |-> stored]]
    /\ UNCHANGED <<deploy, saved, stored, settings, drained, job, owing, crossed, failed, spent>>

\* ... and SetAliasSettings replaces all of them at once.
SetAliasSettings(x) ==
    /\ admin[x].pc = "read"
    /\ settings' = admin[x].list
    /\ admin' = [admin EXCEPT ![x] = Off]
    /\ UNCHANGED <<deploy, saved, stored, drained, job, owing, crossed, failed, spent>>

\* Any other write of the store carries the settings in memory with it.
OtherSave ==
    /\ saved # stored
    /\ saved' = stored
    /\ UNCHANGED <<deploy, stored, settings, admin, drained, job, owing, crossed, failed, spent>>

\* The gateway is stopped and started, with another config perhaps.
Restart(d) ==
    /\ spent < MaxEvents
    /\ deploy' = d
    /\ stored' = saved /\ settings' = saved /\ saved' = saved
    /\ admin' = [x \in Admins |-> Off] /\ drained' = {} /\ crossed' = FALSE /\ failed' = FALSE
    /\ job' = [r \in Requests |-> Blank]
    /\ spent' = spent + 1
    /\ UNCHANGED owing

Step(r) ==
    \/ ReadVoice(r) \/ Sort(r) \/ PassOver(r) \/ Fail(r) \/ PassThrough(r) \/ GiveUp(r) \/ NextSample(r)
    \/ \E b \in BOOLEAN : AskNext(r, b)
    \/ \E u \in Units : Serve(r, u)

Save(x) ==
    \/ \E e \in Edits, w \in BOOLEAN : SaveAliasSetting(x, e, w)
    \/ AliasSettings(x) \/ SetAliasSettings(x)

CapabilitiesNext ==
    \/ \E r \in Requests : Step(r) \/ \E c \in Calls : Arrive(r, c)
    \/ \E p \in Prepaid : Age(p)
    \/ \E x \in Admins : Save(x)
    \/ OtherSave
    \/ \E d \in Deployments : Restart(d)

CapabilitiesSpec == CapabilitiesInit /\ [][CapabilitiesNext]_vars

-----------------------------------------------------------------------------
(***************************************************************************)
(* What callers and operators are shown of an alias.                       *)
(***************************************************************************)

\* Variant: only the first rung is looked at.
HealthOfFirst(a) ==
    LET c == deploy[a].chain
    IN  [providers |-> Range(Expand(c[RungOrder(deploy[a], settings[a])[1]])) \cap Live,
         outOfCredit |-> Range(Expand(c[1])) \cap drained,
         disabled |-> a \in LiveProblems[deploy]]

\* AliasHealthAll answers for every section but the decisions.
AliasHealthAll == {a \in Aliases : deploy[a].section # "decisions"}

\* aliasHealth: who stands behind an alias, decided without asking anybody.
AliasHealth(a) ==
    LET behind == Live \cap UNION {Range(Expand(t)) : t \in Range(deploy[a].chain)}
    IN  [providers |-> behind, outOfCredit |-> behind \cap drained,
         disabled |-> a \in LiveProblems[deploy]]

\* firstReachableProvider: a rung without a provider of its own counts.
Reachable(t) == ~t.pinned \/ Range(t.serves) \subseteq Live

\* AliasInfos leaves out transcription, and live aliases that are refused.
AliasInfos ==
    {a \in Aliases : /\ deploy[a].section # "transcription"
                     /\ a \notin LiveProblems[deploy]
                     /\ \E t \in Range(deploy[a].chain) : Reachable(t)}

-----------------------------------------------------------------------------
(***************************************************************************)
(* What makes it correct.                                                  *)
(***************************************************************************)

\* The rungs that stand open to a caller: said without settings and marks, and
\* without the order in which attempts builds them.
StandOpen(c, chain) ==
    {g \in UNION {[target : DOMAIN chain, prov : {p}, key : 0 .. c.ring.keys[p]] :
                      p \in Providers} :
        /\ g.prov \in Range(Vendors(c.op, chain)[g.target])
        /\ Gateway(g) => Mode(c.ring) # "own"
        /\ ~Gateway(g) => Mode(c.ring) # "global"}

\* All the ways of asking them.
Offered ==
    [d \in Deployments |-> [c \in Calls |->
        UNION {Range(AsksOf(c, g)) : g \in StandOpen(c, d[c.alias].chain)}]]

NotAsked(q) ==
    CASE q.pc \in {"voice", "sort"} -> Offered[deploy][q.call]
      [] q.pc \in {"call", "wait"}  -> Range(q.rest)
      [] q.pc \in {"idle", "again"} -> {}

\* Credit marks, alias settings that change in the middle, and the two ways of
\* asking one rung for a decision change who answers, never whether one does.
CallsView == INSTANCE Fallback WITH
    NoRung <- NoAsk,
    offer  <- [r \in Requests |-> Offered[deploy][job[r].call]],
    left   <- [r \in Requests |-> NotAsked(job[r])],
    at     <- [r \in Requests |-> job[r].at],
    wire   <- [r \in Requests |-> FALSE],
    result <- [r \in Requests |-> job[r].result]

ImplementsFallback == CallsView!Spec

\* A choice an administrator saved is what routes once the handler is through,
\* and what a restart brings back; unless two saves overlap or one fails.
SettingsFollow ==
    ~crossed /\ ~failed /\ (\A x \in Admins : admin[x].pc = "idle") =>
        settings = stored /\ stored = saved

\* A provider stands at the back only for a refusal of the gateway's own key
\* that nothing has made good since, whichever loop got it.
MarkIsEarned == drained \subseteq owing

\* What a provider is told is a voice of its own by the name that was chosen,
\* which may be that name itself, or a word that is nobody's name here; and who
\* names a voice gets that one, whatever is saved for the alias meanwhile.
NoForeignVoice ==
    \A r \in Requests : LET q == job[r] IN
        q.pc = "wait" /\ q.said # None =>
            /\ \/ \E v \in DOMAIN Voices : Voices[v][q.at.rung.prov] = q.said
               \/ q.said \notin DOMAIN Voices /\ q.said = q.voice
            /\ q.call.asked # None => q.voice = q.call.asked

\* No live call is opened that would be billed at nothing a minute, whichever
\* rung of its alias answers and whatever an administrator put first.
LiveIsPriced ==
    \A r \in Requests :
        job[r].pc = "wait" /\ job[r].call.op = "live" => job[r].at.rung.prov \in Priced

\* The answers the gateway's own key made.
Ours(made) == {i \in DOMAIN made : made[i].gateway}

\* The most they can be booked at: what is not reported counts as one.
Most(made) == SumFunctionOnSet(
    [i \in DOMAIN made |-> IF made[i].units = 0 THEN 1 ELSE made[i].units], Ours(made))

\* The gateway's work is booked and the caller's own is not, also when the
\* samples of one calibration are served by different keys, and when a later
\* one of them fails.
BookedAsServed ==
    \A r \in Requests : LET q == job[r]
                            ours == Ours(q.made)
                        IN
        /\ q.charged <= Most(q.made)
        /\ q.call.op # "live" => q.charged >= Cardinality({i \in ours : q.made[i].units > 0})
        /\ q.call.op \in Ops \ {"live", "transcription", "calibrate"} =>
               q.charged >= Cardinality(ours)

\* Nobody is asked with the gateway's key whom health did not name, but for a
\* decision, which health knows nothing of; and behind no alias that is neither
\* listed nor a transcription.
AskedIsShown ==
    \A r \in Requests : LET q == job[r]
                            a == q.call.alias
                        IN
        q.pc = "wait" /\ Gateway(q.at.rung) =>
            /\ a \in AliasHealthAll =>
                  q.at.rung.prov \in AliasHealth(a).providers /\ ~AliasHealth(a).disabled
            /\ deploy[a].section # "decisions" => a \in AliasHealthAll
            /\ deploy[a].section # "transcription" => a \in AliasInfos

=============================================================================
