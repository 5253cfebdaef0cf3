------------------------------- MODULE Flows -------------------------------
(***************************************************************************)
(* Agents and flows: the two registries requests look names up in, the     *)
(* console that edits them over the store (saveAgent, saveFlow and the     *)
(* deletes), and the run of a flow (runFlow, runStep), step by step and    *)
(* flow within flow, up to the booking of what its calls cost.             *)
(*                                                                         *)
(* The registries are maps without a lock: an edit takes several steps,    *)
(* other edits and runs go on between them, and an overlap the Go runtime  *)
(* catches ends the process (Restart).                                     *)
(***************************************************************************)
EXTENDS Naturals, FiniteSets, SequencesExt

CONSTANTS
    Names,         \* names of agents, flows and model aliases
    Aliases,       \* those the router knows as aliases
    Models,        \* what an agent may run on
    Chains,        \* the flows an administrator may write: sequences of Step
    BakedAgents,   \* agents and flows of the config: [Names -> Models \cup {Nothing}]
    BakedFlows,    \*                                 [Names -> Chains \cup {Nothing}]
    Written,       \* names the console writes and deletes
    Called,        \* names requests ask for
    Editors,       \* console requests being handled
    Runs,          \* requests for a flow being handled
    MaxFlowDepth,  \* maxFlowDepth
    MaxEdits, MaxUpsets,   \* bounds of the model; an upset is a lost write or a restart
    Nothing

ASSUME FlowsAssumption ==
    /\ Aliases \cup Written \cup Called \subseteq Names /\ MaxFlowDepth \in Nat \ {0}
    /\ {MaxEdits, MaxUpsets} \subseteq Nat
    /\ Nothing \notin Models \cup Chains
    /\ \A c \in Chains : c # <<>>

VARIABLES
    stored,     \* Store.st: console agents and flows, by kind and name
    onFile,     \* what the state file holds of them
    registry,   \* the live registries, by kind and name
    edit,       \* the console requests in flight
    run,        \* the flow requests in flight
    spent,      \* history: the vendor calls each run made and who paid
    dead,       \* history: the frames of each run that ended in an error
    orderly,    \* history: no two edits overlapped and no write was lost since the start
    edits, upsets

flowsVars == <<stored, onFile, registry, edit, run, spent, dead, orderly, edits, upsets>>
editVars == <<stored, onFile, registry, edit, orderly, edits>>
runVars == <<run, spent, dead>>

Kinds == {"agent", "flow"}
Defs(kind) == IF kind = "agent" THEN Models ELSE Chains
Baked == [agent |-> BakedAgents, flow |-> BakedFlows]
Empty == [k \in Kinds |-> [n \in Names |-> Nothing]]

\* What a step is told, as the set of its sources: 0 is the caller's brief, n
\* the output of the run's n-th call.  A template names what it quotes; {} is
\* no template.
Text == SUBSET Nat
Step == [agent : Names, input : SUBSET {"previous", "input"}, optional : BOOLEAN]

\* A flow being run: what it was asked, where it is, the last output, and the
\* calls its outcomes carry (SubSteps flattened, as the booking walks them).
Frame(serial, name, steps, asked) ==
    [serial |-> serial, flow |-> name, steps |-> steps, asked |-> asked,
     at |-> 1, previous |-> {}, calls |-> <<>>]

Idle == [pc |-> "idle", test |-> FALSE, stack |-> <<>>, frames |-> 0, heard |-> {},
         whole |-> FALSE, booked |-> <<>>]
NoEdit == [pc |-> "idle", kind |-> "agent", name |-> CHOOSE n \in Names : TRUE,
           def |-> Nothing, list |-> Empty]

\* SetAdminStore over what the config built: the console's definitions win.
Overlay(kept) == [k \in Kinds |-> [n \in Names |->
                     IF kept[k][n] # Nothing THEN kept[k][n] ELSE Baked[k][n]]]

FlowsInit ==
    /\ stored = Empty /\ onFile = Empty /\ registry = Overlay(Empty)
    /\ edit = [e \in Editors |-> NoEdit]
    /\ run = [r \in Runs |-> Idle] /\ spent = [r \in Runs |-> <<>>] /\ dead = [r \in Runs |-> {}]
    /\ orderly = TRUE /\ edits = 0 /\ upsets = 0

-----------------------------------------------------------------------------
\* The console

Quiet == \A e \in Editors : edit[e].pc = "idle"

\* validateFlowSteps: every step names something that exists, and not the flow itself.
Resolves(name, chain) ==
    \A i \in DOMAIN chain :
        LET n == chain[i].agent IN
        /\ n # name
        /\ registry.agent[n] # Nothing \/ registry.flow[n] # Nothing \/ n \in Aliases

\* A console request gets as far as the store.
Accept(e, kind, name, def, next) ==
    /\ edit[e].pc = "idle" /\ edits < MaxEdits
    /\ edit' = [edit EXCEPT ![e] = [NoEdit EXCEPT !.pc = next, !.kind = kind, !.name = name, !.def = def]]
    /\ edits' = edits + 1 /\ orderly' = (orderly /\ Quiet)
    /\ UNCHANGED <<stored, onFile, registry, runVars, upsets>>

SubmitAgent(e, name, model) == Accept(e, "agent", name, model, "save")
SubmitFlow(e, name, chain) == Resolves(name, chain) /\ Accept(e, "flow", name, chain, "save")

\* deleteAgent, deleteFlow: only what the console manages.
AskDeleteAgent(e, name) == stored.agent[name] # Nothing /\ Accept(e, "agent", name, Nothing, "drop")
AskDeleteFlow(e, name) == stored.flow[name] # Nothing /\ Accept(e, "flow", name, Nothing, "drop")

\* SaveAgent, SaveFlow and the deletes: memory changes first, and stays changed
\* when the file could not be written; the handler then stops with an error.
Write(e, def, next) ==
    LET x == edit[e] IN
    /\ stored' = [stored EXCEPT ![x.kind][x.name] = def]
    /\ \/ onFile' = stored' /\ edit' = [edit EXCEPT ![e].pc = next] /\ UNCHANGED <<orderly, upsets>>
       \/ /\ upsets < MaxUpsets /\ upsets' = upsets + 1 /\ orderly' = FALSE
          /\ edit' = [edit EXCEPT ![e] = NoEdit] /\ UNCHANGED onFile
    /\ UNCHANGED <<registry, edits, runVars>>

At(e, kind, pc) == edit[e].kind = kind /\ edit[e].pc = pc

SaveAgent(e) == At(e, "agent", "save") /\ Write(e, edit[e].def, "list")
SaveFlow(e) == At(e, "flow", "save") /\ Write(e, edit[e].def, "list")

\* An unknown name is nothing to delete, and no error.
Drop(e) ==
    IF stored[edit[e].kind][edit[e].name] # Nothing THEN Write(e, Nothing, "remove")
    ELSE /\ edit' = [edit EXCEPT ![e].pc = "remove"]
         /\ UNCHANGED <<stored, onFile, registry, orderly, edits, upsets, runVars>>
DeleteAgent(e) == At(e, "agent", "drop") /\ Drop(e)
DeleteFlow(e) == At(e, "flow", "drop") /\ Drop(e)

\* The list is read under the store's lock ...
ListRecords(e) ==
    /\ edit' = [edit EXCEPT ![e].pc = "set", ![e].list = stored]
    /\ UNCHANGED <<stored, onFile, registry, orderly, edits, upsets, runVars>>
LoadManagedAgents(e) == At(e, "agent", "list") /\ ListRecords(e)
LoadManagedFlows(e) == At(e, "flow", "list") /\ ListRecords(e)

\* ... and registered a record at a time under none.
Listed(e) == {n \in Names : edit[e].list[edit[e].kind][n] # Nothing}
SetRecord(e, n) ==
    LET x == edit[e] IN
    /\ n \in Listed(e)
    /\ registry' = [registry EXCEPT ![x.kind][n] = x.list[x.kind][n]]
    /\ edit' = [edit EXCEPT ![e] = IF Listed(e) = {n} THEN NoEdit
                                   ELSE [x EXCEPT !.list[x.kind][n] = Nothing]]
    /\ UNCHANGED <<stored, onFile, orderly, edits, upsets, runVars>>
SetAgent(e, n) == At(e, "agent", "set") /\ SetRecord(e, n)
SetFlow(e, n) == At(e, "flow", "set") /\ SetRecord(e, n)

\* The list was empty: another request deleted the record meanwhile.
SetNone(e) ==
    /\ edit[e].pc = "set" /\ Listed(e) = {}
    /\ edit' = [edit EXCEPT ![e] = NoEdit]
    /\ UNCHANGED <<stored, onFile, registry, orderly, edits, upsets, runVars>>

\* Variant: the live registry is left for the next restart.
UnregisterLater(e) ==
    /\ edit' = [edit EXCEPT ![e] = NoEdit]
    /\ UNCHANGED <<stored, onFile, registry, orderly, edits, upsets, runVars>>

Unregister(e) ==
    /\ registry' = [registry EXCEPT ![edit[e].kind][edit[e].name] = Nothing]
    /\ edit' = [edit EXCEPT ![e] = NoEdit]
    /\ UNCHANGED <<stored, onFile, orderly, edits, upsets, runVars>>

RemoveAgent(e) == At(e, "agent", "remove") /\ Unregister(e)
RemoveFlow(e) == At(e, "flow", "remove") /\ Unregister(e)

-----------------------------------------------------------------------------
\* The run of a flow

Top(r) == Last(run[r].stack)
Now(r) == Top(r).steps[Top(r).at]
AtStep(r) == run[r].pc = "step" /\ Top(r).at <= Len(Top(r).steps)
WithTop(r, fr) == Append(Front(run[r].stack), fr)

\* The flow is looked up and its first frame opened; a console's test has no
\* raw body and books under a project of its own.
Begin(r, f, test) ==
    /\ run[r].pc = "idle" /\ registry.flow[f] # Nothing
    /\ run' = [run EXCEPT ![r] = [Idle EXCEPT !.pc = "step", !.test = test, !.frames = 1,
                  !.stack = <<Frame(1, f, registry.flow[f], [text |-> {0}, whole |-> ~test])>>]]
    /\ UNCHANGED <<editVars, spent, dead, upsets>>
CallFlow(r, f) == Begin(r, f, FALSE)
TestFlow(r, f) == Begin(r, f, TRUE)

Render(step, previous, input) ==
    IF step.input = {} THEN previous
    ELSE (IF "previous" \in step.input THEN previous ELSE {})
         \cup (IF "input" \in step.input THEN input ELSE {})

\* stepReq: the flow's own request for a first step without a template, one
\* rendered message for every other; only the former keeps the caller's raw body.
StepReq(fr) ==
    LET step == fr.steps[fr.at] IN
    IF fr.at > 1 \/ step.input # {}
    THEN [text |-> Render(step, fr.previous, fr.asked.text), whole |-> FALSE]
    ELSE fr.asked

Seen(r) == {run[r].stack[i].flow : i \in DOMAIN run[r].stack}

Refused(r, f) == Len(run[r].stack) + 1 > MaxFlowDepth \/ f \in Seen(r)

\* runStep on a flow's name: a frame of its own, unless too deep or in a cycle.
Enter(r) ==
    /\ AtStep(r) /\ registry.flow[Now(r).agent] # Nothing
    /\ LET f == Now(r).agent
           n == run[r].frames + 1
       IN IF Refused(r, f) THEN run' = [run EXCEPT ![r].pc = "failed"]
          ELSE run' = [run EXCEPT ![r].frames = n,
                          ![r].stack = Append(@, Frame(n, f, registry.flow[f], StepReq(Top(r))))]
    /\ UNCHANGED <<editVars, spent, dead, upsets>>

\* runStep on an agent or an alias: one chat call, with a key source of its own.
Ask(r) ==
    /\ AtStep(r) /\ registry.flow[Now(r).agent] = Nothing
    /\ run' = [run EXCEPT ![r].pc = "calling", ![r].heard = StepReq(Top(r)).text,
                          ![r].whole = StepReq(Top(r)).whole]
    /\ UNCHANGED <<editVars, spent, dead, upsets>>

Advanced(fr, output, calls) ==
    [fr EXCEPT !.at = @ + 1, !.previous = output, !.calls = @ \o calls]

\* A vendor answered, with words or none, on the caller's key or the gateway's.
Answered(r, says, mine) ==
    LET n == Len(spent[r]) + 1
        under == {run[r].stack[i].serial : i \in DOMAIN run[r].stack}
    IN /\ run[r].pc = "calling"
       /\ spent' = [spent EXCEPT ![r] = Append(@, [under |-> under, mine |-> mine, says |-> says])]
       /\ run' = [run EXCEPT ![r].pc = "step", ![r].stack =
              WithTop(r, Advanced(Top(r), IF says THEN {n} ELSE {}, <<[call |-> n, mine |-> mine]>>))]
       /\ UNCHANGED <<editVars, dead, upsets>>

\* router.Chat failed: no rung answered, the name is no alias, or the caller hung up.
Unanswered(r) ==
    /\ run[r].pc = "calling"
    /\ run' = [run EXCEPT ![r].pc = "failed"]
    /\ UNCHANGED <<editVars, spent, dead, upsets>>

\* Variant: the next step hears nothing.
SkipStepBlank(r) ==
    /\ run[r].pc = "failed" /\ Now(r).optional
    /\ run' = [run EXCEPT ![r].pc = "step", ![r].stack = WithTop(r, Advanced(Top(r), {}, <<>>))]
    /\ UNCHANGED <<editVars, spent, dead, upsets>>

\* Variant: the step is tried again.
SkipStepAgain(r) ==
    /\ run[r].pc = "failed" /\ Now(r).optional
    /\ run' = [run EXCEPT ![r].pc = "step"]
    /\ UNCHANGED <<editVars, spent, dead, upsets>>

\* An optional step that failed is skipped: the chain goes on from the last output.
SkipStep(r) ==
    /\ run[r].pc = "failed" /\ Now(r).optional
    /\ run' = [run EXCEPT ![r].pc = "step", ![r].stack =
                  WithTop(r, Advanced(Top(r), Top(r).previous, <<>>))]
    /\ UNCHANGED <<editVars, spent, dead, upsets>>

\* recordFlow: every call the outcomes carry, under whoever served it.
Book(r, fr) == [run EXCEPT ![r] = [@ EXCEPT !.pc = "done", !.stack = <<fr>>, !.booked = fr.calls]]

\* A flow ends in an error: runStep hands the outer flow the error and nothing
\* of what ran; completeFlow and testFlow book what their own outcomes carry.
Broken(r) == \/ run[r].pc = "failed" /\ ~Now(r).optional
             \/ run[r].pc = "step" /\ Top(r).at > Len(Top(r).steps) /\ Top(r).previous = {}
FlowFails(r) ==
    /\ Broken(r)
    /\ dead' = [dead EXCEPT ![r] = @ \cup {Top(r).serial}]
    /\ run' = IF Len(run[r].stack) = 1 THEN Book(r, Top(r))
              ELSE [run EXCEPT ![r].pc = "failed", ![r].stack = Front(@)]
    /\ UNCHANGED <<editVars, spent, upsets>>

\* A flow ends well: its output is the outer step's, its calls ride along.
FlowReturns(r) ==
    /\ run[r].pc = "step" /\ Top(r).at > Len(Top(r).steps) /\ Top(r).previous # {}
    /\ run' = IF Len(run[r].stack) = 1 THEN Book(r, Top(r))
              ELSE LET outer == Front(run[r].stack) IN
                   [run EXCEPT ![r].stack = Append(Front(outer),
                        Advanced(Last(outer), Top(r).previous, Top(r).calls))]
    /\ UNCHANGED <<editVars, spent, dead, upsets>>

-----------------------------------------------------------------------------
\* The process dies and starts again: runs and edits are gone, unbooked.
Restart ==
    /\ upsets < MaxUpsets /\ upsets' = upsets + 1
    /\ stored' = onFile /\ registry' = Overlay(onFile)
    /\ edit' = [e \in Editors |-> NoEdit] /\ orderly' = TRUE
    /\ run' = [r \in Runs |-> IF run[r].pc \in {"idle", "done"} THEN run[r] ELSE [Idle EXCEPT !.pc = "lost"]]
    /\ UNCHANGED <<onFile, spent, dead, edits>>

Editing(e) ==
    \/ \E n \in Written : \/ AskDeleteAgent(e, n) \/ \E m \in Models : SubmitAgent(e, n, m)
                          \/ AskDeleteFlow(e, n) \/ \E c \in Chains : SubmitFlow(e, n, c)
    \/ SaveAgent(e) \/ LoadManagedAgents(e) \/ DeleteAgent(e) \/ RemoveAgent(e)
    \/ SaveFlow(e) \/ LoadManagedFlows(e) \/ DeleteFlow(e) \/ RemoveFlow(e)
    \/ SetNone(e) \/ \E n \in Names : SetAgent(e, n) \/ SetFlow(e, n)

Working(r) == \/ Enter(r) \/ Ask(r) \/ Unanswered(r) \/ SkipStep(r) \/ FlowFails(r) \/ FlowReturns(r)
              \/ \E says, mine \in BOOLEAN : Answered(r, says, mine)

FlowsNext == \/ \E e \in Editors : Editing(e)
             \/ \E r \in Runs : Working(r) \/ \E f \in Called : CallFlow(r, f) \/ TestFlow(r, f)
             \/ Restart

\* A run goes on as long as it can: its goroutine is scheduled, and a vendor
\* call ends, for every adapter's client has a timeout.
FlowsFairness == \A r \in Runs : WF_flowsVars(Working(r))
FlowsSpec == FlowsInit /\ [][FlowsNext]_flowsVars /\ FlowsFairness

-----------------------------------------------------------------------------
FlowsTypeOK ==
    /\ \A k \in Kinds, n \in Names : /\ {stored[k][n], onFile[k][n]} \subseteq Defs(k) \cup {Nothing}
                                    /\ registry[k][n] \in Defs(k) \cup {Baked[k][n], Nothing}
    /\ \A e \in Editors :
          /\ edit[e].pc \in {"idle", "save", "list", "set", "drop", "remove"}
          /\ edit[e].kind \in Kinds /\ edit[e].name \in Names
          /\ edit[e].def \in Defs(edit[e].kind) \cup {Nothing}
    /\ \A r \in Runs :
          /\ run[r].pc \in {"idle", "step", "calling", "failed", "done", "lost"}
          /\ run[r].pc \in {"step", "calling", "failed", "done"} => run[r].stack # <<>>
          /\ run[r].pc \in {"calling", "failed"} => Top(r).at <= Len(Top(r).steps)
          /\ run[r].heard \in Text /\ Len(spent[r]) \in Nat /\ run[r].frames \in Nat
    /\ orderly \in BOOLEAN /\ edits \in 0 .. MaxEdits /\ upsets \in 0 .. MaxUpsets

\* A step after the first hears the last step of its flow that answered, across
\* those that were skipped and whatever inner flows did, and not the caller's
\* raw body; a template adds at most what the flow itself was asked
\* (flows.go:96-126: previous, and Raw set to nil).
HearsTheDraft ==
    \A r \in Runs : run[r].pc = "calling" =>
        LET fr == Top(r)
            live == {i \in DOMAIN spent[r] : fr.serial \in spent[r][i].under
                                             /\ spent[r][i].under \cap dead[r] = {}}
            draft == IF live # {} /\ spent[r][Max(live)].says THEN {Max(live)} ELSE {}
        IN fr.at > 1 => /\ ~run[r].whole
                        /\ Now(r).input = {} => run[r].heard = draft
                        /\ run[r].heard \subseteq draft \cup fr.asked.text

\* "Whatever did run is still worth recording: a chain that died at step three
\* already spent steps one and two" (flows.go:210-211).
EverythingSpentIsBooked ==
    \A r \in Runs : run[r].pc = "done" => Len(run[r].booked) = Len(spent[r])

\* Where edits came one at a time and reached the disk, what the console saved
\* is what requests find, and what it deleted is found no more, unless it is
\* the config's own (loadManagedAgents, saveFlow, deleteFlow).
RegistryFollowsStore ==
    orderly /\ Quiet => \A k \in Kinds, n \in Names :
        IF stored[k][n] # Nothing THEN registry[k][n] = stored[k][n]
        ELSE registry[k][n] \in {Nothing, Baked[k][n]}

\* A flow that was started ends, however its steps fail and whatever is edited
\* meanwhile (the loop of runFlow, the cap and the cycle check).
RunsEnd == \A r \in Runs : run[r].pc = "step" ~> run[r].pc \in {"done", "lost"}
=============================================================================
