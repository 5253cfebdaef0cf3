------------------------------ MODULE MCWorkshop ------------------------------
(***************************************************************************)
(* Small instances of Flows and of Conversations, which share no state, so *)
(* that a run explores one or the other.  Four flows of the config, one of *)
(* them three deep, one agent, and an administrator who may turn the chain *)
(* into a cycle or delete its middle while it runs; three requests over    *)
(* the conversations of two projects.                                      *)
(***************************************************************************)
EXTENDS Flows, Conversations

CONSTANTS e1, e2, r1, a1, f1, f2, f3, f4, m1, m2, t1, t2, t3, g1, g2, i1

VARIABLE part

Plain(n) == [agent |-> n, input |-> {}, optional |-> FALSE]
Maybe(n) == [Plain(n) EXCEPT !.optional = TRUE]
Quoting(n) == [Plain(n) EXCEPT !.input = {"previous", "input"}]

MCBakedAgents == [n \in Names |-> IF n = a1 THEN m1 ELSE Nothing]
MCBakedFlows == [n \in Names |->
    CASE n = f1 -> <<Plain(a1), Maybe(f2), Plain(a1)>>
      [] n = f2 -> <<Plain(f3)>>
      [] n = f3 -> <<Quoting(a1), Maybe(f4)>>
      [] n = f4 -> <<Plain(m1)>>
      [] OTHER -> Nothing]
MCChains == {<<Plain(f1)>>, <<Maybe(f2), Plain(a1)>>}

\* A bound: two edits, or one edit and one run.
Bounded == edits' + Cardinality({r \in Runs : run'[r].pc # "idle"}) <= 2

Says(role, size) == [role |-> role, size |-> size]
MCBodies == {<<Says("user", 2)>>, <<Says("user", 1), Says("system", 1)>>}

workshopVars == <<part, flowsVars, conversationsVars>>
WorkshopInit == part \in {"flows", "memory"} /\ FlowsInit /\ ConversationsInit
InFlows == part = "flows" /\ FlowsNext /\ Bounded /\ UNCHANGED <<part, conversationsVars>>
InMemory == part = "memory" /\ ConversationsNext /\ UNCHANGED <<part, flowsVars>>
WorkshopSpec == WorkshopInit /\ [][InFlows \/ InMemory]_workshopVars /\ FlowsFairness
=============================================================================
