----------------------------- MODULE MCServices ----------------------------
(***************************************************************************)
(* Small instances of what lies around a routed call: the flows and the    *)
(* conversations of MCWorkshop, the door (Door) and the books (Books), the *)
(* adapters of the vendors whose work takes several exchanges              *)
(* (VendorJobs), the model lists of the passthrough providers (Discovery). *)
(* They share no state: a run explores one of the six at a time.           *)
(***************************************************************************)
EXTENDS MCWorkshop, VendorJobs, Discovery, Door, Books, TLC

CONSTANTS u1, c1, c2, rd1, rd2, kc, kt, shop, Shop, lab, fast, openai, gpt, gptid, odd

aroundVars == <<vendorVars, discoveryVars, doorVars, booksVars>>
servicesVars == <<part, flowsVars, conversationsVars, aroundVars>>

Key(allow, limit, console) == [allow |-> allow, limit |-> limit, console |-> console]

\* A key of the configuration and one minted in the console.
MCPolicies == (kc :> Key({[kind |-> "under", path |-> <<openai>>]}, 1, FALSE)) @@
              (kt :> Key({}, 2, TRUE))

MCAsked == {<<fast>>, <<openai, gpt>>}
MCStatics == <<gpt>>
MCLower == (Shop :> shop) @@ (lab :> lab)

Ended(model, tokens, marked, end) ==
    [prov |-> openai, model |-> model, tokens |-> tokens, marked |-> marked, end |-> end]

MCOutcomes == {Ended(odd, 1, FALSE, "served"), Ended(gpt, 1, TRUE, "served"),
               Ended(gpt, 1, TRUE, "broken"), Ended(gpt, 1, FALSE, "broken"),
               Ended(gpt, 1, FALSE, "hungup"),
               Ended(gpt, 0, FALSE, "hungup")}

MCPrices == <<gptid>> :> 3
MCIdentity == (gpt :> gptid) @@ (odd :> odd)

ServicesInit ==
    /\ part \in {"flows", "memory", "jobs", "lists", "door", "books"}
    /\ FlowsInit /\ ConversationsInit
    /\ VendorJobsInit /\ DiscoveryInit /\ DoorInit /\ BooksInit
    /\ part # "jobs" => \A u \in Users : task[u].plan = "gamma"

Workshop == (InFlows \/ InMemory) /\ UNCHANGED aroundVars
WorkshopRests == UNCHANGED <<part, flowsVars, conversationsVars>>
Jobs == part = "jobs" /\ VendorJobsNext /\ UNCHANGED <<discoveryVars, doorVars, booksVars>> /\ WorkshopRests
ModelLists == part = "lists" /\ DiscoveryNext /\ UNCHANGED <<vendorVars, doorVars, booksVars>> /\ WorkshopRests
Entrance == part = "door" /\ DoorNext /\ UNCHANGED <<vendorVars, discoveryVars, booksVars>> /\ WorkshopRests
Accounting == part = "books" /\ BooksNext /\ UNCHANGED <<vendorVars, discoveryVars, doorVars>> /\ WorkshopRests

ServicesSpec ==
    /\ ServicesInit
    /\ [][Workshop \/ Jobs \/ ModelLists \/ Entrance \/ Accounting]_servicesVars
    /\ FlowsFairness /\ VendorJobsFairness
=============================================================================
