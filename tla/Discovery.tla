----------------------------- MODULE Discovery -----------------------------
(* The model lists of the passthrough providers, as GET /v1/models shows    *)
(* them: one cached list per provider, its age, its cooling time after a    *)
(* refusal, and readers that ask the provider with no lock held.            *)
EXTENDS Integers, Sequences, SequencesExt

CONSTANTS Readers,      \* requests for the list
          Statics,      \* the models the configuration names for the provider
          Versions      \* how many lists the provider publishes, one after another

ASSUME DiscoveryAssumption == Statics \in Seq(Range(Statics)) /\ Versions \in Nat \ {0}

VARIABLES world,        \* the list the provider would answer with, by number
          entry,        \* Router.catalog of the provider
          reader,       \* each request
          listed        \* history: the list kept last names models

discoveryVars == <<world, entry, reader, listed>>

NoEntry == [models |-> 0, fetched |-> "never", failed |-> "never"]

\* `sure`: the request came when a list with models was kept, and the provider
\* has not answered with an empty one since.
Reading == [pc |-> "away", got |-> 0, sure |-> FALSE]

DiscoveryInit ==
    /\ world = 1
    /\ entry = NoEntry
    /\ reader = [r \in Readers |-> Reading]
    /\ listed = FALSE

Fresh == entry.fetched = "fresh"
Cooling == entry.failed = "cooling"

\* The provider's own list goes on changing.
Publish ==
    /\ world < Versions
    /\ world' = world + 1
    /\ UNCHANGED <<entry, reader, listed>>

\* A list ages past its time; a refusal cools off. Both clocks are read anew by
\* every request.
Ages ==
    /\ \/ Fresh /\ entry' = [entry EXCEPT !.fetched = "stale"]
       \/ Cooling /\ entry' = [entry EXCEPT !.failed = "past"]
    /\ UNCHANGED <<world, reader, listed>>

\* The cached list is answered while it is fresh or its provider is cooling;
\* otherwise the provider is asked.
Discover(r) ==
    /\ reader[r].pc = "away"
    /\ reader' = [reader EXCEPT ![r] =
            [pc |-> IF Fresh \/ Cooling THEN "answered" ELSE "asking",
             got |-> IF Fresh \/ Cooling THEN entry.models ELSE 0,
             sure |-> listed]]
    /\ UNCHANGED <<world, entry, listed>>

\* An answer whose entries carry no id is a list as well, an empty one.
ListModels(r) ==
    /\ reader[r].pc = "asking"
    /\ \/ reader' = [reader EXCEPT ![r].pc = "refused"]
       \/ \E list \in {0, world} :
            reader' = [reader EXCEPT ![r].pc = "found", ![r].got = list]
    /\ UNCHANGED <<world, entry, listed>>

KeepList(r) ==
    /\ reader[r].pc = "found"
    /\ entry' = [models |-> reader[r].got, fetched |-> "fresh", failed |-> "never"]
    /\ listed' = (reader[r].got # 0)
    /\ reader' = [s \in Readers |->
         [reader[s] EXCEPT !.pc = IF s = r THEN "answered" ELSE @, !.sure = @ /\ listed']]
    /\ UNCHANGED world

\* Variant: the note replaces the entry.
RefusedEntryAlone == [NoEntry EXCEPT !.failed = "cooling"]

\* A refusal is noted beside the list, which stays.
RefusedEntry == [entry EXCEPT !.failed = "cooling"]

NoteRefusal(r) ==
    /\ reader[r].pc = "refused"
    /\ entry' = RefusedEntry
    /\ reader' = [reader EXCEPT ![r].pc = "answered", ![r].got = entry'.models]
    /\ UNCHANGED <<world, listed>>

\* The names a request is shown: the configured ones, then the provider's.
CatalogModels(r) ==
    Statics \o (IF reader[r].got = 0 THEN <<>> ELSE <<reader[r].got>>)

Leave(r) ==
    /\ reader[r].pc = "answered"
    /\ reader' = [reader EXCEPT ![r] = Reading]
    /\ UNCHANGED <<world, entry, listed>>

DiscoveryNext ==
    \/ Publish \/ Ages
    \/ \E r \in Readers : \/ Discover(r) \/ ListModels(r)
                          \/ KeepList(r) \/ NoteRefusal(r) \/ Leave(r)

DiscoverySpec == DiscoveryInit /\ [][DiscoveryNext]_discoveryVars

\* Once a list of a provider was kept, nobody who asks afterwards is shown a
\* catalogue without the provider's models unless the provider itself answered
\* that it has none: not while it refuses, not while several requests ask it at
\* once and some are refused, not after the list has aged (router.go
\* CatalogModels: "fall back to the last good list").
GoodIsKept ==
    \A r \in Readers :
        reader[r].pc = "answered" /\ reader[r].sure => Len(CatalogModels(r)) > Len(Statics)
=============================================================================
