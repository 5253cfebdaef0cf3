------------------------------- MODULE Chains -------------------------------
(***************************************************************************)
(* From the rungs the config writes down for an alias to the vendor keys   *)
(* one call may ask, in which order: what every routed call of the gateway *)
(* has in common, whatever it asks for.                                    *)
(***************************************************************************)
EXTENDS Naturals, FiniteSets, SequencesExt, Lists

CONSTANTS
    Providers,
    Live         \* providers with an adapter: their key was set at start-up

\* A target names its provider, or a model of the registry that several serve.
Target == {t \in [pinned : BOOLEAN, serves : Seq(Providers)] : t.pinned => Len(t.serves) = 1}

\* The caller's own keys.  keys: how many of a provider were sent or saved;
\* denied: where the gateway's key needs an approval the caller does not have.
KeyRing == [mode : {"global", "own", "own-first", "global-first", "unset"},
            keys : [Providers -> Nat], denied : SUBSET Providers]

\* key 0 is the gateway's, the others are the caller's.
Rung == [target : Nat, prov : Providers, key : Nat]

Gateway(g) == g.key = 0

\* rungs: the places of a chain, the chosen one first.
Ordered(chain, first) ==
    LET places == [i \in 1 .. Len(chain) |-> i]
    IN  IF first = 0 THEN places
        ELSE <<first>> \o Only(places, DOMAIN chain \ {first})

\* expand: a model of the registry becomes its providers that came up.
Expand(t) == IF t.pinned THEN t.serves ELSE Only(t.serves, Live)

\* Normalize
Mode(c) ==
    IF c.mode # "unset" THEN c.mode
    ELSE IF \E p \in Providers : c.keys[p] > 0 THEN "own-first" ELSE "global"

\* ownRungs: without a key there is still a rung, to say why it is skipped.
OwnRungs(c, t, p) ==
    [n \in 1 .. (IF c.keys[p] = 0 THEN 1 ELSE c.keys[p]) |->
        [target |-> t, prov |-> p, key |-> n]]

RungsOf(c, t, p) ==
    LET global == <<[target |-> t, prov |-> p, key |-> 0]>>
        sent == IF c.keys[p] = 0 THEN <<>> ELSE OwnRungs(c, t, p)
    IN  CASE Mode(c) = "own"          -> OwnRungs(c, t, p)
          [] Mode(c) = "own-first"    -> sent \o global
          [] Mode(c) = "global-first" -> global \o sent
          [] Mode(c) = "global"       -> global

\* attempts, but for creditLast: places in their order, and the vendors that
\* stand at each.
Attempts(c, places, vendors) ==
    LET ofPlace(t) == FlattenSeq([j \in 1 .. Len(vendors[t]) |-> RungsOf(c, t, vendors[t][j])])
    IN  FlattenSeq([i \in 1 .. Len(places) |-> ofPlace(places[i])])

\* A rung with an adapter.
Available(c, g) == IF Gateway(g) THEN g.prov \in Live \ c.denied
                   ELSE g.key <= c.keys[g.prov]

=============================================================================
