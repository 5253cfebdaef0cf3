-------------------------------- MODULE Door --------------------------------
(***************************************************************************)
(* The rate limit and the allow-list of a key, which every call passes.     *)
(*                                                                         *)
(* A token of a bucket is counted in parts: a minute has Ticks ticks, a    *)
(* key of limit n earns n parts a tick and a call costs Ticks of them.     *)
(***************************************************************************)
EXTENDS Integers, Sequences, SequencesExt

CONSTANTS
    Callers,     \* each makes one call at a time
    Policies,    \* policy.Policy by key: allow, limit, and whether the console minted it
    Limits,      \* the limits a console key may be minted with
    Asked,       \* what a call names: a sequence of path segments
    Ticks,
    MaxClock, MaxMints,   \* bounds of the runs
    Star, Nobody

ASSUME DoorAssumption ==
    /\ \A k \in DOMAIN Policies : Policies[k].limit \in Nat
    /\ Limits \subseteq Nat /\ Ticks \in Nat \ {0}

VARIABLES
    clock,     \* now
    limits,    \* console keys' limits, as the store has them
    bucket,    \* Enforcer.buckets
    visit,     \* each caller's request
    over,      \* history: parts taken since the bucket was made, drained tick by tick
    metered,   \* names with a row in Store.st.Usage
    mints      \* how often a key was minted again

doorVars == <<clock, limits, bucket, visit, over, metered, mints>>

Keys == DOMAIN Policies

\* One pattern of an allow-list against a name of several segments.
MatchAlias(p, name) ==
    \/ p.kind = "any"
    \/ p.kind = "under" /\ IsPrefix(p.path, name)
    \/ /\ p.kind = "glob" /\ Len(p.path) = Len(name)
       /\ \A i \in DOMAIN name : p.path[i] \in {Star, name[i]}

Allows(policy, name) == policy.allow = {} \/ \E p \in policy.allow : MatchAlias(p, name)

NoBucket == [parts |-> 0, limit |-> 0, last |-> 0]
Outside == [pc |-> "outside", key |-> Nobody, limit |-> 0, name |-> Nobody]

DoorInit ==
    /\ clock = 0
    /\ limits = [k \in Keys |-> Policies[k].limit]
    /\ bucket = [k \in Keys |-> NoBucket]
    /\ visit = [c \in Callers |-> Outside]
    /\ over = [k \in Keys |-> 0]
    /\ metered = {} /\ mints = 0

Tick ==
    /\ clock < MaxClock
    /\ clock' = clock + 1
    /\ over' = [k \in Keys |-> IF over[k] > bucket[k].limit THEN over[k] - bucket[k].limit ELSE 0]
    /\ UNCHANGED <<limits, bucket, visit, metered, mints>>

\* A console key is deleted and its name minted again, with another limit:
\* deleteToken, then createToken, which refuses a name that has usage.  Between
\* the two nobody new gets in, and those inside know nothing of either.
Remint(k, n) ==
    /\ Policies[k].console /\ k \notin metered /\ limits[k] # n /\ mints < MaxMints
    /\ limits' = [limits EXCEPT ![k] = n]
    /\ mints' = mints + 1
    /\ UNCHANGED <<clock, bucket, visit, over, metered>>

\* auth: the key is looked up, with the limit it has now.
Arrive(c, k, name) ==
    /\ visit[c].pc = "outside"
    /\ visit' = [visit EXCEPT ![c] = [pc |-> "gate", key |-> k, limit |-> limits[k], name |-> name]]
    /\ UNCHANGED <<clock, limits, bucket, over, metered, mints>>

\* Variant: an idle key saves up.
RefilledUncapped(b) == b.parts + (clock - b.last) * b.limit

\* bucket.allow, before the token is taken: what was earned since the last
\* call, up to the bucket's capacity.
Refilled(b) ==
    LET earned == b.parts + (clock - b.last) * b.limit
    IN  IF earned > b.limit * Ticks THEN b.limit * Ticks ELSE earned

\* The key's bucket, made full when there is none and when the limit of the
\* console key is no longer the one it was made for.
BucketOf(k, n) ==
    IF bucket[k] = NoBucket \/ bucket[k].limit # n
    THEN [parts |-> n * Ticks, limit |-> n, last |-> clock] ELSE bucket[k]

\* auth: RateOK for a key of the configuration, RateOKLimit for a console key.
\* A key without a limit has no bucket.
RateOK(c) ==
    /\ visit[c].pc = "gate" /\ visit[c].limit > 0
    /\ LET k == visit[c].key
           b == BucketOf(k, visit[c].limit)
           since == IF b = bucket[k] THEN over[k] ELSE 0
           named == [pc |-> "named", key |-> k, limit |-> 0, name |-> visit[c].name]
           passes == Refilled(b) >= Ticks
           cost == IF passes THEN Ticks ELSE 0
       IN  /\ bucket' = [bucket EXCEPT ![k] = [parts |-> Refilled(b) - cost, limit |-> b.limit, last |-> clock]]
           /\ over' = [over EXCEPT ![k] = since + cost]
           /\ visit' = [visit EXCEPT ![c] = IF passes THEN named ELSE Outside]
    /\ UNCHANGED <<clock, limits, metered, mints>>

Unlimited(c) ==
    /\ visit[c].pc = "gate" /\ visit[c].limit = 0
    /\ visit' = [visit EXCEPT ![c].pc = "named"]
    /\ UNCHANGED <<clock, limits, bucket, over, metered, mints>>

\* aliasAllowed: the name is looked at only now, when the call is counted.
AliasAllowed(c) ==
    /\ visit[c].pc = "named"
    /\ visit' = [visit EXCEPT ![c] = IF Allows(Policies[@.key], @.name) THEN [@ EXCEPT !.pc = "in"] ELSE Outside]
    /\ UNCHANGED <<clock, limits, bucket, over, metered, mints>>

\* The call is over, and metered if a vendor did work for it.
Leaves(c) ==
    /\ visit[c].pc = "in"
    /\ visit' = [visit EXCEPT ![c] = Outside]
    /\ metered' \in {metered, metered \cup {visit[c].key}}
    /\ UNCHANGED <<clock, limits, bucket, over, mints>>

DoorNext ==
    \/ Tick
    \/ \E k \in Keys, n \in Limits : Remint(k, n)
    \/ \E c \in Callers :
          \/ \E k \in Keys, name \in Asked : Arrive(c, k, name)
          \/ RateOK(c) \/ Unlimited(c) \/ AliasAllowed(c) \/ Leaves(c)

DoorSpec == DoorInit /\ [][DoorNext]_doorVars

\* Over every stretch of time in which its limit is not changed, however it lies
\* across the minutes and however calls and idleness alternate, a key passes no
\* more calls than its limit plus what the limit earns in that stretch: a meter
\* drained tick by tick, idle or not, never rises above one full bucket.
BurstBounded == \A k \in Keys : over[k] <= bucket[k].limit * Ticks
=============================================================================
