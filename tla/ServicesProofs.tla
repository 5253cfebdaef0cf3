--------------------------- MODULE ServicesProofs ---------------------------
(***************************************************************************)
(* What lies around a routed call is safe for every number of requests, in *)
(* this order: a vendor's model list, the rate limit of a key, the files   *)
(* and questions a vendor job leaves, the registries under the console's   *)
(* edits, the books a call is written to, the memory of a conversation,    *)
(* and what the steps of a flow hear.  Each part has an invariant of its   *)
(* own; none refers to another's variables.                                *)
(***************************************************************************)
EXTENDS Flows, Conversations, VendorJobs, Discovery, Door, Books, DataLemmas

(***************************************************************************)
(* A model list that was kept is never lost: GoodIsKept, for any number of *)
(* requests that ask a provider at once.  The list itself is the whole     *)
(* argument: once kept it is only ever replaced by another answer of the   *)
(* provider, which a request is sure of only if it is not empty            *)
(* (ListKept), and a refusal is noted beside it.                           *)
(***************************************************************************)
CatalogEntry == [models : Nat, fetched : {"never", "fresh", "stale"}, failed : {"never", "cooling", "past"}]
Reader == [pc : {"away", "asking", "refused", "found", "answered"}, got : Nat, sure : BOOLEAN]

DiscoveryTyped ==
    /\ world \in Nat \ {0} /\ entry \in CatalogEntry
    /\ reader \in [Readers -> Reader] /\ listed \in BOOLEAN

ListKept ==
    /\ listed => entry.models > 0
    /\ \A r \in Readers :
        /\ reader[r].sure => listed
        /\ reader[r].pc = "answered" /\ reader[r].sure => reader[r].got > 0

DiscoveryInv == DiscoveryTyped /\ ListKept

\* Each step of the cache and of its readers keeps the list.
LEMMA DiscoveryKeeps == DiscoveryInv /\ [DiscoveryNext]_discoveryVars => DiscoveryInv'
<1> SUFFICES ASSUME DiscoveryInv, [DiscoveryNext]_discoveryVars PROVE DiscoveryInv'
  OBVIOUS
<1> USE DEF DiscoveryInv, DiscoveryTyped, ListKept, CatalogEntry, Reader
<1>1. CASE Publish
  BY <1>1 DEF Publish
<1>2. CASE Ages
  BY <1>2 DEF Ages, Fresh, Cooling
<1>3. ASSUME NEW r \in Readers, Discover(r) PROVE DiscoveryInv'
  <2> DEFINE q == [pc |-> IF Fresh \/ Cooling THEN "answered" ELSE "asking",
                   got |-> IF Fresh \/ Cooling THEN entry.models ELSE 0,
                   sure |-> listed]
  <2>1. reader' = [reader EXCEPT ![r] = q] /\ world' = world /\ entry' = entry /\ listed' = listed
    BY <1>3 DEF Discover
  <2>2. q \in Reader /\ q.sure = listed
    OBVIOUS
  <2>3. q.pc # "found" /\ (q.pc = "answered" => q.got = entry.models)
    OBVIOUS
  <2> HIDE DEF q
  <2>4. DiscoveryTyped'
    BY <2>1, <2>2
  <2>5. ListKept'
    BY <2>1, <2>2, <2>3
  <2> QED
    BY <2>4, <2>5
<1>4. ASSUME NEW r \in Readers, ListModels(r) PROVE DiscoveryInv'
  BY <1>4 DEF ListModels
<1>5. ASSUME NEW r \in Readers, KeepList(r) PROVE DiscoveryInv'
  <2> DEFINE got == reader[r].got
             q(s) == [reader[s] EXCEPT !.pc = IF s = r THEN "answered" ELSE @, !.sure = @ /\ listed']
  <2>1. /\ entry' = [models |-> got, fetched |-> "fresh", failed |-> "never"] /\ world' = world
        /\ listed' = (got # 0) /\ reader' = [s \in Readers |-> q(s)] /\ got \in Nat
    <3>1. reader' = [s \in Readers |-> q(s)]
      BY <1>5, Zenon DEF KeepList
    <3>2. got \in Nat
      OBVIOUS
    <3> QED
      BY <1>5, <3>1, <3>2 DEF KeepList
  <2> HIDE DEF got, q
  <2>2. listed' \in BOOLEAN /\ (listed' => got > 0)
    <3>1. (got # 0) \in BOOLEAN /\ ((got # 0) => got > 0)
      BY <2>1
    <3> QED
      BY <2>1, <3>1, Zenon
  <2>3. ASSUME NEW s \in Readers
        PROVE  /\ q(s) \in Reader /\ q(s).got = reader[s].got
               /\ q(s).sure => reader[s].sure /\ listed'
               /\ q(s).pc = IF s = r THEN "answered" ELSE reader[s].pc
    BY <2>2 DEF q
  <2>4. DiscoveryTyped'
    BY <2>1, <2>2, <2>3
  <2>5. ASSUME NEW s \in Readers, q(s).pc = "answered", q(s).sure PROVE q(s).got > 0
    <3>1. CASE s = r
      BY <2>2, <2>3, <2>5, <3>1 DEF got
    <3>2. CASE s # r
      BY <2>3, <2>5, <3>2
    <3> QED
      BY <3>1, <3>2
  <2>6. ListKept'
    BY <2>1, <2>2, <2>3, <2>5
  <2> QED
    BY <2>4, <2>6
<1>6. ASSUME NEW r \in Readers, NoteRefusal(r) PROVE DiscoveryInv'
  BY <1>6 DEF NoteRefusal, RefusedEntry
<1>7. ASSUME NEW r \in Readers, Leave(r) PROVE DiscoveryInv'
  BY <1>7 DEF Leave, Reading
<1>8. CASE UNCHANGED discoveryVars
  BY <1>8 DEF discoveryVars
<1> QED
  BY <1>1, <1>2, <1>3, <1>4, <1>5, <1>6, <1>7, <1>8 DEF DiscoveryNext

\* A request that has a list of the provider shows more than the configuration.
LEMMA ShownIsMore ==
    ASSUME NEW r \in Readers, DiscoveryInv, reader[r].got > 0
    PROVE  Len(CatalogModels(r)) > Len(Statics)
<1> DEFINE S == Range(Statics) \cup {reader[r].got}
<1>1. Statics \in Seq(S)
  BY DiscoveryAssumption
<1>2. <<reader[r].got>> \in Seq(S) /\ Len(<<reader[r].got>>) = 1
  OBVIOUS
<1>3. CatalogModels(r) = Statics \o <<reader[r].got>>
  BY DEF CatalogModels, DiscoveryInv, DiscoveryTyped, Reader
<1> QED
  BY <1>1, <1>2, <1>3, ConcatProperties

\* The list a provider gave once is shown to everyone who asks afterwards, while
\* it refuses, while others ask, and after the list has aged, for any readers.
THEOREM GoodListIsKept == DiscoverySpec => []GoodIsKept
<1>1. DiscoveryInit => DiscoveryInv
  <2> SUFFICES ASSUME DiscoveryInit PROVE DiscoveryInv
    OBVIOUS
  <2>1. DiscoveryTyped
    <3>1. NoEntry \in CatalogEntry
      BY DEF NoEntry, CatalogEntry
    <3>2. Reading \in Reader
      BY DEF Reading, Reader
    <3>3. world \in Nat \ {0}
      BY DEF DiscoveryInit
    <3>4. listed \in BOOLEAN
      BY DEF DiscoveryInit
    <3>5. entry \in CatalogEntry
      BY <3>1 DEF DiscoveryInit
    <3>6. reader \in [Readers -> Reader]
      BY <3>2 DEF DiscoveryInit
    <3> QED
      BY <3>3, <3>5, <3>6, <3>4 DEF DiscoveryTyped
  <2>2. ListKept
    BY DEF DiscoveryInit, ListKept, Reading
  <2> QED
    BY <2>1, <2>2 DEF DiscoveryInv
<1>2. DiscoveryInv => GoodIsKept
  <2> SUFFICES ASSUME DiscoveryInv, NEW r \in Readers, reader[r].pc = "answered", reader[r].sure
               PROVE  Len(CatalogModels(r)) > Len(Statics)
    BY DEF GoodIsKept
  <2>1. reader[r].got > 0
    BY DEF DiscoveryInv, ListKept
  <2> QED
    BY <2>1, ShownIsMore
<1> QED
  BY <1>1, <1>2, DiscoveryKeeps, PTL DEF DiscoverySpec

-----------------------------------------------------------------------------
(***************************************************************************)
(* The rate limit holds for every number of callers, every limit and every *)
(* length of a minute: BurstBounded.  A full bucket may be emptied at      *)
(* once, so the bound on what has passed is inductive only together with   *)
(* what may still pass: the meter of a key and the tokens its bucket would *)
(* have now are one full bucket at most (Together).  A call moves one cost *)
(* from the second to the first, and a tick takes from the first what it   *)
(* adds to the second, or less.                                            *)
(***************************************************************************)
\* A bucket was filled at some time up to now, for a limit.
BucketOK == \A k \in Keys : bucket[k] \in [parts : Nat, limit : Nat, last : 0 .. clock]

\* Callers carry the limit of a key, which is never negative.
LimitsOK ==
    /\ \A k \in Keys : limits[k] \in Nat
    /\ \A c \in Callers :
        /\ visit[c] \in [pc : {"outside", "gate", "named", "in"}, key : Keys \cup {Nobody},
                         limit : Nat, name : Asked \cup {Nobody}]
        /\ visit[c].pc = "gate" => visit[c].key \in Keys

DoorTyped ==
    /\ clock \in Nat
    /\ DOMAIN limits = Keys /\ DOMAIN bucket = Keys /\ DOMAIN over = Keys
    /\ DOMAIN visit = Callers
    /\ \A k \in Keys : over[k] \in Nat
    /\ BucketOK /\ LimitsOK

Together == \A k \in Keys : over[k] + Refilled(bucket[k]) <= bucket[k].limit * Ticks

DoorInv == DoorTyped /\ Together

-----------------------------------------------------------------------------
\* What refilling makes of a bucket lies between nothing and a full one.
LEMMA RefilledBounds ==
    ASSUME clock \in Nat, NEW b, b.parts \in Nat, b.limit \in Nat, b.last \in 0 .. clock
    PROVE  Refilled(b) \in 0 .. (b.limit * Ticks)
<1>1. Ticks \in Nat
  BY DoorAssumption
<1>2. (clock - b.last) \in Nat
  OBVIOUS
<1> DEFINE earned == (clock - b.last) * b.limit
           full == b.limit * Ticks
<1>3. earned \in Nat /\ full \in Nat
  BY <1>1, <1>2
<1>4. Refilled(b) = IF b.parts + earned > full THEN full ELSE b.parts + earned
  BY DEF Refilled
<1> HIDE DEF earned, full
<1>5. Refilled(b) \in 0 .. full
  BY <1>3, <1>4
<1> QED
  BY <1>5 DEF full

\* What refilling would make of a bucket at another time.
RefilledAt(b, now) ==
    IF b.parts + (now - b.last) * b.limit > b.limit * Ticks
    THEN b.limit * Ticks ELSE b.parts + (now - b.last) * b.limit

\* A tick adds to a bucket what its limit earns, or less.
LEMMA RefilledTick ==
    ASSUME NEW now \in Nat, NEW b \in [parts : Nat, limit : Nat, last : 0 .. now]
    PROVE  /\ RefilledAt(b, now + 1) \in Nat
           /\ RefilledAt(b, now + 1) <= RefilledAt(b, now) + b.limit
           /\ RefilledAt(b, now + 1) <= b.limit * Ticks
<1>1. Ticks \in Nat
  BY DoorAssumption
<1> DEFINE d == now - b.last
           earned == d * b.limit
           full == b.limit * Ticks
<1>2. d \in Nat /\ earned \in Nat /\ full \in Nat /\ b.parts \in Nat /\ b.limit \in Nat
  BY <1>1
<1>3. (now + 1 - b.last) = d + 1
  OBVIOUS
<1>4. (d + 1) * b.limit = earned + b.limit
  BY <1>2
<1>5. RefilledAt(b, now) = IF b.parts + earned > full THEN full ELSE b.parts + earned
  BY DEF RefilledAt
<1>6. (now + 1 - b.last) * b.limit = earned + b.limit
  BY <1>3, <1>4
<1>7. RefilledAt(b, now + 1) = IF b.parts + (earned + b.limit) > full
                               THEN full ELSE b.parts + (earned + b.limit)
  BY <1>6 DEF RefilledAt
<1> HIDE DEF earned, full, d
<1>8. /\ RefilledAt(b, now + 1) \in Nat
      /\ RefilledAt(b, now + 1) <= RefilledAt(b, now) + b.limit
      /\ RefilledAt(b, now + 1) <= full
  BY <1>2, <1>5, <1>7
<1> QED
  BY <1>8 DEF full

LEMMA DoorInitOK == DoorInit => DoorInv
<1> SUFFICES ASSUME DoorInit PROVE DoorInv
  OBVIOUS
<1>1. Ticks \in Nat
  BY DoorAssumption
<1>2. DoorTyped
  BY DoorAssumption DEF DoorInit, DoorTyped, BucketOK, LimitsOK, NoBucket, Outside, Keys
<1>3. ASSUME NEW k \in Keys PROVE over[k] + Refilled(bucket[k]) <= bucket[k].limit * Ticks
  <2>1. bucket[k] = NoBucket /\ over[k] = 0 /\ clock = 0
    BY DEF DoorInit
  <2>2. Refilled(NoBucket) = 0 /\ NoBucket.limit * Ticks = 0
    BY <1>1, <2>1 DEF Refilled, NoBucket
  <2> QED
    BY <2>1, <2>2
<1> QED
  BY <1>2, <1>3 DEF DoorInv, Together

-----------------------------------------------------------------------------
LEMMA TickOK == DoorInv /\ Tick => DoorInv'
<1> SUFFICES ASSUME DoorInv, Tick PROVE DoorInv'
  OBVIOUS
<1> USE DEF DoorInv
<1>1. clock \in Nat /\ clock' = clock + 1 /\ bucket' = bucket /\ limits' = limits /\ visit' = visit
  BY DEF Tick, DoorTyped
<1>2. ASSUME NEW k \in Keys
      PROVE  /\ over'[k] \in Nat
             /\ over'[k] = IF over[k] > bucket[k].limit THEN over[k] - bucket[k].limit ELSE 0
  BY DEF Tick, DoorTyped, BucketOK
<1>3. DoorTyped'
  BY <1>1, <1>2 DEF Tick, DoorTyped, BucketOK, LimitsOK, Keys
<1>4. ASSUME NEW k \in Keys PROVE over'[k] + Refilled(bucket[k])' <= bucket[k].limit * Ticks
  <2> DEFINE b == bucket[k]
  <2>1. b \in [parts : Nat, limit : Nat, last : 0 .. clock] /\ over[k] \in Nat
    BY DEF DoorTyped, BucketOK
  <2>2. over[k] + Refilled(b) <= b.limit * Ticks
    BY DEF Together
  <2>3. Refilled(b) \in 0 .. (b.limit * Ticks)
    BY <1>1, <2>1, RefilledBounds
  <2> DEFINE next == RefilledAt(b, clock + 1)
             full == b.limit * Ticks
  <2>4. next \in Nat /\ next <= RefilledAt(b, clock) + b.limit /\ next <= full
    BY <1>1, <2>1, RefilledTick
  <2>5. Refilled(bucket[k])' = RefilledAt(bucket'[k], clock')
    BY DEF Refilled, RefilledAt
  <2>6. bucket'[k] = b /\ clock' = clock + 1
    BY <1>1
  <2>7. Refilled(b) = RefilledAt(b, clock)
    BY DEF Refilled, RefilledAt
  <2>8. Refilled(bucket[k])' = next /\ bucket'[k].limit * Ticks = full
    BY <2>5, <2>6
  <2>9. Ticks \in Nat /\ full \in Nat /\ Refilled(b) \in Nat
    BY <2>1, <2>3, DoorAssumption
  <2> HIDE DEF next, full
  <2>10. over'[k] + next <= full
    BY <1>2, <2>1, <2>2, <2>4, <2>7, <2>9 DEF full
  <2> QED
    BY <2>8, <2>10 DEF full
<1> QED
  BY <1>1, <1>3, <1>4 DEF Together, Keys

\* A call that is refused costs nothing, and one that passes takes what it costs.
LEMMA RateOKOK == ASSUME NEW c \in Callers PROVE DoorInv /\ RateOK(c) => DoorInv'
<1> SUFFICES ASSUME DoorInv, RateOK(c) PROVE DoorInv'
  OBVIOUS
<1> USE DEF DoorInv
<1> DEFINE k == visit[c].key
           n == visit[c].limit
           b == BucketOf(k, n)
           since == IF b = bucket[k] THEN over[k] ELSE 0
           cost == IF Refilled(b) >= Ticks THEN Ticks ELSE 0
           rest == [parts |-> Refilled(b) - cost, limit |-> b.limit, last |-> clock]
<1>1. k \in Keys /\ n \in Nat /\ n > 0 /\ clock \in Nat /\ Ticks \in Nat
  BY DoorAssumption DEF RateOK, DoorTyped, LimitsOK
<1>2. /\ bucket' = [bucket EXCEPT ![k] = rest]
      /\ over' = [over EXCEPT ![k] = since + cost]
      /\ clock' = clock /\ limits' = limits
      /\ \E v \in {[pc |-> "named", key |-> k, limit |-> 0, name |-> visit[c].name], Outside} :
             visit' = [visit EXCEPT ![c] = v]
  BY DEF RateOK
<1>3. /\ b \in [parts : Nat, limit : Nat, last : 0 .. clock] /\ since \in Nat
      /\ since + Refilled(b) <= b.limit * Ticks
  <2>1. CASE bucket[k] = NoBucket \/ bucket[k].limit # n
    <3>1. b = [parts |-> n * Ticks, limit |-> n, last |-> clock]
      BY <2>1 DEF BucketOf
    <3>2. n * Ticks \in Nat
      BY <1>1
    <3>3. since = 0
      <4>1. n # bucket[k].limit
        BY <1>1, <2>1 DEF NoBucket
      <4> QED
        BY <3>1, <4>1
    <3>4. Refilled(b) \in 0 .. (b.limit * Ticks)
      BY <1>1, <3>1, <3>2, RefilledBounds
    <3> QED
      BY <1>1, <3>1, <3>2, <3>3, <3>4
  <2>2. CASE ~(bucket[k] = NoBucket \/ bucket[k].limit # n)
    <3>1. b = bucket[k] /\ since = over[k]
      BY <2>2 DEF BucketOf
    <3>2. bucket[k] \in [parts : Nat, limit : Nat, last : 0 .. clock] /\ over[k] \in Nat
      BY <1>1 DEF DoorTyped, BucketOK
    <3>3. over[k] + Refilled(bucket[k]) <= bucket[k].limit * Ticks
      BY <1>1 DEF Together
    <3> HIDE DEF b, since
    <3> QED
      BY <3>1, <3>2, <3>3
  <2> QED
    BY <2>1, <2>2
<1> HIDE DEF b
<1>4. Refilled(b) \in 0 .. (b.limit * Ticks)
  BY <1>1, <1>3, RefilledBounds
<1>5. cost \in Nat /\ cost <= Refilled(b) /\ Refilled(b) - cost \in Nat
  BY <1>1, <1>3, <1>4
<1>6. /\ rest.parts = Refilled(b) - cost /\ rest.limit = b.limit /\ rest.last = clock
  OBVIOUS
<1>7. Refilled(rest) = Refilled(b) - cost
  <2>1. (clock - rest.last) * rest.limit = 0
    BY <1>1, <1>3, <1>6
  <2>2. Refilled(rest) = IF rest.parts + (clock - rest.last) * rest.limit > rest.limit * Ticks
                         THEN rest.limit * Ticks ELSE rest.parts + (clock - rest.last) * rest.limit
    BY DEF Refilled
  <2> DEFINE full == b.limit * Ticks
             r == Refilled(b)
  <2>3. full \in Nat /\ r \in 0 .. full /\ cost \in Nat /\ r - cost \in Nat
    BY <1>1, <1>3, <1>4, <1>5
  <2>4. Refilled(rest) = IF (r - cost) + 0 > full THEN full ELSE (r - cost) + 0
    BY <1>6, <2>1, <2>2
  <2> HIDE DEF full, r
  <2>5. Refilled(rest) = r - cost
    BY <2>3, <2>4
  <2> QED
    BY <2>5 DEF r
<1> HIDE DEF rest, cost, since
<1>8. rest \in [parts : Nat, limit : Nat, last : 0 .. clock]
  BY <1>1, <1>3, <1>5, <1>6 DEF rest
<1>9. since + cost \in Nat /\ since + cost + Refilled(rest) <= b.limit * Ticks
  <2> DEFINE full == b.limit * Ticks
             r == Refilled(b)
  <2>1. full \in Nat
    BY <1>1, <1>3
  <2>2. r \in 0 .. full /\ since + r <= full /\ cost \in Nat /\ Refilled(rest) = r - cost /\ since \in Nat
    BY <1>3, <1>4, <1>5, <1>7
  <2> HIDE DEF full, r
  <2>3. since + cost \in Nat /\ since + cost + Refilled(rest) <= full
    BY <2>1, <2>2
  <2> QED
    BY <2>3 DEF full
<1>10. ASSUME NEW j \in Keys
       PROVE  /\ bucket'[j] = IF j = k THEN rest ELSE bucket[j]
              /\ over'[j] = IF j = k THEN since + cost ELSE over[j]
  BY <1>2 DEF DoorTyped
<1>11. DoorTyped'
  <2>1. \A j \in Keys : over'[j] \in Nat
    BY <1>9, <1>10 DEF DoorTyped
  <2>2. \A j \in Keys : bucket'[j] \in [parts : Nat, limit : Nat, last : 0 .. clock]
    BY <1>8, <1>10 DEF DoorTyped, BucketOK
  <2>3. LimitsOK'
    <3>1. PICK v \in {[pc |-> "named", key |-> k, limit |-> 0, name |-> visit[c].name], Outside} :
              visit' = [visit EXCEPT ![c] = v]
      BY <1>2
    <3>2. v \in [pc : {"outside", "named"}, key : Keys \cup {Nobody}, limit : Nat,
                 name : Asked \cup {Nobody}]
      BY <1>1, <3>1 DEF DoorTyped, LimitsOK, Outside
    <3>3. \A d \in Callers : visit'[d] = IF d = c THEN v ELSE visit[d]
      BY <3>1 DEF DoorTyped
    <3>4. ASSUME NEW d \in Callers
          PROVE  /\ visit'[d] \in [pc : {"outside", "gate", "named", "in"}, key : Keys \cup {Nobody},
                                   limit : Nat, name : Asked \cup {Nobody}]
                 /\ visit'[d].pc = "gate" => visit'[d].key \in Keys
      <4>1. CASE d = c
        BY <3>2, <3>3, <4>1
      <4>2. CASE d # c
        BY <3>3, <4>2 DEF DoorTyped, LimitsOK
      <4> QED
        BY <4>1, <4>2
    <3>5. \A j \in Keys : limits'[j] \in Nat
      BY <1>2 DEF DoorTyped, LimitsOK
    <3> QED
      BY <3>4, <3>5 DEF LimitsOK, Keys
  <2> QED
    BY <1>1, <1>2, <2>1, <2>2, <2>3 DEF DoorTyped, BucketOK, Keys
<1>12. ASSUME NEW j \in Keys PROVE over'[j] + Refilled(bucket[j])' <= bucket'[j].limit * Ticks
  <2>1. Refilled(bucket[j])' = Refilled(bucket'[j])
    <3>1. Refilled(bucket[j])' = RefilledAt(bucket'[j], clock')
      BY DEF Refilled, RefilledAt
    <3>2. Refilled(bucket'[j]) = RefilledAt(bucket'[j], clock)
      BY DEF Refilled, RefilledAt
    <3> QED
      BY <1>2, <3>1, <3>2
  <2>2. CASE j = k
    BY <1>6, <1>9, <1>10, <2>1, <2>2
  <2>3. CASE j # k
    BY <1>10, <2>1, <2>3 DEF Together
  <2> QED
    BY <2>2, <2>3
<1> QED
  BY <1>11, <1>12 DEF Together, Keys

\* The other steps leave clock, buckets and meters alone.
LEMMA OthersOK ==
    DoorInv /\ DoorNext /\ ~Tick /\ ~(\E c \in Callers : RateOK(c)) => DoorInv'
<1> SUFFICES ASSUME DoorInv, DoorNext, ~Tick, ~(\E c \in Callers : RateOK(c)) PROVE DoorInv'
  OBVIOUS
<1> USE DEF DoorInv
<1>1. clock' = clock /\ bucket' = bucket /\ over' = over
  BY DEF DoorNext, Remint, Arrive, Unlimited, AliasAllowed, Leaves
<1>2. LimitsOK' /\ DOMAIN limits' = Keys /\ DOMAIN visit' = Callers
  <2>1. ASSUME NEW k \in Keys, NEW n \in Limits, Remint(k, n)
        PROVE  LimitsOK' /\ DOMAIN limits' = Keys /\ DOMAIN visit' = Callers
    BY <2>1, DoorAssumption DEF Remint, DoorTyped, LimitsOK, Keys
  <2>2. ASSUME NEW c \in Callers, NEW k \in Keys, NEW name \in Asked, Arrive(c, k, name)
        PROVE  LimitsOK' /\ DOMAIN limits' = Keys /\ DOMAIN visit' = Callers
    BY <2>2 DEF Arrive, DoorTyped, LimitsOK, Keys
  <2>3. ASSUME NEW c \in Callers, Unlimited(c) \/ AliasAllowed(c) \/ Leaves(c)
        PROVE  LimitsOK' /\ DOMAIN limits' = Keys /\ DOMAIN visit' = Callers
    BY <2>3 DEF Unlimited, AliasAllowed, Leaves, DoorTyped, LimitsOK, Keys, Outside
  <2> QED
    BY <2>1, <2>2, <2>3 DEF DoorNext
<1>3. DoorTyped'
  BY <1>1, <1>2 DEF DoorTyped, BucketOK, Keys
<1>4. Together'
  <2>1. ASSUME NEW k \in Keys PROVE over'[k] + Refilled(bucket[k])' <= bucket'[k].limit * Ticks
    <3>1. Refilled(bucket[k])' = Refilled(bucket[k])
      BY <1>1 DEF Refilled
    <3> QED
      BY <1>1, <3>1 DEF Together
  <2> QED
    BY <2>1 DEF Together, Keys
<1> QED
  BY <1>3, <1>4

-----------------------------------------------------------------------------
\* What has passed and what may still pass are one full bucket at most, always.
THEOREM DoorSafe == DoorSpec => []DoorInv
<1>1. DoorInit => DoorInv
  BY DoorInitOK
<1>2. DoorInv /\ [DoorNext]_doorVars => DoorInv'
  <2> SUFFICES ASSUME DoorInv, [DoorNext]_doorVars PROVE DoorInv'
    OBVIOUS
  <2>1. CASE Tick
    BY <2>1, TickOK
  <2>2. CASE \E c \in Callers : RateOK(c)
    BY <2>2, RateOKOK
  <2>3. CASE UNCHANGED doorVars
    BY <2>3 DEF doorVars, DoorInv, DoorTyped, BucketOK, LimitsOK, Together, Refilled, Keys
  <2> QED
    BY <2>1, <2>2, <2>3, OthersOK
<1> QED
  BY <1>1, <1>2, PTL DEF DoorSpec

\* A meter that is drained as fast as the limit earns never rises above one full
\* bucket: over any stretch of time a key passes its limit and what the stretch
\* earns, and no more, for any callers and any alternation of calls and idleness.
THEOREM BurstIsBounded == DoorSpec => []BurstBounded
<1>1. DoorInv => BurstBounded
  <2> SUFFICES ASSUME DoorInv, NEW k \in Keys PROVE over[k] <= bucket[k].limit * Ticks
    BY DEF BurstBounded
  <2>1. /\ clock \in Nat /\ over[k] \in Nat
        /\ bucket[k] \in [parts : Nat, limit : Nat, last : 0 .. clock]
        /\ over[k] + Refilled(bucket[k]) <= bucket[k].limit * Ticks
    BY DEF DoorInv, DoorTyped, BucketOK, Together
  <2>2. Refilled(bucket[k]) \in 0 .. (bucket[k].limit * Ticks)
    BY <2>1, RefilledBounds
  <2>3. Ticks \in Nat /\ bucket[k].limit * Ticks \in Nat
    BY <2>1, DoorAssumption
  <2> QED
    BY <2>1, <2>2, <2>3
<1> QED
  BY <1>1, DoorSafe, PTL

-----------------------------------------------------------------------------
(***************************************************************************)
(* A vendor job leaves nothing behind and throws no answer away:           *)
(* FilesTidied and RestIsKept, for any number of requests, any patience    *)
(* and any number of answers gone wrong.  Both are about how a call ends,  *)
(* so the invariant says what is known of it on the way: the stages left   *)
(* are an end of its plan, which never ends with an upload or a            *)
(* submission, so that every name learnt is learnt before the last stage;  *)
(* and of a decision, that what was answered, what was not and what is     *)
(* left are all its questions.                                             *)
(***************************************************************************)

Questions == Len(DecideLocal)

\* The stages left of a plan.
TodoOK(q) ==
    /\ q.todo # <<>> => q.todo[Len(q.todo)] \notin {"put", "submit"}
    /\ \A i \in DOMAIN q.todo : q.todo[i] = "pass" <=> q.plan = "local"

LocalOK(q) ==
    /\ q.pc \in {"idle", "next", "over"}
    /\ q.pc = "idle" => q.usage = 0 /\ q.broken = 0 /\ ~q.failure
    /\ q.pc = "next" => q.todo # <<>> /\ q.usage + q.broken + Len(q.todo) = Questions
    /\ q.pc = "over" => /\ q.usage + q.broken = Questions
                        /\ q.result = "failed" <=> q.usage = 0 /\ q.failure

TaskOK(q) ==
    /\ q \in Task /\ TodoOK(q)
    /\ q.pc = "wait" => q.todo # <<>>
    /\ q.pc = "over" /\ q.plan \in Tidies /\ q.name /\ q.uri => q.tried
    /\ q.plan = "local" => LocalOK(q)

JobsInv ==
    /\ DOMAIN task = Users /\ \A u \in Users : TaskOK(task[u])

\* Every plan ends with a stage whose answer is the call's.
LEMMA PlansAreSound ==
    ASSUME NEW p \in DOMAIN Plans
    PROVE  /\ Plans[p] \in Seq(Stages) /\ Plans[p] # <<>>
           /\ Plans[p][Len(Plans[p])] \notin {"put", "submit"}
           /\ \A i \in DOMAIN Plans[p] : Plans[p][i] = "pass" <=> p = "local"
<1> DEFINE Sound(s, local) ==
               /\ s \in Seq(Stages) /\ s # <<>> /\ s[Len(s)] \notin {"put", "submit"}
               /\ \A i \in DOMAIN s : s[i] = "pass" <=> local
<1>1. Sound(TranscribeInteraction, FALSE) /\ Sound(TranscribeGenerate, FALSE)
      /\ Sound(TranscribeGenerateWithFile, FALSE)
  BY DEF TranscribeInteraction, TranscribeGenerate, TranscribeGenerateWithFile, Stages
<1>2. Sound(ReplicateChat, FALSE) /\ Sound(ReplicateImage, FALSE) /\ Sound(AssemblyTranscribe, FALSE)
  BY DEF ReplicateChat, ReplicateImage, AssemblyTranscribe, Stages
<1>3. Sound(SpeechmaticsTranscribe, FALSE) /\ Sound(SpeechmaticsTimings, FALSE)
      /\ Sound(GammaChat, FALSE) /\ Sound(DashScopeImage, FALSE)
  BY DEF SpeechmaticsTranscribe, SpeechmaticsTimings, GammaChat, DashScopeImage, Stages
<1>4. Sound(DecideLocal, TRUE)
  BY DEF DecideLocal, Stages
<1> HIDE DEF Sound
<1>5. CASE p = "local"
  <2>1. Sound(Plans[p], TRUE)
    BY <1>4, <1>5 DEF Plans
  <2> QED
    BY <1>5, <2>1 DEF Sound
<1>6. CASE p # "local"
  <2>1. p \in {"interaction", "generate", "withFile", "replicateChat", "replicateImage", "assembly",
               "speechmatics", "timings", "gamma", "dashscope"}
    BY <1>6 DEF Plans
  <2>2. /\ Plans["interaction"] = TranscribeInteraction /\ Plans["generate"] = TranscribeGenerate
        /\ Plans["withFile"] = TranscribeGenerateWithFile /\ Plans["replicateChat"] = ReplicateChat
        /\ Plans["replicateImage"] = ReplicateImage /\ Plans["assembly"] = AssemblyTranscribe
        /\ Plans["speechmatics"] = SpeechmaticsTranscribe /\ Plans["timings"] = SpeechmaticsTimings
        /\ Plans["gamma"] = GammaChat /\ Plans["dashscope"] = DashScopeImage
    BY DEF Plans
  <2>3. Sound(Plans[p], FALSE)
    BY <1>1, <1>2, <1>3, <2>1, <2>2
  <2> QED
    BY <1>6, <2>3 DEF Sound
<1> QED
  BY <1>5, <1>6

LEMMA TodoTail ==
    ASSUME NEW q, q \in Task, q.todo # <<>>
    PROVE  /\ Tail(q.todo) \in Seq(Stages) /\ Len(Tail(q.todo)) = Len(q.todo) - 1
           /\ DOMAIN Tail(q.todo) = 1 .. Len(q.todo) - 1 /\ DOMAIN q.todo = 1 .. Len(q.todo)
           /\ Len(q.todo) \in Nat \ {0}
           /\ \A i \in 1 .. Len(q.todo) - 1 : Tail(q.todo)[i] = q.todo[i + 1]
           /\ Head(q.todo) = q.todo[1]
<1>1. q.todo \in Seq(Stages)
  BY DEF Task
<1> QED
  BY <1>1, HeadTailProperties, LenProperties, EmptySeq

\* A stage before the last one is followed by another.
LEMMA NextStage ==
    ASSUME NEW q, q \in Task, TodoOK(q), q.todo # <<>>, Len(q.todo) # 1,
           NEW n, n = [q EXCEPT !.pc = "next", !.todo = Tail(@), !.clock = 0]
    PROVE  /\ n \in Task /\ TodoOK(n) /\ n.todo # <<>> /\ n.pc = "next" /\ n.plan = q.plan
           /\ n.name = q.name /\ n.gone = q.gone
<1> DEFINE t == Tail(q.todo)
           k == Len(q.todo)
<1>1. /\ t \in Seq(Stages) /\ Len(t) = k - 1 /\ DOMAIN t = 1 .. k - 1 /\ k \in Nat \ {0}
      /\ DOMAIN q.todo = 1 .. k /\ \A i \in 1 .. k - 1 : t[i] = q.todo[i + 1]
  BY TodoTail
<1>2. k # 1 /\ q.todo[k] \notin {"put", "submit"}
      /\ \A i \in DOMAIN q.todo : q.todo[i] = "pass" <=> q.plan = "local"
  BY DEF TodoOK
<1> HIDE DEF t, k
<1>3. t # <<>> /\ t[k - 1] = q.todo[k]
  BY <1>1, <1>2
<1>4. n = [q EXCEPT !.pc = "next", !.todo = t, !.clock = 0]
  BY DEF t
<1>5. n \in Task /\ n.todo = t /\ n.pc = "next" /\ n.plan = q.plan /\ n.name = q.name /\ n.gone = q.gone
  <2>1. 0 \in 0 .. Patience
    BY VendorJobsAssumption
  <2> QED
    BY <1>1, <1>4, <2>1 DEF Task
<1>6. TodoOK(n)
  <2>1. \A i \in DOMAIN t : t[i] = q.todo[i + 1] /\ i + 1 \in DOMAIN q.todo
    BY <1>1
  <2> QED
    BY <1>1, <1>2, <1>3, <1>5, <2>1 DEF TodoOK
<1> QED
  BY <1>3, <1>5, <1>6

\* A call that returns deletes what it can name, or says so at once.
LEMMA ReturningOK ==
    ASSUME NEW q, q \in Task, q.plan # "local", NEW r \in {"answered", "failed"}
    PROVE  TaskOK(Returning(q, r))
<1> DEFINE n == Returning(q, r)
           pc == IF q.plan \in Tidies /\ q.name THEN "tidy" ELSE "over"
<1>1. n = [q EXCEPT !.pc = pc, !.todo = <<>>, !.clock = 0, !.result = r]
  BY DEF Returning
<1>2. pc \in {"tidy", "over"} /\ (pc = "over" /\ q.plan \in Tidies => ~q.name)
  BY DEF Task
<1> HIDE DEF pc, n
<1>3. n \in Task /\ n.pc = pc /\ n.todo = <<>> /\ n.plan = q.plan /\ n.name = q.name
  <2>1. 0 \in 0 .. Patience /\ <<>> \in Seq(Stages)
    BY VendorJobsAssumption
  <2> QED
    BY <1>1, <1>2, <2>1 DEF Task
<1>4. TodoOK(n)
  BY <1>3 DEF TodoOK
<1> QED
  BY <1>2, <1>3, <1>4 DEF TaskOK, n

LEMMA PastOK ==
    ASSUME NEW q, q \in Task, TodoOK(q), q.plan # "local", q.todo # <<>>
    PROVE  TaskOK(Past(q))
<1>1. CASE Len(q.todo) = 1
  BY <1>1, ReturningOK DEF Past
<1>2. CASE Len(q.todo) # 1
  <2>1. Past(q) = [q EXCEPT !.pc = "next", !.todo = Tail(@), !.clock = 0]
    BY <1>2 DEF Past
  <2> QED
    BY <1>2, <2>1, NextStage DEF TaskOK
<1> QED
  BY <1>1, <1>2

\* Neither an upload nor a submission is the last stage.
LEMMA NotTheLast ==
    ASSUME NEW q, q \in Task, TodoOK(q), q.todo # <<>>, Head(q.todo) \in {"put", "submit"}
    PROVE  Len(q.todo) # 1
  BY TodoTail DEF TodoOK

\* One more question of a decision is done with.
LEMMA DecidedOK ==
    ASSUME NEW q, q \in Task, TodoOK(q), q.plan = "local", q.pc = "next", q.todo # <<>>,
           q.usage + q.broken + Len(q.todo) = Questions + 1
    PROVE  TaskOK(Decided(q))
<1> DEFINE k == Len(q.todo)
<1>0. k \in Nat \ {0} /\ Questions = 3 /\ q.usage \in Nat /\ q.broken \in Nat /\ q.failure \in BOOLEAN
  BY TodoTail DEF Questions, DecideLocal, Task
<1>1. CASE k > 1
  <2> DEFINE n == [q EXCEPT !.todo = Tail(@)]
             x == [q EXCEPT !.clock = 0]
  <2>1. Decided(q) = n
    BY <1>1 DEF Decided
  <2>2. Tail(q.todo) \in Seq(Stages) /\ Len(Tail(q.todo)) = k - 1
        /\ DOMAIN Tail(q.todo) = 1 .. k - 1 /\ DOMAIN q.todo = 1 .. k
        /\ \A i \in 1 .. k - 1 : Tail(q.todo)[i] = q.todo[i + 1]
    BY TodoTail
  <2> DEFINE t == Tail(q.todo)
  <2>3. t # <<>> /\ t[k - 1] = q.todo[k] /\ Len(t) = k - 1
    <3>1. k - 1 \in 1 .. k - 1 /\ (k - 1) + 1 = k
      BY <1>0, <1>1
    <3>2. t[k - 1] = q.todo[(k - 1) + 1] /\ Len(t) = k - 1
      BY <2>2, <3>1
    <3> HIDE DEF t, k
    <3>3. t # <<>>
      BY <3>1, <3>2
    <3> QED
      BY <3>1, <3>2, <3>3
  <2>4. n \in Task /\ n.todo = t /\ n.pc = "next" /\ n.plan = "local"
        /\ n.usage = q.usage /\ n.broken = q.broken
    BY <2>2 DEF Task
  <2>5. k - 1 \in DOMAIN t /\ DOMAIN t = 1 .. k - 1 /\ \A i \in DOMAIN t : t[i] = q.todo[i + 1] /\ i + 1 \in DOMAIN q.todo
    BY <1>0, <1>1, <2>2
  <2> HIDE DEF n, t
  <2>6. TodoOK(n)
    BY <1>0, <2>3, <2>4, <2>5 DEF TodoOK
  <2>7. LocalOK(n)
    BY <1>0, <2>3, <2>4 DEF LocalOK
  <2> QED
    BY <2>1, <2>4, <2>6, <2>7 DEF TaskOK, n
<1>2. CASE ~(k > 1)
  <2> DEFINE r == IF q.failure /\ q.broken = Questions THEN "failed" ELSE "answered"
             n == Returning(q, r)
  <2>1. Decided(q) = n
    BY <1>2 DEF Decided, Questions
  <2>2. n = [q EXCEPT !.pc = "over", !.todo = <<>>, !.clock = 0, !.result = r]
    BY DEF Returning, Tidies
  <2>3. r \in {"failed", "answered"} /\ (r = "failed" <=> q.failure /\ q.broken = Questions)
    OBVIOUS
  <2> HIDE DEF r, n
  <2>4. n \in Task /\ n.todo = <<>> /\ n.pc = "over" /\ n.plan = "local" /\ n.usage = q.usage
        /\ n.broken = q.broken /\ n.failure = q.failure /\ n.result = r
    <3>1. 0 \in 0 .. Patience /\ <<>> \in Seq(Stages)
      BY VendorJobsAssumption
    <3> QED
      BY <2>2, <2>3, <3>1 DEF Task
  <2>5. LocalOK(n)
    BY <1>0, <1>2, <2>3, <2>4 DEF LocalOK
  <2>6. TodoOK(n)
    BY <2>4 DEF TodoOK
  <2> QED
    BY <2>1, <2>4, <2>5, <2>6 DEF TaskOK, Tidies, n
<1> QED
  BY <1>1, <1>2

\* A step that turns one request into a sound one keeps the invariant.
LEMMA OneTask ==
    ASSUME JobsInv, NEW u \in Users, NEW n, TaskOK(n), task' = [task EXCEPT ![u] = n]
    PROVE  JobsInv'
<1>1. DOMAIN task' = Users /\ \A v \in Users : task'[v] = IF v = u THEN n ELSE task[v]
  BY DEF JobsInv
<1>2. ASSUME NEW v \in Users PROVE TaskOK(task'[v])
  BY <1>1 DEF JobsInv
<1> QED
  BY <1>1, <1>2 DEF JobsInv, TaskOK, TodoOK, LocalOK

\* What stage a request is at, and of which kind of plan.
LEMMA FacingIs ==
    ASSUME JobsInv, NEW u \in Users, NEW stage, Facing(u, stage)
    PROVE  /\ task[u] \in Task /\ TodoOK(task[u]) /\ TaskOK(task[u])
           /\ task[u].todo # <<>> /\ Head(task[u].todo) = stage /\ task[u].pc = "next"
           /\ stage = "pass" <=> task[u].plan = "local"
<1> DEFINE q == task[u]
<1>1. TaskOK(q) /\ q.pc = "next" /\ q.todo # <<>> /\ Head(q.todo) = stage
  BY DEF JobsInv, Facing, Stage
<1> HIDE DEF q
<1>2. q \in Task /\ TodoOK(q)
  BY <1>1 DEF TaskOK
<1>3. q.todo[1] = stage /\ 1 \in DOMAIN q.todo
  BY <1>1, <1>2, TodoTail
<1>4. stage = "pass" <=> q.plan = "local"
  BY <1>2, <1>3 DEF TodoOK
<1> QED
  BY <1>1, <1>2, <1>4 DEF q

LEMMA WaitingIs ==
    ASSUME JobsInv, NEW u \in Users, task[u].pc = "wait"
    PROVE  /\ task[u] \in Task /\ TodoOK(task[u]) /\ TaskOK(task[u])
           /\ task[u].todo # <<>> /\ task[u].plan # "local"
  BY DEF JobsInv, TaskOK, LocalOK

LEMMA InvokeOK == ASSUME JobsInv, NEW u \in Users, Invoke(u) PROVE JobsInv'
<1> DEFINE q == task[u]
           n == [q EXCEPT !.pc = "next", !.todo = Plans[q.plan]]
<1>1. q.pc = "idle" /\ task' = [task EXCEPT ![u] = n]
  BY DEF Invoke
<1>2. TaskOK(q) /\ q \in Task
  BY DEF JobsInv, TaskOK
<1> HIDE DEF q
<1> DEFINE p == Plans[q.plan]
<1>3. q.plan \in DOMAIN Plans
  BY <1>2 DEF Task
<1>4. /\ p \in Seq(Stages) /\ p # <<>> /\ p[Len(p)] \notin {"put", "submit"}
      /\ \A i \in DOMAIN p : p[i] = "pass" <=> q.plan = "local"
  BY <1>3, PlansAreSound
<1>5. q.plan = "local" => Len(p) = Questions
  BY DEF Plans, Questions
<1> HIDE DEF p
<1>6. n = [q EXCEPT !.pc = "next", !.todo = p]
  BY DEF p
<1> HIDE DEF n
<1>7. n \in Task /\ n.todo = p /\ n.pc = "next" /\ n.plan = q.plan /\ n.usage = q.usage
      /\ n.broken = q.broken
  BY <1>2, <1>4, <1>6 DEF Task
<1>8. TodoOK(n)
  BY <1>4, <1>7 DEF TodoOK
<1>9. q.plan = "local" => LocalOK(n)
  <2> SUFFICES ASSUME q.plan = "local" PROVE LocalOK(n)
    OBVIOUS
  <2>1. q.usage = 0 /\ q.broken = 0 /\ Len(p) = 3 /\ Questions = 3
    BY <1>1, <1>2, <1>5 DEF TaskOK, LocalOK, Questions, DecideLocal, q
  <2> QED
    BY <1>4, <1>7, <2>1 DEF LocalOK
<1>10. TaskOK(n)
  BY <1>7, <1>8, <1>9 DEF TaskOK
<1> QED
  BY <1>1, <1>10, OneTask

LEMMA PutOK ==
    ASSUME JobsInv, NEW u \in Users, NEW named \in BOOLEAN, NEW state, Put(u, named, state)
    PROVE  JobsInv'
<1> DEFINE q == task[u]
           x == Past(q)
           n == [x EXCEPT !.name = named, !.uri = TRUE]
<1>1. Facing(u, "put") /\ \E y \in {n, Past(n), Returning(n, "failed")} : task' = [task EXCEPT ![u] = y]
  <2> DEFINE y == IF n.plan \notin Tidies THEN n
                  ELSE IF ~named \/ state \in AwaitFileActive.good THEN Past(n)
                  ELSE IF state \in AwaitFileActive.bad THEN Returning(n, "failed")
                  ELSE n
  <2>1. Facing(u, "put") /\ task' = [task EXCEPT ![u] = y]
    BY DEF Put
  <2>2. y \in {n, Past(n), Returning(n, "failed")}
    OBVIOUS
  <2> HIDE DEF y
  <2> QED
    BY <2>1, <2>2
<1>2. q \in Task /\ TodoOK(q) /\ q.todo # <<>> /\ Head(q.todo) = "put" /\ q.plan # "local"
  BY <1>1, FacingIs
<1> HIDE DEF q
<1>3. Len(q.todo) # 1
  BY <1>2, NotTheLast
<1>4. x = [q EXCEPT !.pc = "next", !.todo = Tail(@), !.clock = 0]
  BY <1>3 DEF Past
<1>5. x \in Task /\ TodoOK(x) /\ x.todo # <<>> /\ x.pc = "next" /\ x.plan = q.plan
  BY <1>2, <1>3, <1>4, NextStage
<1> HIDE DEF x
<1>6. n \in Task /\ n.todo = x.todo /\ n.pc = "next" /\ n.plan = q.plan
  BY <1>5 DEF Task
<1> HIDE DEF n
<1>7. TodoOK(n)
  BY <1>5, <1>6 DEF TodoOK
<1>8. TaskOK(n)
  BY <1>2, <1>6, <1>7 DEF TaskOK
<1>9. TaskOK(Past(n)) /\ TaskOK(Returning(n, "failed"))
  BY <1>2, <1>5, <1>6, <1>7, PastOK, ReturningOK
<1> QED
  BY <1>1, <1>8, <1>9, OneTask

LEMMA PutWithoutURIOK ==
    ASSUME JobsInv, NEW u \in Users, NEW named \in BOOLEAN, PutWithoutURI(u, named)
    PROVE  JobsInv'
<1> DEFINE q == task[u]
           x == Returning(q, "failed")
           n == [x EXCEPT !.name = named, !.uri = FALSE]
<1>1. Facing(u, "put") /\ task' = [task EXCEPT ![u] = n]
  BY DEF PutWithoutURI
<1>2. q \in Task /\ q.plan # "local"
  BY <1>1, FacingIs
<1> HIDE DEF q
<1>3. TaskOK(x) /\ x.plan = q.plan /\ x.pc # "wait"
  BY <1>2, ReturningOK DEF Returning, Task
<1> HIDE DEF x
<1>4. /\ n \in Task /\ n.todo = x.todo /\ n.pc = x.pc /\ n.plan = x.plan /\ ~n.uri
  BY <1>3 DEF TaskOK, Task
<1> HIDE DEF n
<1>5. TaskOK(n)
  BY <1>2, <1>3, <1>4 DEF TaskOK, TodoOK
<1> QED
  BY <1>1, <1>5, OneTask

LEMMA SubmitOK == ASSUME JobsInv, NEW u \in Users, NEW done \in BOOLEAN, Submit(u, done) PROVE JobsInv'
<1> DEFINE q == task[u]
           n == IF done THEN Past(Past(q)) ELSE Past(q)
<1>1. Facing(u, "submit") /\ task' = [task EXCEPT ![u] = n]
  BY DEF Submit
<1>2. q \in Task /\ TodoOK(q) /\ q.todo # <<>> /\ Head(q.todo) = "submit" /\ q.plan # "local"
  BY <1>1, FacingIs
<1> HIDE DEF q
<1>3. Len(q.todo) # 1
  BY <1>2, NotTheLast
<1> DEFINE x == Past(q)
<1>4. x = [q EXCEPT !.pc = "next", !.todo = Tail(@), !.clock = 0]
  BY <1>3 DEF Past
<1>5. x \in Task /\ TodoOK(x) /\ x.todo # <<>> /\ x.plan = q.plan
  BY <1>2, <1>3, <1>4, NextStage
<1> HIDE DEF x
<1>6. TaskOK(x)
  BY <1>2, PastOK DEF x
<1>7. TaskOK(Past(x))
  BY <1>2, <1>5, PastOK
<1>8. TaskOK(n)
  BY <1>6, <1>7 DEF x
<1> HIDE DEF n
<1> QED
  BY <1>1, <1>8, OneTask

\* What goes on after a stage, or ends there.
LEMMA StageOK ==
    ASSUME JobsInv, NEW u \in Users,
           \/ \E arrived \in BOOLEAN : PutFails(u, arrived) \/ SubmitFails(u, arrived)
           \/ ExchangeFails(u) \/ FetchSegments(u)
    PROVE  JobsInv'
<1> DEFINE q == task[u]
<1>1. /\ Facing(u, "put") \/ Facing(u, "submit") \/ Facing(u, "ask") \/ Facing(u, "fetch") \/ Facing(u, "extra")
      /\ \E n \in {Past(q), Returning(q, "failed")} : task' = [task EXCEPT ![u] = n]
  BY DEF PutFails, SubmitFails, ExchangeFails, FetchSegments
<1>2. q \in Task /\ TodoOK(q) /\ q.todo # <<>> /\ q.plan # "local"
  BY <1>1, FacingIs
<1> HIDE DEF q
<1>3. TaskOK(Past(q)) /\ TaskOK(Returning(q, "failed"))
  BY <1>2, PastOK, ReturningOK
<1> QED
  BY <1>1, <1>3, OneTask

LEMMA ExchangeOK == ASSUME JobsInv, NEW u \in Users, NEW n \in {0, 1}, Exchange(u, n) PROVE JobsInv'
<1> DEFINE q == task[u]
           x == [q EXCEPT !.usage = @ + n]
<1>1. /\ Facing(u, "ask") \/ Facing(u, "fetch") \/ Facing(u, "extra")
      /\ task' = [task EXCEPT ![u] = Past(x)]
  BY DEF Exchange
<1>2. q \in Task /\ TodoOK(q) /\ q.todo # <<>> /\ q.plan # "local"
  BY <1>1, FacingIs
<1> HIDE DEF q
<1>3. x \in Task /\ x.todo = q.todo /\ x.plan = q.plan
  BY <1>2 DEF Task
<1> HIDE DEF x
<1>4. TodoOK(x)
  BY <1>2, <1>3 DEF TodoOK
<1>5. TaskOK(Past(x))
  BY <1>2, <1>3, <1>4, PastOK
<1> QED
  BY <1>1, <1>5, OneTask

LEMMA StartWaitOK == ASSUME JobsInv, NEW u \in Users, StartWait(u) PROVE JobsInv'
<1> DEFINE q == task[u]
           x == [q EXCEPT !.pc = "wait", !.clock = Patience]
<1>1. /\ Facing(u, "active") \/ Facing(u, "await")
      /\ task' = [task EXCEPT ![u] = x]
  BY DEF StartWait, Waiting
<1>2. q \in Task /\ TodoOK(q) /\ q.todo # <<>> /\ q.plan # "local"
  BY <1>1, FacingIs
<1> HIDE DEF q
<1>3. Patience \in 0 .. Patience
  BY VendorJobsAssumption
<1>4. x \in Task /\ x.todo = q.todo /\ x.plan = q.plan /\ x.pc = "wait"
  BY <1>2, <1>3 DEF Task
<1> HIDE DEF x
<1>5. TaskOK(x)
  BY <1>2, <1>4 DEF TaskOK, TodoOK
<1> QED
  BY <1>1, <1>5, OneTask

LEMMA PollOK == ASSUME JobsInv, NEW u \in Users, Poll(u) \/ PollFails(u) PROVE JobsInv'
<1> DEFINE q == task[u]
           x == [q EXCEPT !.clock = IF @ = 0 THEN 0 ELSE @ - 1]
<1>1. /\ q.pc = "wait"
      /\ \E n \in {Past(q), Returning(q, "failed"), x} : task' = [task EXCEPT ![u] = n]
  <2>1. CASE PollFails(u)
    BY <2>1 DEF PollFails
  <2>2. CASE Poll(u)
    <3> DEFINE n == IF State(u) \in Waits[q.plan].good THEN Past(q)
                    ELSE IF State(u) \in Waits[q.plan].bad THEN Returning(q, "failed")
                    ELSE IF Waits[q.plan].timed /\ q.clock = 0 THEN Returning(q, "failed")
                    ELSE x
    <3>1. q.pc = "wait" /\ task' = [task EXCEPT ![u] = n]
      BY <2>2 DEF Poll
    <3> HIDE DEF x
    <3>2. n \in {Past(q), Returning(q, "failed"), x}
      OBVIOUS
    <3> HIDE DEF n
    <3> QED
      BY <3>1, <3>2
  <2> QED
    BY <2>1, <2>2
<1>2. q \in Task /\ TodoOK(q) /\ q.todo # <<>> /\ q.plan # "local"
  BY <1>1, WaitingIs
<1> HIDE DEF q
<1> DEFINE c == IF q.clock = 0 THEN 0 ELSE q.clock - 1
<1>3. c \in 0 .. Patience
  <2>1. q.clock \in 0 .. Patience
    BY <1>2 DEF Task
  <2> QED
    BY <2>1, VendorJobsAssumption
<1>4. x = [q EXCEPT !.clock = c]
  OBVIOUS
<1> HIDE DEF c, x
<1>5. x \in Task /\ x.todo = q.todo /\ x.plan = q.plan /\ x.pc = "wait"
  BY <1>1, <1>2, <1>3, <1>4 DEF Task
<1>6. TaskOK(x)
  BY <1>2, <1>5 DEF TaskOK, TodoOK
<1>7. TaskOK(Past(q)) /\ TaskOK(Returning(q, "failed"))
  BY <1>2, PastOK, ReturningOK
<1> QED
  BY <1>1, <1>6, <1>7, OneTask

LEMMA PassOK ==
    ASSUME JobsInv, NEW u \in Users, OptionProbabilities(u) \/ PassFails(u) \/ ResolveQuestion(u)
    PROVE  JobsInv'
<1> DEFINE q == task[u]
           a == [q EXCEPT !.usage = @ + 1]
           b == [q EXCEPT !.broken = @ + 1, !.failure = TRUE]
           c == [q EXCEPT !.broken = @ + 1]
<1>1. /\ Facing(u, "pass")
      /\ \E n \in {a, b, c} : task' = [task EXCEPT ![u] = Decided(n)]
  <2>1. CASE OptionProbabilities(u)
    <3>1. Facing(u, "pass") /\ task' = [task EXCEPT ![u] = Decided(a)]
      BY <2>1 DEF OptionProbabilities
    <3> HIDE DEF a, b, c
    <3> QED
      BY <3>1
  <2>2. CASE PassFails(u)
    <3>1. Facing(u, "pass") /\ task' = [task EXCEPT ![u] = Decided(b)]
      BY <2>2 DEF PassFails
    <3> HIDE DEF a, b, c
    <3> QED
      BY <3>1
  <2>3. CASE ResolveQuestion(u)
    <3>1. Facing(u, "pass") /\ task' = [task EXCEPT ![u] = Decided(c)]
      BY <2>3 DEF ResolveQuestion
    <3> HIDE DEF a, b, c
    <3> QED
      BY <3>1
  <2> QED
    BY <2>1, <2>2, <2>3
<1>2. q \in Task /\ TaskOK(q) /\ q.todo # <<>> /\ q.plan = "local" /\ q.pc = "next"
  BY <1>1, FacingIs
<1> HIDE DEF q
<1>3. TodoOK(q) /\ q.usage + q.broken + Len(q.todo) = Questions
  BY <1>2 DEF TaskOK, LocalOK
<1>4. q.usage \in Nat /\ q.broken \in Nat /\ Len(q.todo) \in Nat /\ Questions = 3
  BY <1>2, TodoTail DEF Task, Questions, DecideLocal
<1>5. ASSUME NEW n \in {a, b, c}
      PROVE  TaskOK(Decided(n))
  <2>1. /\ n \in Task /\ n.todo = q.todo /\ n.plan = "local" /\ n.pc = "next"
        /\ \/ n.usage = q.usage + 1 /\ n.broken = q.broken
           \/ n.usage = q.usage /\ n.broken = q.broken + 1
    <3>1. a \in Task /\ a.todo = q.todo /\ a.plan = "local" /\ a.pc = "next"
          /\ a.usage = q.usage + 1 /\ a.broken = q.broken
      BY <1>2 DEF Task
    <3>2. b \in Task /\ b.todo = q.todo /\ b.plan = "local" /\ b.pc = "next"
          /\ b.usage = q.usage /\ b.broken = q.broken + 1
      <4> DEFINE f == [q EXCEPT !.failure = TRUE]
      <4>1. f \in Task /\ f.todo = q.todo /\ f.plan = "local" /\ f.pc = "next"
            /\ f.usage = q.usage /\ f.broken = q.broken
        BY <1>2 DEF Task
      <4>2. b = [f EXCEPT !.broken = q.broken + 1]
        BY <1>2 DEF Task
      <4> HIDE DEF f, b
      <4> QED
        BY <1>4, <4>1, <4>2 DEF Task
    <3>3. c \in Task /\ c.todo = q.todo /\ c.plan = "local" /\ c.pc = "next"
          /\ c.usage = q.usage /\ c.broken = q.broken + 1
      BY <1>2 DEF Task
    <3> HIDE DEF a, b, c
    <3> QED
      BY <3>1, <3>2, <3>3
  <2> HIDE DEF a, b, c
  <2>2. TodoOK(n)
    BY <1>2, <1>3, <2>1 DEF TodoOK
  <2>3. n.usage + n.broken + Len(n.todo) = Questions + 1
    <3> DEFINE l == Len(q.todo)
               used == q.usage
               broke == q.broken
               used2 == n.usage
               broke2 == n.broken
    <3>1. \/ used2 = used + 1 /\ broke2 = broke
          \/ used2 = used /\ broke2 = broke + 1
      BY <2>1
    <3>2. l \in Nat /\ used \in Nat /\ broke \in Nat /\ used + broke + l = Questions
      BY <1>3, <1>4
    <3>3. n.todo = q.todo
      BY <2>1
    <3>4. Len(n.todo) = l
      BY <3>3
    <3> HIDE DEF l, used, broke, used2, broke2
    <3>5. used2 + broke2 + l = Questions + 1
      BY <3>1, <3>2
    <3> QED
      BY <3>4, <3>5 DEF used2, broke2
  <2> QED
    BY <1>2, <2>1, <2>2, <2>3, DecidedOK
<1> HIDE DEF a, b, c
<1> QED
  BY <1>1, <1>5, OneTask

LEMMA DeleteFileOK == ASSUME JobsInv, NEW u \in Users, NEW d \in BOOLEAN, DeleteFile(u, d) PROVE JobsInv'
<1> DEFINE q == task[u]
           n == [q EXCEPT !.pc = "over", !.tried = TRUE]
<1>1. q.pc = "tidy" /\ task' = [task EXCEPT ![u] = n]
  BY DEF DeleteFile
<1>2. TaskOK(q)
  BY DEF JobsInv
<1> HIDE DEF q
<1>3. q \in Task /\ TodoOK(q) /\ q.plan # "local"
  BY <1>1, <1>2 DEF TaskOK, LocalOK, q
<1>4. n \in Task /\ n.todo = q.todo /\ n.plan = q.plan /\ n.pc = "over" /\ n.tried
  BY <1>3 DEF Task
<1> HIDE DEF n
<1>5. TaskOK(n)
  BY <1>3, <1>4 DEF TaskOK, TodoOK
<1> QED
  BY <1>1, <1>5, OneTask

LEMMA HangUpOK == ASSUME JobsInv, NEW u \in Users, HangUp(u) PROVE JobsInv'
<1> DEFINE q == task[u]
           n == [q EXCEPT !.gone = TRUE]
<1>1. task' = [task EXCEPT ![u] = n]
  BY DEF HangUp
<1>2. TaskOK(q)
  BY DEF JobsInv
<1> HIDE DEF q
<1>3. /\ n \in Task /\ n.todo = q.todo /\ n.plan = q.plan /\ n.pc = q.pc /\ n.tried = q.tried
      /\ n.name = q.name /\ n.uri = q.uri /\ n.usage = q.usage /\ n.broken = q.broken /\ n.failure = q.failure
      /\ n.result = q.result
  BY <1>2 DEF Task, TaskOK
<1> HIDE DEF n
<1>4. TaskOK(n)
  BY <1>2, <1>3 DEF TaskOK, TodoOK, LocalOK
<1> QED
  BY <1>1, <1>4, OneTask

\* What every call has come to, at every moment.
THEOREM JobsAreSound == VendorJobsSpec => []JobsInv
<1>1. VendorJobsInit => JobsInv
  <2> SUFFICES ASSUME VendorJobsInit PROVE JobsInv
    OBVIOUS
  <2>1. PICK plan \in [Users -> DOMAIN Plans] : task = [u \in Users |-> Rested(plan[u])]
    BY DEF VendorJobsInit
  <2>2. ASSUME NEW p \in DOMAIN Plans PROVE TaskOK(Rested(p))
    <3> DEFINE n == Rested(p)
    <3>1. 0 \in 0 .. Patience /\ <<>> \in Seq(Stages)
      BY VendorJobsAssumption
    <3>2. n \in Task /\ n.todo = <<>> /\ n.pc = "idle" /\ n.usage = 0 /\ n.broken = 0 /\ ~n.failure
      BY <3>1 DEF Rested, Task
    <3> HIDE DEF n
    <3>3. TaskOK(n)
      BY <3>2 DEF TaskOK, TodoOK, LocalOK
    <3> QED
      BY <3>3 DEF n
  <2> QED
    BY <2>1, <2>2 DEF JobsInv
<1>2. JobsInv /\ [VendorJobsNext]_vendorVars => JobsInv'
  <2> SUFFICES ASSUME JobsInv, [VendorJobsNext]_vendorVars PROVE JobsInv'
    OBVIOUS
  <2>1. CASE task' = task
    BY <2>1 DEF JobsInv, TaskOK, TodoOK, LocalOK
  <2>2. ASSUME NEW u \in Users, Invoke(u) \/ Adapter(u) \/ HangUp(u) PROVE JobsInv'
    BY <2>2, InvokeOK, PutOK, PutWithoutURIOK, SubmitOK, StageOK, ExchangeOK, StartWaitOK, PollOK, PassOK, DeleteFileOK,
       HangUpOK DEF Adapter
  <2>3. ASSUME NEW u \in Users, NEW to \in Progress, Decode(u, to) \/ Work(u, to) PROVE task' = task
    BY <2>3 DEF Decode, Work
  <2> QED
    BY <2>1, <2>2, <2>3 DEF VendorJobsNext, vendorVars
<1> QED
  BY <1>1, <1>2, PTL DEF VendorJobsSpec

\* When a call is over, a file the vendor named and placed is deleted or its
\* deletion was tried, whatever failed, whoever hung up and in whatever order (the deferred
\* deleteFile under a context of its own).
THEOREM FilesAreTidied == VendorJobsSpec => []FilesTidied
<1>1. JobsInv => FilesTidied
  BY DEF JobsInv, TaskOK, FilesTidied
<1> QED
  BY <1>1, JobsAreSound, PTL

\* A decision fails if and only if no question was answered and the model was
\* asked in vain, and its usage is that of every answered question (allFailed).
THEOREM DecisionsKeepTheRest == VendorJobsSpec => []RestIsKept
<1>1. JobsInv => RestIsKept
  BY DEF JobsInv, TaskOK, LocalOK, RestIsKept, Questions
<1> QED
  BY <1>1, JobsAreSound, PTL

-----------------------------------------------------------------------------
(***************************************************************************)
(* Requests find what the console saved: RegistryFollowsStore, for any     *)
(* number of editors and any definitions.  While edits come one at a time  *)
(* only the one in flight may hold the registry back, and only where it    *)
(* still has to register: the name it wrote, then the records of its list  *)
(* that are left (Behind), each of which is what the store has (ListOK).   *)
(***************************************************************************)

Follows(k, n) ==
    IF stored[k][n] # Nothing THEN registry[k][n] = stored[k][n]
    ELSE registry[k][n] \in {Nothing, Baked[k][n]}

Tables(f) == DOMAIN f = Kinds /\ \A k \in Kinds : DOMAIN f[k] = Names

EditOK(x) ==
    /\ DOMAIN x = {"pc", "kind", "name", "def", "list"}
    /\ x.pc # "idle" => x.kind \in Kinds /\ x.name \in Names
    /\ x.pc = "save" => x.def # Nothing
    /\ Tables(x.list)

Behind(x, k, n) ==
    /\ k = x.kind
    /\ \/ x.pc \in {"list", "remove"} /\ n = x.name
       \/ x.pc = "set" /\ x.list[k][n] # Nothing

ListOK(x, kept) ==
    /\ x.pc = "list" => kept[x.kind][x.name] # Nothing
    /\ x.pc = "remove" => kept[x.kind][x.name] = Nothing
    /\ x.pc = "set" => \A n \in Names : x.list[x.kind][n] \in {Nothing, kept[x.kind][n]}

InOrder ==
    /\ \A e, f \in Editors : edit[e].pc # "idle" /\ edit[f].pc # "idle" => e = f
    /\ \A k \in Kinds, n \in Names : Follows(k, n) \/ \E e \in Editors : Behind(edit[e], k, n)
    /\ \A e \in Editors : ListOK(edit[e], stored)

EditsTyped ==
    /\ Tables(stored) /\ Tables(onFile) /\ Tables(registry)
    /\ DOMAIN edit = Editors /\ \A e \in Editors : EditOK(edit[e])

EditsInv == EditsTyped /\ (orderly => InOrder)

LEMMA NoEditOK == EditOK(NoEdit) /\ NoEdit.pc = "idle"
  BY DEF EditOK, NoEdit, Tables, Empty

\* A step of one editor: what it becomes, and that nothing else is in flight.
LEMMA OneEdit ==
    ASSUME EditsInv, NEW e \in Editors, NEW x, EditOK(x), edit' = [edit EXCEPT ![e] = x],
           Tables(stored'), Tables(onFile'), Tables(registry'),
           orderly' => /\ \A f \in Editors \ {e} : edit[f].pc = "idle"
                       /\ \A k \in Kinds, n \in Names : Follows(k, n)' \/ Behind(x, k, n)
                       /\ ListOK(x, stored')
    PROVE  EditsInv'
<1>1. DOMAIN edit' = Editors /\ \A f \in Editors : edit'[f] = IF f = e THEN x ELSE edit[f]
  BY DEF EditsInv, EditsTyped
<1>2. \A f \in Editors : EditOK(edit'[f])
  BY <1>1 DEF EditsInv, EditsTyped
<1>3. EditsTyped'
  BY <1>1, <1>2 DEF EditsTyped, Tables, EditOK
<1>4. ASSUME orderly' PROVE InOrder'
  <2>1. ASSUME NEW f \in Editors PROVE ListOK(edit'[f], stored')
    <3>1. CASE f = e
      BY <1>1, <1>4, <3>1 DEF ListOK
    <3>2. CASE f # e
      BY <1>1, <1>4, <3>2 DEF ListOK
    <3> QED
      BY <3>1, <3>2
  <2>2. \A k \in Kinds, n \in Names : Follows(k, n)' \/ \E f \in Editors : Behind(edit'[f], k, n)
    BY <1>1, <1>4
  <2>3. \A f, g \in Editors : edit'[f].pc # "idle" /\ edit'[g].pc # "idle" => f = g
    BY <1>1, <1>4
  <2> QED
    BY <2>1, <2>2, <2>3 DEF InOrder, Behind
<1> QED
  BY <1>3, <1>4 DEF EditsInv

\* While one editor is at work and all is in order, the others are idle.
LEMMA OthersIdle ==
    ASSUME EditsInv, orderly, NEW e \in Editors, edit[e].pc # "idle"
    PROVE  /\ \A f \in Editors \ {e} : edit[f].pc = "idle"
           /\ \A k \in Kinds, n \in Names : Follows(k, n) \/ Behind(edit[e], k, n)
           /\ ListOK(edit[e], stored)
<1>1. InOrder
  BY DEF EditsInv
<1>2. \A f \in Editors \ {e} : edit[f].pc = "idle"
  BY <1>1 DEF InOrder
<1> QED
  BY <1>1, <1>2 DEF InOrder, Behind

\* A request that is accepted when none is in flight finds all in order.
LEMMA AcceptOK ==
    ASSUME EditsInv, NEW e \in Editors, NEW k \in Kinds, NEW n \in Names, NEW d,
           NEW next \in {"save", "drop"}, next = "save" => d # Nothing, Accept(e, k, n, d, next)
    PROVE  EditsInv'
<1> DEFINE x == [NoEdit EXCEPT !.pc = next, !.kind = k, !.name = n, !.def = d]
<1>1. edit' = [edit EXCEPT ![e] = x] /\ stored' = stored /\ onFile' = onFile /\ registry' = registry
      /\ orderly' = (orderly /\ Quiet)
  BY DEF Accept
<1>2. EditOK(x) /\ x.pc = next
  BY DEF EditOK, NoEdit, Tables, Empty
<1> HIDE DEF x
<1>3. ASSUME orderly' PROVE InOrder /\ Quiet
  BY <1>1, <1>3 DEF EditsInv
<1>4. ASSUME orderly'
      PROVE  /\ \A f \in Editors \ {e} : edit[f].pc = "idle"
             /\ \A l \in Kinds, m \in Names : Follows(l, m)' \/ Behind(x, l, m)
             /\ ListOK(x, stored')
  <2>1. \A l \in Kinds, m \in Names : Follows(l, m)
    BY <1>3, <1>4 DEF InOrder, Quiet, Behind
  <2> QED
    BY <1>1, <1>2, <1>3, <1>4, <2>1 DEF Follows, ListOK, Quiet
<1>5. Tables(stored') /\ Tables(onFile') /\ Tables(registry')
  BY <1>1 DEF EditsInv, EditsTyped
<1> QED
  BY <1>1, <1>2, <1>4, <1>5, OneEdit

LEMMA WriteOK ==
    ASSUME EditsInv, NEW e \in Editors, edit[e].pc \in {"save", "drop"}, NEW d,
           NEW next, next = IF edit[e].pc = "save" THEN "list" ELSE "remove",
           d = Nothing <=> next = "remove", Write(e, d, next)
    PROVE  EditsInv'
<1> DEFINE x == edit[e]
           y == [x EXCEPT !.pc = next]
<1>1. EditOK(x) /\ x.pc # "idle" /\ x.kind \in Kinds /\ x.name \in Names
  BY DEF EditsInv, EditsTyped, EditOK
<1>2. stored' = [stored EXCEPT ![x.kind][x.name] = d] /\ registry' = registry
  BY DEF Write
<1>3. Tables(stored) /\ Tables(onFile) /\ Tables(registry)
  BY DEF EditsInv, EditsTyped
<1>4. /\ Tables(stored')
      /\ \A l \in Kinds, m \in Names :
             stored'[l][m] = IF l = x.kind /\ m = x.name THEN d ELSE stored[l][m]
  BY <1>1, <1>2, <1>3 DEF Tables
<1>5. \/ onFile' = stored' /\ edit' = [edit EXCEPT ![e] = y] /\ orderly' = orderly
      \/ orderly' = FALSE /\ edit' = [edit EXCEPT ![e] = NoEdit] /\ onFile' = onFile
  BY DEF Write
<1>6. CASE onFile' = stored' /\ edit' = [edit EXCEPT ![e] = y] /\ orderly' = orderly
  <2>1. EditOK(y) /\ y.pc = next /\ y.kind = x.kind /\ y.name = x.name /\ next \in {"list", "remove"}
    BY <1>1 DEF EditOK
  <2>2. ASSUME orderly'
        PROVE  /\ \A f \in Editors \ {e} : edit[f].pc = "idle"
               /\ \A k \in Kinds, n \in Names : Follows(k, n) \/ Behind(x, k, n)
    BY <1>1, <1>6, <2>2, OthersIdle
  <2> HIDE DEF y
  <2>3. ASSUME orderly', NEW k \in Kinds, NEW n \in Names
        PROVE  Follows(k, n)' \/ Behind(y, k, n)
    <3>1. Follows(k, n)
      BY <2>2, <2>3 DEF Behind
    <3>2. CASE k = x.kind /\ n = x.name
      BY <2>1, <3>2 DEF Behind
    <3>3. CASE ~(k = x.kind /\ n = x.name)
      BY <1>2, <1>4, <3>1, <3>3 DEF Follows
    <3> QED
      BY <3>2, <3>3
  <2>4. ListOK(y, stored')
    BY <1>1, <1>4, <2>1 DEF ListOK
  <2>5. Tables(onFile') /\ Tables(registry')
    BY <1>2, <1>3, <1>4, <1>6
  <2> QED
    BY <1>4, <1>6, <2>1, <2>2, <2>3, <2>4, <2>5, OneEdit
<1>7. CASE orderly' = FALSE /\ edit' = [edit EXCEPT ![e] = NoEdit] /\ onFile' = onFile
  <2>1. Tables(onFile') /\ Tables(registry')
    BY <1>2, <1>3, <1>7
  <2> QED
    BY <1>4, <1>7, <2>1, NoEditOK, OneEdit
<1> QED
  BY <1>5, <1>6, <1>7

\* Deleting what the store does not have, and reading its list, write nothing.
LEMMA ReadOK ==
    ASSUME EditsInv, NEW e \in Editors,
           \/ edit[e].pc = "drop" /\ Drop(e) /\ stored[edit[e].kind][edit[e].name] = Nothing
           \/ edit[e].pc = "list" /\ ListRecords(e)
    PROVE  EditsInv'
<1> DEFINE x == edit[e]
           y == edit'[e]
<1>1. EditOK(x) /\ x.pc # "idle" /\ DOMAIN edit = Editors
      /\ Tables(stored) /\ Tables(onFile) /\ Tables(registry)
  BY DEF EditsInv, EditsTyped
<1>2. stored' = stored /\ onFile' = onFile /\ registry' = registry /\ orderly' = orderly
      /\ edit' = [edit EXCEPT ![e] = y]
  BY <1>1 DEF Drop, ListRecords
<1>3. /\ EditOK(y) /\ y.kind = x.kind /\ y.name = x.name
      /\ \/ x.pc = "drop" /\ y.pc = "remove" /\ stored[x.kind][x.name] = Nothing
         \/ x.pc = "list" /\ y.pc = "set" /\ y.list = stored
  BY <1>1 DEF Drop, ListRecords, EditOK
<1> HIDE DEF y
<1>4. ASSUME orderly'
      PROVE  /\ \A f \in Editors \ {e} : edit[f].pc = "idle"
             /\ \A k \in Kinds, n \in Names : Follows(k, n) \/ Behind(x, k, n)
             /\ ListOK(x, stored)
  BY <1>1, <1>2, <1>4, OthersIdle
<1>5. ASSUME orderly', NEW k \in Kinds, NEW n \in Names
      PROVE  Follows(k, n)' \/ Behind(y, k, n)
  <2>1. Follows(k, n)' = Follows(k, n)
    BY <1>2 DEF Follows
  <2>2. Follows(k, n) \/ Behind(y, k, n)
    BY <1>3, <1>4, <1>5 DEF Behind, ListOK
  <2> QED
    BY <2>1, <2>2
<1>6. ListOK(y, stored')
  BY <1>2, <1>3 DEF ListOK
<1> QED
  BY <1>1, <1>2, <1>3, <1>4, <1>5, <1>6, OneEdit

\* A record of the list is registered, as the store has it.
LEMMA SetRecordOK ==
    ASSUME EditsInv, NEW e \in Editors, edit[e].pc = "set", NEW n \in Names, SetRecord(e, n)
    PROVE  EditsInv'
<1> DEFINE x == edit[e]
           y == IF Listed(e) = {n} THEN NoEdit ELSE [x EXCEPT !.list[x.kind][n] = Nothing]
<1>1. EditOK(x) /\ x.pc # "idle" /\ x.kind \in Kinds /\ Tables(x.list)
      /\ Tables(stored) /\ Tables(onFile) /\ Tables(registry)
  BY DEF EditsInv, EditsTyped, EditOK
<1>2. /\ n \in Listed(e) /\ registry' = [registry EXCEPT ![x.kind][n] = x.list[x.kind][n]]
      /\ edit' = [edit EXCEPT ![e] = y]
      /\ stored' = stored /\ onFile' = onFile /\ orderly' = orderly
  BY DEF SetRecord
<1>3. /\ Tables(registry')
      /\ \A l \in Kinds, m \in Names :
             registry'[l][m] = IF l = x.kind /\ m = n THEN x.list[x.kind][n] ELSE registry[l][m]
  BY <1>1, <1>2 DEF Tables
<1>4. ASSUME orderly'
      PROVE  /\ \A f \in Editors \ {e} : edit[f].pc = "idle"
             /\ \A k \in Kinds, m \in Names : Follows(k, m) \/ Behind(x, k, m)
             /\ ListOK(x, stored)
  BY <1>1, <1>2, <1>4, OthersIdle
<1>5. x.list[x.kind][n] # Nothing
  BY <1>2 DEF Listed
<1>6. ASSUME orderly', NEW k \in Kinds, NEW m \in Names, ~(k = x.kind /\ m # n /\ x.list[k][m] # Nothing)
      PROVE  Follows(k, m)'
  <2>1. CASE k = x.kind /\ m = n
    <3>1. x.list[x.kind][n] = stored[x.kind][n]
      BY <1>4, <1>5, <1>6 DEF ListOK
    <3> QED
      BY <1>2, <1>3, <1>5, <2>1, <3>1 DEF Follows
  <2>2. CASE ~(k = x.kind /\ m = n)
    <3>1. Follows(k, m)
      BY <1>4, <1>6, <2>2 DEF Behind
    <3> QED
      BY <1>2, <1>3, <2>2, <3>1 DEF Follows
  <2> QED
    BY <2>1, <2>2
<1>7. CASE Listed(e) = {n}
  <2>1. y = NoEdit
    BY <1>7
  <2>2. \A m \in Names : x.list[x.kind][m] # Nothing => m = n
    BY <1>7 DEF Listed
  <2>3. ListOK(NoEdit, stored')
    BY NoEditOK DEF ListOK
  <2> HIDE DEF y
  <2>4. edit' = [edit EXCEPT ![e] = NoEdit] /\ (orderly' => \A k \in Kinds, m \in Names : Follows(k, m)')
    BY <1>2, <1>6, <2>1, <2>2
  <2>5. Tables(stored') /\ Tables(onFile')
    BY <1>1, <1>2
  <2> QED
    BY <1>3, <1>4, <2>3, <2>4, <2>5, NoEditOK, OneEdit
<1>8. CASE Listed(e) # {n}
  <2> DEFINE l == [x.list EXCEPT ![x.kind][n] = Nothing]
  <2>1. y = [x EXCEPT !.list = l]
    BY <1>8
  <2>2. /\ Tables(l)
        /\ \A k \in Kinds, m \in Names : l[k][m] = IF k = x.kind /\ m = n THEN Nothing ELSE x.list[k][m]
    BY <1>1 DEF Tables
  <2> HIDE DEF l, y
  <2>3. EditOK(y) /\ y.list = l /\ y.pc = "set" /\ y.kind = x.kind
    BY <1>1, <2>1, <2>2 DEF EditOK
  <2>4. ASSUME orderly', NEW k \in Kinds, NEW m \in Names
        PROVE  Follows(k, m)' \/ Behind(y, k, m)
    BY <1>6, <2>2, <2>3, <2>4 DEF Behind
  <2>5. ASSUME orderly' PROVE ListOK(y, stored')
    BY <1>1, <1>2, <1>4, <2>2, <2>3, <2>5 DEF ListOK
  <2>6. Tables(stored') /\ Tables(onFile')
    BY <1>1, <1>2
  <2> QED
    BY <1>2, <1>3, <1>4, <2>3, <2>4, <2>5, <2>6, OneEdit
<1> QED
  BY <1>7, <1>8

\* The edit is done: its list was empty, or the name is unregistered.
LEMMA FinishOK ==
    ASSUME EditsInv, NEW e \in Editors,
           \/ SetNone(e)
           \/ edit[e].pc = "remove" /\ Unregister(e)
    PROVE  EditsInv'
<1> DEFINE x == edit[e]
<1>1. EditOK(x) /\ x.pc # "idle" /\ x.kind \in Kinds /\ x.name \in Names
      /\ Tables(stored) /\ Tables(onFile) /\ Tables(registry)
  BY DEF EditsInv, EditsTyped, EditOK, SetNone
<1>2. edit' = [edit EXCEPT ![e] = NoEdit] /\ stored' = stored /\ onFile' = onFile /\ orderly' = orderly
  BY DEF SetNone, Unregister
<1>3. ASSUME orderly'
      PROVE  /\ \A f \in Editors \ {e} : edit[f].pc = "idle"
             /\ \A k \in Kinds, n \in Names : Follows(k, n) \/ Behind(x, k, n)
             /\ ListOK(x, stored)
  BY <1>1, <1>2, <1>3, OthersIdle
<1>4. Tables(registry') /\ (orderly' => \A k \in Kinds, n \in Names : Follows(k, n)')
  <2>1. CASE SetNone(e)
    <3>1. registry' = registry /\ x.pc = "set" /\ \A n \in Names : x.list[x.kind][n] = Nothing
      BY <2>1 DEF SetNone, Listed
    <3> QED
      BY <1>1, <1>2, <1>3, <3>1 DEF Follows, Behind
  <2>2. CASE x.pc = "remove" /\ Unregister(e)
    <3>1. registry' = [registry EXCEPT ![x.kind][x.name] = Nothing]
      BY <2>2 DEF Unregister
    <3>2. /\ Tables(registry')
          /\ \A k \in Kinds, n \in Names :
                 registry'[k][n] = IF k = x.kind /\ n = x.name THEN Nothing ELSE registry[k][n]
      BY <1>1, <3>1 DEF Tables
    <3>3. ASSUME orderly', NEW k \in Kinds, NEW n \in Names PROVE Follows(k, n)'
      <4>1. CASE k = x.kind /\ n = x.name
        BY <1>2, <1>3, <2>2, <3>2, <3>3, <4>1 DEF Follows, ListOK
      <4>2. CASE ~(k = x.kind /\ n = x.name)
        BY <1>2, <1>3, <2>2, <3>2, <3>3, <4>2 DEF Follows, Behind
      <4> QED
        BY <4>1, <4>2
    <3> QED
      BY <3>2, <3>3
  <2> QED
    BY <2>1, <2>2
<1>5. ListOK(NoEdit, stored')
  BY NoEditOK DEF ListOK
<1>6. Tables(stored') /\ Tables(onFile')
  BY <1>1, <1>2
<1> QED
  BY <1>2, <1>3, <1>4, <1>5, <1>6, NoEditOK, OneEdit

LEMMA FlowsRestartOK == ASSUME EditsInv, Restart PROVE EditsInv'
<1>1. stored' = onFile /\ onFile' = onFile /\ registry' = Overlay(onFile)
      /\ edit' = [e \in Editors |-> NoEdit]
  BY DEF Restart
<1>2. Tables(onFile) /\ Tables(Overlay(onFile))
  BY DEF EditsInv, EditsTyped, Overlay, Tables
<1>3. \A k \in Kinds, n \in Names : Follows(k, n)'
  BY <1>1, <1>2 DEF Follows, Overlay
<1>4. DOMAIN edit' = Editors /\ \A e \in Editors : edit'[e] = NoEdit
  BY <1>1
<1>5. \A e \in Editors : EditOK(edit'[e]) /\ edit'[e].pc = "idle"
  BY <1>4, NoEditOK
<1>6. EditsTyped'
  BY <1>1, <1>2, <1>4, <1>5 DEF EditsTyped
<1>7. InOrder'
  BY <1>3, <1>5 DEF InOrder, ListOK
<1> QED
  BY <1>6, <1>7 DEF EditsInv

LEMMA EditingOK == ASSUME EditsInv, NEW e \in Editors, Editing(e) PROVE EditsInv'
<1>1. ASSUME NEW n \in Written, NEW m \in Models, SubmitAgent(e, n, m) PROVE EditsInv'
  BY <1>1, AcceptOK, FlowsAssumption DEF SubmitAgent, Kinds
<1>2. ASSUME NEW n \in Written, NEW c \in Chains, SubmitFlow(e, n, c) PROVE EditsInv'
  BY <1>2, AcceptOK, FlowsAssumption DEF SubmitFlow, Kinds
<1>3. ASSUME NEW n \in Written, AskDeleteAgent(e, n) \/ AskDeleteFlow(e, n) PROVE EditsInv'
  BY <1>3, AcceptOK, FlowsAssumption DEF AskDeleteAgent, AskDeleteFlow, Kinds
<1>4. CASE SaveAgent(e) \/ SaveFlow(e)
  <2>1. edit[e].pc = "save" /\ Write(e, edit[e].def, "list")
    BY <1>4 DEF SaveAgent, SaveFlow, At
  <2>2. edit[e].def # Nothing
    BY <2>1 DEF EditsInv, EditsTyped, EditOK
  <2> QED
    BY <2>1, <2>2, WriteOK
<1>5. CASE DeleteAgent(e) \/ DeleteFlow(e)
  <2>1. edit[e].pc = "drop" /\ Drop(e)
    BY <1>5 DEF DeleteAgent, DeleteFlow, At
  <2>2. CASE stored[edit[e].kind][edit[e].name] # Nothing
    <3>1. Write(e, Nothing, "remove")
      BY <2>1, <2>2 DEF Drop
    <3> QED
      BY <2>1, <3>1, WriteOK
  <2>3. CASE stored[edit[e].kind][edit[e].name] = Nothing
    BY <2>1, <2>3, ReadOK
  <2> QED
    BY <2>2, <2>3
<1>6. CASE LoadManagedAgents(e) \/ LoadManagedFlows(e)
  BY <1>6, ReadOK DEF LoadManagedAgents, LoadManagedFlows, At
<1>7. ASSUME NEW n \in Names, SetAgent(e, n) \/ SetFlow(e, n) PROVE EditsInv'
  BY <1>7, SetRecordOK DEF SetAgent, SetFlow, At
<1>8. CASE SetNone(e)
  BY <1>8, FinishOK
<1>9. CASE RemoveAgent(e) \/ RemoveFlow(e)
  <2>1. edit[e].pc = "remove" /\ Unregister(e)
    BY <1>9 DEF RemoveAgent, RemoveFlow, At
  <2> QED
    BY <2>1, FinishOK
<1> QED
  BY <1>1, <1>2, <1>3, <1>4, <1>5, <1>6, <1>7, <1>8, <1>9 DEF Editing

\* While edits come one at a time and reach the disk, the registries lag behind
\* the store only where the edit in flight still has to register.
THEOREM EditsAreInOrder == FlowsSpec => []EditsInv
<1>1. FlowsInit => EditsInv
  <2> SUFFICES ASSUME FlowsInit PROVE EditsInv
    OBVIOUS
  <2>1. stored = Empty /\ onFile = Empty /\ registry = Overlay(Empty) /\ edit = [e \in Editors |-> NoEdit]
    BY DEF FlowsInit
  <2>2. Tables(Empty) /\ Tables(Overlay(Empty))
    BY DEF Tables, Empty, Overlay
  <2>3. \A k \in Kinds, n \in Names : Follows(k, n)
    BY <2>1 DEF Follows, Overlay, Empty
  <2>4. DOMAIN edit = Editors /\ \A e \in Editors : EditOK(edit[e]) /\ edit[e].pc = "idle"
    BY <2>1, NoEditOK
  <2> QED
    BY <2>1, <2>2, <2>3, <2>4 DEF EditsInv, EditsTyped, InOrder, ListOK
<1>2. EditsInv /\ [FlowsNext]_flowsVars => EditsInv'
  <2> SUFFICES ASSUME EditsInv, [FlowsNext]_flowsVars PROVE EditsInv'
    OBVIOUS
  <2>1. CASE UNCHANGED editVars
    BY <2>1 DEF editVars, EditsInv, EditsTyped, InOrder, Follows, Tables
  <2>2. ASSUME NEW r \in Runs, Working(r) PROVE UNCHANGED editVars
    BY <2>2 DEF Working, Enter, Ask, Unanswered, SkipStep, FlowFails, FlowReturns, Answered
  <2>3. ASSUME NEW r \in Runs, NEW f \in Called, CallFlow(r, f) \/ TestFlow(r, f) PROVE UNCHANGED editVars
    BY <2>3 DEF CallFlow, TestFlow, Begin
  <2>4. CASE UNCHANGED flowsVars
    BY <2>1, <2>4 DEF flowsVars, editVars
  <2> QED
    BY <2>1, <2>2, <2>3, <2>4, EditingOK, FlowsRestartOK DEF FlowsNext
<1> QED
  BY <1>1, <1>2, PTL DEF FlowsSpec

\* When every edit is answered, requests find what the console saved and no
\* longer find what it deleted (loadManagedAgents, saveFlow, deleteFlow).
THEOREM SavedIsFound == FlowsSpec => []RegistryFollowsStore
<1>1. EditsInv => RegistryFollowsStore
  <2> SUFFICES ASSUME EditsInv, orderly, Quiet, NEW k \in Kinds, NEW n \in Names PROVE Follows(k, n)
    BY DEF RegistryFollowsStore, Follows
  <2> QED
    BY DEF EditsInv, InOrder, Quiet, Behind
<1> QED
  BY <1>1, EditsAreInOrder, PTL

-----------------------------------------------------------------------------
(***************************************************************************)
(* The books agree, for any clients, projects, prices and plan: BooksAgree.*)
(* The figures are inductive as they stand, a call moving its amount from  *)
(* what is in hand to the book it is written to; that what a call is       *)
(* entered for is what it comes to is arithmetic (EntriesAreDue).          *)
(***************************************************************************)

Fields == DOMAIN Zero
Sheet == [Fields -> Int]

CallOK(x) ==
    /\ DOMAIN x = {"pc", "project", "work"}
    /\ x.pc \in {"away", "running", "track", "store", "log"}
    /\ x.pc # "away" => x.project \in ProjectNames
    /\ x.pc \in {"track", "store", "log"} => x.work \in Outcomes

BooksTyped ==
    /\ DOMAIN call = Clients /\ \A c \in Clients : CallOK(call[c])
    /\ {tracker, counters, due, base} \subseteq [ProjectNames -> Sheet]
    /\ saved \in [ProjectNames -> Sheet]

Held(p, pcs, f) == SumFunction([c \in Clients |-> InHand(call[c], p, pcs, f)])

Agree(p, f) ==
    /\ due[p][f] = tracker[p][f] + Held(p, {"track"}, f)
    /\ tracker[p][f] = (counters[p][f] - base[p][f]) + Held(p, {"store"}, f)

BooksInv == BooksTyped /\ \A p \in ProjectNames, f \in Fields : Agree(p, f)

LEMMA PriceType == ASSUME NEW w \in Outcomes PROVE ListCost(w) \in Nat /\ (w.tokens = 0 => ListCost(w) = 0)
<1> DEFINE price == Lookup(w.prov, w.model)
<1>1. price \in Nat \/ price = NoPrice
  BY BooksAssumption DEF Lookup
<1>2. w.tokens \in Nat
  BY BooksAssumption
<1>3. ListCost(w) = IF price # NoPrice THEN price * w.tokens ELSE 0
  BY DEF ListCost, Priced
<1> HIDE DEF price
<1>4. CASE price \in Nat
  <2>1. price * w.tokens \in Nat /\ (w.tokens = 0 => price * w.tokens = 0)
    BY <1>2, <1>4
  <2> QED
    BY <1>3, <2>1
<1>5. CASE price = NoPrice
  BY <1>3, <1>5
<1> QED
  BY <1>1, <1>4, <1>5

\* What is entered for a call is what it comes to, in every figure.
LEMMA EntriesAreDue ==
    ASSUME NEW w \in Outcomes
    PROVE  /\ Entries[w] \in Sheet /\ Dues[w] \in Sheet
           /\ w.end = "served" \/ w.tokens # 0 => Entries[w] = Dues[w]
           /\ w.end # "served" /\ w.tokens = 0 => \A f \in Fields : Dues[w][f] = 0
<1> DEFINE cost == ListCost(w)
           rate == Markup * cost
           un == IF Priced(w) \/ w.marked THEN 0 ELSE 1
           served == w.end = "served" \/ (w.end = "hungup" /\ w.tokens > 0)
<1>1. cost \in Nat /\ rate \in Nat /\ w.tokens \in Nat /\ un \in {0, 1} /\ w.marked \in BOOLEAN
      /\ (w.tokens = 0 => cost = 0)
  BY PriceType, BooksAssumption
<1>2. Fields = {"requests", "tokens", "charged", "paid", "unpriced", "failed"}
  BY DEF Fields, Zero
<1> DEFINE e == Entries[w]
           bill == IF w.marked THEN 0 ELSE rate
           own == IF w.marked THEN 0 ELSE cost
           m == [requests |-> 1, tokens |-> w.tokens, charged |-> bill, paid |-> own,
                 unpriced |-> un, failed |-> 0]
           n == [m EXCEPT !.requests = 0, !.charged = 0, !.failed = 1]
<1>3. /\ e.requests = (IF served THEN 1 ELSE 0) /\ e.tokens = w.tokens
      /\ e.charged = (IF served THEN bill ELSE 0) /\ e.paid = own /\ e.unpriced = un
      /\ e.failed = (IF served THEN 0 ELSE 1)
      /\ DOMAIN e = Fields /\ e = [f \in Fields |-> e[f]]
  <2> DEFINE used == w.tokens
  <2>1. Metered(w) = m
    BY DEF Metered, Charge, Paid, Unpriced
  <2>2. e = IF served THEN m ELSE n
    <3>1. MeteredAsFailed(w) = n
      BY <2>1 DEF MeteredAsFailed
    <3> HIDE DEF m, n
    <3> QED
      BY <2>1, <3>1 DEF Entries, EntryOf, MeteredAsBroken
  <2> HIDE DEF cost, rate, un, bill, own, used, served, e
  <2>3. /\ m.requests = 1 /\ m.tokens = used /\ m.charged = bill /\ m.paid = own /\ m.unpriced = un
        /\ m.failed = 0 /\ DOMAIN m = Fields /\ m = [f \in Fields |-> m[f]]
    BY <1>2 DEF used
  <2>4. /\ n.requests = 0 /\ n.tokens = used /\ n.charged = 0 /\ n.paid = own /\ n.unpriced = un
        /\ n.failed = 1 /\ DOMAIN n = Fields /\ n = [f \in Fields |-> n[f]]
    BY <1>2, <2>3
  <2> HIDE DEF m, n
  <2> QED
    BY <2>2, <2>3, <2>4 DEF used
<1> HIDE DEF m, n
<1>4. /\ Dues[w].requests = IF served THEN 1 ELSE 0
      /\ Dues[w].tokens = w.tokens
      /\ Dues[w].charged = (IF served /\ ~w.marked THEN 1 ELSE 0) * Markup * cost
      /\ Dues[w].paid = (IF ~w.marked THEN 1 ELSE 0) * cost
      /\ Dues[w].unpriced = IF (w.end = "served" \/ w.tokens > 0) /\ ~w.marked /\ ~Priced(w) THEN 1 ELSE 0
      /\ Dues[w].failed = IF (w.end = "served" \/ w.tokens > 0) /\ ~served THEN 1 ELSE 0
      /\ DOMAIN Dues[w] = Fields /\ Dues[w] = [f \in Fields |-> Dues[w][f]]
  BY <1>2 DEF Dues, ComesTo, Priced
<1>5. Dues[w].charged = (IF served /\ ~w.marked THEN rate ELSE 0) /\ Dues[w].paid = IF ~w.marked THEN cost ELSE 0
  <2>1. 1 * Markup * cost = rate /\ 0 * Markup * cost = 0 /\ 1 * cost = cost /\ 0 * cost = 0
    <3>1. Markup \in Nat
      BY BooksAssumption
    <3> HIDE DEF cost
    <3> QED
      BY <1>1, <3>1
  <2> HIDE DEF cost, rate, served
  <2> QED
    BY <1>4, <2>1
<1>6. un = IF ~w.marked /\ ~Priced(w) THEN 1 ELSE 0
  BY <1>1
<1> DEFINE d == Dues[w]
<1> HIDE DEF cost, rate, un, d, e
<1>7. d \in Sheet
  <2>1. \A f \in Fields : d[f] \in Int
    BY <1>1, <1>2, <1>4, <1>5 DEF d
  <2> QED
    BY <1>4, <2>1 DEF d, Sheet
<1>8. e \in Sheet /\ e = [f \in Fields |-> e[f]]
  <2>1. \A f \in Fields : e[f] \in Int
    BY <1>1, <1>2, <1>3
  <2> QED
    BY <1>3, <2>1 DEF Sheet
<1>9. ASSUME w.end = "served" \/ w.tokens # 0 PROVE \A f \in Fields : e[f] = d[f]
  BY <1>1, <1>2, <1>3, <1>4, <1>5, <1>6, <1>9 DEF d
<1>10. ASSUME w.end # "served", w.tokens = 0 PROVE \A f \in Fields : d[f] = 0
  BY <1>1, <1>2, <1>4, <1>5, <1>10 DEF d, rate
<1> HIDE DEF served
<1>11. (w.end = "served" \/ w.tokens # 0) => e = d
  BY <1>4, <1>8, <1>9 DEF d
<1> QED
  BY <1>7, <1>8, <1>10, <1>11 DEF d, e


\* What is in hand changes by what the client that stepped has.
LEMMA HeldMoves ==
    ASSUME BooksTyped, NEW c \in Clients, NEW x, CallOK(x), call' = [call EXCEPT ![c] = x],
           NEW p \in ProjectNames, NEW pcs \in {{"track"}, {"store"}}, NEW f \in Fields
    PROVE  /\ Held(p, pcs, f)' = Held(p, pcs, f) - InHand(call[c], p, pcs, f) + InHand(x, p, pcs, f)
           /\ Held(p, pcs, f) \in Int
           /\ InHand(call[c], p, pcs, f) \in Int /\ InHand(x, p, pcs, f) \in Int
<1> DEFINE a == [d \in Clients |-> InHand(call[d], p, pcs, f)]
           b == [d \in Clients |-> InHand(call'[d], p, pcs, f)]
<1>1. IsFiniteSet(Clients)
  BY BooksAssumption
<1>2. ASSUME NEW y, CallOK(y) PROVE InHand(y, p, pcs, f) \in Int
  <2>1. CASE y.pc \in pcs
    <3>1. y.work \in Outcomes
      BY <1>2, <2>1 DEF CallOK
    <3>2. Entries[y.work][f] \in Int
      BY <3>1, EntriesAreDue DEF Sheet
    <3> QED
      BY <3>2 DEF InHand
  <2>2. CASE y.pc \notin pcs
    BY <2>2 DEF InHand
  <2> QED
    BY <2>1, <2>2
<1>3. \A d \in Clients : call'[d] = IF d = c THEN x ELSE call[d]
  BY DEF BooksTyped
<1>4. \A d \in Clients : a[d] \in Int /\ b[d] \in Int
  BY <1>2, <1>3 DEF BooksTyped
<1>5. \A d \in Clients \ {c} : b[d] = a[d]
  BY <1>3
<1>6. a[c] = InHand(call[c], p, pcs, f) /\ b[c] = InHand(x, p, pcs, f)
  BY <1>3
<1>7. DOMAIN a = Clients /\ DOMAIN b = Clients
  OBVIOUS
<1>8. Held(p, pcs, f) = SumFunction(a) /\ Held(p, pcs, f)' = SumFunction(b)
  BY DEF Held, InHand
<1> HIDE DEF a, b
<1>9. SumFunctionOnSet(b, Clients) = SumFunctionOnSet(a, Clients) - a[c] + b[c]
      /\ SumFunctionOnSet(a, Clients) \in Int
  BY <1>1, <1>4, <1>5, SumChange, SumType
<1>10. SumFunction(a) = SumFunctionOnSet(a, Clients) /\ SumFunction(b) = SumFunctionOnSet(b, Clients)
  BY <1>7 DEF SumFunction, FoldFunction, SumFunctionOnSet
<1> QED
  BY <1>4, <1>6, <1>8, <1>9, <1>10

LEMMA PlusIs ==
    ASSUME NEW a \in Sheet, NEW b \in Sheet
    PROVE  Plus(a, b) \in Sheet /\ \A f \in Fields : Plus(a, b)[f] = a[f] + b[f]
  BY DEF Plus, Sheet, Fields

\* An amount is written to one project's figures, or to none.
LEMMA SheetSet ==
    ASSUME NEW t \in [ProjectNames -> Sheet], NEW p \in ProjectNames, NEW e \in Sheet
    PROVE  LET u == [t EXCEPT ![p] = Plus(@, e)]
           IN  /\ u \in [ProjectNames -> Sheet]
               /\ \A q \in ProjectNames, f \in Fields : u[q][f] = t[q][f] + (IF q = p THEN e[f] ELSE 0)
<1> DEFINE u == [t EXCEPT ![p] = Plus(@, e)]
<1>1. Plus(t[p], e) \in Sheet /\ \A f \in Fields : Plus(t[p], e)[f] = t[p][f] + e[f]
  BY PlusIs
<1>2. u \in [ProjectNames -> Sheet] /\ u[p] = Plus(t[p], e) /\ \A q \in ProjectNames \ {p} : u[q] = t[q]
  BY <1>1
<1>3. ASSUME NEW q \in ProjectNames, NEW f \in Fields
      PROVE  u[q][f] = t[q][f] + (IF q = p THEN e[f] ELSE 0)
  <2>1. t[q][f] \in Int
    BY DEF Sheet
  <2> QED
    BY <1>1, <1>2, <2>1
<1> QED
  BY <1>2, <1>3

\* Two figures that differ by what is held still do after a step moves them.
LEMMA StillDiffer ==
    ASSUME NEW a \in Int, NEW b \in Int, NEW h \in Int, NEW a1 \in Int, NEW b1 \in Int,
           NEW out \in Int, NEW in \in Int, a = b + h, a1 - a = (b1 - b) + (in - out)
    PROVE  a1 = b1 + (h - out + in)
  OBVIOUS

\* A step of one client moves what it has in hand to a book, or from the bill.
LEMMA OneCall ==
    ASSUME BooksInv, NEW c \in Clients, NEW x, CallOK(x), call' = [call EXCEPT ![c] = x],
           {tracker', counters', due', base'} \subseteq [ProjectNames -> Sheet], saved' = saved,
           \A p \in ProjectNames, f \in Fields :
               /\ due'[p][f] - due[p][f] =
                      (tracker'[p][f] - tracker[p][f])
                      + (InHand(x, p, {"track"}, f) - InHand(call[c], p, {"track"}, f))
               /\ tracker'[p][f] - tracker[p][f] =
                      (counters'[p][f] - counters[p][f]) - (base'[p][f] - base[p][f])
                      + (InHand(x, p, {"store"}, f) - InHand(call[c], p, {"store"}, f))
    PROVE  BooksInv'
<1>1. BooksTyped'
  <2>1. DOMAIN call' = Clients /\ \A d \in Clients : CallOK(call'[d])
    BY DEF BooksInv, BooksTyped
  <2>2. saved' \in [ProjectNames -> Sheet]
    BY DEF BooksInv, BooksTyped
  <2> QED
    BY <2>1, <2>2 DEF BooksTyped, CallOK, Sheet, Fields
<1>2. ASSUME NEW p \in ProjectNames, NEW f \in Fields PROVE Agree(p, f)'
  <2> DEFINE ot == InHand(call[c], p, {"track"}, f)
             os == InHand(call[c], p, {"store"}, f)
             xt == InHand(x, p, {"track"}, f)
             xs == InHand(x, p, {"store"}, f)
             ht == Held(p, {"track"}, f)
             hs == Held(p, {"store"}, f)
  <2>1. BooksTyped /\ Agree(p, f)
    BY DEF BooksInv
  <2>2. Held(p, {"track"}, f)' = ht - ot + xt /\ ht \in Int /\ ot \in Int /\ xt \in Int
    BY <2>1, HeldMoves
  <2>3. Held(p, {"store"}, f)' = hs - os + xs /\ hs \in Int /\ os \in Int /\ xs \in Int
    BY <2>1, HeldMoves
  <2>4. due[p][f] \in Int /\ tracker[p][f] \in Int /\ counters[p][f] \in Int /\ base[p][f] \in Int
        /\ due'[p][f] \in Int /\ tracker'[p][f] \in Int /\ counters'[p][f] \in Int /\ base'[p][f] \in Int
    BY <2>1 DEF BooksTyped, Sheet
  <2>5. /\ due'[p][f] - due[p][f] = (tracker'[p][f] - tracker[p][f]) + (xt - ot)
        /\ tracker'[p][f] - tracker[p][f] =
               (counters'[p][f] - counters[p][f]) - (base'[p][f] - base[p][f]) + (xs - os)
    OBVIOUS
  <2>6. due[p][f] = tracker[p][f] + ht /\ tracker[p][f] = (counters[p][f] - base[p][f]) + hs
    BY <2>1 DEF Agree
  <2> HIDE DEF ot, os, xt, xs, ht, hs
  <2> DEFINE d0 == due[p][f]
             t0 == tracker[p][f]
             c0 == counters[p][f]
             b0 == base[p][f]
             d1 == due'[p][f]
             t1 == tracker'[p][f]
             c1 == counters'[p][f]
             b1 == base'[p][f]
  <2>7. /\ d0 \in Int /\ t0 \in Int /\ c0 \in Int /\ b0 \in Int
        /\ d1 \in Int /\ t1 \in Int /\ c1 \in Int /\ b1 \in Int
    BY <2>4
  <2>8. t0 = (c0 - b0) + hs /\ t1 - t0 = (c1 - c0) - (b1 - b0) + (xs - os)
    BY <2>5, <2>6
  <2>9. d0 = t0 + ht /\ d1 - d0 = (t1 - t0) + (xt - ot)
    BY <2>5, <2>6
  <2> HIDE DEF d0, t0, c0, b0, d1, t1, c1, b1
  <2>10. d1 = t1 + (ht - ot + xt)
    BY <2>2, <2>7, <2>9, StillDiffer
  <2>11. t1 = (c1 - b1) + (hs - os + xs)
    <3>1. hs \in Int /\ os \in Int /\ xs \in Int
      BY <2>3
    <3> QED
      BY <2>7, <2>8, <3>1
  <2> QED
    BY <2>2, <2>3, <2>10, <2>11 DEF Agree, d1, t1, c1, b1
<1> QED
  BY <1>1, <1>2 DEF BooksInv, Fields

LEMMA StartsOK == ASSUME BooksInv, NEW c \in Clients, NEW p \in ProjectNames, Starts(c, p) PROVE BooksInv'
<1> DEFINE q == call[c]
           x == [Away EXCEPT !.pc = "running", !.project = p]
<1>1. call' = [call EXCEPT ![c] = x] /\ tracker' = tracker /\ counters' = counters /\ due' = due
      /\ base' = base /\ saved' = saved /\ q.pc = "away"
  BY DEF Starts
<1>2. CallOK(x) /\ x.pc = "running"
  BY DEF CallOK, Away
<1> HIDE DEF x
<1>3. \A r \in ProjectNames, f \in Fields, pcs \in {{"track"}, {"store"}} :
          InHand(q, r, pcs, f) = 0 /\ InHand(x, r, pcs, f) = 0
  BY <1>1, <1>2 DEF InHand
<1>4. {tracker', counters', due', base'} \subseteq [ProjectNames -> Sheet]
  BY <1>1 DEF BooksInv, BooksTyped
<1>5. ASSUME NEW r \in ProjectNames, NEW f \in Fields
      PROVE  due[r][f] \in Int /\ tracker[r][f] \in Int /\ counters[r][f] \in Int /\ base[r][f] \in Int
  BY DEF BooksInv, BooksTyped, Sheet
<1>6. ASSUME NEW r \in ProjectNames, NEW f \in Fields
      PROVE  /\ due'[r][f] - due[r][f] =
                    (tracker'[r][f] - tracker[r][f])
                    + (InHand(x, r, {"track"}, f) - InHand(q, r, {"track"}, f))
             /\ tracker'[r][f] - tracker[r][f] =
                    (counters'[r][f] - counters[r][f]) - (base'[r][f] - base[r][f])
                    + (InHand(x, r, {"store"}, f) - InHand(q, r, {"store"}, f))
  <2>1. /\ InHand(x, r, {"track"}, f) = 0 /\ InHand(q, r, {"track"}, f) = 0
        /\ InHand(x, r, {"store"}, f) = 0 /\ InHand(q, r, {"store"}, f) = 0
    BY <1>3
  <2> HIDE DEF q
  <2> QED
    BY <1>1, <1>5, <2>1
<1> QED
  BY <1>1, <1>2, <1>4, <1>6, OneCall

LEMMA EndOK == ASSUME BooksInv, NEW c \in Clients, NEW w \in Outcomes, End(c, w) PROVE BooksInv'
<1> DEFINE q == call[c]
           x == IF w.end # "served" /\ w.tokens = 0 THEN Away ELSE [q EXCEPT !.pc = "track", !.work = w]
           p == q.project
<1>0. CallOK(q) /\ BooksTyped
  BY DEF BooksInv, BooksTyped
<1>1. /\ call' = [call EXCEPT ![c] = x] /\ tracker' = tracker /\ counters' = counters /\ base' = base
      /\ saved' = saved /\ q.pc = "running" /\ due' = [due EXCEPT ![p] = Plus(@, Dues[w])]
  BY DEF End
<1>2. p \in ProjectNames /\ CallOK(x) /\ x.pc \in {"away", "track"}
      /\ (x.pc = "away" <=> w.end # "served" /\ w.tokens = 0)
      /\ (x.pc = "track" => x.work = w /\ x.project = p)
  BY <1>0, <1>1 DEF CallOK, Away
<1> HIDE DEF x
<1>3. /\ due' \in [ProjectNames -> Sheet]
      /\ \A r \in ProjectNames, f \in Fields : due'[r][f] = due[r][f] + (IF r = p THEN Dues[w][f] ELSE 0)
  <2>1. due \in [ProjectNames -> Sheet] /\ Dues[w] \in Sheet
    BY <1>0, EntriesAreDue DEF BooksTyped
  <2> DEFINE e == Dues[w]
  <2>2. due' = [due EXCEPT ![p] = Plus(@, e)] /\ p \in ProjectNames /\ e \in Sheet
    BY <1>1, <1>2, <2>1
  <2> HIDE DEF p, e
  <2>3. /\ due' \in [ProjectNames -> Sheet]
        /\ \A r \in ProjectNames, f \in Fields : due'[r][f] = due[r][f] + (IF r = p THEN e[f] ELSE 0)
    BY <2>1, <2>2, SheetSet
  <2> QED
    BY <2>3 DEF e
<1>4. ASSUME NEW r \in ProjectNames, NEW f \in Fields
      PROVE  /\ InHand(q, r, {"track"}, f) = 0 /\ InHand(q, r, {"store"}, f) = 0
             /\ InHand(x, r, {"store"}, f) = 0
             /\ InHand(x, r, {"track"}, f) = IF r = p THEN Dues[w][f] ELSE 0
             /\ Dues[w][f] \in Int
  <2>1. Dues[w][f] \in Int
    BY EntriesAreDue DEF Sheet
  <2>2. CASE x.pc = "away"
    BY <1>1, <1>2, <2>1, <2>2, EntriesAreDue DEF InHand
  <2>3. CASE x.pc = "track"
    <3>1. Entries[w] = Dues[w]
      BY <1>2, <2>3, EntriesAreDue
    <3> QED
      BY <1>1, <1>2, <2>1, <2>3, <3>1 DEF InHand
  <2> QED
    BY <1>2, <2>2, <2>3
<1>5. {tracker', counters', due', base'} \subseteq [ProjectNames -> Sheet]
  BY <1>0, <1>1, <1>3 DEF BooksTyped
<1>6. ASSUME NEW r \in ProjectNames, NEW f \in Fields
      PROVE  due[r][f] \in Int /\ tracker[r][f] \in Int /\ counters[r][f] \in Int /\ base[r][f] \in Int
  BY <1>0 DEF BooksTyped, Sheet
<1>7. ASSUME NEW r \in ProjectNames, NEW f \in Fields
      PROVE  /\ due'[r][f] - due[r][f] =
                    (tracker'[r][f] - tracker[r][f])
                    + (InHand(x, r, {"track"}, f) - InHand(q, r, {"track"}, f))
             /\ tracker'[r][f] - tracker[r][f] =
                    (counters'[r][f] - counters[r][f]) - (base'[r][f] - base[r][f])
                    + (InHand(x, r, {"store"}, f) - InHand(q, r, {"store"}, f))
  <2> HIDE DEF p
  <2> QED
    BY <1>1, <1>3, <1>4, <1>6
<1> QED
  BY <1>1, <1>2, <1>5, <1>7, OneCall

\* What is in hand is written to the tracker, then to the counters.
LEMMA WritingOK ==
    ASSUME BooksInv, NEW c \in Clients, Track(c) \/ RecordUsage(c) \/ NoteRequest(c)
    PROVE  BooksInv'
<1> DEFINE q == call[c]
           x == IF q.pc = "log" THEN Away ELSE [q EXCEPT !.pc = IF @ = "track" THEN "store" ELSE "log"]
           p == q.project
           e == Entries[q.work]
<1>0. CallOK(q) /\ BooksTyped
  BY DEF BooksInv, BooksTyped
<1>1. /\ call' = [call EXCEPT ![c] = x] /\ due' = due /\ base' = base /\ saved' = saved
      /\ q.pc \in {"track", "store", "log"}
      /\ tracker' = IF q.pc = "track" THEN [tracker EXCEPT ![p] = Plus(@, e)] ELSE tracker
      /\ counters' = IF q.pc = "store" THEN [counters EXCEPT ![p] = Plus(@, e)] ELSE counters
  BY DEF Track, RecordUsage, NoteRequest
<1>2. /\ p \in ProjectNames /\ q.work \in Outcomes /\ CallOK(x)
      /\ x.pc = (CASE q.pc = "track" -> "store" [] q.pc = "store" -> "log" [] q.pc = "log" -> "away")
      /\ (q.pc # "log" => x.work = q.work /\ x.project = p)
  BY <1>0, <1>1 DEF CallOK, Away
<1>3. e \in Sheet /\ \A f \in Fields : e[f] \in Int
  BY <1>2, EntriesAreDue DEF Sheet
<1> HIDE DEF x
<1>4. ASSUME NEW r \in ProjectNames, NEW f \in Fields
      PROVE  /\ InHand(q, r, {"track"}, f) = IF q.pc = "track" /\ r = p THEN e[f] ELSE 0
             /\ InHand(q, r, {"store"}, f) = IF q.pc = "store" /\ r = p THEN e[f] ELSE 0
             /\ InHand(x, r, {"track"}, f) = 0
             /\ InHand(x, r, {"store"}, f) = IF q.pc = "track" /\ r = p THEN e[f] ELSE 0
  BY <1>1, <1>2 DEF InHand
<1>5. /\ tracker \in [ProjectNames -> Sheet] /\ counters \in [ProjectNames -> Sheet]
      /\ due \in [ProjectNames -> Sheet] /\ base \in [ProjectNames -> Sheet]
      /\ \A r \in ProjectNames, f \in Fields :
             tracker[r][f] \in Int /\ counters[r][f] \in Int /\ due[r][f] \in Int /\ base[r][f] \in Int
  BY <1>0 DEF BooksTyped, Sheet
<1> HIDE DEF p, e, q
<1>6. /\ tracker' \in [ProjectNames -> Sheet]
      /\ \A r \in ProjectNames, f \in Fields :
             tracker'[r][f] = tracker[r][f] + (IF q.pc = "track" /\ r = p THEN e[f] ELSE 0)
  <2>1. CASE q.pc = "track"
    <3>1. /\ tracker' \in [ProjectNames -> Sheet]
          /\ \A r \in ProjectNames, f \in Fields :
                 tracker'[r][f] = tracker[r][f] + (IF r = p THEN e[f] ELSE 0)
      <4>1. tracker' = [tracker EXCEPT ![p] = Plus(@, e)]
        BY <1>1, <2>1
      <4>2. tracker \in [ProjectNames -> Sheet] /\ p \in ProjectNames /\ e \in Sheet
        BY <1>2, <1>3, <1>5
      <4> QED
        BY <4>1, <4>2, SheetSet
    <3> QED
      BY <2>1, <3>1
  <2>2. CASE q.pc # "track"
    BY <1>1, <1>5, <2>2
  <2> QED
    BY <2>1, <2>2
<1>7. /\ counters' \in [ProjectNames -> Sheet]
      /\ \A r \in ProjectNames, f \in Fields :
             counters'[r][f] = counters[r][f] + (IF q.pc = "store" /\ r = p THEN e[f] ELSE 0)
  <2>1. CASE q.pc = "store"
    <3>1. /\ counters' \in [ProjectNames -> Sheet]
          /\ \A r \in ProjectNames, f \in Fields :
                 counters'[r][f] = counters[r][f] + (IF r = p THEN e[f] ELSE 0)
      <4>1. counters' = [counters EXCEPT ![p] = Plus(@, e)]
        BY <1>1, <2>1
      <4>2. counters \in [ProjectNames -> Sheet] /\ p \in ProjectNames /\ e \in Sheet
        BY <1>2, <1>3, <1>5
      <4> QED
        BY <4>1, <4>2, SheetSet
    <3> QED
      BY <2>1, <3>1
  <2>2. CASE q.pc # "store"
    BY <1>1, <1>5, <2>2
  <2> QED
    BY <2>1, <2>2
<1>8. {tracker', counters', due', base'} \subseteq [ProjectNames -> Sheet]
  BY <1>1, <1>5, <1>6, <1>7
<1>9. ASSUME NEW r \in ProjectNames, NEW f \in Fields
      PROVE  /\ due'[r][f] - due[r][f] =
                    (tracker'[r][f] - tracker[r][f])
                    + (InHand(x, r, {"track"}, f) - InHand(q, r, {"track"}, f))
             /\ tracker'[r][f] - tracker[r][f] =
                    (counters'[r][f] - counters[r][f]) - (base'[r][f] - base[r][f])
                    + (InHand(x, r, {"store"}, f) - InHand(q, r, {"store"}, f))
  BY <1>1, <1>3, <1>4, <1>5, <1>6, <1>7
<1> QED
  BY <1>1, <1>2, <1>8, <1>9, OneCall DEF q

\* What an operator clears of the counters is noted as cleared.
LEMMA ResetOK ==
    ASSUME BooksInv, NEW names \in SUBSET ProjectNames, NEW d \in BOOLEAN, ResetUsage(names, d)
    PROVE  BooksInv'
<1>1. /\ call' = call /\ tracker' = tracker /\ due' = due
      /\ counters' = [p \in ProjectNames |-> IF p \in names THEN Zero ELSE counters[p]]
      /\ base' = [p \in ProjectNames |-> IF p \in names THEN Less(base[p], counters[p]) ELSE base[p]]
      /\ saved' = IF d THEN counters' ELSE saved
  BY DEF ResetUsage
<1>2. Zero \in Sheet /\ \A f \in Fields : Zero[f] = 0
  BY DEF Zero, Sheet, Fields
<1>3. BooksTyped
  BY DEF BooksInv
<1>4. ASSUME NEW p \in ProjectNames
      PROVE  /\ counters[p] \in Sheet /\ base[p] \in Sheet /\ Less(base[p], counters[p]) \in Sheet
             /\ \A f \in Fields : Less(base[p], counters[p])[f] = base[p][f] - counters[p][f]
  <2>1. counters[p] \in Sheet /\ base[p] \in Sheet
    BY <1>3 DEF BooksTyped
  <2>2. \A f \in Fields : base[p][f] \in Int /\ counters[p][f] \in Int
    BY <2>1 DEF Sheet
  <2>3. Less(base[p], counters[p]) = [f \in Fields |-> base[p][f] - counters[p][f]]
    BY DEF Less, Fields
  <2> QED
    BY <2>1, <2>2, <2>3 DEF Sheet
<1>5. counters' \in [ProjectNames -> Sheet] /\ base' \in [ProjectNames -> Sheet]
  BY <1>1, <1>2, <1>4
<1>6. BooksTyped'
  BY <1>1, <1>3, <1>5 DEF BooksTyped, CallOK, Sheet, Fields
<1>7. ASSUME NEW p \in ProjectNames, NEW f \in Fields PROVE Agree(p, f)'
  <2>1. Agree(p, f) /\ Held(p, {"track"}, f)' = Held(p, {"track"}, f)
        /\ Held(p, {"store"}, f)' = Held(p, {"store"}, f)
    BY <1>1 DEF BooksInv, Held, InHand
  <2>2. counters[p][f] \in Int /\ base[p][f] \in Int
    BY <1>4 DEF Sheet
  <2>3. counters'[p][f] - base'[p][f] = counters[p][f] - base[p][f]
    <3>1. CASE p \in names
      <4>1. counters'[p][f] = 0 /\ base'[p][f] = base[p][f] - counters[p][f]
        BY <1>1, <1>2, <1>4, <3>1
      <4> QED
        BY <2>2, <4>1
    <3>2. CASE p \notin names
      <4>1. counters'[p] = counters[p] /\ base'[p] = base[p]
        BY <1>1, <3>2
      <4> QED
        BY <4>1
    <3> QED
      BY <3>1, <3>2
  <2> QED
    BY <1>1, <2>1, <2>3 DEF Agree
<1> QED
  BY <1>6, <1>7 DEF BooksInv, Fields

\* With nobody at work nothing is in hand.
LEMMA NothingHeld ==
    ASSUME NEW k, k = [c \in Clients |-> Away], NEW p \in ProjectNames,
           NEW pcs \in {{"track"}, {"store"}}, NEW f \in Fields
    PROVE  SumFunction([c \in Clients |-> InHand(k[c], p, pcs, f)]) = 0
<1> DEFINE a == [c \in Clients |-> InHand(k[c], p, pcs, f)]
<1>1. \A c \in Clients : a[c] = 0
  BY DEF InHand, Away
<1>2. DOMAIN a = Clients /\ IsFiniteSet(Clients)
  BY BooksAssumption
<1> HIDE DEF a
<1>3. SumFunctionOnSet(a, Clients) = 0
  BY <1>1, <1>2, SumZero
<1>4. SumFunction(a) = 0
  BY <1>2, <1>3 DEF SumFunction
<1> QED
  BY <1>4 DEF a

\* The tracker, the stored counters and the bill differ by the calls in hand.
THEOREM BooksAreOne == BooksSpec => []BooksInv
<1>0. Blank \in [ProjectNames -> Sheet] /\ \A p \in ProjectNames, f \in Fields : Blank[p][f] = 0
  BY DEF Blank, Sheet, Fields, Zero
<1>1. CallOK(Away)
  BY DEF CallOK, Away
<1>2. BooksInit => BooksInv
  <2> SUFFICES ASSUME BooksInit PROVE BooksInv
    OBVIOUS
  <2>1. call = [c \in Clients |-> Away] /\ tracker = Blank /\ counters = Blank /\ due = Blank /\ base = Blank
        /\ saved = Blank
    BY DEF BooksInit
  <2>2. BooksTyped
    BY <1>0, <1>1, <2>1 DEF BooksTyped
  <2>3. ASSUME NEW p \in ProjectNames, NEW f \in Fields PROVE Agree(p, f)
    <3>1. Held(p, {"track"}, f) = 0 /\ Held(p, {"store"}, f) = 0
      BY <2>1, NothingHeld DEF Held
    <3> QED
      BY <1>0, <2>1, <3>1 DEF Agree
  <2> QED
    BY <2>2, <2>3 DEF BooksInv
<1>3. BooksInv /\ [BooksNext]_booksVars => BooksInv'
  <2> SUFFICES ASSUME BooksInv, [BooksNext]_booksVars PROVE BooksInv'
    OBVIOUS
  <2>1. ASSUME UNCHANGED <<call, tracker, counters, due, base>>, saved' \in [ProjectNames -> Sheet] PROVE BooksInv'
    <3>1. \A p \in ProjectNames, f \in Fields, pcs \in {{"track"}, {"store"}} :
              Held(p, pcs, f)' = Held(p, pcs, f)
      BY <2>1 DEF Held, InHand
    <3>2. BooksTyped'
      BY <2>1 DEF BooksInv, BooksTyped
    <3>3. ASSUME NEW p \in ProjectNames, NEW f \in Fields PROVE Agree(p, f)'
      <4>1. Agree(p, f) /\ Held(p, {"track"}, f)' = Held(p, {"track"}, f)
            /\ Held(p, {"store"}, f)' = Held(p, {"store"}, f)
        BY <3>1 DEF BooksInv
      <4> QED
        BY <2>1, <4>1 DEF Agree
    <3> QED
      BY <3>2, <3>3 DEF BooksInv, Fields
  <2>2. ASSUME NEW p \in ProjectNames, Refuse(p) PROVE UNCHANGED <<call, tracker, counters, saved, due, base>>
    BY <2>2 DEF Refuse
  <2>3. CASE BooksRestart
    <3>1. /\ call' = [c \in Clients |-> Away] /\ tracker' = Blank /\ due' = Blank /\ counters' = base'
          /\ base' = saved /\ saved' = saved
      BY <2>3 DEF BooksRestart
    <3>2. base' \in [ProjectNames -> Sheet]
      BY <3>1 DEF BooksInv, BooksTyped
    <3>3. BooksTyped'
      BY <1>0, <1>1, <3>1, <3>2 DEF BooksTyped, CallOK, Sheet, Fields
    <3>4. ASSUME NEW p \in ProjectNames, NEW f \in Fields PROVE Agree(p, f)'
      <4>1. Held(p, {"track"}, f)' = 0 /\ Held(p, {"store"}, f)' = 0
        BY <3>1, NothingHeld DEF Held, InHand
      <4>2. base'[p][f] \in Int
        BY <3>2 DEF Sheet
      <4> QED
        BY <1>0, <3>1, <4>1, <4>2 DEF Agree
    <3> QED
      BY <3>3, <3>4 DEF BooksInv, Fields
  <2>4. saved \in [ProjectNames -> Sheet] /\ counters \in [ProjectNames -> Sheet]
    BY DEF BooksInv, BooksTyped
  <2>5. CASE UNCHANGED booksVars
    BY <2>1, <2>4, <2>5 DEF booksVars
  <2>6. CASE Persist
    BY <2>1, <2>4, <2>6 DEF Persist
  <2>7. ASSUME NEW p \in ProjectNames, Refuse(p) PROVE BooksInv'
    BY <2>1, <2>2, <2>4, <2>7
  <2>8. ASSUME NEW d \in BOOLEAN, NEW names \in SUBSET ProjectNames, ResetUsage(names, d) PROVE BooksInv'
    BY <2>8, ResetOK
  <2> QED
    BY <2>3, <2>5, <2>6, <2>7, <2>8, StartsOK, EndOK, WritingOK DEF BooksNext, Serving
<1> QED
  BY <1>2, <1>3, PTL DEF BooksSpec

\* For every project the tracker, the counters and what the ended calls come to
\* differ by exactly the calls still being written (meter, recordMeteredFor,
\* recordBrokenUsage), what was stored when the process started and what was
\* cleared since (ResetUsage), for any interleaving and any number of restarts.
THEOREM BooksAgreeAlways == BooksSpec => []BooksAgree
<1>1. BooksInv => BooksAgree
  <2> SUFFICES ASSUME BooksInv, NEW p \in ProjectNames
               PROVE  /\ due[p] = Plus(Usage(FALSE, p)[p], Sum(p, {"track"}))
                      /\ tracker[p] = Plus(Less(counters[p], base[p]), Sum(p, {"store"}))
    BY DEF BooksAgree
  <2>1. Usage(FALSE, p)[p] = tracker[p]
    BY DEF Usage, UsageGet
  <2>2. due[p] \in Sheet /\ tracker[p] \in Sheet
    BY DEF BooksInv, BooksTyped
  <2> DEFINE d == Plus(tracker[p], Sum(p, {"track"}))
             t == Plus(Less(counters[p], base[p]), Sum(p, {"store"}))
  <2>3. /\ d = [f \in Fields |-> d[f]] /\ t = [f \in Fields |-> t[f]]
        /\ \A f \in Fields : /\ d[f] = tracker[p][f] + Held(p, {"track"}, f)
                             /\ t[f] = (counters[p][f] - base[p][f]) + Held(p, {"store"}, f)
    BY DEF Plus, Less, Sum, Held, Fields
  <2> HIDE DEF d, t
  <2>4. \A f \in Fields : due[p][f] = d[f] /\ tracker[p][f] = t[f]
    BY <2>3 DEF BooksInv, Agree
  <2>5. due[p] = [f \in Fields |-> due[p][f]] /\ tracker[p] = [f \in Fields |-> tracker[p][f]]
    BY <2>2 DEF Sheet
  <2>6. due[p] = d /\ tracker[p] = t
    BY <2>3, <2>4, <2>5
  <2> QED
    BY <2>1, <2>6 DEF d, t
<1> QED
  BY <1>1, BooksAreOne, PTL
-----------------------------------------------------------------------------
(***************************************************************************)
(* What the console lists as recent is the end of what was written,        *)
(* whatever the size of the ring and the limit asked for: RecentIsTheTail. *)
(* Walked backwards from the last write, the slots hold the newest entries *)
(* in turn (RingInv), and the walk never leaves what was written.          *)
(***************************************************************************)

Log0 == [at : Nat, project : ProjectNames, denied : BOOLEAN]

\* The slot i writes back.
Slot(r, i) == (r.next - i + RingSize) % RingSize

RingTyped ==
    /\ \A c \in Clients : call[c].pc # "away" => call[c].project \in ProjectNames
    /\ DOMAIN call = Clients
    /\ written \in Seq(Log0)
    /\ DOMAIN ring = {"entries", "next", "filled"}
    /\ DOMAIN ring.entries = 0 .. RingSize - 1
    /\ ring.next \in 0 .. RingSize - 1 /\ ring.filled \in BOOLEAN

\* How much of what was written the ring still holds.
Holds == IF ring.filled THEN RingSize ELSE ring.next

RingInv ==
    /\ RingTyped
    /\ IF ring.filled THEN Len(written) >= RingSize ELSE Len(written) = ring.next
    /\ \A i \in 1 .. Holds : ring.entries[Slot(ring, i)] = written[Len(written) - i + 1]

LEMMA RingSizeType == RingSize \in Nat \ {0}
  BY BooksAssumption

LEMMA ModSmall == ASSUME NEW x \in 0 .. RingSize - 1 PROVE x % RingSize = x /\ (x + RingSize) % RingSize = x
  BY RingSizeType

LEMMA ModFull == RingSize % RingSize = 0
  BY RingSizeType

LEMMA SlotIs ==
    ASSUME NEW r, r.next \in 0 .. RingSize - 1, NEW i \in 1 .. RingSize
    PROVE  /\ Slot(r, i) = (IF i <= r.next THEN r.next - i ELSE r.next - i + RingSize)
           /\ Slot(r, i) \in 0 .. RingSize - 1
<1> DEFINE x == r.next
<1>1. x \in 0 .. RingSize - 1 /\ Slot(r, i) = (x - i + RingSize) % RingSize
  BY DEF Slot
<1> HIDE DEF x
<1>2. CASE i <= x
  <2> DEFINE y == x - i
  <2>1. y \in 0 .. RingSize - 1
    BY <1>1, <1>2, RingSizeType
  <2>2. x - i + RingSize = y + RingSize
    OBVIOUS
  <2> HIDE DEF y
  <2>3. Slot(r, i) = y
    BY <1>1, <2>1, <2>2, ModSmall
  <2> QED
    BY <1>2, <2>1, <2>3 DEF x, y
<1>3. CASE ~(i <= x)
  <2> DEFINE y == x - i + RingSize
  <2>1. y \in 0 .. RingSize - 1
    BY <1>1, <1>3, RingSizeType
  <2>2. Slot(r, i) = y % RingSize
    BY <1>1
  <2> HIDE DEF y
  <2>3. Slot(r, i) = y
    BY <2>1, <2>2, ModSmall
  <2> QED
    BY <1>3, <2>1, <2>3 DEF x, y
<1> QED
  BY <1>2, <1>3

\* What is written becomes the slot nearest the write, every other moves one back.
LEMMA AddedOK ==
    ASSUME RingInv, NEW e \in Log0, ring' = Added(ring, e), written' = Append(written, e),
           NEW k, call' = k, DOMAIN k = Clients,
           \A c \in Clients : k[c].pc # "away" => k[c].project \in ProjectNames
    PROVE  RingInv'
<1> DEFINE x == ring.next
           y == ring'.next
           L == Len(written)
<1>1. /\ ring'.entries = [ring.entries EXCEPT ![x] = e] /\ y = (x + 1) % RingSize
      /\ ring'.filled = (ring.filled \/ y = 0) /\ DOMAIN ring' = {"entries", "next", "filled"}
  BY DEF Added
<1>2. x \in 0 .. RingSize - 1 /\ ring.filled \in BOOLEAN /\ DOMAIN ring.entries = 0 .. RingSize - 1
      /\ written \in Seq(Log0) /\ L \in Nat
  BY DEF RingInv, RingTyped
<1>3. IF ring.filled THEN L >= RingSize ELSE L = x
  BY DEF RingInv
<1>4. written' \in Seq(Log0) /\ Len(written') = L + 1 /\ written'[L + 1] = e
      /\ \A i \in 1 .. L : written'[i] = written[i]
  BY <1>2
<1>5. y = IF x + 1 < RingSize THEN x + 1 ELSE 0
  <2>1. CASE x + 1 < RingSize
    <3> DEFINE z == x + 1
    <3>1. z \in 0 .. RingSize - 1
      BY <1>2, <2>1, RingSizeType
    <3> HIDE DEF z, x, y
    <3> QED
      BY <1>1, <2>1, <3>1, ModSmall DEF z
  <2>2. CASE ~(x + 1 < RingSize)
    <3>1. x + 1 = RingSize
      BY <1>2, <2>2, RingSizeType
    <3> QED
      BY <1>1, <2>2, <3>1, ModFull
  <2> QED
    BY <2>1, <2>2
<1>6. y \in 0 .. RingSize - 1
  BY <1>2, <1>5, RingSizeType
<1> HIDE DEF x, y, L
<1>7. RingTyped'
  <2>1. ring'.next \in 0 .. RingSize - 1 /\ ring'.filled \in BOOLEAN
        /\ DOMAIN ring'.entries = 0 .. RingSize - 1
    BY <1>1, <1>2, <1>6 DEF y
  <2> QED
    BY <1>1, <1>4, <2>1 DEF RingTyped, Log0
<1>8. IF ring'.filled THEN Len(written') >= RingSize ELSE Len(written') = ring'.next
  <2>1. IF ring'.filled THEN Len(written') >= RingSize ELSE Len(written') = y
    <3> DEFINE M == Len(written')
               full == ring'.filled
    <3>1. M = L + 1 /\ (full <=> ring.filled \/ y = 0)
      BY <1>1, <1>4
    <3> HIDE DEF M, full
    <3>2. ASSUME ring.filled PROVE IF full THEN M >= RingSize ELSE M = y
      BY <1>2, <1>3, <3>1, <3>2, RingSizeType
    <3>3. ASSUME ~ring.filled PROVE IF full THEN M >= RingSize ELSE M = y
      BY <1>2, <1>3, <1>5, <3>1, <3>3, RingSizeType
    <3>4. IF full THEN M >= RingSize ELSE M = y
      BY <3>2, <3>3
    <3> QED
      BY <3>4 DEF M, full
  <2> QED
    BY <2>1 DEF y
<1>9. Holds' \in 0 .. RingSize /\ Holds' <= Holds + 1 /\ Holds <= L /\ Holds \in 0 .. RingSize
  <2>1. Holds = (IF ring.filled THEN RingSize ELSE x) /\ Holds' = IF ring'.filled THEN RingSize ELSE y
    BY DEF Holds, x, y
  <2>2. /\ x \in 0 .. RingSize - 1 /\ y \in 0 .. RingSize - 1 /\ L \in Nat /\ RingSize \in Nat
        /\ IF ring.filled THEN L >= RingSize ELSE L = x
        /\ y = IF x + 1 < RingSize THEN x + 1 ELSE 0
        /\ ring'.filled <=> ring.filled \/ y = 0
    BY <1>1, <1>2, <1>3, <1>5, <1>6, RingSizeType
  <2> DEFINE h == Holds
             k1 == Holds'
             old == ring.filled
             new == ring'.filled
  <2> HIDE DEF h, k1, old, new
  <2>3. CASE old
    <3>1. h = RingSize /\ k1 = RingSize
      BY <2>1, <2>2, <2>3 DEF h, k1, old
    <3>2. L >= RingSize /\ RingSize \in Nat
      BY <2>2, <2>3 DEF old
    <3>3. k1 \in 0 .. RingSize /\ k1 <= h + 1 /\ h <= L /\ h \in 0 .. RingSize
      BY <2>2, <3>1, <3>2
    <3> QED
      BY <3>3 DEF h, k1
  <2>4. CASE ~old
    <3>1. h = x /\ L = x /\ (new <=> y = 0) /\ k1 = IF new THEN RingSize ELSE y
      BY <2>1, <2>2, <2>4 DEF h, k1, old, new
    <3>2. k1 \in 0 .. RingSize /\ k1 <= h + 1 /\ h <= L /\ h \in 0 .. RingSize
      BY <2>2, <3>1
    <3> QED
      BY <3>2 DEF h, k1
  <2> QED
    BY <2>3, <2>4
<1>10. ASSUME NEW i \in 1 .. Holds' PROVE ring'.entries[Slot(ring', i)] = written'[Len(written') - i + 1]
  <2>0. i \in 1 .. RingSize
    BY <1>9, RingSizeType
  <2>1. Slot(ring', i) = IF i <= y THEN y - i ELSE y - i + RingSize
    <3>1. ring'.next \in 0 .. RingSize - 1
      BY <1>6 DEF y
    <3> QED
      BY <2>0, <3>1, SlotIs DEF y
  <2>2. CASE i = 1
    <3>1. Slot(ring', i) = x
      BY <1>2, <1>5, <2>1, <2>2, RingSizeType
    <3>2. Len(written') - i + 1 = L + 1
      BY <1>2, <1>4, <2>2
    <3> QED
      BY <1>1, <1>2, <1>4, <3>1, <3>2
  <2>3. CASE i # 1
    <3> DEFINE j == i - 1
    <3>1. j \in 1 .. RingSize /\ j \in 1 .. Holds /\ j < RingSize /\ i = j + 1
      BY <1>9, <2>0, <2>3, RingSizeType
    <3> HIDE DEF j
    <3>2. Slot(ring, j) = (IF j <= x THEN x - j ELSE x - j + RingSize) /\ Slot(ring, j) \in 0 .. RingSize - 1
      BY <1>2, <3>1, SlotIs DEF x
    <3>3. Slot(ring', i) = Slot(ring, j) /\ Slot(ring, j) # x
      BY <1>2, <1>5, <2>1, <3>1, <3>2, RingSizeType
    <3>4. ring'.entries[Slot(ring', i)] = ring.entries[Slot(ring, j)]
      BY <1>1, <1>2, <3>2, <3>3
    <3>5. ring.entries[Slot(ring, j)] = written[L - j + 1]
      BY <3>1 DEF RingInv, L
    <3>6. Len(written') - i + 1 = L - j + 1 /\ L - j + 1 \in 1 .. L
      BY <1>2, <1>4, <1>9, <3>1
    <3> QED
      BY <1>4, <3>4, <3>5, <3>6
  <2> QED
    BY <2>2, <2>3
<1> QED
  BY <1>7, <1>8, <1>10 DEF RingInv

\* The ring holds the end of all that was added to it since the process began,
\* each entry at its place modulo the ring's size (RequestLog.Add).
THEOREM RingIsTheTail == BooksSpec => []RingInv
<1>1. BooksInit => RingInv
  <2> SUFFICES ASSUME BooksInit PROVE RingInv
    OBVIOUS
  <2>1. call = [c \in Clients |-> Away] /\ ring = EmptyRing /\ written = <<>>
    BY DEF BooksInit
  <2>2. RingTyped
    BY <2>1, RingSizeType DEF RingTyped, EmptyRing, Away
  <2>3. Len(written) = 0 /\ ring.next = 0 /\ ~ring.filled
    BY <2>1 DEF EmptyRing
  <2> QED
    BY <2>2, <2>3 DEF RingInv, Holds
<1>2. RingInv /\ [BooksNext]_booksVars => RingInv'
  <2> SUFFICES ASSUME RingInv, [BooksNext]_booksVars PROVE RingInv'
    OBVIOUS
  <2>0. DOMAIN call = Clients /\ \A c \in Clients : call[c].pc # "away" => call[c].project \in ProjectNames
    BY DEF RingInv, RingTyped
  <2>1. ASSUME UNCHANGED <<ring, written>>, DOMAIN call' = Clients,
               \A c \in Clients : call'[c].pc # "away" => call'[c].project \in ProjectNames
        PROVE  RingInv'
    <3>1. RingTyped'
      BY <2>1 DEF RingInv, RingTyped, Log0
    <3>2. Holds' = Holds /\ \A i \in 1 .. Holds : Slot(ring', i) = Slot(ring, i)
      BY <2>1 DEF Holds, Slot
    <3> QED
      BY <2>1, <3>1, <3>2 DEF RingInv
  <2>2. ASSUME NEW p \in ProjectNames, NEW b \in BOOLEAN PROVE Entry(p, b) \in Log0
    BY DEF Entry, Log0, RingInv, RingTyped
  <2>3. ASSUME NEW p \in ProjectNames, Refuse(p) PROVE RingInv'
    <3>1. ring' = Added(ring, Entry(p, TRUE)) /\ written' = Append(written, Entry(p, TRUE)) /\ call' = call
      BY <2>3 DEF Refuse, Log
    <3> QED
      BY <2>0, <2>2, <3>1, AddedOK
  <2>4. ASSUME NEW c \in Clients, NoteRequest(c) PROVE RingInv'
    <3> DEFINE e == Entry(call[c].project, FALSE)
               k == [call EXCEPT ![c] = Away]
    <3>1. ring' = Added(ring, e) /\ written' = Append(written, e) /\ call' = k /\ call[c].pc = "log"
      BY <2>4 DEF NoteRequest, Log
    <3>2. e \in Log0
      BY <2>0, <2>2, <3>1
    <3>3. DOMAIN k = Clients /\ \A d \in Clients : k[d].pc # "away" => k[d].project \in ProjectNames
      BY <2>0 DEF Away
    <3> HIDE DEF e, k
    <3> QED
      BY <3>1, <3>2, <3>3, AddedOK
  <2>5. ASSUME NEW c \in Clients,
               (\E p \in ProjectNames : Starts(c, p)) \/ (\E w \in Outcomes : End(c, w)) \/ Track(c) \/ RecordUsage(c)
        PROVE  RingInv'
    <3>1. CASE \E p \in ProjectNames : Starts(c, p)
      BY <2>0, <2>1, <3>1 DEF Starts
    <3>2. CASE \E w \in Outcomes : End(c, w)
      BY <2>0, <2>1, <3>2 DEF End, Away
    <3>3. CASE Track(c)
      BY <2>0, <2>1, <3>3 DEF Track
    <3>4. CASE RecordUsage(c)
      BY <2>0, <2>1, <3>4 DEF RecordUsage
    <3> QED
      BY <2>5, <3>1, <3>2, <3>3, <3>4
  <2>6. CASE BooksRestart
    <3>1. call' = [c \in Clients |-> Away] /\ ring' = EmptyRing /\ written' = <<>>
      BY <2>6 DEF BooksRestart
    <3>2. RingTyped'
      BY <3>1, RingSizeType DEF RingTyped, EmptyRing, Away, Log0
    <3>3. Len(written') = 0 /\ ring'.next = 0 /\ ~ring'.filled
      BY <3>1 DEF EmptyRing
    <3> QED
      BY <3>2, <3>3 DEF RingInv, Holds
  <2>7. CASE UNCHANGED booksVars
    BY <2>0, <2>1, <2>7 DEF booksVars
  <2>8. CASE Persist
    BY <2>0, <2>1, <2>8 DEF Persist
  <2>9. ASSUME NEW names, NEW d, ResetUsage(names, d) PROVE RingInv'
    BY <2>0, <2>1, <2>9 DEF ResetUsage
  <2> QED
    BY <2>3, <2>4, <2>5, <2>6, <2>7, <2>8, <2>9 DEF BooksNext, Serving
<1> QED
  BY <1>1, <1>2, PTL DEF BooksSpec

\* What the console and the MCP tool list is the newest of what was written, of
\* the projects asked for, newest first (RequestLog.Recent, toolRequestsList).
THEOREM RecentIsTheNewest == BooksSpec => []RecentIsTheTail
<1>1. RingInv => RecentIsTheTail
  <2> SUFFICES ASSUME RingInv PROVE RecentIsTheTail
    OBVIOUS
  <2> DEFINE L == Len(written)
             newest == [i \in 1 .. Holds |-> ring.entries[(ring.next - i + RingSize) % RingSize]]
             from == Highest(1, L - RingSize + 1)
             kept == SubSeq(written, from, L)
             back == Reverse(kept)
  <2>1. written \in Seq(Log0) /\ L \in Nat /\ ring.next \in 0 .. RingSize - 1 /\ ring.filled \in BOOLEAN
        /\ IF ring.filled THEN L >= RingSize ELSE L = ring.next
    BY DEF RingInv, RingTyped
  <2>2. from = L - Holds + 1 /\ Holds \in Nat /\ Holds <= L
    <3> HIDE DEF L
    <3> QED
      BY <2>1, RingSizeType DEF Highest, Holds
  <2>3. Len(kept) = Holds /\ \A j \in 1 .. Holds : kept[j] = written[L - Holds + j]
    <3> HIDE DEF from
    <3>1. from \in 1 .. L + 1
      BY <2>1, <2>2
    <3>2. \A i \in from .. L : written[i] \in Log0
      BY <2>1, <3>1, ElementOfSeq
    <3> HIDE DEF L
    <3>3. /\ Len(kept) = IF from <= L THEN L - from + 1 ELSE 0
          /\ \A j \in 1 .. L - from + 1 : kept[j] = written[from + j - 1]
      BY <2>1, <3>1, <3>2, SubSeqProperties
    <3> HIDE DEF kept
    <3>4. L - from + 1 = Holds /\ \A j \in 1 .. Holds : from + j - 1 = L - Holds + j
      BY <2>1, <2>2
    <3> QED
      BY <2>1, <2>2, <3>3, <3>4
  <2>4. back = [i \in 1 .. Holds |-> written[L - i + 1]]
    <3>1. back = [i \in 1 .. Holds |-> kept[(Holds - i) + 1]]
      BY <2>3 DEF Reverse
    <3> HIDE DEF back, kept, L, from
    <3>2. ASSUME NEW i \in 1 .. Holds PROVE kept[(Holds - i) + 1] = written[L - i + 1]
      <4> DEFINE j == (Holds - i) + 1
      <4>1. j \in 1 .. Holds /\ L - Holds + j = L - i + 1
        BY <2>1, <2>2
      <4> HIDE DEF j
      <4>2. kept[j] = written[L - i + 1]
        BY <2>3, <4>1
      <4> QED
        BY <4>2 DEF j
    <3> QED
      BY <3>1, <3>2
  <2>5. newest = back
    <3>1. \A i \in 1 .. Holds : ring.entries[Slot(ring, i)] = written[L - i + 1]
      BY DEF RingInv
    <3> HIDE DEF L, back
    <3> QED
      BY <2>4, <3>1 DEF Slot
  <2>6. ASSUME NEW projects \in SUBSET Everyone, NEW n \in 1 .. RingSize
        PROVE  Recent(projects, n) = Newest(projects, n)
    <3>1. (IF n <= 0 \/ n > RingSize THEN RingSize ELSE n) = n
      BY RingSizeType
    <3> DEFINE mine == Those(back, projects)
    <3>2. Newest(projects, n) = SubSeq(mine, 1, Lowest(n, Len(mine)))
      BY DEF Newest
    <3>3. Recent(projects, n) = SubSeq(Those(newest, projects), 1, Lowest(n, Len(Those(newest, projects))))
      <4> DEFINE most == IF n <= 0 \/ n > RingSize THEN RingSize ELSE n
                 shown == Those(newest, projects)
      <4>1. Recent(projects, n) = SubSeq(shown, 1, Lowest(most, Len(shown)))
        BY DEF Recent, Holds
      <4>2. most = n
        BY <3>1
      <4> HIDE DEF most, shown
      <4> QED
        BY <4>1, <4>2 DEF shown
    <3> HIDE DEF newest, back
    <3> QED
      BY <2>5, <3>2, <3>3
  <2>7. ASSUME NEW p \in ProjectNames PROVE RequestsList(p, 0) = Newest({Lower[p]}, 1)
    <3>1. {Lower[p]} \in SUBSET Everyone /\ 1 \in 1 .. RingSize /\ Highest(1, 0) = 1
      BY RingSizeType DEF Everyone, Highest
    <3>2. Recent({Lower[p]}, 1) = Newest({Lower[p]}, 1)
      BY <2>6, <3>1
    <3> QED
      BY <3>1, <3>2 DEF RequestsList
  <2> QED
    BY <2>6, <2>7 DEF RecentIsTheTail
<1> QED
  BY <1>1, RingIsTheTail, PTL

-----------------------------------------------------------------------------
(***************************************************************************)
(* Conversations.  trim keeps the longest tail that fits: its start is the *)
(* least of a set (TrimIs), what does not fit does not fit with more after *)
(* it (WeightOfMore), so trimming what is stored before a turn is added    *)
(* changes nothing of what is kept after it (TrimOfTrim).  A file is then  *)
(* the trimmed history whatever was interleaved (MemoryInv).               *)
(***************************************************************************)

\* What a conversation keeps of a message.
Said == [turn : Turns, nth : Nat, role : {"user", "assistant"}, size : Nat]

\* The characters from the i-th message on.
Weight(s, i) == SumFunctionOnSet([j \in DOMAIN s |-> s[j].size], i .. Len(s))

LEMMA SaidAt ==
    ASSUME NEW s \in Seq(Said)
    PROVE  /\ Len(s) \in Nat /\ DOMAIN s = 1 .. Len(s)
           /\ \A i \in 1 .. Len(s) : s[i] \in Said /\ s[i].size \in Nat
<1>1. Len(s) \in Nat /\ DOMAIN s = 1 .. Len(s) /\ \A i \in 1 .. Len(s) : s[i] \in Said
  BY LenProperties, ElementOfSeq
<1>2. \A m \in Said : m.size \in Nat
  BY DEF Said
<1> QED
  BY <1>1, <1>2

LEMMA SumFirst ==
    ASSUME NEW f, NEW L \in Nat, NEW i \in 1 .. L, \A j \in i .. L : f[j] \in Int
    PROVE  SumFunctionOnSet(f, i .. L) = f[i] + SumFunctionOnSet(f, (i + 1) .. L)
<1> DEFINE S == i .. L
<1>0. IsFiniteSet(S)
  BY FS_Interval
<1>1. i \in S /\ IsFiniteSet(S) /\ S \ {i} = (i + 1) .. L
  BY <1>0
<1>2. \A j \in S : f[j] \in Int
  OBVIOUS
<1> HIDE DEF S
<1>3. SumFunctionOnSet(f, S) = f[i] + SumFunctionOnSet(f, S \ {i})
  BY <1>1, <1>2, SumLess
<1> QED
  BY <1>1, <1>3 DEF S

LEMMA WeightSteps ==
    ASSUME NEW s \in Seq(Said)
    PROVE  /\ Weight(s, Len(s) + 1) = 0
           /\ \A i \in 1 .. Len(s) : Weight(s, i) = s[i].size + Weight(s, i + 1)
           /\ \A i \in 1 .. Len(s) + 1 : Weight(s, i) \in Nat
<1> DEFINE f == [j \in DOMAIN s |-> s[j].size]
           L == Len(s)
<1>1. L \in Nat /\ \A j \in 1 .. L : f[j] \in Nat /\ f[j] = s[j].size
  BY SaidAt
<1>2. \A i : Weight(s, i) = SumFunctionOnSet(f, i .. L)
  BY DEF Weight
<1> HIDE DEF f, L
<1>3. Weight(s, L + 1) = 0
  <2>1. (L + 1) .. L = {}
    BY <1>1
  <2> QED
    BY <1>2, <2>1, SumEmpty
<1>4. ASSUME NEW i \in 1 .. L + 1
      PROVE  IsFiniteSet(i .. L) /\ \A j \in i .. L : f[j] \in Nat
  <2>1. IsFiniteSet(i .. L)
    BY <1>1, FS_Interval
  <2> QED
    BY <1>1, <2>1
<1>5. ASSUME NEW i \in 1 .. L
      PROVE  Weight(s, i) = s[i].size + Weight(s, i + 1)
  <2>1. i \in i .. L /\ (i .. L) \ {i} = (i + 1) .. L /\ i \in 1 .. L + 1
    BY <1>1
  <2>2. IsFiniteSet(i .. L) /\ \A j \in i .. L : f[j] \in Int
    BY <1>4, <2>1
  <2>3. SumFunctionOnSet(f, i .. L) = f[i] + SumFunctionOnSet(f, (i + 1) .. L)
    BY <1>1, <2>2, SumFirst
  <2> QED
    BY <1>1, <1>2, <2>1, <2>3
<1>6. ASSUME NEW i \in 1 .. L + 1
      PROVE  Weight(s, i) \in Nat
  BY <1>2, <1>4, SumPositive
<1> QED
  BY <1>3, <1>5, <1>6 DEF L

\* A tail weighs what it weighed in the list it is the tail of.
LEMMA WeightOfTail ==
    ASSUME NEW s \in Seq(Said), NEW k \in Nat, NEW u \in Seq(Said), Len(s) = Len(u) + k,
           \A j \in 1 .. Len(u) : u[j] = s[j + k]
    PROVE  \A i \in 1 .. Len(u) + 1 : Weight(u, i) = Weight(s, i + k)
<1> DEFINE n == Len(u)
           T == {d \in Nat : \A i \in 1 .. n + 1 : n + 1 - i = d => Weight(u, i) = Weight(s, i + k)}
<1>1. n \in Nat /\ Len(s) = n + k
  BY SaidAt
<1>2. /\ Weight(u, n + 1) = 0
      /\ \A i \in 1 .. n : Weight(u, i) = u[i].size + Weight(u, i + 1)
  BY WeightSteps
<1>3. /\ Weight(s, n + k + 1) = 0
      /\ \A i \in 1 .. n + k : Weight(s, i) = s[i].size + Weight(s, i + 1)
  BY <1>1, WeightSteps
<1>4. \A j \in 1 .. n : u[j] = s[j + k]
  OBVIOUS
<1> HIDE DEF n
<1>5. 0 \in T
  BY <1>1, <1>2, <1>3
<1>6. ASSUME NEW d \in Nat, d \in T
      PROVE  d + 1 \in T
  <2> SUFFICES ASSUME NEW i \in 1 .. n + 1, n + 1 - i = d + 1
               PROVE  Weight(u, i) = Weight(s, i + k)
    OBVIOUS
  <2>1. i \in 1 .. n /\ i + 1 \in 1 .. n + 1 /\ n + 1 - (i + 1) = d /\ i + k \in 1 .. n + k
        /\ (i + 1) + k = (i + k) + 1
    BY <1>1
  <2>2. Weight(u, i + 1) = Weight(s, (i + 1) + k)
    BY <1>6, <2>1
  <2>3. Weight(u, i) = u[i].size + Weight(u, i + 1) /\ Weight(s, i + k) = s[i + k].size + Weight(s, (i + k) + 1)
    BY <1>2, <1>3, <2>1
  <2> QED
    BY <1>4, <2>1, <2>2, <2>3
<1>7. \A d \in Nat : d \in T
  <2> HIDE DEF T
  <2> QED
    BY <1>5, <1>6, NatSetInduction
<1>8. \A i \in 1 .. n + 1 : n + 1 - i \in Nat
  BY <1>1
<1> QED
  BY <1>7, <1>8 DEF n

\* More at the end weighs no less.
LEMMA WeightOfMore ==
    ASSUME NEW e \in Seq(Said), NEW s \in Seq(Said), Len(e) <= Len(s),
           \A j \in 1 .. Len(e) : s[j] = e[j]
    PROVE  \A i \in 1 .. Len(e) + 1 : Weight(e, i) <= Weight(s, i)
<1> DEFINE n == Len(e)
           T == {d \in Nat : \A i \in 1 .. n + 1 : n + 1 - i = d => Weight(e, i) <= Weight(s, i)}
<1>1. n \in Nat /\ Len(s) \in Nat /\ n <= Len(s) /\ \A j \in 1 .. n : e[j].size \in Nat /\ s[j] = e[j]
  BY SaidAt
<1>2. /\ Weight(e, n + 1) = 0
      /\ \A i \in 1 .. n : Weight(e, i) = e[i].size + Weight(e, i + 1)
      /\ \A i \in 1 .. n + 1 : Weight(e, i) \in Nat
  BY WeightSteps
<1>3. /\ \A i \in 1 .. Len(s) : Weight(s, i) = s[i].size + Weight(s, i + 1)
      /\ \A i \in 1 .. Len(s) + 1 : Weight(s, i) \in Nat
  BY WeightSteps
<1> HIDE DEF n
<1>5. 0 \in T
  <2>1. Weight(s, n + 1) \in Nat
    BY <1>1, <1>3
  <2> QED
    BY <1>1, <1>2, <2>1
<1>6. ASSUME NEW d \in Nat, d \in T
      PROVE  d + 1 \in T
  <2> SUFFICES ASSUME NEW i \in 1 .. n + 1, n + 1 - i = d + 1
               PROVE  Weight(e, i) <= Weight(s, i)
    OBVIOUS
  <2>1. i \in 1 .. n /\ i + 1 \in 1 .. n + 1 /\ n + 1 - (i + 1) = d /\ i \in 1 .. Len(s) /\ i + 1 \in 1 .. Len(s) + 1
    BY <1>1
  <2>2. Weight(e, i + 1) <= Weight(s, i + 1)
    BY <1>6, <2>1
  <2>3. Weight(e, i) = e[i].size + Weight(e, i + 1) /\ Weight(s, i) = e[i].size + Weight(s, i + 1)
    BY <1>1, <1>2, <1>3, <2>1
  <2>4. Weight(e, i + 1) \in Nat /\ Weight(s, i + 1) \in Nat /\ e[i].size \in Nat
    BY <1>1, <1>2, <1>3, <2>1
  <2> QED
    BY <2>2, <2>3, <2>4
<1>7. \A d \in Nat : d \in T
  <2> HIDE DEF T
  <2> QED
    BY <1>5, <1>6, NatSetInduction
<1>8. \A i \in 1 .. n + 1 : n + 1 - i \in Nat
  BY <1>1
<1> QED
  BY <1>7, <1>8 DEF n

\* The tail from the i-th on.
LEMMA TailIs ==
    ASSUME NEW s \in Seq(Said), NEW i \in 1 .. Len(s) + 1
    PROVE  /\ SubSeq(s, i, Len(s)) \in Seq(Said)
           /\ Len(SubSeq(s, i, Len(s))) = Len(s) - i + 1
           /\ \A j \in 1 .. Len(s) - i + 1 : SubSeq(s, i, Len(s))[j] = s[j + (i - 1)]
<1> DEFINE L == Len(s)
           u == SubSeq(s, i, L)
<1>1. L \in Nat /\ \A j \in 1 .. L : s[j] \in Said
  BY SaidAt
<1>2. i \in 1 .. L + 1 /\ \A j \in i .. L : s[j] \in Said
  BY <1>1
<1>3. /\ u \in Seq(Said)
      /\ Len(u) = IF i <= L THEN L - i + 1 ELSE 0
      /\ \A j \in 1 .. L - i + 1 : u[j] = s[i + j - 1]
  <2> HIDE DEF L
  <2> QED
    BY <1>1, <1>2, SubSeqProperties
<1> HIDE DEF u, L
<1>4. Len(u) = L - i + 1 /\ \A j \in 1 .. L - i + 1 : i + j - 1 = j + (i - 1)
  BY <1>1, <1>2, <1>3
<1> QED
  BY <1>3, <1>4 DEF u, L

LEMMA CharsOfTail ==
    ASSUME NEW s \in Seq(Said), NEW i \in 1 .. Len(s) + 1
    PROVE  Chars(SubSeq(s, i, Len(s))) = Weight(s, i)
<1> DEFINE u == SubSeq(s, i, Len(s))
           k == i - 1
<1>1. u \in Seq(Said) /\ Len(u) = Len(s) - i + 1 /\ \A j \in 1 .. Len(u) : u[j] = s[j + k]
  BY TailIs
<1>2. k \in Nat /\ Len(s) = Len(u) + k /\ Len(u) \in Nat /\ 1 + k = i /\ 1 \in 1 .. Len(u) + 1
  BY <1>1, SaidAt
<1> HIDE DEF u, k
<1>3. Weight(u, 1) = Weight(s, i)
  BY <1>1, <1>2, WeightOfTail
<1>4. Chars(u) = Weight(u, 1)
  <2>1. DOMAIN u = 1 .. Len(u)
    BY <1>1, SaidAt
  <2>2. DOMAIN [j \in DOMAIN u |-> u[j].size] = DOMAIN u
    OBVIOUS
  <2> QED
    BY <2>1, <2>2 DEF Chars, Weight, SumFunction
<1> QED
  BY <1>3, <1>4 DEF u

\* Where a tail within both limits may start, and that trim takes the first.
Fitting(s) == {i \in 1 .. Len(s) + 1 : Len(s) - i + 1 <= MaxTurns /\ Weight(s, i) <= MaxChars}

LEMMA TrimIs ==
    ASSUME NEW s \in Seq(Said)
    PROVE  \E k \in Fitting(s) : /\ \A i \in Fitting(s) : k <= i
                                 /\ Trim(s) = SubSeq(s, k, Len(s))
<1> DEFINE fits == {i \in 1 .. Len(s) + 1 : /\ Len(s) - i + 1 <= MaxTurns
                                            /\ Chars(SubSeq(s, i, Len(s))) <= MaxChars}
           F == Fitting(s)
<1>1. fits = F
  BY CharsOfTail DEF Fitting
<1>2. Len(s) \in Nat /\ MaxTurns \in Nat /\ MaxChars \in Nat
  BY SaidAt, ConversationsAssumption
<1>3. Len(s) + 1 \in F
  <2>1. Weight(s, Len(s) + 1) = 0
    BY WeightSteps
  <2> QED
    BY <1>2, <2>1 DEF Fitting
<1>4. F \subseteq Nat
  BY <1>2 DEF Fitting
<1>5. Trim(s) = SubSeq(s, Min(fits), Len(s))
  BY DEF Trim
<1> HIDE DEF fits, F
<1>6. Min(F) \in F /\ \A i \in F : Min(F) <= i
  <2>1. \E k \in F : \A i \in F : k <= i
    BY <1>3, <1>4, LeastNat
  <2> QED
    BY <2>1 DEF Min
<1> QED
  BY <1>1, <1>5, <1>6 DEF F

LEMMA ConcatSaid ==
    ASSUME NEW e \in Seq(Said), NEW t \in Seq(Said)
    PROVE  /\ e \o t \in Seq(Said) /\ Len(e \o t) = Len(e) + Len(t)
           /\ \A j \in 1 .. Len(e) : (e \o t)[j] = e[j]
           /\ \A j \in 1 .. Len(t) : (e \o t)[j + Len(e)] = t[j]
<1>1. /\ e \o t \in Seq(Said) /\ Len(e \o t) = Len(e) + Len(t)
      /\ \A i \in 1 .. Len(e) + Len(t) : (e \o t)[i] = IF i <= Len(e) THEN e[i] ELSE t[i - Len(e)]
  BY ConcatProperties
<1>2. Len(e) \in Nat /\ Len(t) \in Nat
  BY SaidAt
<1> DEFINE c == e \o t
<1> HIDE DEF c
<1> SUFFICES /\ \A j \in 1 .. Len(e) : c[j] = e[j]
             /\ \A j \in 1 .. Len(t) : c[j + Len(e)] = t[j]
  BY <1>1 DEF c
<1>3. \A i \in 1 .. Len(e) + Len(t) : c[i] = IF i <= Len(e) THEN e[i] ELSE t[i - Len(e)]
  BY <1>1 DEF c
<1> DEFINE n == Len(e)
<1> HIDE DEF n
<1>4. \A j \in 1 .. n : j \in 1 .. n + Len(t) /\ j <= n
  BY <1>2 DEF n
<1>5. \A j \in 1 .. Len(t) : j + n \in 1 .. n + Len(t) /\ ~(j + n <= n) /\ (j + n) - n = j
  BY <1>2 DEF n
<1> QED
  BY <1>3, <1>4, <1>5 DEF n

\* Trimming before more is added changes nothing of what is kept after it.
LEMMA TrimOfTrim ==
    ASSUME NEW e \in Seq(Said), NEW t \in Seq(Said)
    PROVE  Trim(Trim(e) \o t) = Trim(e \o t)
<1>1. PICK k \in Fitting(e) : (\A i \in Fitting(e) : k <= i) /\ Trim(e) = SubSeq(e, k, Len(e))
  BY TrimIs
<1> DEFINE v == Trim(e)
           u == v \o t
           s == e \o t
           E == Len(e)
           N == Len(t)
           d == k - 1
<1>2. E \in Nat /\ N \in Nat /\ k \in 1 .. E + 1 /\ MaxTurns \in Nat /\ MaxChars \in Nat
  BY SaidAt, ConversationsAssumption DEF Fitting
<1>3. v \in Seq(Said) /\ Len(v) = E - k + 1 /\ \A j \in 1 .. E - k + 1 : v[j] = e[j + d]
  BY <1>1, <1>2, TailIs
<1>4. /\ s \in Seq(Said) /\ Len(s) = E + N
      /\ \A j \in 1 .. E : s[j] = e[j]
      /\ \A j \in 1 .. N : s[j + E] = t[j]
  BY ConcatSaid
<1> HIDE DEF v
<1>5. /\ u \in Seq(Said) /\ Len(u) = Len(v) + N
      /\ \A j \in 1 .. Len(v) : u[j] = v[j]
      /\ \A j \in 1 .. N : u[j + Len(v)] = t[j]
  BY <1>3, ConcatSaid
<1> HIDE DEF u, s, E, N, d
<1>6. d \in Nat /\ d = k - 1 /\ Len(s) = Len(u) + d /\ Len(u) \in Nat
  BY <1>2, <1>3, <1>4, <1>5 DEF d
<1>7. \A j \in 1 .. Len(u) : u[j] = s[j + d]
  <2> TAKE j \in 1 .. Len(u)
  <2>1. CASE j <= Len(v)
    <3>1. j \in 1 .. Len(v) /\ j \in 1 .. E - k + 1 /\ j + d \in 1 .. E
      BY <1>2, <1>3, <1>6, <2>1
    <3> QED
      BY <1>3, <1>4, <1>5, <3>1
  <2>2. CASE ~(j <= Len(v))
    <3> DEFINE i == j - Len(v)
    <3>1. i \in 1 .. N /\ j = i + Len(v) /\ j + d = i + E
      BY <1>2, <1>3, <1>5, <1>6, <2>2
    <3> HIDE DEF i
    <3> QED
      BY <1>4, <1>5, <3>1
  <2> QED
    BY <2>1, <2>2
<1>8. \A i \in 1 .. Len(u) + 1 : Weight(u, i) = Weight(s, i + d)
  BY <1>4, <1>5, <1>6, <1>7, WeightOfTail
<1>9. PICK m \in Fitting(s) : (\A i \in Fitting(s) : m <= i) /\ Trim(s) = SubSeq(s, m, Len(s))
  BY <1>4, TrimIs
<1>10. PICK n \in Fitting(u) : (\A i \in Fitting(u) : n <= i) /\ Trim(u) = SubSeq(u, n, Len(u))
  BY <1>5, TrimIs
<1>11. /\ m \in 1 .. Len(s) + 1 /\ Len(s) - m + 1 <= MaxTurns /\ Weight(s, m) <= MaxChars
       /\ n \in 1 .. Len(u) + 1 /\ Len(u) - n + 1 <= MaxTurns /\ Weight(u, n) <= MaxChars
  BY <1>9, <1>10 DEF Fitting
<1>12. k <= m
  <2> SUFFICES ASSUME ~(k <= m) PROVE FALSE
    OBVIOUS
  <2>1. m \in 1 .. E + 1 /\ E - m + 1 <= MaxTurns
    BY <1>2, <1>4, <1>11
  <2>2. Weight(e, m) <= Weight(s, m)
    <3>1. Len(e) <= Len(s) /\ (\A j \in 1 .. Len(e) : s[j] = e[j]) /\ m \in 1 .. Len(e) + 1
      BY <1>2, <1>4, <2>1 DEF E
    <3> QED
      BY <1>4, <3>1, WeightOfMore
  <2>3. Weight(e, m) \in Nat /\ Weight(s, m) \in Nat
    BY <1>4, <1>11, <2>1, WeightSteps DEF E
  <2>4. Weight(e, m) <= MaxChars
    BY <1>2, <1>11, <2>2, <2>3
  <2>5. m \in Fitting(e)
    BY <2>1, <2>4 DEF Fitting, E
  <2> QED
    BY <1>1, <1>2, <1>11, <2>5
<1>13. n + d = m
  <2>1. n + d \in Fitting(s)
    <3>1. n + d \in 1 .. Len(s) + 1 /\ Len(s) - (n + d) + 1 <= MaxTurns
      BY <1>6, <1>11
    <3>2. Weight(s, n + d) <= MaxChars
      BY <1>8, <1>11
    <3> QED
      BY <3>1, <3>2 DEF Fitting
  <2>2. m - d \in Fitting(u)
    <3>1. m - d \in 1 .. Len(u) + 1 /\ Len(u) - (m - d) + 1 <= MaxTurns /\ (m - d) + d = m
      <4>1. m \in Nat /\ k \in Nat /\ d = k - 1 /\ k >= 1 /\ k <= m /\ m <= Len(s) + 1
        BY <1>2, <1>4, <1>6, <1>11, <1>12
      <4>2. m - d \in Nat /\ m - d >= 1 /\ (m - d) + d = m
        BY <4>1
      <4>3. Len(s) = Len(u) + d /\ Len(u) \in Nat /\ d \in Nat /\ Len(s) - m + 1 <= MaxTurns
        BY <1>6, <1>11
      <4>4. m - d <= Len(u) + 1 /\ Len(u) - (m - d) + 1 = Len(s) - m + 1
        BY <4>1, <4>3
      <4> QED
        BY <4>2, <4>3, <4>4
    <3>2. Weight(u, m - d) <= MaxChars
      BY <1>8, <1>11, <3>1
    <3> QED
      BY <3>1, <3>2 DEF Fitting
  <2>3. m <= n + d /\ n <= m - d
    BY <1>9, <1>10, <2>1, <2>2
  <2>4. m \in Nat /\ n \in Nat
    BY <1>4, <1>6, <1>11
  <2> QED
    BY <1>6, <2>3, <2>4
<1>14. SubSeq(u, n, Len(u)) = SubSeq(s, m, Len(s))
  <2> DEFINE a == SubSeq(u, n, Len(u))
             b == SubSeq(s, m, Len(s))
             z == Len(u) - n + 1
  <2>1. a \in Seq(Said) /\ Len(a) = z /\ \A j \in 1 .. z : a[j] = u[j + (n - 1)]
    BY <1>5, <1>11, TailIs
  <2>2. b \in Seq(Said) /\ Len(b) = Len(s) - m + 1 /\ \A j \in 1 .. Len(s) - m + 1 : b[j] = s[j + (m - 1)]
    BY <1>4, <1>11, TailIs
  <2>3. Len(s) - m + 1 = z
    BY <1>6, <1>11, <1>13
  <2>4. \A j \in 1 .. z : a[j] = b[j]
    <3> TAKE j \in 1 .. z
    <3>1. j + (n - 1) \in 1 .. Len(u) /\ (j + (n - 1)) + d = j + (m - 1)
      BY <1>6, <1>11, <1>13
    <3> HIDE DEF a, b, z
    <3> QED
      BY <1>7, <2>1, <2>2, <2>3, <3>1
  <2> HIDE DEF a, b, z
  <2>5. a = b
    BY <2>1, <2>2, <2>3, <2>4, SeqEqual
  <2> QED
    BY <2>5 DEF a, b
<1> QED
  BY <1>9, <1>10, <1>14 DEF u, v, s

\* No two messages of one mark.
MarkedOnce(s) == \A i, j \in DOMAIN s : s[i].turn = s[j].turn /\ s[i].nth = s[j].nth => i = j

LEMMA TrimKeeps ==
    ASSUME NEW s \in Seq(Said), MarkedOnce(s)
    PROVE  Trim(s) \in Seq(Said) /\ MarkedOnce(Trim(s))
<1>1. PICK k \in Fitting(s) : Trim(s) = SubSeq(s, k, Len(s))
  BY TrimIs
<1>2. k \in 1 .. Len(s) + 1 /\ Len(s) \in Nat /\ DOMAIN s = 1 .. Len(s)
  BY SaidAt DEF Fitting
<1> DEFINE u == Trim(s)
<1>3. /\ u \in Seq(Said) /\ Len(u) = Len(s) - k + 1
      /\ \A j \in 1 .. Len(s) - k + 1 : u[j] = s[j + (k - 1)]
  BY <1>1, <1>2, TailIs
<1> HIDE DEF u
<1>4. DOMAIN u = 1 .. Len(s) - k + 1
  BY <1>3, SaidAt
<1>5. MarkedOnce(u)
  <2> SUFFICES ASSUME NEW i \in DOMAIN u, NEW j \in DOMAIN u, u[i].turn = u[j].turn, u[i].nth = u[j].nth
               PROVE  i = j
    BY DEF MarkedOnce
  <2> DEFINE a == i + (k - 1)
             b == j + (k - 1)
  <2>1. a \in DOMAIN s /\ b \in DOMAIN s
    BY <1>2, <1>4
  <2>2. u[i] = s[a] /\ u[j] = s[b]
    BY <1>3, <1>4
  <2> HIDE DEF a, b
  <2>3. a = b
    BY <2>1, <2>2 DEF MarkedOnce
  <2> QED
    BY <1>2, <1>4, <2>3 DEF a, b
<1> QED
  BY <1>3, <1>5 DEF u

LEMMA ConcatMarked ==
    ASSUME NEW e \in Seq(Said), NEW q \in Seq(Said), MarkedOnce(e), MarkedOnce(q),
           \A i \in DOMAIN e, j \in DOMAIN q : e[i].turn # q[j].turn
    PROVE  MarkedOnce(e \o q)
<1> DEFINE c == e \o q
           n == Len(e)
<1>1. /\ Len(e) \in Nat /\ Len(q) \in Nat /\ DOMAIN e = 1 .. Len(e) /\ DOMAIN q = 1 .. Len(q)
      /\ Len(c) = Len(e) + Len(q)
      /\ \A j \in 1 .. Len(e) : c[j] = e[j]
      /\ \A j \in 1 .. Len(q) : c[j + Len(e)] = q[j]
  BY ConcatSaid, SaidAt
<1>2. DOMAIN c = 1 .. n + Len(q)
  BY <1>1, ConcatSaid, SaidAt
<1> HIDE DEF c
<1>3. \A i \in DOMAIN c : \/ i \in DOMAIN e /\ c[i] = e[i]
                          \/ i - n \in DOMAIN q /\ c[i] = q[i - n]
  <2> TAKE i \in DOMAIN c
  <2>1. CASE i <= n
    BY <1>1, <1>2, <2>1
  <2>2. CASE ~(i <= n)
    <3> DEFINE j == i - n
    <3>1. j \in 1 .. Len(q) /\ i = j + n
      BY <1>1, <1>2, <2>2
    <3> HIDE DEF j
    <3>2. c[i] = q[j]
      BY <1>1, <3>1
    <3> QED
      BY <1>1, <3>1, <3>2 DEF j
  <2> QED
    BY <2>1, <2>2
<1> SUFFICES ASSUME NEW i \in DOMAIN c, NEW j \in DOMAIN c, c[i].turn = c[j].turn, c[i].nth = c[j].nth
             PROVE  i = j
  BY DEF MarkedOnce, c
<1> HIDE DEF n
<1>4. CASE i \in DOMAIN e /\ c[i] = e[i] /\ j \in DOMAIN e /\ c[j] = e[j]
  BY <1>4 DEF MarkedOnce
<1>5. CASE i - n \in DOMAIN q /\ c[i] = q[i - n] /\ j - n \in DOMAIN q /\ c[j] = q[j - n]
  <2>1. i - n = j - n
    BY <1>5 DEF MarkedOnce
  <2> QED
    BY <1>1, <1>2, <2>1 DEF n
<1>6. ~(i \in DOMAIN e /\ c[i] = e[i] /\ j - n \in DOMAIN q /\ c[j] = q[j - n])
  OBVIOUS
<1>7. ~(j \in DOMAIN e /\ c[j] = e[j] /\ i - n \in DOMAIN q /\ c[i] = q[i - n])
  OBVIOUS
<1> QED
  BY <1>3, <1>4, <1>5, <1>6, <1>7

\* What a request brought, as Marked marks it.
Message == [turn : Turns, nth : Nat, role : {"system", "user", "assistant"}, size : Nat]
BodyOf(t, body) ==
    /\ body \in Seq(Message)
    /\ \A i \in 1 .. Len(body) : body[i].turn = t /\ body[i].nth = i

LEMMA MarkedIs ==
    ASSUME NEW t \in Turns, NEW b \in Bodies
    PROVE  BodyOf(t, Marked(t, b))
<1> DEFINE R == [role : {"system", "user"}, size : Nat]
           u == Marked(t, b)
<1>1. b \in Seq(R)
  BY ConversationsAssumption
<1>2. Len(b) \in Nat /\ DOMAIN b = 1 .. Len(b) /\ \A i \in 1 .. Len(b) : b[i] \in R
  <2> HIDE DEF R
  <2> QED
    BY <1>1, LenProperties, ElementOfSeq
<1>3. u = [i \in 1 .. Len(b) |-> [turn |-> t, nth |-> i, role |-> b[i].role, size |-> b[i].size]]
  BY <1>2 DEF Marked
<1>4. \A i \in 1 .. Len(b) : u[i] \in Message /\ u[i].turn = t /\ u[i].nth = i
  <2> TAKE i \in 1 .. Len(b)
  <2>1. u[i] = [turn |-> t, nth |-> i, role |-> b[i].role, size |-> b[i].size]
    BY <1>3
  <2>2. i \in Nat /\ b[i].role \in {"system", "user"} /\ b[i].size \in Nat
    BY <1>2
  <2> QED
    BY <2>1, <2>2 DEF Message
<1>5. u = [i \in 1 .. Len(b) |-> u[i]]
  BY <1>3
<1> HIDE DEF u
<1>6. u \in Seq(Message) /\ Len(u) = Len(b)
  BY <1>2, <1>4, <1>5, SeqDef, LenProperties
<1> QED
  BY <1>4, <1>6 DEF BodyOf, u

LEMMA TurnOfIs ==
    ASSUME NEW t \in Turns, BodyOf(t, turn[t].body), turn[t].reply \in Nat
    PROVE  /\ TurnOf(t) \in Seq(Said) /\ MarkedOnce(TurnOf(t))
           /\ \A i \in DOMAIN TurnOf(t) : TurnOf(t)[i].turn = t
<1> DEFINE body == turn[t].body
           end == IF turn[t].reply > 0 THEN <<Answer(t, turn[t].reply)>> ELSE <<>>
           said == body \o end
           S == {m \in Range(said) \ System(said) : m.size > 0}
           u == Only(said, S)
<1>1. TurnOf(t) = u
  BY DEF TurnOf
<1>2. /\ body \in Seq(Message) /\ Len(body) \in Nat
      /\ \A i \in 1 .. Len(body) : body[i].turn = t /\ body[i].nth = i
  BY LenProperties DEF BodyOf
<1>3. /\ end \in Seq(Message) /\ Len(end) \in Nat /\ Len(end) <= 1
      /\ \A i \in 1 .. Len(end) : i = 1 /\ end[i].turn = t /\ end[i].nth = 0
  <2> DEFINE a == Answer(t, turn[t].reply)
  <2>1. a \in Message /\ a.turn = t /\ a.nth = 0
    BY DEF Answer, Message
  <2> HIDE DEF a
  <2>2. <<a>> \in Seq(Message) /\ Len(<<a>>) = 1 /\ <<a>>[1] = a
    BY <2>1
  <2>3. CASE turn[t].reply > 0
    BY <2>1, <2>2, <2>3 DEF a
  <2>4. CASE ~(turn[t].reply > 0)
    BY <2>4
  <2> QED
    BY <2>3, <2>4
<1> HIDE DEF body, end
<1>4. /\ said \in Seq(Message) /\ Len(said) = Len(body) + Len(end)
      /\ \A i \in 1 .. Len(body) + Len(end) : said[i] = IF i <= Len(body) THEN body[i] ELSE end[i - Len(body)]
  BY <1>2, <1>3, ConcatProperties
<1>5. DOMAIN said = 1 .. Len(body) + Len(end) /\ \A i \in DOMAIN said : said[i] \in Message
  BY <1>4, LenProperties, ElementOfSeq
<1> HIDE DEF said
<1>6. \A i \in DOMAIN said : said[i].turn = t /\ said[i].nth = (IF i <= Len(body) THEN i ELSE 0)
  <2> TAKE i \in DOMAIN said
  <2>1. CASE i <= Len(body)
    <3>1. i \in 1 .. Len(body) /\ said[i] = body[i]
      BY <1>2, <1>3, <1>4, <1>5, <2>1
    <3> QED
      BY <1>2, <2>1, <3>1
  <2>2. CASE ~(i <= Len(body))
    <3> DEFINE j == i - Len(body)
    <3>1. j \in 1 .. Len(end) /\ said[i] = end[j]
      BY <1>2, <1>3, <1>4, <1>5, <2>2
    <3> HIDE DEF j
    <3> QED
      BY <1>3, <2>2, <3>1
  <2> QED
    BY <2>1, <2>2
<1>7. \A i, j \in DOMAIN said : said[i].nth = said[j].nth => i = j
  <2> SUFFICES ASSUME NEW i \in DOMAIN said, NEW j \in DOMAIN said, said[i].nth = said[j].nth
               PROVE  i = j
    OBVIOUS
  <2> DEFINE x == Len(body)
             y == Len(end)
  <2>1. x \in Nat /\ y \in Nat /\ y <= 1 /\ i \in 1 .. x + y /\ j \in 1 .. x + y
    BY <1>2, <1>3, <1>5
  <2>2. (IF i <= x THEN i ELSE 0) = (IF j <= x THEN j ELSE 0)
    BY <1>6
  <2> HIDE DEF x, y
  <2> QED
    BY <2>1, <2>2
<1>8. IsInjective(said)
  BY <1>7 DEF IsInjective
<1>9. u \in Seq(Message \cap S) /\ Range(u) = Range(said) \cap S /\ IsInjective(u)
  <2> HIDE DEF S
  <2> QED
    BY <1>4, <1>8, OnlyRange, OnlyOnce
<1>10. Message \cap S \subseteq Said
  <2> SUFFICES ASSUME NEW m \in Message, m \in Range(said), m \notin System(said)
               PROVE  m \in Said
    OBVIOUS
  <2>1. m.role # "system"
    BY DEF System
  <2> QED
    BY <2>1 DEF Message, Said
<1> HIDE DEF S, u
<1>11. u \in Seq(Said) /\ DOMAIN u = 1 .. Len(u)
  <2>1. Len(u) \in Nat /\ u = [i \in 1 .. Len(u) |-> u[i]] /\ \A i \in 1 .. Len(u) : u[i] \in Said
    BY <1>9, <1>10, LenProperties, ElementOfSeq
  <2> QED
    BY <2>1, SeqDef
<1>12. \A i \in DOMAIN u : \E a \in DOMAIN said : u[i] = said[a]
  <2> TAKE i \in DOMAIN u
  <2>1. u[i] \in Range(u)
    BY DEF Range
  <2>2. u[i] \in Range(said)
    BY <1>9, <2>1
  <2> QED
    BY <2>2 DEF Range
<1>13. MarkedOnce(u)
  <2> SUFFICES ASSUME NEW i \in DOMAIN u, NEW j \in DOMAIN u, u[i].nth = u[j].nth
               PROVE  i = j
    BY DEF MarkedOnce
  <2>1. PICK a \in DOMAIN said : u[i] = said[a]
    BY <1>12
  <2>2. PICK b \in DOMAIN said : u[j] = said[b]
    BY <1>12
  <2>3. a = b
    BY <1>7, <2>1, <2>2
  <2> QED
    BY <1>9, <2>1, <2>2, <2>3 DEF IsInjective
<1>14. \A i \in DOMAIN u : u[i].turn = t
  BY <1>6, <1>12
<1> QED
  BY <1>1, <1>11, <1>13, <1>14

\* One request and the marks it may still bring.
TurnTyped(t) ==
    /\ DOMAIN turn[t] = {"pc", "of", "body", "sent", "reply"}
    /\ turn[t].reply \in Nat
    /\ turn[t].pc \in {"idle", "asking", "saving", "over"}
    /\ turn[t].pc \in {"asking", "saving"} => /\ turn[t].of \in Conversation
                                              /\ BodyOf(t, turn[t].body)

\* One conversation: what its file holds of what was stored, each mark once,
\* and none of a request that has yet to store its turn.
KeptOf(c) ==
    /\ ever[c] \in Seq(Said) /\ MarkedOnce(ever[c])
    /\ IF file[c] = NoFile THEN ever[c] = <<>> ELSE file[c] = Trim(ever[c])
    /\ \A t \in Turns : turn[t].pc # "over" => \A i \in DOMAIN ever[c] : ever[c][i].turn # t

MemoryInv ==
    /\ DOMAIN turn = Turns /\ DOMAIN file = Conversation /\ DOMAIN ever = Conversation
    /\ \A t \in Turns : TurnTyped(t)
    /\ \A c \in Conversation : KeptOf(c)

\* A step of one request that stores nothing.
LEMMA OneTurn ==
    ASSUME MemoryInv, NEW t \in Turns, NEW q, turn' = [turn EXCEPT ![t] = q], turn[t].pc # "over",
           UNCHANGED <<file, ever>>, TurnTyped(t)'
    PROVE  MemoryInv'
<1>1. DOMAIN turn' = Turns /\ \A x \in Turns : x # t => turn'[x] = turn[x]
  BY DEF MemoryInv
<1>2. \A x \in Turns : TurnTyped(x)'
  BY <1>1 DEF MemoryInv, TurnTyped
<1>3. ASSUME NEW c \in Conversation PROVE KeptOf(c)'
  <2>1. KeptOf(c)
    BY DEF MemoryInv
  <2>2. file'[c] = file[c] /\ ever'[c] = ever[c]
    OBVIOUS
  <2>3. \A x \in Turns : turn'[x].pc # "over" => turn[x].pc # "over"
    BY <1>1
  <2> QED
    BY <2>1, <2>2, <2>3 DEF KeptOf
<1> QED
  BY <1>1, <1>2, <1>3 DEF MemoryInv

LEMMA RememberKeeps ==
    ASSUME MemoryInv, NEW t \in Turns, Remember(t)
    PROVE  MemoryInv'
<1>1. turn[t].pc = "saving" /\ turn' = [turn EXCEPT ![t].pc = "over"]
  BY DEF Remember
<1>0. PICK c \in Conversation : c = turn[t].of
  BY <1>1 DEF MemoryInv, TurnTyped
<1> DEFINE q == TurnOf(t)
           n == [turn[t] EXCEPT !.pc = "over"]
<1>2. TurnTyped(t) /\ c \in Conversation /\ BodyOf(t, turn[t].body) /\ KeptOf(c)
  BY <1>0, <1>1 DEF MemoryInv, TurnTyped
<1>3. turn' = [turn EXCEPT ![t] = n] /\ turn'[t] = n /\ n.pc = "over"
  BY <1>1, <1>2 DEF MemoryInv, TurnTyped
<1>4. TurnTyped(t)'
  BY <1>2, <1>3 DEF TurnTyped
<1>5. CASE UNCHANGED <<file, ever>>
  <2> HIDE DEF n
  <2> QED
    BY <1>1, <1>3, <1>4, <1>5, OneTurn
<1>6. ASSUME NEW b, NEW v, \/ b = Stored(c) /\ v = ever[c]
                           \/ b = <<>> /\ v = <<>>,
             file' = [file EXCEPT ![c] = Trim(b \o q)],
             ever' = [ever EXCEPT ![c] = v \o q]
      PROVE  MemoryInv'
  <2> DEFINE e == v \o q
  <2>1. q \in Seq(Said) /\ MarkedOnce(q) /\ \A i \in DOMAIN q : q[i].turn = t
    BY <1>2, TurnOfIs DEF TurnTyped
  <2> HIDE DEF n, q, e
  <2>2. /\ v \in Seq(Said) /\ MarkedOnce(v)
        /\ \A x \in Turns : turn[x].pc # "over" => \A i \in DOMAIN v : v[i].turn # x
    <3>1. CASE b = Stored(c) /\ v = ever[c]
      BY <1>2, <3>1 DEF KeptOf
    <3>2. CASE b = <<>> /\ v = <<>>
      BY <3>2 DEF MarkedOnce
    <3> QED
      BY <1>6, <3>1, <3>2
  <2>3. e \in Seq(Said) /\ MarkedOnce(e)
    <3>1. e \in Seq(Said)
      BY <2>1, <2>2, ConcatSaid DEF e
    <3>2. \A i \in DOMAIN v, j \in DOMAIN q : v[i].turn # q[j].turn
      BY <1>1, <2>1, <2>2
    <3>3. MarkedOnce(e)
      <4>1. MarkedOnce(v \o q)
        BY <2>1, <2>2, <3>2, ConcatMarked
      <4> QED
        BY <4>1 DEF e
    <3> QED
      BY <3>1, <3>3
  <2>4. Trim(b \o q) = Trim(e)
    <3>1. CASE b = v
      BY <3>1 DEF e
    <3>2. CASE b = Stored(c) /\ v = ever[c] /\ file[c] = NoFile
      BY <1>2, <3>2 DEF KeptOf, Stored, e
    <3>3. CASE b = Stored(c) /\ v = ever[c] /\ file[c] # NoFile
      <4>1. Stored(c) = Trim(ever[c])
        BY <1>2, <3>3 DEF KeptOf, Stored
      <4> QED
        BY <2>1, <2>2, <3>3, <4>1, TrimOfTrim DEF e
    <3> QED
      BY <1>6, <3>1, <3>2, <3>3
  <2>5. Trim(e) # NoFile
    BY <2>3, TrimKeeps, ConversationsAssumption DEF Said
  <2>6. /\ DOMAIN file' = Conversation /\ DOMAIN ever' = Conversation /\ DOMAIN turn' = Turns
        /\ file'[c] = Trim(e) /\ ever'[c] = e
        /\ \A d \in Conversation : d # c => file'[d] = file[d] /\ ever'[d] = ever[d]
    BY <1>2, <1>3, <1>6, <2>4 DEF MemoryInv, e
  <2>7. \A x \in Turns : x # t => turn'[x] = turn[x]
    BY <1>3 DEF MemoryInv
  <2>8. \A x \in Turns : TurnTyped(x)'
    BY <1>4, <2>7 DEF MemoryInv, TurnTyped
  <2>9. ASSUME NEW i \in DOMAIN e, NEW x \in Turns, x # t, turn[x].pc # "over"
        PROVE  e[i].turn # x
    <3> DEFINE k == Len(v)
    <3>1. /\ Len(v) \in Nat /\ Len(q) \in Nat /\ DOMAIN v = 1 .. Len(v) /\ DOMAIN q = 1 .. Len(q)
          /\ DOMAIN e = 1 .. Len(v) + Len(q)
          /\ \A j \in 1 .. Len(v) : e[j] = v[j]
          /\ \A j \in 1 .. Len(q) : e[j + Len(v)] = q[j]
      BY <2>1, <2>2, <2>3, SaidAt, ConcatSaid DEF e
    <3>2. \A j \in DOMAIN v : v[j].turn # x
      BY <2>2, <2>9
    <3>3. CASE i <= k
      BY <3>1, <3>2, <3>3
    <3>4. CASE ~(i <= k)
      <4> DEFINE j == i - k
      <4>1. j \in 1 .. Len(q) /\ i = j + k
        <5>1. k \in Nat /\ Len(q) \in Nat /\ i \in 1 .. k + Len(q)
          BY <3>1
        <5> HIDE DEF k
        <5> QED
          BY <3>4, <5>1
      <4> HIDE DEF j
      <4>2. e[i] = q[j]
        BY <3>1, <4>1
      <4> QED
        BY <2>1, <2>9, <3>1, <4>1, <4>2
    <3> QED
      BY <3>3, <3>4
  <2>10. KeptOf(c)'
    <3>1. \A x \in Turns : turn'[x].pc # "over" => x # t /\ turn[x].pc # "over"
      BY <1>3, <2>7
    <3>2. \A x \in Turns : turn'[x].pc # "over" => \A i \in DOMAIN e : e[i].turn # x
      BY <2>9, <3>1
    <3> QED
      BY <2>3, <2>5, <2>6, <3>2 DEF KeptOf
  <2>11. ASSUME NEW d \in Conversation, d # c PROVE KeptOf(d)'
    <3>1. KeptOf(d)
      BY DEF MemoryInv
    <3>2. \A x \in Turns : turn'[x].pc # "over" => turn[x].pc # "over"
      BY <1>3, <2>7
    <3> QED
      BY <2>6, <2>11, <3>1, <3>2 DEF KeptOf
  <2> QED
    BY <2>6, <2>8, <2>10, <2>11 DEF MemoryInv
<1> QED
  BY <1>0, <1>5, <1>6 DEF Remember

\* A file is what trim leaves of what was stored in its conversation (since it was
\* deleted, or replaced because it could not be read), and what
\* a turn has yet to store is nowhere in it: trimming again forgets nothing that
\* trimming once would have kept (memory.Append, trim).
THEOREM MemoryIsSound == ConversationsSpec => []MemoryInv
<1>1. ConversationsInit => MemoryInv
  <2> SUFFICES ASSUME ConversationsInit PROVE MemoryInv
    OBVIOUS
  <2>1. <<>> \in Seq(Said) /\ MarkedOnce(<<>>) /\ DOMAIN << >> = {}
    BY DEF MarkedOnce
  <2>2. \A c \in Conversation : ever[c] = <<>> /\ file[c] = NoFile
    BY DEF ConversationsInit
  <2>3. \A c \in Conversation : KeptOf(c)
    BY <2>1, <2>2 DEF KeptOf
  <2>4. \A t \in Turns : TurnTyped(t)
    BY DEF ConversationsInit, TurnTyped, Resting
  <2> QED
    BY <2>3, <2>4 DEF MemoryInv, ConversationsInit
<1>2. MemoryInv /\ [ConversationsNext]_conversationsVars => MemoryInv'
  <2> SUFFICES ASSUME MemoryInv, [ConversationsNext]_conversationsVars PROVE MemoryInv'
    OBVIOUS
  <2>1. ASSUME NEW t \in Turns, NEW c \in Conversation, NEW b \in Bodies, Replay(t, c, b)
        PROVE  MemoryInv'
    <3> DEFINE Sending(msgs) == [Resting EXCEPT !.pc = "asking", !.of = c, !.body = Marked(t, b),
                                                !.sent = msgs]
    <3>0. turn[t].pc = "idle" /\ UNCHANGED <<file, ever>>
          /\ \E msgs : turn' = [turn EXCEPT ![t] = Sending(msgs)]
      BY <2>1 DEF Replay
    <3> PICK msgs : turn' = [turn EXCEPT ![t] = Sending(msgs)]
      BY <3>0
    <3> DEFINE n == Sending(msgs)
    <3>1. turn[t].pc = "idle" /\ turn' = [turn EXCEPT ![t] = n] /\ UNCHANGED <<file, ever>>
      BY <3>0
    <3>2. n.pc = "asking" /\ n.of = c /\ n.body = Marked(t, b) /\ n.reply = 0
          /\ DOMAIN n = {"pc", "of", "body", "sent", "reply"}
      BY DEF Resting
    <3> HIDE DEF n, Sending
    <3>3. turn'[t] = n
      BY <3>1 DEF MemoryInv
    <3>4. TurnTyped(t)'
      BY <3>2, <3>3, MarkedIs DEF TurnTyped
    <3> QED
      BY <3>1, <3>4, OneTurn
  <2>2. ASSUME NEW t \in Turns, NoNamespace(t) \/ NoAnswer(t)
        PROVE  MemoryInv'
    <3> DEFINE n == [turn[t] EXCEPT !.pc = "over"]
    <3>0. turn[t].pc # "over" /\ turn' = [turn EXCEPT ![t].pc = "over"] /\ UNCHANGED <<file, ever>>
      BY <2>2 DEF NoNamespace, NoAnswer
    <3>1. TurnTyped(t) /\ t \in DOMAIN turn
      BY DEF MemoryInv
    <3>2. turn' = [turn EXCEPT ![t] = n] /\ turn'[t] = n
      BY <3>0, <3>1
    <3>3. TurnTyped(t)'
      BY <3>1, <3>2 DEF TurnTyped
    <3> HIDE DEF n
    <3> QED
      BY <3>0, <3>2, <3>3, OneTurn
  <2>3. ASSUME NEW t \in Turns, NEW size \in Replies, AnswerCame(t, size)
        PROVE  MemoryInv'
    <3> DEFINE n == [turn[t] EXCEPT !.pc = "saving", !.reply = size]
    <3>0. turn[t].pc = "asking" /\ UNCHANGED <<file, ever>> /\ size \in Nat
          /\ turn' = [turn EXCEPT ![t].pc = "saving", ![t].reply = size]
      BY <2>3, ConversationsAssumption DEF AnswerCame
    <3>1. TurnTyped(t) /\ t \in DOMAIN turn
      BY DEF MemoryInv
    <3>2. turn' = [turn EXCEPT ![t] = n] /\ turn'[t] = n
      BY <3>0, <3>1
    <3>3. TurnTyped(t)'
      BY <3>0, <3>1, <3>2 DEF TurnTyped
    <3> HIDE DEF n
    <3> QED
      BY <3>0, <3>2, <3>3, OneTurn
  <2>4. ASSUME NEW c \in Conversation, Forget(c)
        PROVE  MemoryInv'
    <3>1. /\ file' = [file EXCEPT ![c] = NoFile] /\ ever' = [ever EXCEPT ![c] = <<>>] /\ turn' = turn
      BY <2>4 DEF Forget
    <3>2. <<>> \in Seq(Said) /\ MarkedOnce(<<>>) /\ DOMAIN << >> = {}
      BY DEF MarkedOnce
    <3>3. ASSUME NEW d \in Conversation PROVE KeptOf(d)'
      <4>1. KeptOf(d)
        BY DEF MemoryInv
      <4>2. CASE d = c
        <5>1. file'[d] = NoFile /\ ever'[d] = <<>>
          BY <3>1, <4>2 DEF MemoryInv
        <5> QED
          BY <3>2, <5>1 DEF KeptOf
      <4>3. CASE d # c
        <5>1. file'[d] = file[d] /\ ever'[d] = ever[d]
          BY <3>1, <4>3 DEF MemoryInv
        <5> QED
          BY <3>1, <4>1, <5>1 DEF KeptOf
      <4> QED
        BY <4>2, <4>3
    <3> QED
      BY <3>1, <3>3 DEF MemoryInv, TurnTyped
  <2>5. CASE UNCHANGED conversationsVars
    <3>1. turn' = turn /\ file' = file /\ ever' = ever
      BY <2>5 DEF conversationsVars
    <3>2. \A c \in Conversation : KeptOf(c)'
      BY <3>1 DEF MemoryInv, KeptOf
    <3> QED
      BY <3>1, <3>2 DEF MemoryInv, TurnTyped
  <2> QED
    BY <2>1, <2>2, <2>3, <2>4, <2>5, RememberKeeps DEF ConversationsNext
<1> QED
  BY <1>1, <1>2, PTL DEF ConversationsSpec

\* However turns of one conversation overlap, its file holds the end of all that
\* was stored in it since it was deleted or found unreadable, each message once
\* (memory.Append, trim).
THEOREM TurnsAreKept == ConversationsSpec => []HistoryIsTheTail
<1>1. MemoryInv => HistoryIsTheTail
  <2> SUFFICES ASSUME MemoryInv, NEW c \in Conversation, file[c] # NoFile
               PROVE  /\ file[c] = Trim(ever[c])
                      /\ \A i, j \in DOMAIN file[c] :
                            file[c][i].turn = file[c][j].turn /\ file[c][i].nth = file[c][j].nth => i = j
    BY DEF HistoryIsTheTail
  <2>1. file[c] = Trim(ever[c]) /\ ever[c] \in Seq(Said) /\ MarkedOnce(ever[c])
    BY DEF MemoryInv, KeptOf
  <2>2. MarkedOnce(file[c])
    BY <2>1, TrimKeeps
  <2> QED
    BY <2>1, <2>2 DEF MarkedOnce
<1> QED
  BY <1>1, MemoryIsSound, PTL

-----------------------------------------------------------------------------
(***************************************************************************)
(* The run of a flow.  A frame carries the last of its own calls that      *)
(* answered (Carried): its own are those made under it, outside the flow   *)
(* it is waiting for and outside every flow that ended in an error (Own).  *)
(* That a flow which ends hands over the draft of the flow around it needs *)
(* that frames lie in one another and that a frame's calls come after all  *)
(* that were made before it was opened (Nested).                           *)
(***************************************************************************)

\* The calls that count under a frame: made under it and under nothing that
\* ended in an error; its own are those outside the flow it is waiting for.
Live(sp, d, x) == {i \in 1 .. Len(sp) : x \in sp[i].under /\ sp[i].under \cap d = {}}
Own(s, sp, d, j) ==
    {i \in Live(sp, d, s[j].serial) : j < Len(s) => s[j + 1].serial \notin sp[i].under}
Draft(sp, L) == IF L # {} /\ sp[Max(L)].says THEN {Max(L)} ELSE {}

\* Frames lie in one another, and a frame's calls come after those before it.
Nested(s, sp, d, n) ==
    /\ Len(s) \in Nat /\ Len(sp) \in Nat /\ n \in Nat
    /\ d \subseteq 1 .. n
    /\ \A i \in 1 .. Len(sp) : sp[i].under \subseteq 1 .. n
    /\ \A j \in 1 .. Len(s) : s[j].serial \in 1 .. n /\ s[j].serial \notin d
    /\ \A p, q \in 1 .. Len(s) : p < q =>
          /\ s[p].serial < s[q].serial
          /\ \A i \in 1 .. Len(sp) : s[q].serial \in sp[i].under => s[p].serial \in sp[i].under
    /\ \A q \in 1 .. Len(s) : \A i, k \in 1 .. Len(sp) :
          s[q].serial \in sp[i].under /\ s[q].serial \notin sp[k].under => k < i

\* Each frame carries the last of its own calls that answered.
Carried(s, sp, d) == \A j \in 1 .. Len(s) : s[j].previous = Draft(sp, Own(s, sp, d, j))

LEMMA MaxIs ==
    ASSUME NEW n \in Nat, NEW L, L \subseteq 1 .. n, L # {}
    PROVE  Max(L) \in L /\ \A i \in L : i <= Max(L)
<1> DEFINE T == {m \in Nat : m <= n => (\A i \in L : i <= n - m) \/ \E x \in L : \A i \in L : i <= x}
<1>1. 0 \in T
  OBVIOUS
<1>2. ASSUME NEW m \in Nat, m \in T PROVE m + 1 \in T
  <2> SUFFICES ASSUME m + 1 <= n, ~(\E x \in L : \A i \in L : i <= x)
               PROVE  \A i \in L : i <= n - (m + 1)
    OBVIOUS
  <2>1. \A i \in L : i \in Nat /\ i <= n - m
    BY <1>2
  <2>2. n - m \notin L
    BY <2>1
  <2> QED
    BY <2>1, <2>2
<1>3. n \in T
  <2> HIDE DEF T
  <2> QED
    BY <1>1, <1>2, NatSetInduction
<1>4. \E x \in L : \A i \in L : i <= x
  <2>1. ~ \A i \in L : i <= n - n
    <3>1. PICK i \in L : i \in 1 .. n
      OBVIOUS
    <3> QED
      BY <3>1
  <2> QED
    BY <1>3, <2>1
<1>5. \E x \in L : \A i \in L : x >= i
  BY <1>4
<1>6. Max(L) \in L /\ \A i \in L : Max(L) >= i
  BY <1>5 DEF Max
<1> QED
  BY <1>6

\* A frame is opened on the others.
LEMMA Opens ==
    ASSUME NEW s, NEW sp, NEW d, NEW n, Nested(s, sp, d, n), Carried(s, sp, d),
           NEW t, Len(t) = Len(s) + 1, \A j \in 1 .. Len(s) : t[j] = s[j],
           t[Len(s) + 1].serial = n + 1, t[Len(s) + 1].previous = {}
    PROVE  Nested(t, sp, d, n + 1) /\ Carried(t, sp, d)
<1> DEFINE N == Len(s)
<1>1. N \in Nat /\ Len(sp) \in Nat /\ n \in Nat /\ Len(t) = N + 1
  BY DEF Nested
<1> HIDE DEF N
<1>2. /\ d \subseteq 1 .. n
      /\ \A i \in 1 .. Len(sp) : sp[i].under \subseteq 1 .. n /\ n + 1 \notin sp[i].under
      /\ \A j \in 1 .. N : s[j].serial \in 1 .. n /\ s[j].serial \notin d
  BY <1>1 DEF Nested, N
<1>3. /\ \A j \in 1 .. N : t[j] = s[j]
      /\ t[N + 1].serial = n + 1 /\ t[N + 1].previous = {}
      /\ \A j \in 1 .. N + 1 : j \in 1 .. N \/ j = N + 1
  BY <1>1 DEF N
<1>4. Nested(t, sp, d, n + 1)
  <2>1. d \subseteq 1 .. n + 1 /\ \A i \in 1 .. Len(sp) : sp[i].under \subseteq 1 .. n + 1
    BY <1>1, <1>2
  <2>2. \A j \in 1 .. N + 1 : t[j].serial \in 1 .. n + 1 /\ t[j].serial \notin d
    BY <1>1, <1>2, <1>3
  <2>3. ASSUME NEW p \in 1 .. N + 1, NEW q \in 1 .. N + 1, p < q
        PROVE  /\ t[p].serial < t[q].serial
               /\ \A i \in 1 .. Len(sp) : t[q].serial \in sp[i].under => t[p].serial \in sp[i].under
    <3>1. p \in 1 .. N
      BY <1>1, <2>3
    <3>2. CASE q \in 1 .. N
      BY <1>3, <2>3, <3>1, <3>2 DEF Nested, N
    <3>3. CASE q = N + 1
      BY <1>1, <1>2, <1>3, <3>1, <3>3
    <3> QED
      BY <1>3, <3>2, <3>3
  <2>4. ASSUME NEW q \in 1 .. N + 1, NEW i \in 1 .. Len(sp), NEW k \in 1 .. Len(sp),
               t[q].serial \in sp[i].under, t[q].serial \notin sp[k].under
        PROVE  k < i
    <3>1. q \in 1 .. N
      BY <1>2, <1>3, <2>4
    <3> QED
      BY <1>3, <2>4, <3>1 DEF Nested, N
  <2>5. Len(t) \in Nat /\ Len(sp) \in Nat /\ n + 1 \in Nat /\ 1 .. Len(t) = 1 .. N + 1
    BY <1>1
  <2> DEFINE L == Len(t)
  <2>6. L \in Nat /\ 1 .. L = 1 .. N + 1
    BY <2>5
  <2> HIDE DEF L
  <2>7. /\ \A j \in 1 .. L : t[j].serial \in 1 .. n + 1 /\ t[j].serial \notin d
        /\ \A p, q \in 1 .. L : p < q =>
              /\ t[p].serial < t[q].serial
              /\ \A i \in 1 .. Len(sp) : t[q].serial \in sp[i].under => t[p].serial \in sp[i].under
        /\ \A q \in 1 .. L : \A i, k \in 1 .. Len(sp) :
              t[q].serial \in sp[i].under /\ t[q].serial \notin sp[k].under => k < i
    BY <2>2, <2>3, <2>4, <2>6
  <2> QED
    BY <2>1, <2>5, <2>7 DEF Nested, L
<1>5. ASSUME NEW j \in 1 .. N PROVE Own(t, sp, d, j) = Own(s, sp, d, j)
  <2>1. t[j] = s[j]
    BY <1>3
  <2>2. CASE j < N
    <3>1. j + 1 \in 1 .. N /\ j < Len(t) /\ j < Len(s)
      BY <1>1, <2>2 DEF N
    <3> QED
      BY <1>3, <2>1, <3>1 DEF Own
  <2>3. CASE j = N
    <3>1. ~(j < Len(s)) /\ j < Len(t)
      BY <1>1, <2>3 DEF N
    <3>2. \A i \in Live(sp, d, s[j].serial) : t[j + 1].serial \notin sp[i].under
      BY <1>2, <1>3, <2>3 DEF Live
    <3> QED
      BY <2>1, <3>1, <3>2 DEF Own
  <2> QED
    BY <1>1, <2>2, <2>3
<1>6. Own(t, sp, d, N + 1) = {}
  BY <1>2, <1>3 DEF Own, Live
<1>7. Carried(t, sp, d)
  <2>1. \A j \in 1 .. N : t[j].previous = Draft(sp, Own(t, sp, d, j))
    BY <1>3, <1>5 DEF Carried, N
  <2>2. t[N + 1].previous = Draft(sp, Own(t, sp, d, N + 1))
    BY <1>3, <1>6 DEF Draft
  <2> QED
    BY <1>1, <1>3, <2>1, <2>2 DEF Carried
<1> QED
  BY <1>4, <1>7

\* The frame on top asks a vendor and is answered.
LEMMA Hears ==
    ASSUME NEW s, NEW sp, NEW d, NEW n, Nested(s, sp, d, n), Carried(s, sp, d),
           NEW t, Len(t) = Len(s), Len(s) >= 1, \A j \in 1 .. Len(s) - 1 : t[j] = s[j],
           t[Len(s)].serial = s[Len(s)].serial,
           NEW sq, Len(sq) = Len(sp) + 1, \A i \in 1 .. Len(sp) : sq[i] = sp[i],
           \A j \in 1 .. Len(s) : s[j].serial \in sq[Len(sp) + 1].under,
           \A x \in sq[Len(sp) + 1].under : \E j \in 1 .. Len(s) : x = s[j].serial,
           t[Len(s)].previous = IF sq[Len(sp) + 1].says THEN {Len(sp) + 1} ELSE {}
    PROVE  Nested(t, sq, d, n) /\ Carried(t, sq, d)
<1> DEFINE N == Len(s)
           M == Len(sp)
           U == sq[M + 1].under
<1>1. N \in Nat /\ M \in Nat /\ n \in Nat /\ Len(t) = N /\ Len(sq) = M + 1 /\ N >= 1
  BY DEF Nested
<1>2. /\ sq[M + 1].under = U /\ \A i \in 1 .. M : sq[i] = sp[i]
      /\ \A i \in 1 .. M + 1 : i \in 1 .. M \/ i = M + 1
  <2>1. M \in Nat
    BY <1>1
  <2>2. \A i \in 1 .. M + 1 : i \in 1 .. M \/ i = M + 1
    <3> HIDE DEF M
    <3> QED
      BY <2>1
  <2> QED
    BY <2>2
<1>3. /\ \A j \in 1 .. N : t[j].serial = s[j].serial
      /\ \A j \in 1 .. N - 1 : t[j] = s[j]
  <2>1. \A j \in 1 .. N : j \in 1 .. N - 1 \/ j = N
    BY <1>1
  <2> HIDE DEF N
  <2> QED
    BY <2>1 DEF N
<1>4. /\ d \subseteq 1 .. n
      /\ \A i \in 1 .. M : sp[i].under \subseteq 1 .. n
      /\ \A j \in 1 .. N : s[j].serial \in 1 .. n /\ s[j].serial \notin d
  BY DEF Nested
<1>5. U \subseteq 1 .. n /\ U \cap d = {} /\ \A j \in 1 .. N : s[j].serial \in U
  <2>1. \A j \in 1 .. N : s[j].serial \in U
    OBVIOUS
  <2>2. \A y \in U : \E j \in 1 .. N : y = s[j].serial
    OBVIOUS
  <2> HIDE DEF U, M, N
  <2>3. ASSUME NEW y \in U
        PROVE  y \in 1 .. n /\ y \notin d
    <3>1. PICK j \in 1 .. N : y = s[j].serial
      BY <2>2
    <3> QED
      BY <1>4, <3>1
  <2> QED
    BY <2>1, <2>3
<1> HIDE DEF U, M, N
<1>6. Nested(t, sq, d, n)
  <2>1. \A i \in 1 .. M + 1 : sq[i].under \subseteq 1 .. n
    BY <1>2, <1>4, <1>5
  <2>2. \A j \in 1 .. N : t[j].serial \in 1 .. n /\ t[j].serial \notin d
    BY <1>3, <1>4
  <2>3. ASSUME NEW p \in 1 .. N, NEW q \in 1 .. N, p < q
        PROVE  /\ t[p].serial < t[q].serial
               /\ \A i \in 1 .. M + 1 : t[q].serial \in sq[i].under => t[p].serial \in sq[i].under
    <3>1. /\ s[p].serial < s[q].serial
          /\ \A i \in 1 .. M : s[q].serial \in sp[i].under => s[p].serial \in sp[i].under
      BY <2>3 DEF Nested, N, M
    <3>2. \A i \in 1 .. M + 1 : t[q].serial \in sq[i].under => t[p].serial \in sq[i].under
      <4> TAKE i \in 1 .. M + 1
      <4>1. CASE i \in 1 .. M
        BY <1>2, <1>3, <3>1, <4>1
      <4>2. CASE i = M + 1
        BY <1>2, <1>3, <1>5, <4>2
      <4> QED
        BY <1>2, <4>1, <4>2
    <3> QED
      BY <1>3, <3>1, <3>2
  <2>4. ASSUME NEW q \in 1 .. N, NEW i \in 1 .. M + 1, NEW k \in 1 .. M + 1,
               t[q].serial \in sq[i].under, t[q].serial \notin sq[k].under
        PROVE  k < i
    <3>1. k \in 1 .. M
      BY <1>2, <1>3, <1>5, <2>4
    <3>2. CASE i \in 1 .. M
      <4>1. s[q].serial \in sp[i].under /\ s[q].serial \notin sp[k].under
        BY <1>2, <1>3, <2>4, <3>1, <3>2
      <4> QED
        BY <3>1, <3>2, <4>1 DEF Nested, N, M
    <3>3. CASE i = M + 1
      BY <1>1, <3>1, <3>3
    <3> QED
      BY <1>2, <3>2, <3>3
  <2>5. Len(t) \in Nat /\ Len(sq) \in Nat /\ n \in Nat /\ 1 .. Len(t) = 1 .. N /\ 1 .. Len(sq) = 1 .. M + 1
    BY <1>1
  <2> QED
    BY <1>4, <2>1, <2>2, <2>3, <2>4, <2>5 DEF Nested
<1>7. ASSUME NEW j \in 1 .. N - 1 PROVE t[j].previous = Draft(sq, Own(t, sq, d, j))
  <2>1. j \in 1 .. N /\ j + 1 \in 1 .. N /\ j < Len(t) /\ j < Len(s) /\ t[j] = s[j]
    BY <1>1, <1>3 DEF N
  <2> DEFINE O == Own(s, sp, d, j)
  <2>2. O = {i \in 1 .. M : /\ s[j].serial \in sp[i].under /\ sp[i].under \cap d = {}
                            /\ s[j + 1].serial \notin sp[i].under}
    BY <2>1 DEF Own, Live, M
  <2>3. Own(t, sq, d, j) = {i \in 1 .. M + 1 : /\ s[j].serial \in sq[i].under /\ sq[i].under \cap d = {}
                                               /\ s[j + 1].serial \notin sq[i].under}
    BY <1>1, <1>3, <2>1 DEF Own, Live
  <2>4. s[j + 1].serial \in sq[M + 1].under
    BY <1>2, <1>5, <2>1
  <2>5. 1 .. M \subseteq 1 .. M + 1
    BY <1>1
  <2> HIDE DEF O
  <2>6. Own(t, sq, d, j) = O
    BY <1>2, <2>2, <2>3, <2>4, <2>5
  <2>7. Draft(sq, O) = Draft(sp, O)
    <3>1. O \subseteq 1 .. M
      BY <2>2
    <3>2. CASE O # {}
      <4>1. Max(O) \in O
        BY <1>1, <3>1, <3>2, MaxIs
      <4>2. sq[Max(O)] = sp[Max(O)]
        BY <1>2, <3>1, <4>1
      <4> QED
        BY <4>2 DEF Draft
    <3>3. CASE O = {}
      BY <3>3 DEF Draft
    <3> QED
      BY <3>2, <3>3
  <2>8. s[j].previous = Draft(sp, O)
    BY <2>1 DEF Carried, N, O
  <2> QED
    BY <2>1, <2>6, <2>7, <2>8
<1>8. t[N].previous = Draft(sq, Own(t, sq, d, N))
  <2> DEFINE O == Own(t, sq, d, N)
  <2>1. O \subseteq 1 .. M + 1
    BY <1>1 DEF Own, Live
  <2>2. M + 1 \in O
    <3>1. t[N].serial \in sq[M + 1].under /\ sq[M + 1].under \cap d = {} /\ M + 1 \in 1 .. M + 1 /\ ~(N < Len(t))
      BY <1>1, <1>2, <1>3, <1>5
    <3> QED
      BY <1>1, <3>1 DEF Own, Live
  <2> HIDE DEF O
  <2>3. Max(O) = M + 1
    <3>1. O # {} /\ M + 1 \in Nat
      BY <1>1, <2>2
    <3>2. Max(O) \in O /\ \A i \in O : i <= Max(O)
      BY <2>1, <3>1, MaxIs
    <3>3. Max(O) \in 1 .. M + 1 /\ M + 1 <= Max(O)
      BY <2>1, <2>2, <3>2
    <3> QED
      BY <1>1, <3>3
  <2>4. t[N].previous = IF sq[M + 1].says THEN {M + 1} ELSE {}
    BY DEF N, M
  <2> QED
    BY <2>2, <2>3, <2>4 DEF Draft, O
<1>9. Carried(t, sq, d)
  <2>1. \A j \in 1 .. N : j \in 1 .. N - 1 \/ j = N
    BY <1>1
  <2> QED
    BY <1>1, <1>7, <1>8, <2>1 DEF Carried
<1> QED
  BY <1>6, <1>9

\* Frames of the same serial and draft.
LEMMA Alike ==
    ASSUME NEW s, NEW sp, NEW d, NEW n, Nested(s, sp, d, n), Carried(s, sp, d),
           NEW t, Len(t) = Len(s),
           \A j \in 1 .. Len(s) : t[j].serial = s[j].serial /\ t[j].previous = s[j].previous
    PROVE  Nested(t, sp, d, n) /\ Carried(t, sp, d)
<1>1. Nested(t, sp, d, n)
  BY DEF Nested
<1>2. \A j \in 1 .. Len(s) : Own(t, sp, d, j) = Own(s, sp, d, j)
  <2> TAKE j \in 1 .. Len(s)
  <2>1. j < Len(s) => j + 1 \in 1 .. Len(s)
    BY DEF Nested
  <2> QED
    BY <2>1 DEF Own
<1> QED
  BY <1>1, <1>2 DEF Carried

\* The frame on top ends in an error.
LEMMA Dies ==
    ASSUME NEW s, NEW sp, NEW d, NEW n, Nested(s, sp, d, n), Carried(s, sp, d),
           NEW t, Len(s) >= 2, Len(t) = Len(s) - 1, \A j \in 1 .. Len(s) - 1 : t[j] = s[j],
           NEW e, e = d \cup {s[Len(s)].serial}
    PROVE  Nested(t, sp, e, n) /\ Carried(t, sp, e)
<1> DEFINE N == Len(s)
           x == s[N].serial
<1>1. N \in Nat /\ Len(sp) \in Nat /\ n \in Nat /\ N >= 2 /\ Len(t) = N - 1
  BY DEF Nested
<1>2. /\ \A j \in 1 .. N : s[j].serial \in 1 .. n /\ s[j].serial \notin d
      /\ \A p, q \in 1 .. N : p < q =>
            /\ s[p].serial < s[q].serial
            /\ \A i \in 1 .. Len(sp) : s[q].serial \in sp[i].under => s[p].serial \in sp[i].under
      /\ N \in 1 .. N /\ \A j \in 1 .. N - 1 : j \in 1 .. N /\ j < N /\ t[j] = s[j] /\ s[j].serial # x
      /\ e = d \cup {x}
  <2>1. /\ \A j \in 1 .. N : s[j].serial \in 1 .. n /\ s[j].serial \notin d
        /\ \A p, q \in 1 .. N : p < q =>
            /\ s[p].serial < s[q].serial
            /\ \A i \in 1 .. Len(sp) : s[q].serial \in sp[i].under => s[p].serial \in sp[i].under
    BY DEF Nested
  <2>2. N \in 1 .. N /\ \A j \in 1 .. N - 1 : j \in 1 .. N /\ j < N /\ t[j] = s[j]
    BY <1>1
  <2> HIDE DEF N
  <2>3. \A j \in 1 .. N - 1 : s[j].serial # x
    <3> TAKE j \in 1 .. N - 1
    <3>1. s[j].serial < s[N].serial /\ s[j].serial \in 1 .. n
      BY <2>1, <2>2
    <3> QED
      BY <1>1, <3>1
  <2> QED
    BY <2>1, <2>2, <2>3 DEF N
<1>3. Nested(t, sp, e, n)
  <2>1. e \subseteq 1 .. n
    BY <1>2 DEF Nested
  <2>2. \A j \in 1 .. N - 1 : t[j].serial \in 1 .. n /\ t[j].serial \notin e
    BY <1>2
  <2>3. \A p, q \in 1 .. N - 1 : p < q =>
            /\ t[p].serial < t[q].serial
            /\ \A i \in 1 .. Len(sp) : t[q].serial \in sp[i].under => t[p].serial \in sp[i].under
    BY <1>2
  <2>4. \A q \in 1 .. N - 1 : \A i, k \in 1 .. Len(sp) :
          t[q].serial \in sp[i].under /\ t[q].serial \notin sp[k].under => k < i
    BY <1>2 DEF Nested
  <2>5. \A i \in 1 .. Len(sp) : sp[i].under \subseteq 1 .. n
    BY DEF Nested
  <2> HIDE DEF N, x
  <2> QED
    BY <1>1, <2>1, <2>2, <2>3, <2>4, <2>5 DEF Nested
<1>4. ASSUME NEW j \in 1 .. N - 1 PROVE Own(t, sp, e, j) = Own(s, sp, d, j)
  <2>0. t[j] = s[j] /\ j < N
    BY <1>2
  <2>1. ASSUME NEW i \in 1 .. Len(sp), s[j + 1].serial \notin sp[i].under
        PROVE  x \notin sp[i].under
    <3>1. CASE j + 1 = N
      BY <2>1, <3>1
    <3>2. CASE j + 1 # N
      <4>1. j + 1 \in 1 .. N /\ j + 1 < N
        BY <1>1, <3>2
      <4> QED
        BY <1>2, <2>1, <4>1
    <3> QED
      BY <3>1, <3>2
  <2>2. CASE j + 1 = N
    <3>1. ~(j < Len(t)) /\ j < Len(s)
      BY <1>1, <2>2
    <3>2. \A i \in 1 .. Len(sp) : sp[i].under \cap e = {} <=> sp[i].under \cap d = {} /\ s[j + 1].serial \notin sp[i].under
      <4>1. e = d \cup {s[j + 1].serial}
        BY <1>2, <2>2
      <4> QED
        BY <4>1
    <3> HIDE DEF N, x
    <3> QED
      BY <2>0, <3>1, <3>2 DEF Own, Live
  <2>3. CASE j + 1 # N
    <3>1. j < Len(t) /\ j < Len(s) /\ j + 1 \in 1 .. N - 1
      BY <1>1, <2>3
    <3>2. t[j + 1] = s[j + 1]
      BY <1>2, <3>1
    <3>3. \A i \in 1 .. Len(sp) : /\ sp[i].under \cap e = {} => sp[i].under \cap d = {}
                                  /\ sp[i].under \cap d = {} /\ s[j + 1].serial \notin sp[i].under
                                        => sp[i].under \cap e = {}
      BY <1>2, <2>1
    <3> HIDE DEF N, x
    <3> QED
      BY <2>0, <3>1, <3>2, <3>3 DEF Own, Live
  <2> QED
    BY <2>2, <2>3
<1>5. Carried(t, sp, e)
  <2>1. \A j \in 1 .. N - 1 : t[j].previous = Draft(sp, Own(s, sp, d, j))
    BY <1>2 DEF Carried
  <2> HIDE DEF N, x
  <2> QED
    BY <1>1, <1>4, <2>1 DEF Carried
<1> QED
  BY <1>3, <1>5

\* The frame on top ends well and hands its draft to the one below.
LEMMA HandsOver ==
    ASSUME NEW s, NEW sp, NEW d, NEW n, Nested(s, sp, d, n), Carried(s, sp, d),
           NEW t, Len(s) >= 2, Len(t) = Len(s) - 1, \A j \in 1 .. Len(s) - 2 : t[j] = s[j],
           t[Len(s) - 1].serial = s[Len(s) - 1].serial,
           t[Len(s) - 1].previous = s[Len(s)].previous, s[Len(s)].previous # {}
    PROVE  Nested(t, sp, d, n) /\ Carried(t, sp, d)
<1> DEFINE N == Len(s)
           K == N - 1
<1>1. N \in Nat /\ Len(sp) \in Nat /\ n \in Nat /\ N >= 2 /\ Len(t) = K /\ K \in 1 .. N /\ N \in 1 .. N /\ K < N
  BY DEF Nested
<1>2. /\ \A j \in 1 .. K : j \in 1 .. N /\ (j = K \/ j \in 1 .. N - 2)
      /\ \A j \in 1 .. N - 2 : t[j] = s[j]
      /\ t[K].serial = s[K].serial /\ t[K].previous = s[N].previous /\ s[N].previous # {}
  BY <1>1
<1>3. \A j \in 1 .. K : t[j].serial = s[j].serial
  <2> HIDE DEF N, K
  <2> QED
    BY <1>2
<1>4. Nested(t, sp, d, n)
  <2>1. \A j \in 1 .. K : t[j].serial \in 1 .. n /\ t[j].serial \notin d
    BY <1>2, <1>3 DEF Nested
  <2>2. \A p, q \in 1 .. K : p < q =>
            /\ t[p].serial < t[q].serial
            /\ \A i \in 1 .. Len(sp) : t[q].serial \in sp[i].under => t[p].serial \in sp[i].under
    BY <1>2, <1>3 DEF Nested
  <2>3. \A q \in 1 .. K : \A i, k \in 1 .. Len(sp) :
          t[q].serial \in sp[i].under /\ t[q].serial \notin sp[k].under => k < i
    BY <1>2, <1>3 DEF Nested
  <2>4. d \subseteq 1 .. n /\ \A i \in 1 .. Len(sp) : sp[i].under \subseteq 1 .. n
    BY DEF Nested
  <2>5. Len(t) = K /\ K \in Nat
    BY <1>1
  <2> HIDE DEF N, K
  <2> QED
    BY <1>1, <2>1, <2>2, <2>3, <2>4, <2>5 DEF Nested
<1>5. ASSUME NEW j \in 1 .. N - 2 PROVE t[j].previous = Draft(sp, Own(t, sp, d, j))
  <2>1. j < Len(t) /\ j < Len(s) /\ j \in 1 .. N /\ j + 1 \in 1 .. K
    BY <1>1
  <2>2. t[j] = s[j] /\ t[j + 1].serial = s[j + 1].serial
    BY <1>2, <1>3, <2>1
  <2>3. Own(t, sp, d, j) = Own(s, sp, d, j)
    BY <2>1, <2>2 DEF Own
  <2> QED
    BY <2>1, <2>2, <2>3 DEF Carried
<1>6. t[K].previous = Draft(sp, Own(t, sp, d, K))
  <2> DEFINE A == Live(sp, d, s[N].serial)
             B == Live(sp, d, s[K].serial)
  <2>1. Own(t, sp, d, K) = B /\ Own(s, sp, d, N) = A
    <3>1. ~(K < Len(t)) /\ ~(N < Len(s))
      BY <1>1
    <3> HIDE DEF N, K
    <3> QED
      BY <1>2, <3>1 DEF Own
  <2>2. s[N].previous = Draft(sp, A)
    BY <1>1, <2>1 DEF Carried
  <2>3. A \subseteq B
    <3>1. \A i \in 1 .. Len(sp) : s[N].serial \in sp[i].under => s[K].serial \in sp[i].under
      BY <1>1 DEF Nested
    <3> HIDE DEF N, K
    <3> QED
      BY <3>1 DEF Live
  <2>4. \A i \in A, k \in B : k \in A \/ k < i
    <3>1. \A i, k \in 1 .. Len(sp) : s[N].serial \in sp[i].under /\ s[N].serial \notin sp[k].under => k < i
      BY <1>1 DEF Nested
    <3> HIDE DEF N, K
    <3> QED
      BY <3>1 DEF Live
  <2>5. A \subseteq 1 .. Len(sp) /\ B \subseteq 1 .. Len(sp)
    BY DEF Live
  <2> HIDE DEF A, B, N, K
  <2>6. A # {}
    BY <1>2, <2>2 DEF Draft
  <2>7. Max(A) \in A /\ (\A i \in A : i <= Max(A)) /\ Max(B) \in B /\ \A i \in B : i <= Max(B)
    BY <1>1, <2>3, <2>5, <2>6, MaxIs
  <2>8. Max(B) = Max(A)
    <3>1. Max(A) \in 1 .. Len(sp) /\ Max(B) \in 1 .. Len(sp)
      BY <2>5, <2>7
    <3>2. Max(A) <= Max(B)
      BY <2>3, <2>7
    <3>3. Max(B) \in A \/ Max(B) < Max(A)
      BY <2>4, <2>7
    <3>4. Max(B) <= Max(A)
      BY <2>7, <3>1, <3>3
    <3> QED
      BY <3>1, <3>2, <3>4
  <2>9. Draft(sp, B) = Draft(sp, A)
    BY <2>3, <2>6, <2>8 DEF Draft
  <2> QED
    BY <1>2, <2>1, <2>2, <2>9
<1>7. Carried(t, sp, d)
  <2>1. \A j \in 1 .. K : t[j].previous = Draft(sp, Own(t, sp, d, j))
    <3> HIDE DEF N, K
    <3> QED
      BY <1>2, <1>5, <1>6
  <2> HIDE DEF N, K
  <2> QED
    BY <1>1, <2>1 DEF Carried
<1> QED
  BY <1>4, <1>7

\* A list of anything.
Listing(s) == s \in Seq(Range(s))

LEMMA ListIs ==
    ASSUME NEW S, NEW s \in Seq(S)
    PROVE  Listing(s) /\ Len(s) \in Nat /\ DOMAIN s = 1 .. Len(s)
<1>1. Len(s) \in Nat /\ DOMAIN s = 1 .. Len(s) /\ s = [i \in 1 .. Len(s) |-> s[i]]
  BY LenProperties
<1>2. \A i \in 1 .. Len(s) : s[i] \in Range(s)
  BY <1>1 DEF Range
<1>3. s \in Seq(Range(s))
  BY <1>1, <1>2, SeqDef
<1> QED
  BY <1>1, <1>3 DEF Listing

LEMMA AppendIs ==
    ASSUME NEW s, Listing(s), NEW e
    PROVE  /\ Listing(Append(s, e)) /\ Len(Append(s, e)) = Len(s) + 1 /\ Len(s) \in Nat
           /\ \A i \in 1 .. Len(s) : Append(s, e)[i] = s[i]
           /\ Append(s, e)[Len(s) + 1] = e
<1> DEFINE S == Range(s) \cup {e}
<1>1. Len(s) \in Nat /\ DOMAIN s = 1 .. Len(s) /\ s = [i \in 1 .. Len(s) |-> s[i]]
      /\ \A i \in 1 .. Len(s) : s[i] \in Range(s)
  BY LenProperties, ElementOfSeq DEF Listing
<1>2. s \in Seq(S) /\ e \in S
  <2>1. \A i \in 1 .. Len(s) : s[i] \in S
    BY <1>1
  <2> HIDE DEF S
  <2>2. s \in Seq(S)
    BY <1>1, <2>1, SeqDef
  <2> QED
    BY <2>2 DEF S
<1> HIDE DEF S
<1>3. Append(s, e) \in Seq(S) /\ Len(Append(s, e)) = Len(s) + 1
      /\ \A i \in 1 .. Len(s) : Append(s, e)[i] = s[i]
      /\ Append(s, e)[Len(s) + 1] = e
  BY <1>2, AppendProperties
<1> DEFINE a == Append(s, e)
<1> HIDE DEF a
<1>4. a \in Seq(S)
  BY <1>3 DEF a
<1>5. Listing(a)
  BY <1>4, ListIs
<1> QED
  BY <1>1, <1>3, <1>5 DEF a

LEMMA FrontIs ==
    ASSUME NEW s, Listing(s), Len(s) >= 1
    PROVE  /\ Listing(Front(s)) /\ Len(Front(s)) = Len(s) - 1 /\ Len(s) \in Nat
           /\ \A i \in 1 .. Len(s) - 1 : Front(s)[i] = s[i]
           /\ Last(s) = s[Len(s)]
<1> DEFINE S == Range(s)
           n == Len(s)
           f == SubSeq(s, 1, n - 1)
<1>1. s \in Seq(S) /\ n \in Nat /\ n >= 1 /\ \A i \in 1 .. n : s[i] \in S
  BY LenProperties, ElementOfSeq DEF Listing
<1> HIDE DEF S
<1>2. /\ f \in Seq(S) /\ Len(f) = IF 1 <= n - 1 THEN n - 1 - 1 + 1 ELSE 0
      /\ \A i \in 1 .. n - 1 - 1 + 1 : f[i] = s[1 + i - 1]
  <2>1. 1 \in 1 .. Len(s) + 1 /\ n - 1 \in Int /\ \A i \in 1 .. n - 1 : s[i] \in S
    BY <1>1
  <2> HIDE DEF n
  <2> QED
    BY <1>1, <2>1, SubSeqProperties DEF n
<1>3. Front(s) = f /\ Last(s) = s[n]
  BY DEF Front, Last
<1> HIDE DEF f, n
<1>4. Len(f) = n - 1 /\ \A i \in 1 .. n - 1 : f[i] = s[i]
  <2>1. \A i \in 1 .. n - 1 : i \in 1 .. n - 1 - 1 + 1 /\ 1 + i - 1 = i
    BY <1>1
  <2> QED
    BY <1>1, <1>2, <2>1
<1>5. Listing(f)
  BY <1>2, ListIs
<1> QED
  BY <1>1, <1>3, <1>4, <1>5 DEF n

FrameFields == {"serial", "flow", "steps", "asked", "at", "previous", "calls"}
Going == {"step", "calling", "failed"}

\* One run, with the calls it made and its frames that ended in an error.
RunOK(x, sp, d) ==
    /\ DOMAIN x = {"pc", "test", "stack", "frames", "heard", "whole", "booked"}
    /\ Listing(sp)
    /\ x.pc = "idle" => sp = <<>> /\ d = {}
    /\ x.pc \in Going =>
          /\ Listing(x.stack) /\ Len(x.stack) >= 1
          /\ \A j \in 1 .. Len(x.stack) : DOMAIN x.stack[j] = FrameFields
          /\ Nested(x.stack, sp, d, x.frames) /\ Carried(x.stack, sp, d)
    /\ x.pc = "calling" => /\ x.heard = StepReq(Last(x.stack)).text
                           /\ x.whole = StepReq(Last(x.stack)).whole

RunsInv ==
    /\ DOMAIN run = Runs /\ DOMAIN spent = Runs /\ DOMAIN dead = Runs
    /\ \A r \in Runs : RunOK(run[r], spent[r], dead[r])

\* A step of one run.
LEMMA OneRun ==
    ASSUME RunsInv, NEW r \in Runs, NEW x, NEW sp, NEW d, RunOK(x, sp, d),
           run' = [run EXCEPT ![r] = x],
           spent' = [spent EXCEPT ![r] = sp] \/ (spent' = spent /\ sp = spent[r]),
           dead' = [dead EXCEPT ![r] = d] \/ (dead' = dead /\ d = dead[r])
    PROVE  RunsInv'
<1>1. /\ DOMAIN run' = Runs /\ run'[r] = x
      /\ \A o \in Runs : o # r => run'[o] = run[o]
  BY DEF RunsInv
<1>2. /\ DOMAIN spent' = Runs /\ spent'[r] = sp
      /\ \A o \in Runs : o # r => spent'[o] = spent[o]
  BY DEF RunsInv
<1>3. /\ DOMAIN dead' = Runs /\ dead'[r] = d
      /\ \A o \in Runs : o # r => dead'[o] = dead[o]
  BY DEF RunsInv
<1>4. ASSUME NEW o \in Runs PROVE RunOK(run'[o], spent'[o], dead'[o])
  <2>1. CASE o = r
    BY <1>1, <1>2, <1>3, <2>1
  <2>2. CASE o # r
    <3>1. RunOK(run[o], spent[o], dead[o])
      BY DEF RunsInv
    <3>2. run'[o] = run[o] /\ spent'[o] = spent[o] /\ dead'[o] = dead[o]
      BY <1>1, <1>2, <1>3, <2>2
    <3> QED
      BY <3>1, <3>2
  <2> QED
    BY <2>1, <2>2
<1> QED
  BY <1>1, <1>2, <1>3, <1>4 DEF RunsInv

LEMMA RunTyped ==
    ASSUME RunsInv, NEW r \in Runs
    PROVE  r \in DOMAIN run /\ r \in DOMAIN spent /\ r \in DOMAIN dead /\ RunOK(run[r], spent[r], dead[r])
  BY DEF RunsInv

LEMMA BeginOK ==
    ASSUME RunsInv, NEW r \in Runs, NEW f, NEW test, Begin(r, f, test)
    PROVE  RunsInv'
<1> DEFINE fr == Frame(1, f, registry.flow[f], [text |-> {0}, whole |-> ~test])
           t == <<fr>>
           x == [Idle EXCEPT !.pc = "step", !.test = test, !.frames = 1, !.stack = t]
<1>1. run[r].pc = "idle" /\ run' = [run EXCEPT ![r] = x] /\ spent' = spent /\ dead' = dead
  BY DEF Begin
<1>2. RunOK(run[r], spent[r], dead[r])
  BY RunTyped
<1>3. spent[r] = <<>> /\ dead[r] = {}
  BY <1>1, <1>2 DEF RunOK
<1>4. fr.serial = 1 /\ fr.previous = {} /\ DOMAIN fr = FrameFields
  BY DEF Frame, FrameFields
<1>5. /\ DOMAIN x = {"pc", "test", "stack", "frames", "heard", "whole", "booked"}
      /\ x.pc = "step" /\ x.stack = t /\ x.frames = 1
  BY DEF Idle
<1> HIDE DEF fr, x
<1>6. Len(t) = 1 /\ t[1] = fr /\ t \in Seq({fr})
  OBVIOUS
<1>7. Nested(<<>>, <<>>, {}, 0) /\ Carried(<<>>, <<>>, {})
  BY DEF Nested, Carried
<1> DEFINE s == <<>>
<1>8. Len(s) = 0 /\ \A j \in 1 .. Len(s) : t[j] = s[j]
  OBVIOUS
<1> HIDE DEF t
<1>9. Nested(t, <<>>, {}, 0 + 1) /\ Carried(t, <<>>, {})
  <2>1. Nested(s, <<>>, {}, 0) /\ Carried(s, <<>>, {})
    BY <1>7
  <2> HIDE DEF s
  <2>2. Len(t) = Len(s) + 1 /\ t[Len(s) + 1].serial = 0 + 1 /\ t[Len(s) + 1].previous = {}
    BY <1>4, <1>6, <1>8
  <2> QED
    BY <1>8, <2>1, <2>2, Opens
<1>10. Nested(t, <<>>, {}, 1)
  BY <1>9
<1>11. Listing(t) /\ Listing(<<>>)
  <2>1. <<>> \in Seq({fr})
    OBVIOUS
  <2> QED
    BY <1>6, <2>1, ListIs
<1>12. \A j \in 1 .. Len(t) : DOMAIN t[j] = FrameFields
  BY <1>4, <1>6
<1>13. RunOK(x, spent[r], dead[r])
  BY <1>3, <1>5, <1>6, <1>9, <1>10, <1>11, <1>12 DEF RunOK
<1> QED
  BY <1>1, <1>13, OneRun

\* What is known of a run that is going on.
LEMMA GoingIs ==
    ASSUME RunsInv, NEW r \in Runs, run[r].pc \in Going
    PROVE  /\ DOMAIN run[r] = {"pc", "test", "stack", "frames", "heard", "whole", "booked"}
           /\ Listing(spent[r]) /\ Listing(run[r].stack) /\ Len(run[r].stack) >= 1
           /\ Len(run[r].stack) \in Nat /\ Len(spent[r]) \in Nat /\ DOMAIN run[r].stack = 1 .. Len(run[r].stack)
           /\ \A j \in 1 .. Len(run[r].stack) : DOMAIN run[r].stack[j] = FrameFields
           /\ Nested(run[r].stack, spent[r], dead[r], run[r].frames)
           /\ Carried(run[r].stack, spent[r], dead[r])
           /\ Top(r) = run[r].stack[Len(run[r].stack)]
<1>1. RunOK(run[r], spent[r], dead[r])
  BY RunTyped
<1>2. Listing(run[r].stack) /\ Len(run[r].stack) >= 1 /\ Listing(spent[r])
  BY <1>1 DEF RunOK
<1>3. Top(r) = run[r].stack[Len(run[r].stack)]
  BY <1>2, FrontIs DEF Top
<1>4. DOMAIN run[r].stack = 1 .. Len(run[r].stack)
  <2> DEFINE s == run[r].stack
  <2>1. s \in Seq(Range(s))
    BY <1>2 DEF Listing
  <2> HIDE DEF s
  <2>2. DOMAIN s = 1 .. Len(s)
    BY <2>1, LenProperties
  <2> QED
    BY <2>2 DEF s
<1> QED
  BY <1>1, <1>2, <1>3, <1>4 DEF RunOK, Nested

LEMMA EnterOK ==
    ASSUME RunsInv, NEW r \in Runs, Enter(r)
    PROVE  RunsInv'
<1> DEFINE f == Now(r).agent
           n == run[r].frames + 1
           s == run[r].stack
           fr == Frame(n, f, registry.flow[f], StepReq(Top(r)))
           t == Append(s, fr)
<1>1. run[r].pc = "step" /\ spent' = spent /\ dead' = dead
  BY DEF Enter, AtStep
<1>2. run[r].pc \in Going
  BY <1>1 DEF Going
<1>3. CASE Refused(r, f)
  <2> DEFINE x == [run[r] EXCEPT !.pc = "failed"]
  <2>1. run' = [run EXCEPT ![r].pc = "failed"]
    BY <1>3 DEF Enter
  <2>2. run' = [run EXCEPT ![r] = x]
    BY <2>1
  <2>3. x.pc = "failed" /\ x.stack = run[r].stack /\ x.frames = run[r].frames /\ DOMAIN x = DOMAIN run[r]
    BY <1>2, GoingIs
  <2> HIDE DEF x
  <2>4. RunOK(x, spent[r], dead[r])
    BY <1>2, <2>3, GoingIs DEF RunOK
  <2> QED
    BY <1>1, <2>2, <2>4, OneRun
<1>4. CASE ~Refused(r, f)
  <2> DEFINE x == [run[r] EXCEPT !.frames = n, !.stack = t]
  <2>1. run' = [run EXCEPT ![r].frames = n, ![r].stack = Append(@, fr)]
    BY <1>4 DEF Enter
  <2>2. run' = [run EXCEPT ![r] = x]
    BY <2>1, RunTyped
  <2>3. x.pc = "step" /\ x.stack = t /\ x.frames = n /\ DOMAIN x = DOMAIN run[r]
    BY <1>1, <1>2, GoingIs
  <2>4. fr.serial = n /\ fr.previous = {} /\ DOMAIN fr = FrameFields
    BY DEF Frame, FrameFields
  <2>5. Listing(s) /\ Nested(s, spent[r], dead[r], run[r].frames) /\ Carried(s, spent[r], dead[r])
        /\ \A j \in 1 .. Len(s) : DOMAIN s[j] = FrameFields
    BY <1>2, GoingIs
  <2> HIDE DEF fr, s, x, f
  <2>6. Listing(t) /\ Len(t) = Len(s) + 1 /\ Len(s) \in Nat /\ (\A i \in 1 .. Len(s) : t[i] = s[i]) /\ t[Len(s) + 1] = fr
    BY <2>5, AppendIs
  <2> HIDE DEF t
  <2>7. Nested(t, spent[r], dead[r], n) /\ Carried(t, spent[r], dead[r])
    BY <2>4, <2>5, <2>6, Opens
  <2>8. \A j \in 1 .. Len(t) : DOMAIN t[j] = FrameFields
    BY <2>4, <2>5, <2>6
  <2>9. RunOK(x, spent[r], dead[r])
    BY <1>2, <2>3, <2>6, <2>7, <2>8, GoingIs DEF RunOK
  <2> QED
    BY <1>1, <2>2, <2>9, OneRun
<1> QED
  BY <1>3, <1>4

LEMMA AskOK ==
    ASSUME RunsInv, NEW r \in Runs, Ask(r)
    PROVE  RunsInv'
<1> DEFINE h == StepReq(Top(r)).text
           w == StepReq(Top(r)).whole
           x == [run[r] EXCEPT !.pc = "calling", !.heard = h, !.whole = w]
<1>1. /\ run[r].pc = "step" /\ spent' = spent /\ dead' = dead
      /\ run' = [run EXCEPT ![r].pc = "calling", ![r].heard = h, ![r].whole = w]
  BY DEF Ask, AtStep
<1>2. run[r].pc \in Going
  BY <1>1 DEF Going
<1>3. run' = [run EXCEPT ![r] = x]
  BY <1>1, RunTyped
<1>4. /\ x.pc = "calling" /\ x.stack = run[r].stack /\ x.frames = run[r].frames /\ DOMAIN x = DOMAIN run[r]
      /\ x.heard = h /\ x.whole = w
  BY <1>2, GoingIs
<1>5. h = StepReq(Last(x.stack)).text /\ w = StepReq(Last(x.stack)).whole
  BY <1>4 DEF Top
<1> HIDE DEF x, h, w
<1>6. RunOK(x, spent[r], dead[r])
  BY <1>2, <1>4, <1>5, GoingIs DEF RunOK
<1> QED
  BY <1>1, <1>3, <1>6, OneRun

LEMMA UnansweredOK ==
    ASSUME RunsInv, NEW r \in Runs, Unanswered(r)
    PROVE  RunsInv'
<1> DEFINE x == [run[r] EXCEPT !.pc = "failed"]
<1>1. run[r].pc = "calling" /\ spent' = spent /\ dead' = dead /\ run' = [run EXCEPT ![r].pc = "failed"]
  BY DEF Unanswered
<1>2. run[r].pc \in Going
  BY <1>1 DEF Going
<1>3. run' = [run EXCEPT ![r] = x]
  BY <1>1
<1>4. x.pc = "failed" /\ x.stack = run[r].stack /\ x.frames = run[r].frames /\ DOMAIN x = DOMAIN run[r]
  BY <1>2, GoingIs
<1> HIDE DEF x
<1>5. RunOK(x, spent[r], dead[r])
  BY <1>2, <1>4, GoingIs DEF RunOK
<1> QED
  BY <1>1, <1>3, <1>5, OneRun

\* The frame on top in another state, and the list as it was below.
LEMMA TopIs ==
    ASSUME NEW s, Listing(s), Len(s) >= 1, NEW fr
    PROVE  /\ Listing(Append(Front(s), fr)) /\ Len(Append(Front(s), fr)) = Len(s) /\ Len(s) \in Nat
           /\ \A j \in 1 .. Len(s) - 1 : Append(Front(s), fr)[j] = s[j]
           /\ Append(Front(s), fr)[Len(s)] = fr
<1> DEFINE f == Front(s)
           n == Len(s)
<1>1. Listing(f) /\ Len(f) = n - 1 /\ n \in Nat /\ \A i \in 1 .. n - 1 : f[i] = s[i]
  BY FrontIs
<1> HIDE DEF f, n
<1>2. /\ Listing(Append(f, fr)) /\ Len(Append(f, fr)) = Len(f) + 1 /\ Len(f) \in Nat
      /\ \A i \in 1 .. Len(f) : Append(f, fr)[i] = f[i]
      /\ Append(f, fr)[Len(f) + 1] = fr
  BY <1>1, AppendIs
<1>3. Len(f) + 1 = n
  BY <1>1
<1> QED
  BY <1>1, <1>2, <1>3 DEF f, n

LEMMA AdvancedIs ==
    ASSUME NEW fr, DOMAIN fr = FrameFields, NEW output, NEW calls
    PROVE  /\ DOMAIN Advanced(fr, output, calls) = FrameFields
           /\ Advanced(fr, output, calls).serial = fr.serial
           /\ Advanced(fr, output, calls).previous = output
  BY DEF Advanced, FrameFields

LEMMA AnsweredOK ==
    ASSUME RunsInv, NEW r \in Runs, NEW says \in BOOLEAN, NEW mine \in BOOLEAN, Answered(r, says, mine)
    PROVE  RunsInv'
<1> DEFINE s == run[r].stack
           sp == spent[r]
           n == Len(sp) + 1
           under == {s[i].serial : i \in DOMAIN s}
           c == [under |-> under, mine |-> mine, says |-> says]
           sq == Append(sp, c)
           out == IF says THEN {n} ELSE {}
           fr == Advanced(Top(r), out, <<[call |-> n, mine |-> mine]>>)
           t == Append(Front(s), fr)
           x == [run[r] EXCEPT !.pc = "step", !.stack = t]
<1>1. /\ run[r].pc = "calling" /\ dead' = dead /\ spent' = [spent EXCEPT ![r] = Append(@, c)]
      /\ run' = [run EXCEPT ![r].pc = "step", ![r].stack = t]
  BY DEF Answered, WithTop
<1>2. run[r].pc \in Going
  BY <1>1 DEF Going
<1>3. run' = [run EXCEPT ![r] = x] /\ spent' = [spent EXCEPT ![r] = sq]
  BY <1>1, RunTyped
<1>4. x.pc = "step" /\ x.stack = t /\ x.frames = run[r].frames /\ DOMAIN x = DOMAIN run[r]
  BY <1>2, GoingIs
<1>5. /\ Listing(s) /\ Len(s) >= 1 /\ Listing(sp) /\ Len(s) \in Nat /\ DOMAIN s = 1 .. Len(s)
      /\ Nested(s, sp, dead[r], run[r].frames) /\ Carried(s, sp, dead[r])
      /\ \A j \in 1 .. Len(s) : DOMAIN s[j] = FrameFields
      /\ Top(r) = s[Len(s)]
  BY <1>2, GoingIs
<1>6. DOMAIN Top(r) = FrameFields
  BY <1>5
<1>7. DOMAIN fr = FrameFields /\ fr.serial = s[Len(s)].serial /\ fr.previous = out
  BY <1>5, <1>6, AdvancedIs
<1>8. c.under = {s[j].serial : j \in 1 .. Len(s)} /\ c.says = says
  BY <1>5
<1> HIDE DEF s, sp, c, fr, x
<1>9. /\ Listing(t) /\ Len(t) = Len(s) /\ (\A j \in 1 .. Len(s) - 1 : t[j] = s[j]) /\ t[Len(s)] = fr
  BY <1>5, TopIs
<1>10. /\ Listing(sq) /\ Len(sq) = Len(sp) + 1 /\ (\A i \in 1 .. Len(sp) : sq[i] = sp[i]) /\ sq[Len(sp) + 1] = c
  BY <1>5, AppendIs
<1> HIDE DEF t, sq
<1>11. Nested(t, sq, dead[r], run[r].frames) /\ Carried(t, sq, dead[r])
  <2>1. /\ \A j \in 1 .. Len(s) : s[j].serial \in sq[Len(sp) + 1].under
        /\ \A u \in sq[Len(sp) + 1].under : \E j \in 1 .. Len(s) : u = s[j].serial
        /\ t[Len(s)].previous = IF sq[Len(sp) + 1].says THEN {Len(sp) + 1} ELSE {}
        /\ t[Len(s)].serial = s[Len(s)].serial
    BY <1>7, <1>8, <1>9, <1>10
  <2> DEFINE e == dead[r]
             k == run[r].frames
  <2>2. Nested(s, sp, e, k) /\ Carried(s, sp, e) /\ Len(s) >= 1
    BY <1>5
  <2> HIDE DEF e, k
  <2>3. Nested(t, sq, e, k) /\ Carried(t, sq, e)
    BY <1>9, <1>10, <2>1, <2>2, Hears
  <2> QED
    BY <2>3 DEF e, k
<1>12. \A j \in 1 .. Len(t) : DOMAIN t[j] = FrameFields
  <2>0. Len(s) \in Nat
    BY <1>5
  <2>1. \A j \in 1 .. Len(s) : j \in 1 .. Len(s) - 1 \/ j = Len(s)
    BY <2>0
  <2>2. \A j \in 1 .. Len(s) - 1 : j \in 1 .. Len(s)
    BY <2>0
  <2> QED
    BY <1>5, <1>7, <1>9, <2>1, <2>2
<1>13. RunOK(x, sq, dead[r])
  BY <1>2, <1>4, <1>5, <1>9, <1>10, <1>11, <1>12, GoingIs DEF RunOK
<1> QED
  BY <1>1, <1>3, <1>13, OneRun

LEMMA SkipOK ==
    ASSUME RunsInv, NEW r \in Runs, SkipStep(r)
    PROVE  RunsInv'
<1> DEFINE s == run[r].stack
           fr == Advanced(Top(r), Top(r).previous, <<>>)
           t == Append(Front(s), fr)
           x == [run[r] EXCEPT !.pc = "step", !.stack = t]
<1>1. /\ run[r].pc = "failed" /\ dead' = dead /\ spent' = spent
      /\ run' = [run EXCEPT ![r].pc = "step", ![r].stack = t]
  BY DEF SkipStep, WithTop
<1>2. run[r].pc \in Going
  BY <1>1 DEF Going
<1>3. run' = [run EXCEPT ![r] = x]
  BY <1>1, RunTyped
<1>4. x.pc = "step" /\ x.stack = t /\ x.frames = run[r].frames /\ DOMAIN x = DOMAIN run[r]
  BY <1>2, GoingIs
<1>5. /\ Listing(s) /\ Len(s) >= 1 /\ Len(s) \in Nat
      /\ Nested(s, spent[r], dead[r], run[r].frames) /\ Carried(s, spent[r], dead[r])
      /\ \A j \in 1 .. Len(s) : DOMAIN s[j] = FrameFields
      /\ Top(r) = s[Len(s)]
  BY <1>2, GoingIs
<1>6. DOMAIN Top(r) = FrameFields
  BY <1>5
<1>7. DOMAIN fr = FrameFields /\ fr.serial = s[Len(s)].serial /\ fr.previous = s[Len(s)].previous
  BY <1>5, <1>6, AdvancedIs
<1> HIDE DEF s, fr, x
<1>8. /\ Listing(t) /\ Len(t) = Len(s) /\ (\A j \in 1 .. Len(s) - 1 : t[j] = s[j]) /\ t[Len(s)] = fr
  BY <1>5, TopIs
<1> HIDE DEF t
<1>9. \A j \in 1 .. Len(s) : j \in 1 .. Len(s) - 1 \/ j = Len(s)
  BY <1>5
<1>10. /\ \A j \in 1 .. Len(s) : t[j].serial = s[j].serial /\ t[j].previous = s[j].previous
       /\ \A j \in 1 .. Len(t) : DOMAIN t[j] = FrameFields
  BY <1>5, <1>7, <1>8, <1>9
<1>11. Nested(t, spent[r], dead[r], run[r].frames) /\ Carried(t, spent[r], dead[r])
  BY <1>5, <1>8, <1>10, Alike
<1>12. RunOK(x, spent[r], dead[r])
  BY <1>2, <1>4, <1>5, <1>8, <1>10, <1>11, GoingIs DEF RunOK
<1> QED
  BY <1>1, <1>3, <1>12, OneRun

\* The outermost flow ends, well or not.
LEMMA BookOK ==
    ASSUME RunsInv, NEW r \in Runs, run[r].pc \in Going, run' = Book(r, Top(r)), spent' = spent,
           NEW d, dead' = [dead EXCEPT ![r] = d] \/ (dead' = dead /\ d = dead[r])
    PROVE  RunsInv'
<1> DEFINE x == [run[r] EXCEPT !.pc = "done", !.stack = <<Top(r)>>, !.booked = Top(r).calls]
<1>1. run' = [run EXCEPT ![r] = x]
  BY RunTyped DEF Book
<1>2. x.pc = "done" /\ DOMAIN x = DOMAIN run[r]
  BY GoingIs
<1> HIDE DEF x
<1>3. RunOK(x, spent[r], d)
  BY <1>2, GoingIs DEF RunOK, Going
<1> QED
  BY <1>1, <1>3, OneRun

LEMMA FlowFailsOK ==
    ASSUME RunsInv, NEW r \in Runs, FlowFails(r)
    PROVE  RunsInv'
<1> DEFINE s == run[r].stack
           t == Front(s)
           d == dead[r] \cup {Top(r).serial}
           x == [run[r] EXCEPT !.pc = "failed", !.stack = t]
<1>1. /\ run[r].pc \in Going /\ spent' = spent /\ dead' = [dead EXCEPT ![r] = @ \cup {Top(r).serial}]
      /\ run' = IF Len(s) = 1 THEN Book(r, Top(r)) ELSE [run EXCEPT ![r].pc = "failed", ![r].stack = Front(@)]
  BY DEF FlowFails, Broken, Going
<1>2. dead' = [dead EXCEPT ![r] = d]
  BY <1>1, RunTyped
<1>3. CASE Len(s) = 1
  <2> HIDE DEF d
  <2> QED
    BY <1>1, <1>2, <1>3, BookOK
<1>4. CASE Len(s) # 1
  <2>1. run' = [run EXCEPT ![r] = x]
    BY <1>1, <1>4, RunTyped
  <2>2. x.pc = "failed" /\ x.stack = t /\ x.frames = run[r].frames /\ DOMAIN x = DOMAIN run[r]
    BY <1>1, GoingIs
  <2>3. /\ Listing(s) /\ Len(s) >= 1 /\ Len(s) \in Nat
        /\ Nested(s, spent[r], dead[r], run[r].frames) /\ Carried(s, spent[r], dead[r])
        /\ \A j \in 1 .. Len(s) : DOMAIN s[j] = FrameFields
        /\ Top(r) = s[Len(s)]
    BY <1>1, GoingIs
  <2>4. d = dead[r] \cup {s[Len(s)].serial}
    BY <2>3
  <2> HIDE DEF s, x, d
  <2>5. Listing(t) /\ Len(t) = Len(s) - 1 /\ \A i \in 1 .. Len(s) - 1 : t[i] = s[i]
    BY <2>3, FrontIs
  <2> HIDE DEF t
  <2>6. Len(s) >= 2 /\ Len(t) >= 1 /\ \A j \in 1 .. Len(t) : j \in 1 .. Len(s) - 1 /\ j \in 1 .. Len(s)
    BY <1>4, <2>3, <2>5
  <2>7. Nested(t, spent[r], d, run[r].frames) /\ Carried(t, spent[r], d)
    BY <2>3, <2>4, <2>5, <2>6, Dies
  <2>8. \A j \in 1 .. Len(t) : DOMAIN t[j] = FrameFields
    BY <2>3, <2>5, <2>6
  <2>9. RunOK(x, spent[r], d)
    BY <1>1, <2>2, <2>5, <2>6, <2>7, <2>8, GoingIs DEF RunOK
  <2> QED
    BY <1>1, <1>2, <2>1, <2>9, OneRun
<1> QED
  BY <1>3, <1>4

LEMMA FlowReturnsOK ==
    ASSUME RunsInv, NEW r \in Runs, FlowReturns(r)
    PROVE  RunsInv'
<1> DEFINE s == run[r].stack
           f == Front(s)
           fr == Advanced(Last(f), Top(r).previous, Top(r).calls)
           t == Append(Front(f), fr)
           x == [run[r] EXCEPT !.stack = t]
<1>1. /\ run[r].pc = "step" /\ Top(r).previous # {} /\ spent' = spent /\ dead' = dead
      /\ run' = IF Len(s) = 1 THEN Book(r, Top(r)) ELSE [run EXCEPT ![r].stack = t]
  BY DEF FlowReturns
<1>2. run[r].pc \in Going
  BY <1>1 DEF Going
<1>3. CASE Len(s) = 1
  BY <1>1, <1>2, <1>3, BookOK
<1>4. CASE Len(s) # 1
  <2>1. run' = [run EXCEPT ![r] = x]
    BY <1>1, <1>4
  <2>2. x.pc = "step" /\ x.stack = t /\ x.frames = run[r].frames /\ DOMAIN x = DOMAIN run[r]
    BY <1>1, <1>2, GoingIs
  <2>3. /\ Listing(s) /\ Len(s) >= 1 /\ Len(s) \in Nat
        /\ Nested(s, spent[r], dead[r], run[r].frames) /\ Carried(s, spent[r], dead[r])
        /\ \A j \in 1 .. Len(s) : DOMAIN s[j] = FrameFields
        /\ Top(r) = s[Len(s)]
    BY <1>2, GoingIs
  <2> DEFINE N == Len(s)
  <2> HIDE DEF s, x
  <2>4. Listing(f) /\ Len(f) = N - 1 /\ \A i \in 1 .. N - 1 : f[i] = s[i]
    BY <2>3, FrontIs
  <2>5. N \in Nat /\ N >= 2 /\ N - 1 \in 1 .. N - 1 /\ N - 1 \in 1 .. N
    <3>1. N \in Nat /\ N >= 1 /\ N # 1
      BY <1>4, <2>3 DEF s
    <3> HIDE DEF N
    <3> QED
      BY <3>1
  <2> HIDE DEF f, N
  <2>6. Last(f) = s[N - 1] /\ Len(f) >= 1
    BY <2>4, <2>5, FrontIs
  <2>7. DOMAIN Last(f) = FrameFields
    BY <2>3, <2>5, <2>6 DEF N
  <2>8. DOMAIN fr = FrameFields /\ fr.serial = s[N - 1].serial /\ fr.previous = s[N].previous /\ fr.previous # {}
    BY <1>1, <2>3, <2>6, <2>7, AdvancedIs DEF N
  <2> HIDE DEF fr
  <2>9. Listing(t) /\ Len(t) = N - 1 /\ (\A j \in 1 .. N - 2 : t[j] = f[j]) /\ t[N - 1] = fr
    <3>0. Listing(f) /\ Len(f) >= 1
      BY <2>4, <2>6
    <3>1. /\ Listing(t) /\ Len(t) = Len(f) /\ (\A j \in 1 .. Len(f) - 1 : t[j] = f[j]) /\ t[Len(f)] = fr
      BY <3>0, TopIs
    <3>2. Len(f) - 1 = N - 2
      BY <2>4, <2>5
    <3> QED
      BY <2>4, <3>1, <3>2
  <2> HIDE DEF t
  <2>10. \A j \in 1 .. N - 2 : t[j] = s[j]
    BY <2>4, <2>5, <2>9
  <2>11. Nested(t, spent[r], dead[r], run[r].frames) /\ Carried(t, spent[r], dead[r])
    BY <2>3, <2>5, <2>8, <2>9, <2>10, HandsOver DEF N
  <2>12. \A j \in 1 .. Len(t) : DOMAIN t[j] = FrameFields
    <3>1. \A j \in 1 .. N - 1 : j \in 1 .. N - 2 \/ j = N - 1
      BY <2>5
    <3>2. \A j \in 1 .. N - 2 : j \in 1 .. N
      BY <2>5
    <3> QED
      BY <2>3, <2>8, <2>9, <2>10, <3>1, <3>2 DEF N
  <2>13. RunOK(x, spent[r], dead[r])
    BY <1>2, <2>2, <2>5, <2>9, <2>11, <2>12, GoingIs DEF RunOK
  <2> QED
    BY <1>1, <2>1, <2>13, OneRun
<1> QED
  BY <1>3, <1>4

\* A run carries, frame by frame, the last of its own calls that answered.
THEOREM DraftsAreCarried == FlowsSpec => []RunsInv
<1>1. FlowsInit => RunsInv
  <2> SUFFICES ASSUME FlowsInit PROVE RunsInv
    OBVIOUS
  <2>1. run = [r \in Runs |-> Idle] /\ spent = [r \in Runs |-> <<>>] /\ dead = [r \in Runs |-> {}]
    BY DEF FlowsInit
  <2>2. Listing(<<>>)
    <3>1. <<>> \in Seq({})
      OBVIOUS
    <3> QED
      BY <3>1, ListIs
  <2>3. RunOK(Idle, <<>>, {})
    BY <2>2 DEF RunOK, Idle, Going
  <2> QED
    BY <2>1, <2>3 DEF RunsInv
<1>2. RunsInv /\ [FlowsNext]_flowsVars => RunsInv'
  <2> SUFFICES ASSUME RunsInv, [FlowsNext]_flowsVars PROVE RunsInv'
    OBVIOUS
  <2>1. CASE UNCHANGED runVars
    BY <2>1 DEF runVars, RunsInv
  <2>2. ASSUME NEW e \in Editors, Editing(e) PROVE UNCHANGED runVars
    BY <2>2 DEF Editing, AskDeleteAgent, AskDeleteFlow, SubmitAgent, SubmitFlow, Accept, SaveAgent, SaveFlow,
       Write, LoadManagedAgents, LoadManagedFlows, ListRecords, DeleteAgent, DeleteFlow, Drop, RemoveAgent,
       RemoveFlow, Unregister, SetNone, SetAgent, SetFlow, SetRecord
  <2>3. ASSUME NEW r \in Runs, NEW f \in Called, CallFlow(r, f) \/ TestFlow(r, f) PROVE RunsInv'
    BY <2>3, BeginOK DEF CallFlow, TestFlow
  <2>4. ASSUME NEW r \in Runs, Working(r) PROVE RunsInv'
    BY <2>4, EnterOK, AskOK, UnansweredOK, SkipOK, FlowFailsOK, FlowReturnsOK, AnsweredOK DEF Working
  <2>5. CASE Restart
    <3> DEFINE x(r) == IF run[r].pc \in {"idle", "done"} THEN run[r] ELSE [Idle EXCEPT !.pc = "lost"]
    <3>1. run' = [r \in Runs |-> x(r)] /\ spent' = spent /\ dead' = dead
      BY <2>5 DEF Restart
    <3>2. ASSUME NEW r \in Runs PROVE RunOK(x(r), spent[r], dead[r])
      <4>1. RunOK(run[r], spent[r], dead[r])
        BY RunTyped
      <4>2. CASE run[r].pc \in {"idle", "done"}
        BY <4>1, <4>2
      <4>3. CASE run[r].pc \notin {"idle", "done"}
        <5> DEFINE y == [Idle EXCEPT !.pc = "lost"]
        <5>1. y.pc = "lost" /\ DOMAIN y = {"pc", "test", "stack", "frames", "heard", "whole", "booked"}
          BY DEF Idle
        <5> HIDE DEF y
        <5>2. RunOK(y, spent[r], dead[r])
          BY <4>1, <5>1 DEF RunOK, Going
        <5> QED
          BY <4>3, <5>2 DEF y
      <4> QED
        BY <4>2, <4>3
    <3> HIDE DEF x
    <3> QED
      BY <3>1, <3>2 DEF RunsInv
  <2>6. CASE UNCHANGED flowsVars
    BY <2>1, <2>6 DEF flowsVars, runVars
  <2> QED
    BY <2>1, <2>2, <2>3, <2>4, <2>5, <2>6 DEF FlowsNext
<1> QED
  BY <1>1, <1>2, PTL DEF FlowsSpec

\* A step after the first hears the last step of its flow that answered, and a
\* template adds at most what the flow itself was asked (flows.go:96-126).
THEOREM StepsHearTheDraft == FlowsSpec => []HearsTheDraft
<1>1. RunsInv => HearsTheDraft
  <2> SUFFICES ASSUME RunsInv, NEW r \in Runs, run[r].pc = "calling", Top(r).at > 1
               PROVE  LET fr == Top(r)
                          live == {i \in DOMAIN spent[r] : fr.serial \in spent[r][i].under
                                                           /\ spent[r][i].under \cap dead[r] = {}}
                          draft == IF live # {} /\ spent[r][Max(live)].says THEN {Max(live)} ELSE {}
                      IN /\ ~run[r].whole
                         /\ Now(r).input = {} => run[r].heard = draft
                         /\ run[r].heard \subseteq draft \cup fr.asked.text
    BY DEF HearsTheDraft
  <2> DEFINE fr == Top(r)
             s == run[r].stack
             sp == spent[r]
             live == {i \in DOMAIN sp : fr.serial \in sp[i].under /\ sp[i].under \cap dead[r] = {}}
             draft == IF live # {} /\ sp[Max(live)].says THEN {Max(live)} ELSE {}
             step == fr.steps[fr.at]
  <2>1. run[r].pc \in Going
    BY DEF Going
  <2>2. fr = s[Len(s)] /\ Len(s) \in Nat /\ Len(s) >= 1 /\ Carried(s, sp, dead[r]) /\ Listing(sp)
    BY <2>1, GoingIs
  <2>3. run[r].heard = StepReq(fr).text /\ run[r].whole = StepReq(fr).whole
    BY RunTyped DEF RunOK, Top
  <2>4. StepReq(fr) = [text |-> Render(step, fr.previous, fr.asked.text), whole |-> FALSE]
    BY DEF StepReq
  <2>5. DOMAIN sp = 1 .. Len(sp)
    <3> HIDE DEF sp
    <3> QED
      BY <2>2, LenProperties DEF Listing
  <2>6. live = Own(s, sp, dead[r], Len(s))
    <3>1. ~(Len(s) < Len(s))
      BY <2>2
    <3> HIDE DEF sp, s, fr
    <3> QED
      BY <2>2, <2>5, <3>1 DEF Own, Live
  <2>7. fr.previous = draft
    <3>1. s[Len(s)].previous = Draft(sp, Own(s, sp, dead[r], Len(s)))
      BY <2>2 DEF Carried
    <3>2. draft = Draft(sp, live)
      BY DEF Draft
    <3> HIDE DEF live, draft, sp, s, fr
    <3> QED
      BY <2>2, <2>6, <3>1, <3>2
  <2>8. Now(r) = step
    BY DEF Now
  <2> HIDE DEF live, draft, sp, s, fr, step
  <2>9. /\ step.input = {} => run[r].heard = draft
        /\ run[r].heard \subseteq draft \cup fr.asked.text
        /\ ~run[r].whole
    BY <2>3, <2>4, <2>7 DEF Render
  <2>10. /\ ~run[r].whole
         /\ Now(r).input = {} => run[r].heard = draft
         /\ run[r].heard \subseteq draft \cup fr.asked.text
    BY <2>8, <2>9
  <2> QED
    BY <2>10 DEF live, draft, sp, s, fr
<1> QED
  BY <1>1, DraftsAreCarried, PTL
=============================================================================
