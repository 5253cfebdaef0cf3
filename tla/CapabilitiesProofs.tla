------------------------- MODULE CapabilitiesProofs -------------------------
(***************************************************************************)
(* What is asked of the vendors besides chat: the loops over an alias's    *)
(* chain, for any config, voices, keys, calls, settings and number of      *)
(* requests and administrators; and the bill of the live calls they open.  *)
(*                                                                         *)
(* A call asks only what its alias's chain and its caller's keys allow and *)
(* has booked what it was served (JobInv): LiveIsPriced, NoForeignVoice,   *)
(* AskedIsShown and BookedAsServed follow.  What is still to be asked of   *)
(* it is asked once, whatever creditLast does to the order (WalkInv):      *)
(* ImplementsFallback.  While one administrator saves at a time and writes *)
(* land, the list on its way to the router is the store's (SettingsInv).   *)
(*                                                                         *)
(* What a live session cost and what requests in flight have yet to charge *)
(* of it are together its mark in the registry, or less after a crash, and *)
(* the mark never runs ahead of the clock (LiveInv).                       *)
(***************************************************************************)
EXTENDS Capabilities, LiveSessions, ChainLemmas

-----------------------------------------------------------------------------
\* The same of a configured alias, for one call.
LEMMA Routes ==
    ASSUME NEW d \in Deployments, NEW a \in Aliases
    PROVE  /\ d[a] \in Route /\ d[a].chain \in Seq(Target) /\ d[a].names \in Seq(Names)
           /\ Len(d[a].names) = Len(d[a].chain)
BY CapabilitiesAssumption DEF Route

LEMMA CallOK ==
    ASSUME NEW c \in Calls
    PROVE  c.op \in Ops /\ c.alias \in Aliases /\ c.ring \in KeyRing /\ c \in Call
BY CapabilitiesAssumption DEF Call

LEMMA VendorsAre ==
    ASSUME NEW op \in Ops, NEW chain \in Seq(Target), NEW t \in DOMAIN chain
    PROVE  LET v == Vendors(op, chain)[t] IN
           v \in Seq(Providers) /\ Range(v) \subseteq Coordinates(chain[t])
           /\ Range(v) \subseteq Range(Expand(chain[t]))
<1> DEFINE s == chain[t].serves
           v == Vendors(op, chain)[t]
<1>1. chain[t] \in Target /\ s \in Seq(Providers)
  BY ElementOfSeq, LenProperties DEF Target
<1>2. Only(s, Live) \in Seq(Providers) /\ Range(Only(s, Live)) \subseteq Range(s)
  <2> HIDE DEF s
  <2>1. Only(s, Live) \in Seq(Providers \cap Live) /\ Range(Only(s, Live)) = Range(s) \cap Live
    BY <1>1, OnlyRange
  <2> QED
    BY <2>1, SeqMonotonic
<1>3. v \in {s, Only(s, Live), <<>>}
  BY DEF Vendors, Expand
<1>4. v = Expand(chain[t]) \/ v = <<>>
  BY DEF Vendors, Expand
<1> HIDE DEF s, v
<1>5. v \in Seq(Providers)
  BY <1>1, <1>2, <1>3, NoneOf
<1>6. Range(v) \subseteq Range(s)
  BY <1>2, <1>3, NoneOf
<1>7. Range(v) \subseteq Range(Expand(chain[t]))
  BY <1>4, NoneOf
<1> QED
  BY <1>5, <1>6, <1>7 DEF Coordinates, s, v

AnyWay == Ops \cup {"native", "local"}

LEMMA WaysAre ==
    ASSUME NEW c \in Calls, NEW p
    PROVE  Ways(c, p) \in Seq(AnyWay)
<1> DEFINE two == <<"native", "local">>
           S == {w \in {"native", "local"} : /\ p \in (IF w = "native" THEN Native ELSE Local)
                                             /\ c.engine \in {"auto", w}}
<1>1. DecisionCandidates(c.engine, p) = Only(two, S)
  BY DEF DecisionCandidates
<1>2. two \in Seq(AnyWay)
  BY DEF AnyWay
<1>3. Only(two, S) \in Seq(AnyWay)
  <2> HIDE DEF S, two
  <2>1. Only(two, S) \in Seq(AnyWay \cap S)
    BY <1>2, OnlyRange
  <2> QED
    BY <2>1, SeqMonotonic
<1>4. <<c.op>> \in Seq(AnyWay)
  <2>1. c.op \in AnyWay
    BY CallOK DEF AnyWay
  <2> QED
    BY <2>1, OneOf
<1> QED
  BY <1>1, <1>3, <1>4, NoneOf DEF Ways

LEMMA AsksAre ==
    ASSUME NEW c \in Calls, NEW g \in Rung
    PROVE  /\ AsksOf(c, g) \in Seq(Ask)
           /\ \A k \in Range(AsksOf(c, g)) : k \in Ask /\ k.rung = g /\ Available(c.ring, g)
<1> DEFINE ways == IF Available(c.ring, g) THEN Ways(c, g.prov) ELSE <<>>
           s == AsksOf(c, g)
<1>1. ways \in Seq(AnyWay)
  BY WaysAre, NoneOf
<1>2. ways # <<>> => Available(c.ring, g)
  OBVIOUS
<1>3. s = [i \in DOMAIN ways |-> [rung |-> g, way |-> ways[i], final |-> i = Len(ways)]]
  BY DEF AsksOf
<1> HIDE DEF ways, s
<1>4. Len(ways) \in Nat /\ DOMAIN ways = 1 .. Len(ways) /\ \A i \in 1 .. Len(ways) : ways[i] \in AnyWay
  BY <1>1, LenProperties, ElementOfSeq
<1>5. \A i \in 1 .. Len(ways) : s[i] \in Ask /\ s[i].rung = g /\ Available(c.ring, g)
  <2> TAKE i \in 1 .. Len(ways)
  <2>1. ways # <<>>
    BY <1>4
  <2>2. ways[i] \in AnyWay
    BY <1>4
  <2> QED
    BY <1>2, <1>3, <1>4, <2>1, <2>2 DEF Ask, AnyWay
<1>6. s = [i \in 1 .. Len(ways) |-> s[i]]
  BY <1>3, <1>4
<1>7. s \in Seq(Ask) /\ DOMAIN s = 1 .. Len(ways)
  BY <1>4, <1>5, <1>6, Listed
<1>8. \A k \in Range(s) : \E i \in 1 .. Len(ways) : k = s[i]
  BY <1>7 DEF Range
<1> QED
  BY <1>5, <1>7, <1>8 DEF s

\* Whatever setting orders the places and whatever marks move a rung back, the
\* ways that are left to ask are those that stand open.
LEMMA AllAreAsked ==
    ASSUME NEW d \in Deployments, NEW c \in Calls, NEW marks,
           NEW order \in Seq(DOMAIN d[c.alias].chain), Range(order) = DOMAIN d[c.alias].chain
    PROVE  /\ AllAsks(c, d[c.alias].chain, order, marks) \in Seq(Offered[d][c])
           /\ Range(AllAsks(c, d[c.alias].chain, order, marks)) = Offered[d][c]
<1> DEFINE chain == d[c.alias].chain
           D == DOMAIN chain
           v == Vendors(c.op, chain)
           W == Within(c.ring, D, v)
           runs == Attempts(c.ring, order, v)
           back == {g \in Range(runs) : Moved(c, marks, g)}
           front == Range(runs) \ back
           one == Only(runs, front)
           two == Only(runs, back)
           tries == CreditLast(c, marks, runs)
           asks == [i \in DOMAIN tries |-> AsksOf(c, tries[i])]
           O == Offered[d][c]
<1>1. chain \in Seq(Target) /\ c.op \in Ops /\ c.ring \in KeyRing /\ D \in SUBSET Nat
  BY Routes, CallOK, LenProperties
<1>2. \A t \in D : v[t] \in Seq(Providers)
  BY <1>1, VendorsAre
<1>3. /\ runs \in Seq(W)
      /\ \A g \in W : g.target \in Range(order) /\ g.key <= c.ring.keys[g.prov] => g \in Range(runs)
  <2> HIDE DEF v
  <2> QED
    BY <1>1, <1>2, AttemptsAreWithin DEF KeyRing, HasKeys
<1>4. tries \in Seq(W) /\ Range(tries) = Range(runs)
  <2>1. tries = one \o two
    BY DEF CreditLast
  <2> HIDE DEF runs, W, front, back
  <2>2. one \in Seq(W \cap front) /\ Range(one) = Range(runs) \cap front
    BY <1>3, OnlyRange
  <2>3. two \in Seq(W \cap back) /\ Range(two) = Range(runs) \cap back
    BY <1>3, OnlyRange
  <2> HIDE DEF one, two, tries
  <2>4. one \in Seq(W) /\ two \in Seq(W)
    BY <2>2, <2>3, SeqMonotonic
  <2>5. one \o two \in Seq(W) /\ Range(one \o two) = Range(one) \cup Range(two)
    BY <2>4, Both
  <2>6. Range(runs) = (Range(runs) \cap front) \cup (Range(runs) \cap back)
    BY DEF front, back
  <2> QED
    BY <2>1, <2>2, <2>3, <2>5, <2>6
<1>5. O = UNION {Range(AsksOf(c, g)) : g \in StandOpen(c, chain)}
  BY DEF Offered
<1>6. \A g \in W : Available(c.ring, g) => g \in StandOpen(c, chain)
  <2> SUFFICES ASSUME NEW g \in W, Available(c.ring, g)
               PROVE  g \in StandOpen(c, chain)
    OBVIOUS
  <2>1. g \in Rung /\ g.target \in D /\ g.prov \in Range(v[g.target])
        /\ (Gateway(g) => Mode(c.ring) # "own") /\ (~Gateway(g) => Mode(c.ring) # "global")
    BY DEF Within
  <2>2. c.ring.keys[g.prov] \in Nat /\ g.key \in Nat /\ g.key <= c.ring.keys[g.prov]
    BY <1>1, <2>1 DEF Rung, KeyRing, Available, Gateway
  <2>3. g \in [target : D, prov : {g.prov}, key : 0 .. c.ring.keys[g.prov]] /\ g.prov \in Providers
    <3> HIDE DEF D
    <3> QED
      BY <2>1, <2>2 DEF Rung
  <2> HIDE DEF W
  <2> QED
    BY <2>1, <2>3 DEF StandOpen
<1>7. \A g \in StandOpen(c, chain) : g \in W /\ g.key <= c.ring.keys[g.prov]
  <2> SUFFICES ASSUME NEW g \in StandOpen(c, chain)
               PROVE  g \in W /\ g.key <= c.ring.keys[g.prov]
    OBVIOUS
  <2>1. PICK p \in Providers : g \in [target : D, prov : {p}, key : 0 .. c.ring.keys[p]]
    BY DEF StandOpen
  <2>2. g.prov \in Range(v[g.target])
        /\ (Gateway(g) => Mode(c.ring) # "own") /\ (~Gateway(g) => Mode(c.ring) # "global")
    BY DEF StandOpen
  <2>3. c.ring.keys[p] \in Nat
    BY <1>1 DEF KeyRing
  <2> DEFINE n == c.ring.keys[p]
  <2> HIDE DEF D, v, n
  <2>4. g \in Rung /\ g.target \in D /\ g.prov = p /\ g.key <= n
    <3>1. g \in [target : D, prov : {p}, key : 0 .. n] /\ n \in Nat
      BY <2>1, <2>3 DEF n
    <3>2. g = [target |-> g.target, prov |-> g.prov, key |-> g.key] /\ g.target \in D /\ g.prov = p /\ g.key \in 0 .. n
      BY <3>1
    <3>3. g.target \in Nat
      BY <1>1, <3>2
    <3>4. g.key \in Nat /\ g.key <= n
      BY <3>1, <3>2
    <3> QED
      BY <3>2, <3>3, <3>4 DEF Rung
  <2> USE DEF n
  <2> QED
    BY <2>2, <2>4 DEF Within
<1> HIDE DEF W, O, tries, runs, D, chain
<1>8. \A g \in W : AsksOf(c, g) \in Seq(O)
  <2> SUFFICES ASSUME NEW g \in W PROVE AsksOf(c, g) \in Seq(O)
    OBVIOUS
  <2>1. g \in Rung
    BY DEF W, Within
  <2> DEFINE s == AsksOf(c, g)
  <2>2. s \in Seq(Ask) /\ \A k \in Range(s) : Available(c.ring, g)
    BY <2>1, AsksAre
  <2> HIDE DEF s
  <2>3. s \in Seq(Range(s))
    BY <2>2, SeqOfRange
  <2>4. Range(s) \subseteq O
    <3> SUFFICES ASSUME NEW k \in Range(s) PROVE k \in O
      OBVIOUS
    <3>1. g \in StandOpen(c, chain)
      BY <1>6, <2>2
    <3> QED
      BY <1>5, <3>1 DEF s
  <2> QED
    BY <2>3, <2>4, SeqMonotonic DEF s
<1>9. Len(tries) \in Nat /\ DOMAIN tries = 1 .. Len(tries) /\ Range(tries) = {tries[i] : i \in 1 .. Len(tries)}
      /\ \A i \in 1 .. Len(tries) : tries[i] \in W
  BY <1>4, LenProperties, ElementOfSeq, RangeEquality
<1>10. asks = [i \in 1 .. Len(tries) |-> asks[i]] /\ \A i \in 1 .. Len(tries) : asks[i] = AsksOf(c, tries[i])
  BY <1>9
<1>11. AllAsks(c, chain, order, marks) = FlattenSeq(asks)
  BY DEF AllAsks, tries, runs
<1> HIDE DEF asks
<1>12. asks \in Seq(Seq(O)) /\ DOMAIN asks = 1 .. Len(tries)
  <2>1. \A i \in 1 .. Len(tries) : asks[i] \in Seq(O)
    BY <1>8, <1>9, <1>10
  <2> QED
    BY <1>9, <1>10, <2>1, Listed
<1>13. FlattenSeq(asks) \in Seq(O) /\ Range(FlattenSeq(asks)) = UNION {Range(asks[i]) : i \in DOMAIN asks}
  BY <1>12, JoinRange
<1>14. O \subseteq Range(FlattenSeq(asks))
  <2> SUFFICES ASSUME NEW k \in O PROVE k \in Range(FlattenSeq(asks))
    OBVIOUS
  <2>1. PICK g \in StandOpen(c, chain) : k \in Range(AsksOf(c, g))
    BY <1>5
  <2>2. g \in W /\ g.key <= c.ring.keys[g.prov] /\ g.target \in D
    BY <1>7 DEF W, Within
  <2>3. g \in Range(tries)
    BY <1>3, <1>4, <2>2 DEF D, chain
  <2>4. PICK i \in 1 .. Len(tries) : g = tries[i]
    BY <1>9, <2>3
  <2> QED
    BY <1>10, <1>12, <1>13, <2>1, <2>4
<1>15. Range(FlattenSeq(asks)) \subseteq O
  BY <1>13, RangeOfSeq
<1> QED
  BY <1>11, <1>13, <1>14, <1>15 DEF chain, O

\* The hypothesis of the refinement: no entry of the registry names a provider
\* twice, as none of config.default.yaml does.
NamedOnce ==
    \A d \in Deployments, a \in Aliases :
        \A t \in DOMAIN d[a].chain : IsInjective(d[a].chain[t].serves)

LEMMA TwoOnce ==
    ASSUME NEW a, NEW b, a # b
    PROVE  IsInjective(<<a, b>>)
<1> DEFINE s == <<a, b>>
<1>1. s \in Seq({a, b}) /\ Len(s) = 2 /\ s[1] = a /\ s[2] = b
  OBVIOUS
<1> HIDE DEF s
<1>2. DOMAIN s = 1 .. 2
  BY <1>1, LenProperties
<1>3. IsInjective(s)
  BY <1>1, <1>2 DEF IsInjective
<1> QED
  BY <1>3 DEF s

LEMMA WaysOnce ==
    ASSUME NEW c \in Calls, NEW g \in Rung
    PROVE  IsInjective(AsksOf(c, g))
<1> DEFINE two == <<"native", "local">>
           S == {w \in {"native", "local"} : /\ g.prov \in (IF w = "native" THEN Native ELSE Local)
                                             /\ c.engine \in {"auto", w}}
           ways == IF Available(c.ring, g) THEN Ways(c, g.prov) ELSE <<>>
           s == AsksOf(c, g)
<1>1. DecisionCandidates(c.engine, g.prov) = Only(two, S)
  BY DEF DecisionCandidates
<1>2. two \in Seq({"native", "local"}) /\ IsInjective(two)
  <2>1. two \in Seq({"native", "local"})
    OBVIOUS
  <2>2. IsInjective(two)
    BY TwoOnce
  <2> QED
    BY <2>1, <2>2
<1>3. IsInjective(Only(two, S))
  <2> HIDE DEF two, S
  <2> QED
    BY <1>2, OnlyOnce
<1>4. IsInjective(<<c.op>>) /\ IsInjective(<<>>)
  BY DEF IsInjective
<1>5. IsInjective(ways)
  BY <1>1, <1>3, <1>4 DEF Ways
<1>6. s = [i \in DOMAIN ways |-> [rung |-> g, way |-> ways[i], final |-> i = Len(ways)]]
  BY DEF AsksOf
<1> HIDE DEF ways, s
<1>7. DOMAIN s = DOMAIN ways /\ \A i \in DOMAIN ways : s[i].way = ways[i]
  BY <1>6
<1>8. IsInjective(s)
  BY <1>5, <1>7 DEF IsInjective
<1> QED
  BY <1>8 DEF s

\* No way of asking a rung comes twice.
LEMMA AllAskedOnce ==
    ASSUME NamedOnce, NEW d \in Deployments, NEW c \in Calls, NEW marks,
           NEW order \in Seq(DOMAIN d[c.alias].chain), IsInjective(order)
    PROVE  IsInjective(AllAsks(c, d[c.alias].chain, order, marks))
<1> DEFINE chain == d[c.alias].chain
           D == DOMAIN chain
           v == Vendors(c.op, chain)
           W == Within(c.ring, D, v)
           runs == Attempts(c.ring, order, v)
           back == {g \in Range(runs) : Moved(c, marks, g)}
           front == Range(runs) \ back
           one == Only(runs, front)
           two == Only(runs, back)
           tries == CreditLast(c, marks, runs)
           asks == [i \in DOMAIN tries |-> AsksOf(c, tries[i])]
<1>1. chain \in Seq(Target) /\ c.op \in Ops /\ HasKeys(c.ring) /\ D \in SUBSET Nat
  BY Routes, CallOK, LenProperties DEF KeyRing, HasKeys
<1>2. \A t \in D : v[t] \in Seq(Providers) /\ IsInjective(v[t])
  <2> TAKE t \in D
  <2>1. v[t] \in Seq(Providers)
    BY <1>1, VendorsAre
  <2> DEFINE serves == chain[t].serves
  <2>2. serves \in Seq(Providers)
    <3>1. chain[t] \in Target
      BY <1>1, ElementOfSeq, LenProperties
    <3> QED
      BY <3>1 DEF Target
  <2>3. IsInjective(serves)
    <3>1. c.alias \in Aliases
      BY CallOK
    <3> QED
      BY <3>1 DEF NamedOnce
  <2>4. v[t] \in {serves, Only(serves, Live), <<>>}
    BY DEF Vendors, Expand
  <2> HIDE DEF v, serves
  <2>5. IsInjective(Only(serves, Live)) /\ IsInjective(<<>>)
    <3>1. IsInjective(<<>>)
      BY DEF IsInjective
    <3> QED
      BY <2>2, <2>3, <3>1, OnlyOnce
  <2> QED
    BY <2>1, <2>3, <2>4, <2>5
<1>3. runs \in Seq(W) /\ IsInjective(runs)
  <2> HIDE DEF v
  <2> QED
    BY <1>1, <1>2, AttemptsAreWithin, AttemptsOnce
<1>4. tries \in Seq(Rung) /\ IsInjective(tries)
  <2>1. tries = one \o two
    BY DEF CreditLast
  <2>2. W \subseteq Rung
    BY DEF Within
  <2> HIDE DEF runs, W, front, back
  <2>3. one \in Seq(W \cap front) /\ Range(one) = Range(runs) \cap front /\ IsInjective(one)
    BY <1>3, OnlyRange, OnlyOnce
  <2>4. two \in Seq(W \cap back) /\ Range(two) = Range(runs) \cap back /\ IsInjective(two)
    BY <1>3, OnlyRange, OnlyOnce
  <2>5. front \cap back = {}
    BY DEF front
  <2> HIDE DEF one, two, tries
  <2>6. one \in Seq(Rung) /\ two \in Seq(Rung)
    BY <2>2, <2>3, <2>4, SeqMonotonic
  <2>7. one \o two \in Seq(Rung)
    BY <2>6, Both
  <2>8. Range(one) \cap Range(two) = {}
    BY <2>3, <2>4, <2>5
  <2> QED
    BY <2>1, <2>3, <2>4, <2>6, <2>7, <2>8, ConcatOnce
<1>5. AllAsks(c, chain, order, marks) = FlattenSeq(asks)
  BY DEF AllAsks
<1> HIDE DEF tries, runs, W, v, D
<1>6. /\ Len(tries) \in Nat /\ DOMAIN tries = 1 .. Len(tries)
      /\ \A i \in 1 .. Len(tries) : tries[i] \in Rung
  BY <1>4, LenProperties, ElementOfSeq
<1>7. asks = [i \in 1 .. Len(tries) |-> asks[i]] /\ \A i \in 1 .. Len(tries) : asks[i] = AsksOf(c, tries[i])
  BY <1>6
<1> HIDE DEF asks
<1>8. \A i \in 1 .. Len(tries) : /\ asks[i] \in Seq(Ask) /\ IsInjective(asks[i])
                                 /\ \A k \in Range(asks[i]) : k.rung = tries[i]
  BY <1>6, <1>7, AsksAre, WaysOnce
<1>9. asks \in Seq(Seq(Ask)) /\ DOMAIN asks = 1 .. Len(tries)
  BY <1>6, <1>7, <1>8, Listed
<1>10. \A i, j \in DOMAIN asks : i # j => Range(asks[i]) \cap Range(asks[j]) = {}
  <2> SUFFICES ASSUME NEW i \in 1 .. Len(tries), NEW j \in 1 .. Len(tries), i # j,
                      NEW k, k \in Range(asks[i]), k \in Range(asks[j])
               PROVE  FALSE
    BY <1>9
  <2>1. tries[i] = tries[j]
    BY <1>8
  <2> QED
    BY <1>4, <1>6, <2>1 DEF IsInjective
<1>11. IsInjective(FlattenSeq(asks))
  BY <1>8, <1>9, <1>10, JoinOnce
<1> QED
  BY <1>5, <1>11 DEF chain

LEMMA PlaceOf ==
    ASSUME NEW d \in Deployments, NEW a \in Aliases, NEW name
    PROVE  Place(d[a], name) \in 0 .. Len(d[a].chain)
<1> DEFINE s == d[a].names
           S == {i \in DOMAIN s : s[i] = name}
<1>1. s \in Seq(Names) /\ DOMAIN s = 1 .. Len(s) /\ Len(s) \in Nat /\ Len(s) = Len(d[a].chain)
  BY Routes, LenProperties
<1>2. CASE name \notin Range(s)
  BY <1>1, <1>2 DEF Place
<1>3. CASE name \in Range(s)
  <2>1. S # {} /\ S \subseteq Nat
    BY <1>1, <1>3 DEF Range
  <2>2. \E x \in S : \A y \in S : x <= y
    <3> HIDE DEF S
    <3> QED
      BY <2>1, LeastNat
  <2>3. Min(S) \in S
    <3> HIDE DEF S
    <3> QED
      BY <2>2 DEF Min
  <2>4. Place(d[a], name) = Min(S)
    BY <1>3 DEF Place
  <2>5. S \subseteq 1 .. Len(d[a].chain)
    BY <1>1
  <2>6. Place(d[a], name) \in 1 .. Len(d[a].chain)
    <3> HIDE DEF S
    <3> QED
      BY <2>3, <2>4, <2>5
  <2> QED
    BY <1>1, <2>6
<1> QED
  BY <1>2, <1>3

-----------------------------------------------------------------------------
(***************************************************************************)
(* What a call looks like on its way.                                      *)
(***************************************************************************)

Labels == {"pc", "call", "order", "voice", "rest", "at", "broke", "said", "left", "made",
           "charged", "result"}

Fields(q) == DOMAIN q = Labels /\ q.call \in Calls

\* It got past the look-up of its alias.
Admitted(d, c) ==
    d[c.alias].section \in Loop[c.op].in /\ (c.op = "live" => c.alias \notin LiveProblems[d])

\* A voice the caller names is the one the call has, from the beginning.
Heard(q) ==
    q.pc # "idle" /\ q.call.asked # None => q.pc # "voice" /\ q.voice = q.call.asked

Asking(d, q) ==
    /\ Heard(q)
    /\ q.pc # "idle" => Admitted(d, q.call)
    /\ q.pc \in {"voice", "sort"} =>
           /\ q.order \in Seq(DOMAIN d[q.call.alias].chain)
           /\ Range(q.order) = DOMAIN d[q.call.alias].chain
    /\ q.pc \in {"call", "wait"} => q.rest \in Seq(Offered[d][q.call])
    /\ q.pc = "wait" => /\ q.at \in Offered[d][q.call]
                        /\ q.said \in {None, VoiceFor(q.voice, q.at.rung.prov)}

Answer == [gateway : BOOLEAN, units : Units]

Booked(op, made, total) ==
    /\ made \in Seq(Answer) /\ total \in Nat
    /\ total <= Most(made)
    /\ op # "live" => total >= Cardinality({i \in Ours(made) : made[i].units > 0})
    /\ op \in Ops \ {"live", "transcription", "calibrate"} => total >= Cardinality(Ours(made))

JobOK(d, q) == Fields(q) /\ Asking(d, q) /\ Booked(q.call.op, q.made, q.charged)

JobInv ==
    /\ deploy \in Deployments /\ DOMAIN job = Requests
    /\ \A r \in Requests : JobOK(deploy, job[r])

\* The administrators' list is the store's, and only one is on its way, until
\* two of them cross or a write fails.
SettingsInv ==
    /\ DOMAIN admin = Admins /\ \A x \in Admins : DOMAIN admin[x] = {"pc", "list"}
    /\ ~failed => stored = saved
    /\ ~crossed => \A x, y \in Admins : admin[x].pc # "idle" /\ admin[y].pc # "idle" => x = y
    /\ ~crossed => \A x \in Admins : admin[x].pc = "read" => admin[x].list = stored
    /\ ~crossed /\ ~failed /\ (\A x \in Admins : admin[x].pc = "idle") => settings = stored

-----------------------------------------------------------------------------
\* One answer more, at what its loop books for it.
LEMMA NothingMade ==
    ASSUME NEW op, NEW made, made = <<>>
    PROVE  Booked(op, made, 0)
<1>1. made \in Seq(Answer) /\ DOMAIN made = {}
  OBVIOUS
<1>2. Ours(made) = {}
  BY <1>1 DEF Ours
<1>3. Cardinality({}) = 0
  BY FS_EmptySet
<1>4. Most(made) = 0
  BY <1>2, SumEmpty DEF Most
<1>5. Cardinality({i \in Ours(made) : made[i].units > 0}) = 0
  <2>1. {i \in Ours(made) : made[i].units > 0} = {}
    BY <1>2
  <2> QED
    BY <1>3, <2>1
<1>6. Cardinality(Ours(made)) = 0
  BY <1>2, <1>3
<1> QED
  BY <1>1, <1>4, <1>5, <1>6 DEF Booked

Worth(u) == IF u = 0 THEN 1 ELSE u

LEMMA BooksAre ==
    ASSUME NEW op \in Ops, NEW u \in Units
    PROVE  /\ Books[op][u] \in Nat /\ Books[op][u] <= Worth(u)
           /\ op # "live" /\ u > 0 => Books[op][u] >= 1
           /\ op \in Ops \ {"live", "transcription", "calibrate"} => Books[op][u] >= 1
<1>1. u \in Nat
  BY CapabilitiesAssumption
<1> QED
  BY <1>1 DEF Books, Worth, Ops, HandleImages, HandleSpeech, HandleEmbeddings, HandleResponses,
              HandleDecisions, HandleTranscription, HandleDecisionCalibrate, HandleLiveSession

LEMMA OneAnswer ==
    ASSUME NEW op \in Ops, NEW made, NEW total, Booked(op, made, total), NEW e \in Answer
    PROVE  Booked(op, Append(made, e),
                  total + (IF e.gateway THEN Books[op][e.units] ELSE 0))
<1> DEFINE more == Append(made, e)
           n == Len(made)
           ours == Ours(made)
           told(m) == {i \in Ours(m) : m[i].units > 0}
           f(m) == [i \in DOMAIN m |-> IF m[i].units = 0 THEN 1 ELSE m[i].units]
           bill == Books[op][e.units]
<1>1. /\ made \in Seq(Answer) /\ total \in Nat /\ total <= Most(made)
      /\ op # "live" => total >= Cardinality(told(made))
      /\ op \in Ops \ {"live", "transcription", "calibrate"} => total >= Cardinality(ours)
  BY DEF Booked
<1>2. /\ n \in Nat /\ DOMAIN made = 1 .. n /\ DOMAIN more = 1 .. n + 1 /\ more \in Seq(Answer)
      /\ more[n + 1] = e /\ \A i \in 1 .. n : more[i] = made[i] /\ made[i] \in Answer
  <2>1. more \in Seq(Answer) /\ Len(more) = n + 1 /\ more[n + 1] = e
        /\ \A i \in 1 .. n : more[i] = made[i]
    BY <1>1, AppendProperties
  <2>2. DOMAIN more = 1 .. Len(more)
    BY <2>1, LenProperties
  <2>3. n \in Nat /\ DOMAIN made = 1 .. n /\ \A i \in 1 .. n : made[i] \in Answer
    BY <1>1, LenProperties, ElementOfSeq
  <2> QED
    BY <2>1, <2>2, <2>3
<1>3. e.gateway \in BOOLEAN /\ e.units \in Units /\ Units \subseteq Nat
  BY CapabilitiesAssumption DEF Answer
<1> HIDE DEF more, n
<1>4. /\ Ours(more) = (IF e.gateway THEN ours \cup {n + 1} ELSE ours)
      /\ ours \subseteq 1 .. n /\ n + 1 \notin ours
  BY <1>2, <1>3 DEF Ours
<1>5. /\ told(more) = (IF e.gateway /\ e.units > 0 THEN told(made) \cup {n + 1} ELSE told(made))
      /\ told(made) \subseteq 1 .. n /\ n + 1 \notin told(made)
  BY <1>2, <1>3, <1>4
<1>6. /\ IsFiniteSet(ours) /\ IsFiniteSet(told(made))
  <2>1. IsFiniteSet(1 .. n)
    BY <1>2, FS_Interval
  <2>2. \A s \in SUBSET (1 .. n) : IsFiniteSet(s)
    BY <2>1, FS_Subset
  <2> QED
    BY <1>4, <1>5, <2>2
<1>7. /\ Cardinality(ours) \in Nat /\ Cardinality(told(made)) \in Nat
      /\ Cardinality(ours \cup {n + 1}) = Cardinality(ours) + 1
      /\ Cardinality(told(made) \cup {n + 1}) = Cardinality(told(made)) + 1
  BY <1>4, <1>5, <1>6, FS_CardinalityType, FS_AddElement
<1>8. Most(made) = SumFunctionOnSet(f(made), ours) /\ Most(more) = SumFunctionOnSet(f(more), Ours(more))
  BY DEF Most
<1>9. /\ \A i \in 1 .. n : f(more)[i] = f(made)[i] /\ f(made)[i] \in Int
      /\ f(more)[n + 1] = Worth(e.units) /\ Worth(e.units) \in Nat
  <2>1. \A i \in 1 .. n : made[i].units \in Nat
    BY <1>2, <1>3 DEF Answer
  <2>2. n + 1 \in DOMAIN more /\ \A i \in 1 .. n : i \in DOMAIN more /\ i \in DOMAIN made
    BY <1>2
  <2>3. \A i \in 1 .. n : f(more)[i] = f(made)[i] /\ f(made)[i] \in Int
    BY <1>2, <2>1, <2>2
  <2>4. f(more)[n + 1] = IF e.units = 0 THEN 1 ELSE e.units
    BY <1>2, <2>2
  <2> QED
    BY <1>3, <2>3, <2>4 DEF Worth
<1> DEFINE f1 == f(made)
           f2 == f(more)
<1> HIDE DEF f1, f2, ours
<1>10. SumFunctionOnSet(f2, ours) = Most(made) /\ Most(made) \in Int
  <2>1. \A i \in ours : f1[i] = f2[i] /\ f1[i] \in Int
    BY <1>4, <1>9 DEF f1, f2
  <2>2. Most(made) = SumFunctionOnSet(f1, ours)
    BY <1>8 DEF f1
  <2> QED
    BY <1>6, <2>1, <2>2, SumAgree, SumType
<1>11. e.gateway => Most(more) = Most(made) + Worth(e.units)
  <2>1. \A i \in ours \cup {n + 1} : f2[i] \in Int
    <3>1. \A i \in 1 .. n : f2[i] \in Int
      BY <1>9 DEF f2
    <3>2. f2[n + 1] \in Int
      BY <1>9 DEF f2
    <3> QED
      BY <1>4, <3>1, <3>2
  <2>2. SumFunctionOnSet(f2, ours \cup {n + 1}) = SumFunctionOnSet(f2, ours) + f2[n + 1]
    BY <1>4, <1>6, <2>1, SumMore
  <2> QED
    BY <1>4, <1>8, <1>9, <1>10, <2>2 DEF f2
<1>12. ~e.gateway => Most(more) = Most(made)
  BY <1>4, <1>8, <1>10 DEF f2
<1>13. /\ bill \in Nat /\ bill <= Worth(e.units)
       /\ op # "live" /\ e.units > 0 => bill >= 1
       /\ op \in Ops \ {"live", "transcription", "calibrate"} => bill >= 1
  BY <1>3, BooksAre
<1> HIDE DEF bill
<1>14. CASE e.gateway
  <2>1. /\ Ours(more) = ours \cup {n + 1} /\ Most(more) = Most(made) + Worth(e.units)
        /\ told(more) = (IF e.units > 0 THEN told(made) \cup {n + 1} ELSE told(made))
    BY <1>4, <1>5, <1>11, <1>14
  <2> DEFINE k == Cardinality(told(made))
             l == Cardinality(told(more))
             w == Worth(e.units)
             m == Most(made)
             c == Cardinality(ours)
  <2>2. l = (IF e.units > 0 THEN k + 1 ELSE k) /\ k \in Nat /\ Cardinality(Ours(more)) = c + 1 /\ c \in Nat
    BY <1>7, <2>1
  <2>3. w \in Nat /\ m \in Int /\ Most(more) = m + w
    BY <1>9, <1>10, <2>1
  <2>4. total + bill \in Nat /\ total + bill <= Most(more)
    <3>1. total \in Nat /\ total <= m /\ bill \in Nat /\ bill <= w
      BY <1>1, <1>13
    <3> HIDE DEF w, m
    <3> QED
      BY <2>3, <3>1
  <2>5. op # "live" => total + bill >= l
    <3>1. op # "live" => total >= k
      BY <1>1
    <3>2. total \in Nat /\ bill \in Nat /\ (op # "live" /\ e.units > 0 => bill >= 1)
      BY <1>1, <1>13
    <3> HIDE DEF k, l
    <3> QED
      BY <2>2, <3>1, <3>2
  <2>6. op \in Ops \ {"live", "transcription", "calibrate"} => total + bill >= c + 1
    <3>1. op \in Ops \ {"live", "transcription", "calibrate"} => total >= c /\ bill >= 1
      BY <1>1, <1>13 DEF ours
    <3>2. total \in Nat /\ bill \in Nat
      BY <1>1, <1>13
    <3> HIDE DEF c
    <3> QED
      BY <2>2, <3>1, <3>2
  <2> QED
    BY <1>2, <1>14, <2>2, <2>4, <2>5, <2>6 DEF Booked, more, bill
<1>15. CASE ~e.gateway
  <2>1. Ours(more) = ours /\ told(more) = told(made) /\ Most(more) = Most(made)
    BY <1>4, <1>5, <1>12, <1>15
  <2>2. total + 0 = total
    BY <1>1
  <2> QED
    BY <1>1, <1>2, <1>15, <2>1, <2>2 DEF Booked, more, ours
<1> QED
  BY <1>3, <1>14, <1>15

-----------------------------------------------------------------------------
\* One step of a call each.
LEMMA OneJob ==
    ASSUME JobInv, deploy' = deploy, NEW r \in Requests, NEW n,
           job' = [job EXCEPT ![r] = n], JobOK(deploy, n)
    PROVE  JobInv'
<1>1. DOMAIN job' = Requests /\ job'[r] = n /\ \A x \in Requests : x # r => job'[x] = job[x]
  BY DEF JobInv
<1>2. \A x \in Requests : JobOK(deploy', job'[x])
  <2> TAKE x \in Requests
  <2>1. CASE x = r
    BY <1>1, <2>1
  <2>2. CASE x # r
    BY <1>1, <2>2 DEF JobInv
  <2> QED
    BY <2>1, <2>2
<1> QED
  BY <1>1, <1>2 DEF JobInv

LEMMA BlankFields ==
    /\ Fields(Blank) /\ Blank.pc = "idle" /\ Blank.made = <<>> /\ Blank.charged = 0
    /\ Blank.at = NoAsk
BY CapabilitiesAssumption DEF Blank, Fields, Labels

LEMMA ItBegins ==
    ASSUME JobInv, NEW q, Fields(q), NEW c \in Calls, Admitted(deploy, c),
           Booked(c.op, q.made, q.charged)
    PROVE  JobOK(deploy, Begun(q, c))
<1> DEFINE first == Place(deploy[c.alias], settings[c.alias].primary)
           order == Ordered(deploy[c.alias].chain, first)
           n == Begun(q, c)
<1>1. deploy \in Deployments /\ c.alias \in Aliases
  BY CallOK DEF JobInv
<1>2. order \in Seq(DOMAIN deploy[c.alias].chain) /\ Range(order) = DOMAIN deploy[c.alias].chain
  <2>1. first \in 0 .. Len(deploy[c.alias].chain)
    BY <1>1, PlaceOf
  <2>2. deploy[c.alias].chain \in Seq(Target)
    BY <1>1, Routes
  <2> HIDE DEF first
  <2> QED
    BY <2>1, <2>2, OrderedPlaces
<1> DEFINE pc == IF Loop[c.op].voiced /\ c.asked = None THEN "voice" ELSE "sort"
<1>3. n = [q EXCEPT !.pc = pc, !.call = c, !.order = order, !.voice = c.asked, !.result = "trying"]
  BY DEF Begun, RungOrder
<1>4. pc \in {"voice", "sort"}
  OBVIOUS
<1> HIDE DEF order, pc, n
<1>5. Fields(n) /\ n.pc = pc /\ n.call = c /\ n.order = order /\ n.made = q.made /\ n.charged = q.charged
  BY <1>3 DEF Fields, Labels
<1>h. Heard(n)
  BY <1>3, <1>5 DEF Heard, Fields, Labels, pc
<1>6. Asking(deploy, n)
  BY <1>h, <1>2, <1>4, <1>5 DEF Asking
<1> QED
  BY <1>5, <1>6 DEF JobOK, n

LEMMA ArriveKeeps ==
    ASSUME JobInv, NEW r \in Requests, NEW c \in Calls, Arrive(r, c)
    PROVE  JobInv'
<1> DEFINE q == [Blank EXCEPT !.left = IF c.op = "calibrate" THEN Samples ELSE 1]
           n == Begun(q, c)
<1>1. Fields(q) /\ q.made = <<>> /\ q.charged = 0
  BY BlankFields DEF Fields, Labels
<1>2. Admitted(deploy, c)
  BY DEF Arrive, Admitted
<1>3. job' = [job EXCEPT ![r] = n] /\ deploy' = deploy
  BY DEF Arrive
<1> HIDE DEF q
<1>4. JobOK(deploy, n)
  BY <1>1, <1>2, NothingMade, ItBegins
<1> HIDE DEF n
<1> QED
  BY <1>3, <1>4, OneJob

\* What a step does not touch.
Same(q, n) == n.call = q.call /\ n.made = q.made /\ n.charged = q.charged

LEMMA ReadVoiceKeeps ==
    ASSUME JobInv, NEW r \in Requests, ReadVoice(r)
    PROVE  JobInv'
<1> DEFINE q == job[r]
           voice == IF settings[q.call.alias].voice # None THEN settings[q.call.alias].voice
                    ELSE deploy[q.call.alias].voice
           n == [q EXCEPT !.pc = "sort", !.voice = voice]
<1>1. JobOK(deploy, q) /\ q.pc = "voice"
  BY DEF JobInv, ReadVoice
<1>2. job' = [job EXCEPT ![r] = n] /\ deploy' = deploy
  BY DEF ReadVoice
<1> HIDE DEF q, voice
<1>3. Fields(n) /\ n.pc = "sort" /\ Same(q, n) /\ n.order = q.order
  BY <1>1 DEF JobOK, Fields, Labels, Same
<1> HIDE DEF n
<1>h. Heard(n)
  BY <1>1, <1>3 DEF JobOK, Asking, Same, Heard
<1>4. JobOK(deploy, n)
  BY <1>h, <1>1, <1>3 DEF JobOK, Asking, Same
<1> QED
  BY <1>2, <1>4, OneJob

LEMMA SortKeeps ==
    ASSUME JobInv, NEW r \in Requests, Sort(r)
    PROVE  JobInv'
<1> DEFINE q == job[r]
           rest == AllAsks(q.call, deploy[q.call.alias].chain, q.order, drained)
           n == [q EXCEPT !.pc = "call", !.rest = rest]
<1>1. JobOK(deploy, q) /\ q.pc = "sort" /\ deploy \in Deployments
  BY DEF JobInv, Sort
<1>2. job' = [job EXCEPT ![r] = n] /\ deploy' = deploy
  BY DEF Sort
<1>3. rest \in Seq(Offered[deploy][q.call])
  <2> HIDE DEF q
  <2> QED
    BY <1>1, AllAreAsked DEF JobOK, Fields, Asking
<1> HIDE DEF q, rest
<1>4. Fields(n) /\ n.pc = "call" /\ Same(q, n) /\ n.rest = rest /\ n.voice = q.voice
  BY <1>1 DEF JobOK, Fields, Labels, Same
<1> HIDE DEF n
<1>h. Heard(n)
  BY <1>1, <1>4 DEF JobOK, Asking, Same, Heard
<1>5. JobOK(deploy, n)
  BY <1>h, <1>1, <1>3, <1>4 DEF JobOK, Asking, Same
<1> QED
  BY <1>2, <1>5, OneJob

LEMMA AskNextKeeps ==
    ASSUME JobInv, NEW r \in Requests, NEW broke, AskNext(r, broke)
    PROVE  JobInv'
<1> DEFINE q == job[r]
           k == Head(q.rest)
           said == IF Loop[q.call.op].voiced THEN VoiceFor(q.voice, k.rung.prov) ELSE None
           n == [q EXCEPT !.pc = "wait", !.at = k, !.rest = Tail(@), !.broke = broke, !.said = said]
<1>1. JobOK(deploy, q) /\ q.pc = "call" /\ q.rest # <<>>
  BY DEF JobInv, AskNext
<1>2. job' = [job EXCEPT ![r] = n] /\ deploy' = deploy
  BY DEF AskNext
<1>3. said \in {None, VoiceFor(q.voice, k.rung.prov)}
  OBVIOUS
<1>4. k \in Offered[deploy][q.call] /\ Tail(q.rest) \in Seq(Offered[deploy][q.call])
  <2> DEFINE O == Offered[deploy][q.call]
             s == q.rest
  <2>1. s \in Seq(O) /\ s # <<>>
    BY <1>1 DEF JobOK, Asking
  <2> HIDE DEF O, s
  <2>2. Head(s) \in O /\ Tail(s) \in Seq(O)
    BY <2>1, HeadTailProperties
  <2> QED
    BY <2>2 DEF O, s
<1> HIDE DEF q, k, said
<1>5. /\ Fields(n) /\ n.pc = "wait" /\ Same(q, n) /\ n.at = k /\ n.rest = Tail(q.rest)
      /\ n.said = said /\ n.voice = q.voice
  BY <1>1 DEF JobOK, Fields, Labels, Same
<1> HIDE DEF n
<1>h. Heard(n)
  BY <1>1, <1>5 DEF JobOK, Asking, Same, Heard
<1>6. JobOK(deploy, n)
  BY <1>h, <1>1, <1>3, <1>4, <1>5 DEF JobOK, Asking, Same
<1> QED
  BY <1>2, <1>6, OneJob

LEMMA FailKeeps ==
    ASSUME JobInv, NEW r \in Requests, Fail(r) \/ PassOver(r)
    PROVE  JobInv'
<1> DEFINE q == job[r]
           n == [q EXCEPT !.pc = "call", !.at = NoAsk, !.broke = FALSE, !.said = None]
<1>1. JobOK(deploy, q) /\ q.pc = "wait"
  BY DEF JobInv, Fail, PassOver
<1>2. job' = [job EXCEPT ![r] = n] /\ deploy' = deploy
  BY DEF Fail, PassOver, Missed
<1> HIDE DEF q
<1>3. Fields(n) /\ n.pc = "call" /\ Same(q, n) /\ n.rest = q.rest /\ n.voice = q.voice
  BY <1>1 DEF JobOK, Fields, Labels, Same
<1> HIDE DEF n
<1>h. Heard(n)
  BY <1>1, <1>3 DEF JobOK, Asking, Same, Heard
<1>4. JobOK(deploy, n)
  BY <1>h, <1>1, <1>3 DEF JobOK, Asking, Same
<1> QED
  BY <1>2, <1>4, OneJob

LEMMA ItIsOver ==
    ASSUME NEW d, NEW q, NEW result, q.call \in Calls, Booked(q.call.op, q.made, q.charged)
    PROVE  JobOK(d, Over(q, result))
<1> DEFINE n == Over(q, result)
<1>1. Fields(n) /\ n.pc = "idle" /\ Same(q, n)
  BY BlankFields DEF Over, Fields, Labels, Same
<1> HIDE DEF n
<1> QED
  BY <1>1 DEF JobOK, Asking, Same, Heard, n

LEMMA EndKeeps ==
    ASSUME JobInv, NEW r \in Requests, PassThrough(r) \/ GiveUp(r)
    PROVE  JobInv'
<1>1. JobOK(deploy, job[r])
  BY DEF JobInv
<1>2. PICK result : job' = [job EXCEPT ![r] = Over(job[r], result)]
  BY DEF PassThrough, GiveUp
<1>3. deploy' = deploy
  BY DEF PassThrough, GiveUp
<1>4. JobOK(deploy, Over(job[r], result))
  BY <1>1, ItIsOver DEF JobOK, Fields
<1> QED
  BY <1>2, <1>3, <1>4, OneJob

LEMMA NextSampleKeeps ==
    ASSUME JobInv, NEW r \in Requests, NextSample(r)
    PROVE  JobInv'
<1> DEFINE q == job[r]
           n == Begun(q, q.call)
<1>1. JobOK(deploy, q) /\ q.pc = "again"
  BY DEF JobInv, NextSample
<1>2. job' = [job EXCEPT ![r] = n] /\ deploy' = deploy
  BY DEF NextSample
<1> HIDE DEF q
<1>3. JobOK(deploy, n)
  BY <1>1, ItBegins DEF JobOK, Fields, Asking
<1> HIDE DEF n
<1> QED
  BY <1>2, <1>3, OneJob

LEMMA ServeKeeps ==
    ASSUME JobInv, NEW r \in Requests, NEW units \in Units, Serve(r, units)
    PROVE  JobInv'
<1> DEFINE q == job[r]
           g == q.at.rung
           e == [gateway |-> Gateway(g), units |-> units]
           made == Append(q.made, e)
           total == q.charged + Charged(q, units)
           next == [q EXCEPT !.made = made, !.charged = total, !.left = @ - 1]
           again == [next EXCEPT !.pc = "again", !.at = NoAsk, !.said = None, !.result = "answered"]
           n == IF next.left = 0 THEN Over(next, "answered") ELSE again
<1>1. JobOK(deploy, q) /\ q.pc = "wait" /\ q.call \in Calls /\ q.call.op \in Ops
  BY CallOK DEF JobInv, Serve, JobOK, Fields
<1>2. job' = [job EXCEPT ![r] = n] /\ deploy' = deploy
  BY DEF Serve
<1>3. e \in Answer /\ e.gateway = Gateway(g) /\ e.units = units
  BY DEF Answer, Gateway
<1>4. Charged(q, units) = IF e.gateway THEN Books[q.call.op][e.units] ELSE 0
  BY <1>3 DEF Charged
<1> HIDE DEF q, g, e
<1>5. Booked(q.call.op, made, total)
  BY <1>1, <1>3, <1>4, OneAnswer DEF JobOK
<1> HIDE DEF made, total
<1>6. /\ Fields(next) /\ next.call = q.call /\ next.made = made /\ next.charged = total
      /\ next.voice = q.voice
  BY <1>1 DEF JobOK, Fields, Labels
<1> HIDE DEF next
<1>7. JobOK(deploy, Over(next, "answered"))
  BY <1>1, <1>5, <1>6, ItIsOver
<1>8. JobOK(deploy, again)
  <2>1. Fields(again) /\ again.pc = "again" /\ Same(next, again) /\ again.voice = next.voice
    BY <1>6 DEF Fields, Labels, Same
  <2> HIDE DEF again
  <2>2. Heard(again)
    BY <1>1, <1>6, <2>1 DEF JobOK, Asking, Same, Heard
  <2> QED
    BY <1>1, <1>5, <1>6, <2>1, <2>2 DEF JobOK, Asking, Same
<1>9. JobOK(deploy, n)
  BY <1>7, <1>8
<1> HIDE DEF n
<1> QED
  BY <1>2, <1>9, OneJob

LEMMA JobsBlank ==
    ASSUME NEW d
    PROVE  JobOK(d, Blank)
BY BlankFields, NothingMade DEF JobOK, Asking, Heard

LEMMA JobStep ==
    ASSUME JobInv, [CapabilitiesNext]_vars
    PROVE  JobInv'
<1>1. ASSUME NEW r \in Requests, Step(r)
      PROVE  JobInv'
  BY <1>1, ReadVoiceKeeps, SortKeeps, FailKeeps, EndKeeps, NextSampleKeeps, AskNextKeeps,
     ServeKeeps DEF Step
<1>2. ASSUME NEW r \in Requests, NEW c \in Calls, Arrive(r, c)
      PROVE  JobInv'
  BY <1>2, ArriveKeeps
<1>3. ASSUME UNCHANGED <<deploy, job>>
      PROVE  JobInv'
  BY <1>3 DEF JobInv
<1>4. ASSUME NEW d \in Deployments, Restart(d)
      PROVE  JobInv'
  <2>1. deploy' = d /\ job' = [r \in Requests |-> Blank]
    BY <1>4 DEF Restart
  <2> QED
    BY <2>1, JobsBlank DEF JobInv
<1>5. ASSUME NEW p \in Prepaid, Age(p)
      PROVE  JobInv'
  BY <1>3, <1>5 DEF Age
<1>6. ASSUME NEW x \in Admins, Save(x)
      PROVE  JobInv'
  BY <1>3, <1>6 DEF Save, SaveAliasSetting, AliasSettings, SetAliasSettings
<1>7. CASE OtherSave
  BY <1>3, <1>7 DEF OtherSave
<1>8. CASE UNCHANGED vars
  BY <1>3, <1>8 DEF vars
<1> QED
  BY <1>1, <1>2, <1>4, <1>5, <1>6, <1>7, <1>8 DEF CapabilitiesNext

LEMMA JobFirst == CapabilitiesInit => JobInv
BY JobsBlank DEF CapabilitiesInit, JobInv

\* Every call is of its alias's chain, asks what its caller's keys allow, and has
\* booked what it was served, in every state (attempts, served, charge).
THEOREM CallsAreInOrder == CapabilitiesSpec => []JobInv
BY JobFirst, JobStep, PTL DEF CapabilitiesSpec

-----------------------------------------------------------------------------
(***************************************************************************)
(* What follows from it.                                                   *)
(***************************************************************************)

\* A way that stands open: a place of the chain, one of its vendors, a key of
\* the caller's or the gateway's where it came up.
LEMMA OfferedIs ==
    ASSUME NEW d \in Deployments, NEW c \in Calls, NEW k \in Offered[d][c]
    PROVE  LET chain == d[c.alias].chain
               g == k.rung
           IN  /\ k \in Ask /\ g \in Rung /\ Available(c.ring, g)
               /\ chain \in Seq(Target) /\ g.target \in DOMAIN chain
               /\ g.prov \in Range(Vendors(c.op, chain)[g.target])
<1> DEFINE chain == d[c.alias].chain
<1>1. c.alias \in Aliases /\ c.ring \in KeyRing
  BY CallOK
<1>2. chain \in Seq(Target) /\ DOMAIN chain \subseteq Nat
  BY <1>1, Routes, LenProperties
<1>3. PICK g \in StandOpen(c, chain) : k \in Range(AsksOf(c, g))
  BY DEF Offered
<1>4. PICK p \in Providers : g \in [target : DOMAIN chain, prov : {p}, key : 0 .. c.ring.keys[p]]
  BY <1>3 DEF StandOpen
<1>5. g.prov \in Range(Vendors(c.op, chain)[g.target])
  BY <1>3 DEF StandOpen
<1> DEFINE n == c.ring.keys[p]
           D == DOMAIN chain
<1>6. n \in Nat
  BY <1>1 DEF KeyRing
<1> HIDE DEF n, D
<1>7. g = [target |-> g.target, prov |-> g.prov, key |-> g.key] /\ g.target \in D /\ g.prov = p /\ g.key \in 0 .. n
  BY <1>4 DEF n, D
<1>8. g.target \in Nat
  BY <1>2, <1>7 DEF D
<1>9. g.key \in Nat
  BY <1>6, <1>7
<1>10. g \in Rung
  BY <1>7, <1>8, <1>9 DEF Rung
<1>11. k \in Ask /\ k.rung = g /\ Available(c.ring, g)
  BY <1>3, <1>10, AsksAre
<1> QED
  BY <1>2, <1>5, <1>7, <1>10, <1>11 DEF D

\* LiveIsPriced: whichever rung of a live alias answers, whatever was put first,
\* its provider has a price (LiveProblems keeps the alias out otherwise).
THEOREM LiveCallsCost == CapabilitiesSpec => []LiveIsPriced
<1>1. ASSUME JobInv
      PROVE  LiveIsPriced
  <2>1. SUFFICES ASSUME NEW r \in Requests, job[r].pc = "wait", job[r].call.op = "live"
                 PROVE  job[r].at.rung.prov \in Priced
    BY DEF LiveIsPriced
  <2> DEFINE q == job[r]
             c == q.call
             chain == deploy[c.alias].chain
             g == q.at.rung
             t == chain[g.target]
  <2>2. JobOK(deploy, q) /\ deploy \in Deployments /\ c \in Calls /\ c.alias \in Aliases
        /\ c.op \in Ops
    BY <1>1, CallOK DEF JobInv, JobOK, Fields
  <2>3. q.at \in Offered[deploy][c] /\ Admitted(deploy, c)
    BY <2>1, <2>2 DEF JobOK, Asking
  <2>4. chain \in Seq(Target) /\ g.target \in DOMAIN chain /\ g.prov \in Range(Vendors(c.op, chain)[g.target])
    <3> HIDE DEF q
    <3> QED
      BY <2>2, <2>3, OfferedIs
  <2>5. g.prov \in Coordinates(t)
    <3> HIDE DEF chain, c, g
    <3> QED
      BY <2>2, <2>4, VendorsAre
  <2>6. deploy[c.alias].section = "live"
    <3>1. deploy[c.alias].section \in Loop["live"].in
      BY <2>1, <2>3 DEF Admitted
    <3> QED
      BY <3>1 DEF Loop, LiveSession
  <2>7. c.alias \notin LiveProblems[deploy]
    BY <2>1, <2>3 DEF Admitted
  <2>8. Coordinates(t) \subseteq Priced
    <3>1. t \in Range(chain)
      BY <2>4 DEF Range
    <3>2. LiveProblems[deploy] =
            {a \in Aliases : /\ deploy[a].section = "live"
                             /\ \/ deploy[a].chain = <<>>
                                \/ \E u \in Range(deploy[a].chain) :
                                      Coordinates(u) = {} \/ ~(Coordinates(u) \subseteq Priced)}
      BY <2>2 DEF LiveProblems
    <3> HIDE DEF t
    <3> QED
      BY <2>2, <2>6, <2>7, <3>1, <3>2
  <2> QED
    BY <2>5, <2>8
<1> QED
  BY <1>1, CallsAreInOrder, PTL

\* BookedAsServed: whichever keys serve the samples of a calibration and wherever
\* it stops, what the gateway's key made is booked and nothing else
\* (Server.charge, HandleDecisionCalibrate).
THEOREM GatewayWorkIsBooked == CapabilitiesSpec => []BookedAsServed
<1>1. JobInv => BookedAsServed
  BY DEF JobInv, JobOK, Booked, BookedAsServed
<1> QED
  BY <1>1, CallsAreInOrder, PTL

\* NoForeignVoice: voiceFor looks a name up once, and what it finds is sent even
\* if it is a name as well; a voice the caller names is never read again.
THEOREM VoicesAreTheProviders == CapabilitiesSpec => []NoForeignVoice
<1>1. ASSUME JobInv
      PROVE  NoForeignVoice
  <2>1. SUFFICES ASSUME NEW r \in Requests, job[r].pc = "wait", job[r].said # None
                 PROVE  /\ \/ \E v \in DOMAIN Voices : Voices[v][job[r].at.rung.prov] = job[r].said
                           \/ job[r].said \notin DOMAIN Voices /\ job[r].said = job[r].voice
                        /\ job[r].call.asked # None => job[r].voice = job[r].call.asked
    BY DEF NoForeignVoice
  <2> DEFINE q == job[r]
             p == q.at.rung.prov
  <2>2. JobOK(deploy, q)
    BY <1>1 DEF JobInv
  <2>3. q.said = VoiceFor(q.voice, p) /\ Heard(q)
    BY <2>1, <2>2 DEF JobOK, Asking
  <2>4. CASE q.voice \in DOMAIN Voices
    BY <2>1, <2>3, <2>4 DEF VoiceFor, Heard
  <2>5. CASE q.voice \notin DOMAIN Voices
    BY <2>1, <2>3, <2>5 DEF VoiceFor, Heard
  <2> QED
    BY <2>4, <2>5
<1> QED
  BY <1>1, CallsAreInOrder, PTL

LEMMA Behind ==
    ASSUME NEW a, NEW t \in Range(deploy[a].chain), NEW p \in Range(Expand(t)), p \in Live
    PROVE  p \in AliasHealth(a).providers
<1>1. AliasHealth(a).providers = Live \cap UNION {Range(Expand(u)) : u \in Range(deploy[a].chain)}
  BY DEF AliasHealth
<1> QED
  BY <1>1

\* AskedIsShown: whom any loop asks with the gateway's key, health names, but for
\* a decision, and the list of aliases shows, but for a transcription, though
\* they never look at callers (AliasHealthAll, AliasInfos).
THEOREM NobodyAskedInHiding == CapabilitiesSpec => []AskedIsShown
<1>1. ASSUME JobInv
      PROVE  AskedIsShown
  <2>1. SUFFICES ASSUME NEW r \in Requests, job[r].pc = "wait", Gateway(job[r].at.rung)
                 PROVE  LET a == job[r].call.alias IN
                        /\ job[r].at.rung.prov \in AliasHealth(a).providers /\ ~AliasHealth(a).disabled
                        /\ deploy[a].section # "decisions" => a \in AliasHealthAll
                        /\ deploy[a].section # "transcription" => a \in AliasInfos
    BY DEF AskedIsShown
  <2> DEFINE q == job[r]
             c == q.call
             a == c.alias
             chain == deploy[a].chain
             g == q.at.rung
             t == chain[g.target]
  <2>2. JobOK(deploy, q) /\ deploy \in Deployments /\ c \in Calls /\ a \in Aliases /\ c.op \in Ops
    BY <1>1, CallOK DEF JobInv, JobOK, Fields
  <2>3. q.at \in Offered[deploy][c] /\ Admitted(deploy, c)
    BY <2>1, <2>2 DEF JobOK, Asking
  <2>4. /\ chain \in Seq(Target) /\ g.target \in DOMAIN chain /\ Available(c.ring, g)
        /\ g.prov \in Range(Vendors(c.op, chain)[g.target])
    <3> HIDE DEF q
    <3> QED
      BY <2>2, <2>3, OfferedIs
  <2>5. g.prov \in Live
    BY <2>1, <2>4 DEF Available
  <2>6. g.prov \in Range(Expand(t)) /\ g.prov \in Coordinates(t)
    <3> HIDE DEF chain, c, g
    <3> QED
      BY <2>2, <2>4, VendorsAre
  <2>7. t \in Range(chain) /\ t \in Target
    <3> HIDE DEF chain, g
    <3> QED
      BY <2>4, LenProperties, ElementOfSeq DEF Range
  <2>8. g.prov \in AliasHealth(a).providers
    <3> HIDE DEF t, g, a
    <3> QED
      BY <2>5, <2>6, <2>7, Behind
  <2>9. a \notin LiveProblems[deploy]
    <3>1. CASE c.op = "live"
      BY <2>3, <3>1 DEF Admitted
    <3>2. CASE c.op # "live"
      <4>1. deploy[a].section \in Loop[c.op].in
        BY <2>3 DEF Admitted
      <4>2. deploy[a].section # "live"
        BY <2>2, <3>2, <4>1 DEF Ops, Loop, Image, Speech, Embed, Transcribe, Decide, Responses
      <4> QED
        BY <2>2, <4>2 DEF LiveProblems
    <3> QED
      BY <3>1, <3>2
  <2>10. ~AliasHealth(a).disabled
    BY <2>9 DEF AliasHealth
  <2>11. Reachable(t)
    <3>1. CASE ~t.pinned
      BY <3>1 DEF Reachable
    <3>2. CASE t.pinned
      <4>1. t.serves \in Seq(Providers) /\ Len(t.serves) = 1 /\ g.prov \in Range(t.serves)
        BY <2>6, <2>7, <3>2 DEF Target, Coordinates
      <4> DEFINE s == t.serves
      <4> HIDE DEF s, g
      <4>2. Range(s) = {s[i] : i \in 1 .. 1}
        BY <4>1, RangeEquality DEF s
      <4>3. Range(s) = {g.prov}
        <5>1. g.prov \in Range(s)
          BY <4>1 DEF s
        <5>2. \A i \in 1 .. 1 : i = 1
          OBVIOUS
        <5> QED
          BY <4>2, <5>1, <5>2
      <4> USE DEF s
      <4> QED
        BY <2>5, <4>3 DEF Reachable
    <3> QED
      BY <3>1, <3>2
  <2>12. deploy[a].section # "transcription" => a \in AliasInfos
    <3> HIDE DEF t
    <3> QED
      BY <2>2, <2>7, <2>9, <2>11 DEF AliasInfos
  <2>13. deploy[a].section # "decisions" => a \in AliasHealthAll
    BY <2>2 DEF AliasHealthAll
  <2> QED
    BY <2>8, <2>10, <2>12, <2>13
<1> QED
  BY <1>1, CallsAreInOrder, PTL

-----------------------------------------------------------------------------
\* MarkIsEarned: a mark is only ever set with the refusal that earns it, and
\* whatever makes good clears both (Router.failed, Router.served).
THEOREM MarksAreEarned == CapabilitiesSpec => []MarkIsEarned
<1>1. CapabilitiesInit => MarkIsEarned
  BY DEF CapabilitiesInit, MarkIsEarned
<1>2. ASSUME MarkIsEarned, [CapabilitiesNext]_vars
      PROVE  MarkIsEarned'
  <2>1. ASSUME UNCHANGED owing, drained' \subseteq drained
        PROVE  MarkIsEarned'
    BY <1>2, <2>1 DEF MarkIsEarned
  <2>2. ASSUME NEW r \in Requests, Fail(r)
        PROVE  MarkIsEarned'
    BY <1>2, <2>2 DEF MarkIsEarned, Fail, Mark
  <2>3. ASSUME NEW r \in Requests, NEW u \in Units, Serve(r, u)
        PROVE  MarkIsEarned'
    BY <1>2, <2>3 DEF MarkIsEarned, Serve
  <2>4. ASSUME NEW r \in Requests, PassThrough(r)
        PROVE  MarkIsEarned'
    BY <1>2, <2>4 DEF MarkIsEarned, PassThrough
  <2>5. ASSUME NEW r \in Requests,
               \/ ReadVoice(r) \/ Sort(r) \/ GiveUp(r) \/ NextSample(r) \/ PassOver(r)
               \/ \E b \in BOOLEAN : AskNext(r, b)
               \/ \E c \in Calls : Arrive(r, c)
        PROVE  MarkIsEarned'
    BY <2>1, <2>5 DEF ReadVoice, Sort, GiveUp, NextSample, PassOver, AskNext, Arrive
  <2>6. ASSUME NEW p \in Prepaid, Age(p)
        PROVE  MarkIsEarned'
    BY <2>1, <2>6 DEF Age
  <2>7. ASSUME NEW x \in Admins, Save(x)
        PROVE  MarkIsEarned'
    BY <2>1, <2>7 DEF Save, SaveAliasSetting, AliasSettings, SetAliasSettings
  <2>8. ASSUME NEW d \in Deployments, Restart(d)
        PROVE  MarkIsEarned'
    BY <2>8 DEF MarkIsEarned, Restart
  <2>9. CASE OtherSave \/ UNCHANGED vars
    BY <2>1, <2>9 DEF OtherSave, vars
  <2> QED
    BY <1>2, <2>2, <2>3, <2>4, <2>5, <2>6, <2>7, <2>8, <2>9 DEF CapabilitiesNext, Step
<1> QED
  BY <1>1, <1>2, PTL DEF CapabilitiesSpec

-----------------------------------------------------------------------------
\* The administrators.
LEMMA OnlyOneSaves ==
    ASSUME SettingsInv, NEW x \in Admins, NEW n, admin' = [admin EXCEPT ![x] = n]
    PROVE  DOMAIN admin' = Admins /\ admin'[x] = n /\ \A y \in Admins : y # x => admin'[y] = admin[y]
BY DEF SettingsInv

LEMMA SaveKeeps ==
    ASSUME SettingsInv, NEW x \in Admins, NEW e, NEW w \in BOOLEAN, SaveAliasSetting(x, e, w)
    PROVE  SettingsInv'
<1>1. admin[x].pc = "idle" /\ failed' = (failed \/ ~w)
      /\ crossed' = (crossed \/ \E y \in Admins : admin[y].pc # "idle") /\ UNCHANGED settings
  BY DEF SaveAliasSetting
<1>2. CASE w
  <2> DEFINE n == [admin[x] EXCEPT !.pc = "set"]
  <2>1. saved' = stored' /\ admin' = [admin EXCEPT ![x] = n]
    BY <1>2 DEF SaveAliasSetting
  <2>2. n.pc = "set" /\ DOMAIN n = {"pc", "list"}
    BY DEF SettingsInv
  <2> HIDE DEF n
  <2>3. DOMAIN admin' = Admins /\ admin'[x] = n /\ \A y \in Admins : y # x => admin'[y] = admin[y]
    BY <2>1, OnlyOneSaves
  <2>4. ~crossed' => \A y \in Admins : y # x => admin'[y].pc = "idle"
    BY <1>1, <2>3
  <2> QED
    BY <1>1, <2>1, <2>2, <2>3, <2>4 DEF SettingsInv
<1>3. CASE ~w
  <2>1. admin' = admin /\ failed'
    BY <1>1, <1>3 DEF SaveAliasSetting
  <2>2. ~crossed' => \A y \in Admins : admin'[y].pc = "idle"
    BY <1>1, <2>1
  <2> QED
    BY <2>1, <2>2 DEF SettingsInv
<1> QED
  BY <1>2, <1>3

LEMMA HandOverKeeps ==
    ASSUME SettingsInv, NEW x \in Admins, AliasSettings(x) \/ SetAliasSettings(x)
    PROVE  SettingsInv'
<1>1. CASE AliasSettings(x)
  <2> DEFINE n == [pc |-> "read", list |-> stored]
  <2>1. admin[x].pc = "set" /\ admin' = [admin EXCEPT ![x] = n]
        /\ UNCHANGED <<saved, stored, settings, crossed, failed>>
    BY <1>1 DEF AliasSettings
  <2>2. n.pc = "read" /\ n.list = stored /\ DOMAIN n = {"pc", "list"}
    OBVIOUS
  <2> HIDE DEF n
  <2>3. DOMAIN admin' = Admins /\ admin'[x] = n /\ \A y \in Admins : y # x => admin'[y] = admin[y]
    BY <2>1, OnlyOneSaves
  <2>4. \A y \in Admins : admin'[y].pc # "idle" => admin[y].pc # "idle"
    BY <2>1, <2>3
  <2> QED
    BY <2>1, <2>2, <2>3, <2>4 DEF SettingsInv
<1>2. CASE SetAliasSettings(x)
  <2>1. admin[x].pc = "read" /\ admin' = [admin EXCEPT ![x] = Off] /\ settings' = admin[x].list
        /\ UNCHANGED <<saved, stored, crossed, failed>>
    BY <1>2 DEF SetAliasSettings
  <2>2. DOMAIN admin' = Admins /\ admin'[x] = Off /\ \A y \in Admins : y # x => admin'[y] = admin[y]
    BY <2>1, OnlyOneSaves
  <2>3. Off.pc = "idle" /\ DOMAIN Off = {"pc", "list"}
    BY DEF Off
  <2>4. ~crossed => settings' = stored
    BY <2>1 DEF SettingsInv
  <2> QED
    BY <2>1, <2>2, <2>3, <2>4 DEF SettingsInv
<1> QED
  BY <1>1, <1>2

\* SettingsFollow: what an administrator saved is what routes when his handler is
\* through, and what is on disk, unless two of them crossed or a write failed
\* (saveAliasSetting, applyAliasSettings).
THEOREM SettingsAreHandedOver == CapabilitiesSpec => []SettingsFollow
<1>1. CapabilitiesInit => SettingsInv
  BY DEF CapabilitiesInit, SettingsInv, Off
<1>2. ASSUME SettingsInv, [CapabilitiesNext]_vars
      PROVE  SettingsInv'
  <2>1. ASSUME UNCHANGED store
        PROVE  SettingsInv'
    BY <1>2, <2>1 DEF SettingsInv, store
  <2>2. ASSUME NEW x \in Admins, Save(x)
        PROVE  SettingsInv'
    BY <1>2, <2>2, SaveKeeps, HandOverKeeps DEF Save
  <2>3. ASSUME NEW r \in Requests, Step(r)
        PROVE  SettingsInv'
    BY <2>1, <2>3 DEF Step, ReadVoice, Sort, PassOver, GiveUp, NextSample, AskNext, Fail, Serve, PassThrough
  <2>4. ASSUME NEW r \in Requests, NEW c \in Calls, Arrive(r, c)
        PROVE  SettingsInv'
    BY <2>1, <2>4 DEF Arrive
  <2>5. ASSUME NEW p \in Prepaid, Age(p)
        PROVE  SettingsInv'
    BY <2>1, <2>5 DEF Age
  <2>6. ASSUME NEW d \in Deployments, Restart(d)
        PROVE  SettingsInv'
    BY <2>6 DEF SettingsInv, Restart, Off
  <2>7. CASE OtherSave
    BY <1>2, <2>7 DEF SettingsInv, OtherSave
  <2>8. CASE UNCHANGED vars
    BY <2>1, <2>8 DEF vars, store
  <2> QED
    BY <1>2, <2>2, <2>3, <2>4, <2>5, <2>6, <2>7, <2>8 DEF CapabilitiesNext
<1>3. SettingsInv => SettingsFollow
  BY DEF SettingsInv, SettingsFollow
<1> QED
  BY <1>1, <1>2, <1>3, PTL DEF CapabilitiesSpec

-----------------------------------------------------------------------------
(***************************************************************************)
(* Fallback: what a call has left to ask, whatever is saved, marked and    *)
(* restarted meanwhile.  Its places and its ways come once (WalkOK).       *)
(***************************************************************************)
Trying == {"voice", "sort", "call", "wait"}

WalkOK(q) ==
    /\ q.pc \in Trying \cup {"idle", "again"}
    /\ q.at = NoAsk <=> q.pc # "wait"
    /\ q.result = "trying" <=> q.pc \in Trying
    /\ q.pc \in {"voice", "sort"} => IsInjective(q.order)
    /\ q.pc \in {"call", "wait"} => IsInjective(q.rest)

WalkInv == JobInv /\ \A r \in Requests : WalkOK(job[r])

\* The view of the calls that Fallback speaks of.
Offers  == [r \in Requests |-> Offered[deploy][job[r].call]]
Lefts   == [r \in Requests |-> NotAsked(job[r])]
Ats     == [r \in Requests |-> job[r].at]
Wires   == [r \in Requests |-> FALSE]
Results == [r \in Requests |-> job[r].result]

TurnsTo(r, n) ==
    /\ Offers' = [Offers EXCEPT ![r] = Offered[deploy][n.call]]
    /\ n.call = job[r].call => UNCHANGED Offers
    /\ Lefts' = [Lefts EXCEPT ![r] = NotAsked(n)]
    /\ Ats' = [Ats EXCEPT ![r] = n.at]
    /\ Wires' = [Wires EXCEPT ![r] = FALSE] /\ UNCHANGED Wires
    /\ Results' = [Results EXCEPT ![r] = n.result]

LEMMA OneView ==
    ASSUME WalkInv, NEW r \in Requests, NEW n, job' = [job EXCEPT ![r] = n], WalkOK(n),
           deploy' = deploy
    PROVE  TurnsTo(r, n) /\ \A x \in Requests : WalkOK(job'[x])
<1>1. /\ DOMAIN job' = Requests /\ job'[r] = n
      /\ \A x \in Requests : x # r => job'[x] = job[x]
  BY DEF WalkInv, JobInv
<1>2. \A x \in Requests : WalkOK(job'[x])
  BY <1>1 DEF WalkInv
<1>3. Offers' = [Offers EXCEPT ![r] = Offered[deploy][n.call]]
  BY <1>1 DEF Offers
<1>8. n.call = job[r].call => UNCHANGED Offers
  <2> SUFFICES ASSUME n.call = job[r].call PROVE UNCHANGED Offers
    OBVIOUS
  <2>1. \A x \in Requests : job'[x].call = job[x].call
    BY <1>1
  <2> QED
    BY <2>1 DEF Offers
<1>4. Lefts' = [Lefts EXCEPT ![r] = NotAsked(n)]
  <2>1. \A x \in Requests : NotAsked(job[x])' = NotAsked(job'[x])
    BY DEF NotAsked
  <2> QED
    BY <1>1, <2>1 DEF Lefts
<1>5. Ats' = [Ats EXCEPT ![r] = n.at]
  BY <1>1 DEF Ats
<1>6. Wires' = [Wires EXCEPT ![r] = FALSE] /\ UNCHANGED Wires
  BY DEF Wires
<1>7. Results' = [Results EXCEPT ![r] = n.result]
  BY <1>1 DEF Results
<1> QED
  BY <1>2, <1>3, <1>4, <1>5, <1>6, <1>7, <1>8 DEF TurnsTo

LEMMA Viewed ==
    ASSUME NEW r \in Requests
    PROVE  /\ Offers[r] = Offered[deploy][job[r].call] /\ Lefts[r] = NotAsked(job[r])
           /\ Ats[r] = job[r].at /\ Wires[r] = FALSE /\ Results[r] = job[r].result
           /\ Offers = [Offers EXCEPT ![r] = Offers[r]] /\ Lefts = [Lefts EXCEPT ![r] = Lefts[r]]
           /\ Ats = [Ats EXCEPT ![r] = Ats[r]] /\ Wires = [Wires EXCEPT ![r] = FALSE]
           /\ Results = [Results EXCEPT ![r] = Results[r]]
BY DEF Offers, Lefts, Ats, Wires, Results

LEMMA NotAskedIs ==
    ASSUME NEW q
    PROVE  /\ q.pc \in {"voice", "sort"} => NotAsked(q) = Offered[deploy][q.call]
           /\ q.pc \in {"call", "wait"} => NotAsked(q) = Range(q.rest)
           /\ q.pc \in {"idle", "again"} => NotAsked(q) = {}
BY DEF NotAsked

\* The steps of Fallback, said of the view.
LEMMA ACallBegins ==
    ASSUME NEW r \in Requests, Results[r] # "trying",
           Offers' = [Offers EXCEPT ![r] = Offers'[r]],
           Lefts' = [Lefts EXCEPT ![r] = Offers'[r]],
           Results' = [Results EXCEPT ![r] = "trying"], UNCHANGED <<Ats, Wires>>
    PROVE  CallsView!Next
<1>1. CallsView!Begin(r)
  BY DEF CallsView!Begin, Offers, Lefts, Ats, Wires, Results
<1> QED
  BY <1>1 DEF CallsView!Next

LEMMA ItAsks ==
    ASSUME NEW r \in Requests, Results[r] = "trying", Ats[r] = NoAsk, NEW g, g \in Lefts[r],
           Ats' = [Ats EXCEPT ![r] = g], Lefts' = [Lefts EXCEPT ![r] = Lefts[r] \ {g}],
           UNCHANGED <<Offers, Wires, Results>>
    PROVE  CallsView!Next
<1>1. CallsView!Ask(r, g) /\ g \in NotAsked(job[r])
  BY DEF CallsView!Ask, Offers, Lefts, Ats, Wires, Results
<1> QED
  BY <1>1 DEF CallsView!Next

LEMMA ItMisses ==
    ASSUME NEW r \in Requests, Ats[r] # NoAsk, ~Wires[r],
           Ats' = [Ats EXCEPT ![r] = NoAsk], UNCHANGED <<Offers, Lefts, Wires, Results>>
    PROVE  CallsView!Next
<1>1. CallsView!Miss(r)
  BY DEF CallsView!Miss, Offers, Lefts, Ats, Wires, Results
<1> QED
  BY <1>1 DEF CallsView!Next

LEMMA ItEnds ==
    ASSUME NEW r \in Requests, Results[r] = "trying", NEW res,
           \/ Ats[r] # NoAsk /\ res = "answered"
           \/ Ats[r] = NoAsk /\ Lefts[r] = {} /\ res = "failed",
           Results' = [Results EXCEPT ![r] = res],
           Ats' = [Ats EXCEPT ![r] = NoAsk], Lefts' = [Lefts EXCEPT ![r] = {}],
           Wires' = [Wires EXCEPT ![r] = FALSE], Offers' = Offers
    PROVE  CallsView!Next
<1>1. CallsView!End(r)
  BY DEF CallsView!End, Offers, Lefts, Ats, Wires, Results
<1> QED
  BY <1>1 DEF CallsView!Next

LEMMA ItStutters ==
    ASSUME UNCHANGED <<Offers, Lefts, Ats, Wires, Results>>
    PROVE  UNCHANGED CallsView!fallback
BY DEF CallsView!fallback, Offers, Lefts, Ats, Wires, Results

\* Every step of a call is a step of Fallback, or none.
Shown == (\A r \in Requests : WalkOK(job'[r])) /\ [CallsView!Next]_(CallsView!fallback)

LEMMA BeginsOK ==
    ASSUME JobInv, NEW q, Fields(q), q.at = NoAsk, NEW c \in Calls
    PROVE  LET n == Begun(q, c) IN
           /\ WalkOK(n) /\ n.call = c /\ n.at = NoAsk /\ n.result = "trying"
           /\ NotAsked(n) = Offered[deploy][c]
<1> DEFINE first == Place(deploy[c.alias], settings[c.alias].primary)
           order == Ordered(deploy[c.alias].chain, first)
           n == Begun(q, c)
           pc == IF Loop[c.op].voiced /\ c.asked = None THEN "voice" ELSE "sort"
<1>1. deploy \in Deployments /\ c.alias \in Aliases
  BY CallOK DEF JobInv
<1>2. IsInjective(order)
  <2>1. first \in 0 .. Len(deploy[c.alias].chain)
    BY <1>1, PlaceOf
  <2>2. deploy[c.alias].chain \in Seq(Target)
    BY <1>1, Routes
  <2> HIDE DEF first
  <2> QED
    BY <2>1, <2>2, OrderedOnce
<1>3. n = [q EXCEPT !.pc = pc, !.call = c, !.order = order, !.voice = c.asked, !.result = "trying"]
  BY DEF Begun, RungOrder
<1>4. pc \in {"voice", "sort"}
  OBVIOUS
<1> HIDE DEF order, pc, n
<1>5. /\ n.pc = pc /\ n.call = c /\ n.order = order /\ n.at = NoAsk /\ n.result = "trying"
  BY <1>3 DEF Fields, Labels
<1>6. WalkOK(n)
  BY <1>2, <1>4, <1>5 DEF WalkOK, Trying
<1>7. NotAsked(n) = Offered[deploy][c]
  BY <1>4, <1>5, NotAskedIs
<1> QED
  BY <1>5, <1>6, <1>7 DEF n

LEMMA BeginIsShown ==
    ASSUME WalkInv, NEW r \in Requests, (\E c \in Calls : Arrive(r, c)) \/ NextSample(r)
    PROVE  Shown
<1>1. JobInv /\ WalkOK(job[r]) /\ Fields(job[r]) /\ deploy' = deploy
  BY DEF WalkInv, JobInv, JobOK, Arrive, NextSample
<1>2. job[r].result # "trying" /\ job[r].at = NoAsk
  BY <1>1 DEF WalkOK, Trying, Arrive, NextSample
<1>3. \E n : /\ job' = [job EXCEPT ![r] = n] /\ WalkOK(n) /\ n.at = NoAsk
             /\ n.result = "trying" /\ NotAsked(n) = Offered[deploy][n.call]
  <2>1. CASE NextSample(r)
    <3> DEFINE m == Begun(job[r], job[r].call)
    <3>1. job' = [job EXCEPT ![r] = m] /\ job[r].call \in Calls
      BY <1>1, <2>1 DEF NextSample, Fields
    <3>2. /\ WalkOK(m) /\ m.call = job[r].call /\ m.at = NoAsk /\ m.result = "trying"
          /\ NotAsked(m) = Offered[deploy][job[r].call]
      BY <1>1, <1>2, <3>1, BeginsOK
    <3> HIDE DEF m
    <3> QED
      BY <3>1, <3>2
  <2>2. ASSUME NEW c \in Calls, Arrive(r, c)
        PROVE  <1>3!:
    <3> DEFINE b == [Blank EXCEPT !.left = IF c.op = "calibrate" THEN Samples ELSE 1]
               m == Begun(b, c)
    <3>1. Fields(b) /\ b.at = NoAsk
      BY BlankFields DEF Fields, Labels
    <3>2. job' = [job EXCEPT ![r] = m]
      BY <2>2 DEF Arrive
    <3> HIDE DEF b
    <3>3. /\ WalkOK(m) /\ m.call = c /\ m.at = NoAsk /\ m.result = "trying"
          /\ NotAsked(m) = Offered[deploy][c]
      BY <1>1, <3>1, BeginsOK
    <3> HIDE DEF m
    <3> QED
      BY <3>2, <3>3
  <2> QED
    BY <2>1, <2>2
<1>4. PICK n : /\ job' = [job EXCEPT ![r] = n] /\ WalkOK(n) /\ n.at = NoAsk
               /\ n.result = "trying" /\ NotAsked(n) = Offered[deploy][n.call]
  BY <1>3
<1>5. TurnsTo(r, n) /\ \A x \in Requests : WalkOK(job'[x])
  BY <1>1, <1>4, OneView
<1>6. /\ Offers' = [Offers EXCEPT ![r] = Offered[deploy][n.call]]
      /\ Lefts' = [Lefts EXCEPT ![r] = Offered[deploy][n.call]]
      /\ Results' = [Results EXCEPT ![r] = "trying"] /\ UNCHANGED <<Ats, Wires>>
  <2>1. Ats' = [Ats EXCEPT ![r] = NoAsk] /\ Ats[r] = NoAsk /\ UNCHANGED Wires
    BY <1>2, <1>4, <1>5, Viewed DEF TurnsTo
  <2>2. UNCHANGED Ats
    BY <2>1, Viewed
  <2> QED
    BY <1>4, <1>5, <2>1, <2>2 DEF TurnsTo
<1>7. Offers'[r] = Offered[deploy][n.call] /\ Results[r] # "trying"
  <2>1. Offers'[r] = Offered[deploy][n.call]
    BY <1>6 DEF Offers
  <2> QED
    BY <1>2, <2>1, Viewed
<1> QED
  BY <1>5, <1>6, <1>7, ACallBegins DEF Shown

LEMMA SameIsShown ==
    ASSUME WalkInv, NEW r \in Requests, deploy' = deploy, NEW n, job' = [job EXCEPT ![r] = n],
           WalkOK(n), n.call = job[r].call, n.at = job[r].at, n.result = job[r].result,
           NotAsked(n) = NotAsked(job[r])
    PROVE  Shown
<1>1. TurnsTo(r, n) /\ \A x \in Requests : WalkOK(job'[x])
  BY OneView
<1>2. UNCHANGED <<Offers, Lefts, Ats, Wires, Results>>
  <2>1. UNCHANGED Offers
    BY <1>1 DEF TurnsTo
  <2>0. /\ Lefts' = [Lefts EXCEPT ![r] = NotAsked(n)] /\ Ats' = [Ats EXCEPT ![r] = n.at]
        /\ Results' = [Results EXCEPT ![r] = n.result] /\ Wires' = Wires
    BY <1>1 DEF TurnsTo
  <2>2. UNCHANGED Lefts
    <3>1. NotAsked(n) = Lefts[r] /\ Lefts = [Lefts EXCEPT ![r] = Lefts[r]]
      BY Viewed
    <3> QED
      BY <2>0, <3>1
  <2>3. UNCHANGED Ats
    <3>1. n.at = Ats[r] /\ Ats = [Ats EXCEPT ![r] = Ats[r]]
      BY Viewed
    <3> QED
      BY <2>0, <3>1
  <2>4. UNCHANGED Wires
    BY <2>0
  <2>5. UNCHANGED Results
    <3>1. n.result = Results[r] /\ Results = [Results EXCEPT ![r] = Results[r]]
      BY Viewed
    <3> QED
      BY <2>0, <3>1
  <2> QED
    BY <2>1, <2>2, <2>3, <2>4, <2>5
<1> QED
  BY <1>1, <1>2, ItStutters DEF Shown

LEMMA VoiceIsShown ==
    ASSUME WalkInv, NEW r \in Requests, ReadVoice(r)
    PROVE  Shown
<1> DEFINE q == job[r]
           voice == IF settings[q.call.alias].voice # None THEN settings[q.call.alias].voice
                    ELSE deploy[q.call.alias].voice
           n == [q EXCEPT !.pc = "sort", !.voice = voice]
<1>1. Fields(q) /\ WalkOK(q) /\ q.pc = "voice" /\ job' = [job EXCEPT ![r] = n] /\ deploy' = deploy
  BY DEF WalkInv, JobInv, JobOK, ReadVoice
<1> HIDE DEF q, voice
<1>2. /\ n.pc = "sort" /\ n.call = q.call /\ n.order = q.order /\ n.at = q.at
      /\ n.result = q.result
  BY <1>1 DEF Fields, Labels
<1> HIDE DEF n
<1>3. WalkOK(n) /\ NotAsked(n) = NotAsked(q)
  <2>1. NotAsked(n) = NotAsked(q)
    BY <1>1, <1>2, NotAskedIs
  <2> QED
    BY <1>1, <1>2, <2>1 DEF WalkOK, Trying
<1> QED
  BY <1>1, <1>2, <1>3, SameIsShown DEF q

LEMMA SortIsShown ==
    ASSUME NamedOnce, WalkInv, NEW r \in Requests, Sort(r)
    PROVE  Shown
<1> DEFINE q == job[r]
           rest == AllAsks(q.call, deploy[q.call.alias].chain, q.order, drained)
           n == [q EXCEPT !.pc = "call", !.rest = rest]
<1>1. /\ JobOK(deploy, q) /\ WalkOK(q) /\ q.pc = "sort" /\ deploy \in Deployments
      /\ job' = [job EXCEPT ![r] = n] /\ deploy' = deploy
  BY DEF WalkInv, JobInv, Sort
<1>2. Range(rest) = Offered[deploy][q.call] /\ IsInjective(rest)
  <2>1. /\ q.call \in Calls /\ IsInjective(q.order)
        /\ q.order \in Seq(DOMAIN deploy[q.call.alias].chain)
        /\ Range(q.order) = DOMAIN deploy[q.call.alias].chain
    BY <1>1 DEF JobOK, Fields, Asking, WalkOK
  <2> HIDE DEF q
  <2> QED
    BY <1>1, <2>1, AllAreAsked, AllAskedOnce
<1> HIDE DEF q, rest
<1>3. /\ n.pc = "call" /\ n.call = q.call /\ n.rest = rest /\ n.at = q.at /\ n.result = q.result
  BY <1>1 DEF JobOK, Fields, Labels
<1> HIDE DEF n
<1>4. WalkOK(n)
  BY <1>1, <1>2, <1>3 DEF WalkOK, Trying
<1>5. NotAsked(n) = NotAsked(q)
  BY <1>1, <1>2, <1>3, NotAskedIs
<1> QED
  BY <1>1, <1>3, <1>4, <1>5, SameIsShown DEF q

LEMMA AskIsShown ==
    ASSUME WalkInv, NEW r \in Requests, NEW broke, AskNext(r, broke)
    PROVE  Shown
<1> DEFINE q == job[r]
           k == Head(q.rest)
           said == IF Loop[q.call.op].voiced THEN VoiceFor(q.voice, k.rung.prov) ELSE None
           n == [q EXCEPT !.pc = "wait", !.at = k, !.rest = Tail(@), !.broke = broke, !.said = said]
           O == Offered[deploy][q.call]
           s == q.rest
<1>1. /\ JobOK(deploy, q) /\ WalkOK(q) /\ q.pc = "call" /\ deploy \in Deployments
      /\ job' = [job EXCEPT ![r] = n] /\ deploy' = deploy /\ q.rest # <<>>
  BY DEF WalkInv, JobInv, AskNext
<1>2. s \in Seq(O) /\ s # <<>> /\ IsInjective(s) /\ q.call \in Calls
  BY <1>1 DEF JobOK, Asking, Fields, WalkOK
<1>3. /\ k \in O /\ k \in Range(s) /\ IsInjective(Tail(s)) /\ Range(Tail(s)) = Range(s) \ {k}
  <2> HIDE DEF O, q
  <2>1. Head(s) \in O /\ Head(s) = s[1] /\ 1 \in DOMAIN s
    BY <1>2, HeadTailProperties, LenProperties, EmptySeq
  <2>2. Head(s) \in Range(s)
    BY <2>1 DEF Range
  <2>3. IsInjective(Tail(s)) /\ Range(Tail(s)) = Range(s) \ {Head(s)}
    <3> HIDE DEF s
    <3> QED
      BY <1>2, TailOnce
  <2> QED
    BY <2>1, <2>2, <2>3
<1>4. k # NoAsk
  BY <1>1, <1>2, <1>3, OfferedIs, CapabilitiesAssumption
<1> HIDE DEF q, k, said, O
<1>5. /\ n.pc = "wait" /\ n.call = q.call /\ n.at = k /\ n.rest = Tail(s) /\ n.result = q.result
  BY <1>1 DEF JobOK, Fields, Labels
<1> HIDE DEF n, s
<1>6. WalkOK(n)
  BY <1>1, <1>3, <1>4, <1>5 DEF WalkOK, Trying
<1>7. NotAsked(n) = NotAsked(q) \ {k} /\ k \in NotAsked(q)
  BY <1>1, <1>3, <1>5, NotAskedIs DEF s
<1>8. TurnsTo(r, n) /\ \A x \in Requests : WalkOK(job'[x])
  BY <1>1, <1>6, OneView DEF q
<1>9. q.result = "trying" /\ q.at = NoAsk
  BY <1>1 DEF WalkOK, Trying
<1>10. UNCHANGED <<Offers, Wires, Results>>
  <2>1. UNCHANGED Offers /\ UNCHANGED Wires
    BY <1>5, <1>8 DEF TurnsTo, q
  <2>2. UNCHANGED Results
    <3>1. Results' = [Results EXCEPT ![r] = n.result] /\ n.result = q.result
      BY <1>5, <1>8 DEF TurnsTo
    <3>2. q.result = Results[r] /\ Results = [Results EXCEPT ![r] = Results[r]]
      BY Viewed DEF q
    <3> QED
      BY <3>1, <3>2
  <2> QED
    BY <2>1, <2>2
<1>11. Ats' = [Ats EXCEPT ![r] = k] /\ Lefts' = [Lefts EXCEPT ![r] = Lefts[r] \ {k}]
  BY <1>5, <1>7, <1>8, Viewed DEF TurnsTo, q
<1>12. Results[r] = "trying" /\ Ats[r] = NoAsk /\ k \in Lefts[r]
  BY <1>7, <1>9, Viewed DEF q
<1> QED
  BY <1>8, <1>10, <1>11, <1>12, ItAsks DEF Shown

LEMMA FailIsShown ==
    ASSUME WalkInv, NEW r \in Requests, Fail(r) \/ PassOver(r)
    PROVE  Shown
<1> DEFINE q == job[r]
           n == [q EXCEPT !.pc = "call", !.at = NoAsk, !.broke = FALSE, !.said = None]
<1>1. /\ Fields(q) /\ WalkOK(q) /\ q.pc = "wait" /\ job' = [job EXCEPT ![r] = n]
      /\ deploy' = deploy
  BY DEF WalkInv, JobInv, JobOK, Fail, PassOver, Missed
<1>2. q.at # NoAsk /\ q.result = "trying" /\ IsInjective(q.rest)
  BY <1>1 DEF WalkOK, Trying
<1> HIDE DEF q
<1>3. /\ n.pc = "call" /\ n.call = q.call /\ n.at = NoAsk /\ n.rest = q.rest /\ n.result = q.result
  BY <1>1 DEF Fields, Labels
<1> HIDE DEF n
<1>4. WalkOK(n)
  BY <1>2, <1>3 DEF WalkOK, Trying
<1>5. NotAsked(n) = NotAsked(q)
  BY <1>1, <1>3, NotAskedIs
<1>6. TurnsTo(r, n) /\ \A x \in Requests : WalkOK(job'[x])
  BY <1>1, <1>4, OneView DEF q
<1>7. UNCHANGED <<Offers, Lefts, Wires, Results>>
  <2>1. UNCHANGED Offers /\ UNCHANGED Wires
    BY <1>3, <1>6 DEF TurnsTo, q
  <2>2. UNCHANGED Lefts
    BY <1>5, <1>6, Viewed DEF TurnsTo, q
  <2>3. UNCHANGED Results
    <3>1. Results' = [Results EXCEPT ![r] = n.result]
      BY <1>6 DEF TurnsTo
    <3>2. n.result = Results[r]
      BY <1>3, Viewed DEF q
    <3> QED
      BY <3>1, <3>2, Viewed
  <2> QED
    BY <2>1, <2>2, <2>3
<1>8. Ats' = [Ats EXCEPT ![r] = NoAsk]
  BY <1>3, <1>6 DEF TurnsTo
<1>9. Ats[r] # NoAsk /\ ~Wires[r]
  BY <1>2, Viewed DEF q
<1> QED
  BY <1>6, <1>7, <1>8, <1>9, ItMisses DEF Shown

LEMMA EndIsShown ==
    ASSUME WalkInv, NEW r \in Requests, deploy' = deploy, NEW n, job' = [job EXCEPT ![r] = n],
           WalkOK(n), n.pc \in {"idle", "again"}, n.call = job[r].call,
           job[r].result = "trying",
           \/ job[r].at # NoAsk /\ n.result = "answered"
           \/ job[r].at = NoAsk /\ NotAsked(job[r]) = {} /\ n.result = "failed"
    PROVE  Shown
<1>1. TurnsTo(r, n) /\ \A x \in Requests : WalkOK(job'[x])
  BY OneView
<1>2. NotAsked(n) = {} /\ n.at = NoAsk
  BY NotAskedIs DEF WalkOK
<1>3. UNCHANGED Offers /\ Ats' = [Ats EXCEPT ![r] = NoAsk] /\ Lefts' = [Lefts EXCEPT ![r] = {}]
      /\ Wires' = [Wires EXCEPT ![r] = FALSE] /\ Results' = [Results EXCEPT ![r] = n.result]
  BY <1>1, <1>2, Viewed DEF TurnsTo
<1>4. /\ Results[r] = "trying"
      /\ \/ Ats[r] # NoAsk /\ n.result = "answered"
         \/ Ats[r] = NoAsk /\ Lefts[r] = {} /\ n.result = "failed"
  BY Viewed
<1>5. CallsView!Next
  BY <1>3, <1>4, ItEnds
<1> QED
  BY <1>1, <1>5 DEF Shown

LEMMA OverIs ==
    ASSUME NEW q, NEW result \in {"answered", "failed"}
    PROVE  LET n == Over(q, result) IN
           WalkOK(n) /\ n.pc = "idle" /\ n.call = q.call /\ n.result = result
<1> DEFINE n == Over(q, result)
<1>1. n.pc = "idle" /\ n.call = q.call /\ n.result = result /\ n.at = NoAsk
  BY DEF Over, Blank
<1> HIDE DEF n
<1>2. WalkOK(n)
  BY <1>1 DEF WalkOK, Trying
<1> QED
  BY <1>1, <1>2 DEF n

LEMMA PassIsShown ==
    ASSUME WalkInv, NEW r \in Requests, PassThrough(r) \/ GiveUp(r)
    PROVE  Shown
<1> DEFINE q == job[r]
<1>1. WalkOK(q) /\ deploy' = deploy
  BY DEF WalkInv, PassThrough, GiveUp
<1>2. CASE PassThrough(r)
  <2> DEFINE n == Over(q, "answered")
  <2>1. q.pc = "wait" /\ job' = [job EXCEPT ![r] = n]
    BY <1>2 DEF PassThrough
  <2>2. WalkOK(n) /\ n.pc = "idle" /\ n.call = q.call /\ n.result = "answered"
    BY OverIs
  <2> HIDE DEF n
  <2>3. q.result = "trying" /\ q.at # NoAsk
    BY <1>1, <2>1 DEF WalkOK, Trying
  <2> QED
    BY <1>1, <2>1, <2>2, <2>3, EndIsShown
<1>3. CASE GiveUp(r)
  <2> DEFINE n == Over(q, "failed")
  <2>1. q.pc = "call" /\ q.rest = <<>> /\ job' = [job EXCEPT ![r] = n]
    BY <1>3 DEF GiveUp
  <2>2. WalkOK(n) /\ n.pc = "idle" /\ n.call = q.call /\ n.result = "failed"
    BY OverIs
  <2> HIDE DEF n
  <2>3. q.result = "trying" /\ q.at = NoAsk
    BY <1>1, <2>1 DEF WalkOK, Trying
  <2>4. NotAsked(q) = {}
    <3> HIDE DEF q
    <3> QED
      BY <2>1, NotAskedIs, NoneOf
  <2> QED
    BY <1>1, <2>1, <2>2, <2>3, <2>4, EndIsShown
<1> QED
  BY <1>2, <1>3

LEMMA ServeIsShown ==
    ASSUME WalkInv, NEW r \in Requests, NEW units \in Units, Serve(r, units)
    PROVE  Shown
<1> DEFINE q == job[r]
           g == q.at.rung
           made == Append(q.made, [gateway |-> Gateway(g), units |-> units])
           total == q.charged + Charged(q, units)
           next == [q EXCEPT !.made = made, !.charged = total, !.left = @ - 1]
           again == [next EXCEPT !.pc = "again", !.at = NoAsk, !.said = None, !.result = "answered"]
           n == IF next.left = 0 THEN Over(next, "answered") ELSE again
<1>1. /\ Fields(q) /\ WalkOK(q) /\ q.pc = "wait" /\ job' = [job EXCEPT ![r] = n]
      /\ deploy' = deploy
  BY DEF WalkInv, JobInv, JobOK, Serve
<1>2. q.result = "trying" /\ q.at # NoAsk
  BY <1>1 DEF WalkOK, Trying
<1> HIDE DEF q, g, made, total
<1>3. DOMAIN next = Labels /\ next.call = q.call
  BY <1>1 DEF Fields, Labels
<1> HIDE DEF next
<1>4. WalkOK(again) /\ again.pc = "again" /\ again.call = q.call /\ again.result = "answered"
  <2>1. again.pc = "again" /\ again.call = q.call /\ again.result = "answered" /\ again.at = NoAsk
    BY <1>3 DEF Labels
  <2> HIDE DEF again
  <2>2. WalkOK(again)
    BY <2>1 DEF WalkOK, Trying
  <2> QED
    BY <2>1, <2>2
<1>5. /\ WalkOK(Over(next, "answered")) /\ Over(next, "answered").pc = "idle"
      /\ Over(next, "answered").call = q.call /\ Over(next, "answered").result = "answered"
  BY <1>3, OverIs
<1>6. WalkOK(n) /\ n.pc \in {"idle", "again"} /\ n.call = q.call /\ n.result = "answered"
  <2>1. CASE next.left = 0
    BY <1>5, <2>1
  <2>2. CASE next.left # 0
    BY <1>4, <2>2
  <2> QED
    BY <2>1, <2>2
<1> HIDE DEF n
<1> QED
  BY <1>1, <1>2, <1>6, EndIsShown DEF q

LEMMA DeathIsShown ==
    ASSUME WalkInv, NEW d \in Deployments, Restart(d)
    PROVE  Shown
<1>1. job' = [r \in Requests |-> Blank]
  BY DEF Restart
<1>2. WalkOK(Blank) /\ Blank.pc = "idle" /\ Blank.at = NoAsk /\ Blank.result = "none"
  BY DEF WalkOK, Trying, Blank
<1>3. Lefts' = [r \in Requests |-> {}]
  <2>1. \A r \in Requests : NotAsked(job[r])' = {}
    BY <1>1, <1>2 DEF NotAsked
  <2> QED
    BY <2>1 DEF Lefts
<1>4. /\ Ats' = [r \in Requests |-> NoAsk] /\ Results' = [r \in Requests |-> "none"]
      /\ Wires' = [r \in Requests |-> FALSE]
  BY <1>1, <1>2 DEF Ats, Results, Wires
<1>5. CallsView!Die
  BY <1>3, <1>4 DEF CallsView!Die, Lefts, Ats, Results, Wires
<1>6. \A r \in Requests : WalkOK(job'[r])
  BY <1>1, <1>2
<1> QED
  BY <1>5, <1>6 DEF Shown, CallsView!Next

LEMMA StepIsShown ==
    ASSUME NamedOnce, WalkInv, [CapabilitiesNext]_vars
    PROVE  Shown
<1>1. ASSUME NEW r \in Requests, Step(r) \/ \E c \in Calls : Arrive(r, c)
      PROVE  Shown
  BY <1>1, BeginIsShown, VoiceIsShown, SortIsShown, AskIsShown, FailIsShown, PassIsShown,
     ServeIsShown DEF Step
<1>2. ASSUME NEW d \in Deployments, Restart(d)
      PROVE  Shown
  BY <1>2, DeathIsShown
<1>3. ASSUME UNCHANGED <<deploy, job>>
      PROVE  Shown
  <2>1. \A r \in Requests : WalkOK(job'[r])
    BY <1>3 DEF WalkInv
  <2>2. UNCHANGED <<Offers, Lefts, Ats, Wires, Results>>
    BY <1>3 DEF Offers, Lefts, Ats, Wires, Results, NotAsked
  <2> QED
    BY <2>1, <2>2, ItStutters DEF Shown
<1>4. ASSUME NEW p \in Prepaid, Age(p)
      PROVE  Shown
  BY <1>3, <1>4 DEF Age
<1>5. ASSUME NEW x \in Admins, Save(x)
      PROVE  Shown
  BY <1>3, <1>5 DEF Save, SaveAliasSetting, AliasSettings, SetAliasSettings
<1>6. CASE OtherSave
  BY <1>3, <1>6 DEF OtherSave
<1>7. CASE UNCHANGED vars
  BY <1>3, <1>7 DEF vars
<1> QED
  BY <1>1, <1>2, <1>4, <1>5, <1>6, <1>7 DEF CapabilitiesNext

LEMMA FirstIsShown ==
    ASSUME CapabilitiesInit
    PROVE  WalkInv /\ CallsView!Init
<1>1. JobInv /\ job = [r \in Requests |-> Blank]
  BY JobFirst DEF CapabilitiesInit
<1>2. WalkOK(Blank) /\ Blank.pc = "idle" /\ Blank.at = NoAsk /\ Blank.result = "none"
  BY DEF WalkOK, Trying, Blank
<1>3. NotAsked(Blank) = {}
  BY <1>2, NotAskedIs
<1>4. WalkInv
  BY <1>1, <1>2 DEF WalkInv
<1>5. CallsView!Init
  BY <1>1, <1>2, <1>3 DEF CallsView!Init
<1> QED
  BY <1>4, <1>5

\* ImplementsFallback: whichever loop it is, whatever an administrator saves in
\* the middle and whatever other calls mark, every way of asking every rung that
\* stands open is asked at most once, and a call fails only after all of them
\* (attempts, creditLast, Decide, and the loops of internal/router).
THEOREM OtherCallsFallBack == NamedOnce => (CapabilitiesSpec => ImplementsFallback)
<1> SUFFICES ASSUME NamedOnce PROVE CapabilitiesSpec => ImplementsFallback
  OBVIOUS
<1>1. CapabilitiesInit => WalkInv /\ CallsView!Init
  BY FirstIsShown
<1>2. WalkInv /\ [CapabilitiesNext]_vars =>
          WalkInv' /\ [CallsView!Next]_(CallsView!fallback)
  <2> SUFFICES ASSUME WalkInv, [CapabilitiesNext]_vars
               PROVE  WalkInv' /\ [CallsView!Next]_(CallsView!fallback)
    OBVIOUS
  <2>1. Shown
    BY StepIsShown
  <2>2. JobInv'
    BY JobStep DEF WalkInv
  <2> QED
    BY <2>1, <2>2 DEF Shown, WalkInv
<1> QED
  BY <1>1, <1>2, PTL DEF CapabilitiesSpec, ImplementsFallback, CallsView!Spec

-----------------------------------------------------------------------------
(***************************************************************************)
(* Billing of live sessions, for any projects, sessions, requests, reports *)
(* and times, as long as the registry's writes land: BilledOnce and        *)
(* WithinTheClock.                                                         *)
(*                                                                         *)
(* What a session cost, charged or still in the hands of a request (Cost), *)
(* moves in step with the registry's mark (Advances): whoever moves one by *)
(* d moves the other by d, and never past what the clock allows.  A write  *)
(* that fails breaks the argument where a restart reads the registry back: *)
(* the mark would be older than the charges.                               *)
(***************************************************************************)

Owes == [id : Sessions, seconds : Nat]

Pcs == {"idle", "count", "vendor", "put", "take"}

Typed ==
    /\ sessions \in Registry /\ file \in Registry
    /\ charged \in [Sessions -> Nat] /\ flushed \in [Sessions -> Nat]
    /\ now \in Nat /\ crashes \in Nat
    /\ created \in [Sessions -> Nat \cup {-1}]
    /\ handler \in [Handlers ->
          [pc : Pcs, project : Projects \cup {NoProject}, id : Sessions \cup {NoSession},
           seconds : Nat, final : BOOLEAN, owes : SUBSET Owes]]
    /\ \A h \in Handlers : IsFiniteSet(handler[h].owes)

\* A request that registers has an id nobody else has; one that reports has a
\* project and a session to ask about.
HandlersOK ==
    \A h \in Handlers :
        /\ handler[h].pc \in {"count", "vendor", "put", "take"} => handler[h].project \in Projects
        /\ handler[h].pc \in {"put", "take"} => handler[h].id \in Sessions
        /\ handler[h].pc = "put" =>
              /\ created[handler[h].id] = -1
              /\ \A g \in Handlers \ {h} : handler[g].pc = "put" => handler[g].id # handler[h].id

\* What a session cost: charged, or on its way.
Cost(s) == charged[s] + InFlight(s)

\* What the clock allows a session to cost.
Allowance(s) ==
    IF now - created[s] + ClockSlack > PrepaidSeconds THEN now - created[s] + ClockSlack ELSE PrepaidSeconds

\* The same entry, but for when it was seen and whether it was reaped.
SameSession(a, b) == a.project = b.project /\ a.created = b.created /\ a.billed = b.billed

SessionOK(s) ==
    /\ SameSession(file[s], sessions[s])
    /\ flushed[s] <= charged[s]
    /\ created[s] = -1 => Cost(s) = 0 /\ ~Registered(sessions, s)
    /\ Registered(sessions, s) =>
          /\ created[s] = sessions[s].created
          /\ Cost(s) <= sessions[s].billed /\ sessions[s].billed <= Allowance(s)
          /\ crashes = 0 => Cost(s) = sessions[s].billed
    /\ created[s] >= 0 => Cost(s) <= Allowance(s)

LiveInv == Typed /\ HandlersOK /\ \A s \in Sessions : SessionOK(s)

-----------------------------------------------------------------------------
\* What a set of debts owes for one session.
DueOf(o, s) == [b \in o |-> IF b.id = s THEN b.seconds ELSE 0]

LEMMA DueIsSum ==
    ASSUME NEW o, NEW s
    PROVE  Due(o, s) = SumFunctionOnSet(DueOf(o, s), o)
BY DEF Due, DueOf, SumFunction

LEMMA DueType ==
    ASSUME NEW o \in SUBSET Owes, IsFiniteSet(o), NEW s
    PROVE  Due(o, s) \in Nat /\ \A b \in o : DueOf(o, s)[b] \in Nat
<1>1. \A b \in o : DueOf(o, s)[b] \in Nat
  BY DEF DueOf, Owes
<1> QED
  BY <1>1, DueIsSum, SumPositive

LEMMA DueNothing ==
    ASSUME NEW s
    PROVE  Due({}, s) = 0
BY DueIsSum, SumEmpty

\* A debt that is charged is due no longer.
LEMMA DueLess ==
    ASSUME NEW o \in SUBSET Owes, IsFiniteSet(o), NEW b \in o, NEW s
    PROVE  Due(o, s) = Due(o \ {b}, s) + (IF b.id = s THEN b.seconds ELSE 0)
<1> DEFINE r == o \ {b}
<1>1. \A x \in o : DueOf(o, s)[x] \in Int
  BY DueType
<1>2. SumFunctionOnSet(DueOf(o, s), o) = DueOf(o, s)[b] + SumFunctionOnSet(DueOf(o, s), r)
  BY <1>1, SumLess
<1>3. IsFiniteSet(r) /\ r \in SUBSET Owes
  BY FS_RemoveElement
<1>4. SumFunctionOnSet(DueOf(o, s), r) = SumFunctionOnSet(DueOf(r, s), r)
  <2>1. \A x \in r : DueOf(o, s)[x] = DueOf(r, s)[x]
    BY DEF DueOf
  <2> QED
    BY <1>3, <2>1, SumAgree
<1>5. DueOf(o, s)[b] = IF b.id = s THEN b.seconds ELSE 0
  BY DEF DueOf
<1>6. Due(r, s) \in Nat /\ DueOf(o, s)[b] \in Nat
  BY <1>3, DueType
<1>7. Due(o, s) = DueOf(o, s)[b] + Due(r, s)
  BY <1>2, <1>4, DueIsSum
<1>8. Due(o, s) = Due(r, s) + DueOf(o, s)[b]
  BY <1>6, <1>7
<1> QED
  BY <1>5, <1>8

\* With at most one debt for a session, that debt is what is due.
LEMMA DueSingle ==
    ASSUME NEW o \in SUBSET Owes, IsFiniteSet(o), NEW s, NEW n \in Nat,
           \A b \in o : b.id = s => b.seconds = n,
           \A a, b \in o : a.id = s /\ b.id = s => a = b,
           n # 0 => \E b \in o : b.id = s
    PROVE  Due(o, s) = n
<1>1. CASE \A b \in o : b.id # s
  <2>1. \A b \in o : DueOf(o, s)[b] = 0
    BY <1>1 DEF DueOf
  <2> QED
    BY <1>1, <2>1, DueIsSum, SumZero
<1>2. CASE \E b \in o : b.id = s
  <2>1. PICK b \in o : b.id = s
    BY <1>2
  <2>2. Due(o, s) = Due(o \ {b}, s) + n
    BY <2>1, DueLess
  <2>3. \A x \in o \ {b} : DueOf(o \ {b}, s)[x] = 0
    BY <2>1 DEF DueOf
  <2>4. Due(o \ {b}, s) = 0
    BY <2>3, DueIsSum, SumZero, FS_RemoveElement
  <2> QED
    BY <2>2, <2>4
<1> QED
  BY <1>1, <1>2

\* The debt of one session.
LEMMA DueDebt ==
    ASSUME NEW r \in Sessions, NEW n \in Nat, NEW s
    PROVE  /\ Debt(r, n) \in SUBSET Owes /\ IsFiniteSet(Debt(r, n))
           /\ Due(Debt(r, n), s) = IF r = s THEN n ELSE 0
<1>1. CASE n = 0
  <2>1. Debt(r, n) = {}
    BY <1>1 DEF Debt
  <2> QED
    BY <1>1, <2>1, DueNothing, FS_EmptySet
<1>2. CASE n # 0
  <2> DEFINE b == [id |-> r, seconds |-> n]
  <2>1. Debt(r, n) = {b}
    BY <1>2 DEF Debt
  <2>2. b \in Owes /\ b.id = r /\ b.seconds = n
    BY DEF Owes
  <2> HIDE DEF b
  <2>3. {b} \in SUBSET Owes /\ IsFiniteSet({b})
    BY <2>2, FS_Singleton
  <2>4. CASE r = s
    <3>1. Due({b}, s) = n
      BY <1>2, <2>2, <2>3, <2>4, DueSingle
    <3> QED
      BY <2>1, <2>3, <2>4, <3>1
  <2>5. CASE r # s
    <3>1. Due({b}, s) = 0
      BY <2>2, <2>3, <2>5, DueSingle
    <3> QED
      BY <2>1, <2>3, <2>5, <3>1
  <2> QED
    BY <2>4, <2>5
<1> QED
  BY <1>1, <1>2

\* The debts of what is reaped.
LEMMA DueReaped ==
    ASSUME Typed, NEW p, NEW s \in Sessions
    PROVE  /\ Reaped(p) \in SUBSET Owes /\ IsFiniteSet(Reaped(p))
           /\ \A r \in Sessions : OwedOf(r) \in Nat
           /\ Due(Reaped(p), s) = IF s \in Abandoned(p) THEN OwedOf(s) ELSE 0
<1> DEFINE A == {r \in Abandoned(p) : OwedOf(r) > 0}
           f == [r \in A |-> [id |-> r, seconds |-> OwedOf(r)]]
<1>1. \A r \in Sessions : OwedOf(r) \in Nat
  <2> TAKE r \in Sessions
  <2>1. sessions[r] \in Session
    BY DEF Typed, Registry
  <2>2. sessions[r].lastSeen + StaleAfter - sessions[r].created - sessions[r].billed \in Int
    BY <2>1, LiveAssumption DEF Session
  <2> QED
    BY <2>2 DEF OwedOf, Positive
<1>2. Abandoned(p) \subseteq Sessions
  BY DEF Abandoned, Open
<1>3. \A b : b \in Reaped(p) <=> \E r \in A : b = [id |-> r, seconds |-> OwedOf(r)]
  BY DEF Reaped, Debt
<1>4. Reaped(p) \in SUBSET Owes
  BY <1>1, <1>2, <1>3 DEF Owes
<1>5. IsFiniteSet(A)
  BY <1>2, LiveAssumption, FS_Subset
<1>6. f \in Surjection(A, Reaped(p))
  BY <1>3 DEF Surjection
<1>7. IsFiniteSet(Reaped(p))
  <2> HIDE DEF f, A
  <2> QED
    BY <1>5, <1>6, FS_Surjection
<1>8. Due(Reaped(p), s) = IF s \in Abandoned(p) THEN OwedOf(s) ELSE 0
  <2>1. \A b \in Reaped(p) : b.id = s => b.seconds = OwedOf(s) /\ s \in Abandoned(p)
    BY <1>3
  <2>2. \A a, b \in Reaped(p) : a.id = s /\ b.id = s => a = b
    BY <1>3
  <2>3. s \in Abandoned(p) /\ OwedOf(s) # 0 => \E b \in Reaped(p) : b.id = s
    <3>1. ASSUME s \in Abandoned(p), OwedOf(s) # 0 PROVE s \in A
      BY <1>1, <3>1
    <3>2. s \in A => [id |-> s, seconds |-> OwedOf(s)] \in Reaped(p)
      BY <1>3
    <3> QED
      BY <3>1, <3>2
  <2>4. CASE s \in Abandoned(p)
    <3>1. Due(Reaped(p), s) = OwedOf(s)
      BY <1>1, <1>4, <1>7, <2>1, <2>2, <2>3, <2>4, DueSingle
    <3> QED
      BY <2>4, <3>1
  <2>5. CASE s \notin Abandoned(p)
    <3>1. Due(Reaped(p), s) = 0
      BY <1>4, <1>7, <2>1, <2>2, <2>5, DueSingle
    <3> QED
      BY <2>5, <3>1
  <2> QED
    BY <2>4, <2>5
<1> QED
  BY <1>1, <1>4, <1>7, <1>8

-----------------------------------------------------------------------------
\* What is in flight, as a sum over the requests.
DueBy(s) == [h \in Handlers |-> Due(handler[h].owes, s)]

LEMMA InFlightIsSum == \A s : InFlight(s) = SumFunctionOnSet(DueBy(s), Handlers)
BY DEF InFlight, DueBy, SumFunction

LEMMA InFlightIsSumNext == \A s : InFlight(s)' = SumFunctionOnSet(DueBy(s)', Handlers)
BY DEF InFlight, DueBy, SumFunction

LEMMA OwesTyped ==
    ASSUME Typed, NEW h \in Handlers
    PROVE  handler[h].owes \in SUBSET Owes /\ IsFiniteSet(handler[h].owes)
BY DEF Typed

LEMMA CostType ==
    ASSUME Typed, NEW s \in Sessions
    PROVE  InFlight(s) \in Nat /\ charged[s] \in Nat /\ Cost(s) \in Nat
<1>1. \A h \in Handlers : DueBy(s)[h] \in Nat
  BY OwesTyped, DueType DEF DueBy
<1>2. InFlight(s) \in Nat
  BY <1>1, InFlightIsSum, SumPositive, LiveAssumption
<1>3. charged[s] \in Nat
  BY DEF Typed
<1> QED
  BY <1>2, <1>3 DEF Cost

\* One request goes on: what is in flight changes by what it owes.
LEMMA InFlightMoves ==
    ASSUME Typed, NEW h \in Handlers, NEW q, Becomes(h, q), q.owes \in SUBSET Owes, IsFiniteSet(q.owes),
           NEW s
    PROVE  InFlight(s)' = InFlight(s) - Due(handler[h].owes, s) + Due(q.owes, s)
<1>1. handler' = [handler EXCEPT ![h] = q] /\ DOMAIN handler = Handlers
  BY DEF Becomes, Typed
<1>2. \A g \in Handlers : DueBy(s)[g] \in Int
  BY OwesTyped, DueType DEF DueBy
<1>3. \A g \in Handlers \ {h} : DueBy(s)'[g] = DueBy(s)[g]
  BY <1>1 DEF DueBy
<1>4. DueBy(s)[h] = Due(handler[h].owes, s) /\ DueBy(s)'[h] = Due(q.owes, s)
  BY <1>1 DEF DueBy
<1>5. Due(q.owes, s) \in Int
  BY DueType
<1>6. \A g \in Handlers : DueBy(s)'[g] \in Int
  BY <1>2, <1>3, <1>4, <1>5
<1>7. SumFunctionOnSet(DueBy(s)', Handlers) =
         SumFunctionOnSet(DueBy(s), Handlers) - DueBy(s)[h] + DueBy(s)'[h]
  BY <1>2, <1>3, <1>6, SumChange, LiveAssumption
<1> QED
  BY <1>4, <1>7, InFlightIsSum, InFlightIsSumNext

LEMMA InFlightStays ==
    ASSUME handler' = handler, NEW s
    PROVE  InFlight(s)' = InFlight(s)
BY DEF InFlight

\* A request that owed nothing takes on the debts o; the wallet is left alone.
LEMMA CostMoves ==
    ASSUME Typed, NEW h \in Handlers, NEW pc, Ready(h, pc), NEW q, Becomes(h, q),
           q.owes \in SUBSET Owes, IsFiniteSet(q.owes), UNCHANGED charged, NEW s \in Sessions
    PROVE  Cost(s)' = Cost(s) + Due(q.owes, s)
<1>1. InFlight(s)' = InFlight(s) - Due(handler[h].owes, s) + Due(q.owes, s)
  BY InFlightMoves
<1>2. Due(handler[h].owes, s) = 0
  BY DueNothing DEF Ready
<1>3. Due(q.owes, s) \in Nat
  BY DueType
<1> QED
  BY <1>1, <1>2, <1>3, CostType DEF Cost

-----------------------------------------------------------------------------
LEMMA AllowanceIsMax ==
    ASSUME Typed, NEW s \in Sessions
    PROVE  /\ Allowance(s) \in Int
           /\ Allowance(s) = Max({PrepaidSeconds, now - created[s] + ClockSlack})
<1> DEFINE a == now - created[s] + ClockSlack
<1>1. a \in Int /\ PrepaidSeconds \in Int
  BY LiveAssumption DEF Typed
<1> HIDE DEF a
<1>2. Max({PrepaidSeconds, a}) \in {PrepaidSeconds, a} /\ \A y \in {PrepaidSeconds, a} : Max({PrepaidSeconds, a}) >= y
  <2>1. \E x \in {PrepaidSeconds, a} : \A y \in {PrepaidSeconds, a} : x >= y
    BY <1>1
  <2> QED
    BY <2>1 DEF Max
<1>3. Max({PrepaidSeconds, a}) = IF a > PrepaidSeconds THEN a ELSE PrepaidSeconds
  BY <1>1, <1>2
<1> QED
  BY <1>1, <1>3 DEF Allowance, a

\* A session goes on: what it cost and its mark move together, and no further
\* than the clock allows.
LEMMA Advances ==
    ASSUME Typed, Typed', NEW s \in Sessions, SessionOK(s), NEW d \in Nat,
           SameSession(file'[s], sessions'[s]), flushed'[s] <= charged'[s],
           created' = created, crashes' = crashes, now' >= now,
           Cost(s)' = Cost(s) + d,
           d # 0 => Registered(sessions, s) /\ sessions[s].billed + d <= Allowance(s),
           Registered(sessions', s) =>
               /\ sessions'[s].project = sessions[s].project
               /\ sessions'[s].created = sessions[s].created
               /\ sessions'[s].billed = sessions[s].billed + d
    PROVE  SessionOK(s)'
<1>1. now \in Int /\ now' \in Int /\ created[s] \in Int /\ PrepaidSeconds \in Int /\ ClockSlack \in Int
  BY LiveAssumption DEF Typed
<1>2. Allowance(s) <= Allowance(s)' /\ Allowance(s) \in Int /\ Allowance(s)' \in Int
  BY <1>1 DEF Allowance
<1>3. Cost(s) \in Nat /\ sessions[s].billed \in Nat
  BY CostType DEF Typed, Registry, Session
<1>4. Registered(sessions', s) => Registered(sessions, s)
  BY DEF Registered
<1>5. created[s] = -1 => Cost(s)' = 0 /\ ~Registered(sessions', s)
  BY <1>3, <1>4 DEF SessionOK
<1>6. Registered(sessions', s) =>
          /\ created[s] = sessions'[s].created
          /\ Cost(s)' <= sessions'[s].billed /\ sessions'[s].billed <= Allowance(s)'
          /\ crashes = 0 => Cost(s)' = sessions'[s].billed
  <2> SUFFICES ASSUME Registered(sessions', s)
               PROVE  /\ created[s] = sessions'[s].created
                      /\ Cost(s)' <= sessions'[s].billed /\ sessions'[s].billed <= Allowance(s)'
                      /\ crashes = 0 => Cost(s)' = sessions'[s].billed
    OBVIOUS
  <2>1. /\ created[s] = sessions[s].created
        /\ Cost(s) <= sessions[s].billed /\ sessions[s].billed <= Allowance(s)
        /\ crashes = 0 => Cost(s) = sessions[s].billed
    BY <1>4 DEF SessionOK
  <2>2. sessions[s].billed + d <= Allowance(s)
    BY <1>3, <2>1
  <2> QED
    BY <1>2, <1>3, <2>1, <2>2
<1>7. created[s] >= 0 => Cost(s)' <= Allowance(s)'
  <2>1. CASE d = 0
    BY <1>1, <1>2, <1>3, <2>1 DEF SessionOK
  <2>2. CASE d # 0
    <3>1. Cost(s) <= sessions[s].billed /\ sessions[s].billed + d <= Allowance(s)
      BY <2>2 DEF SessionOK
    <3> QED
      BY <1>2, <1>3, <3>1
  <2> QED
    BY <2>1, <2>2
<1> QED
  BY <1>5, <1>6, <1>7 DEF SessionOK, Registered

\* Nothing is added.
LEMMA StaysOK ==
    ASSUME Typed, Typed', NEW s \in Sessions, SessionOK(s),
           SameSession(file'[s], sessions'[s]), flushed'[s] <= charged'[s],
           created' = created, crashes' = crashes, now' >= now, Cost(s)' = Cost(s),
           Registered(sessions', s) => SameSession(sessions'[s], sessions[s])
    PROVE  SessionOK(s)'
<1>1. Cost(s)' = Cost(s) + 0
  BY CostType
<1>2. Registered(sessions', s) => sessions'[s].billed = sessions[s].billed + 0
  BY DEF SameSession, Typed, Registry, Session
<1> QED
  BY <1>1, <1>2, Advances DEF SameSession

-----------------------------------------------------------------------------
\* How a request goes on.
HandlerType(q) ==
    /\ q \in [pc : Pcs, project : Projects \cup {NoProject}, id : Sessions \cup {NoSession},
              seconds : Nat, final : BOOLEAN, owes : SUBSET Owes]
    /\ IsFiniteSet(q.owes)

LEMMA IdleOwing ==
    ASSUME NEW o \in SUBSET Owes, IsFiniteSet(o)
    PROVE  HandlerType([Idle EXCEPT !.owes = o]) /\ [Idle EXCEPT !.owes = o].owes = o
           /\ [Idle EXCEPT !.owes = o].pc = "idle" /\ HandlerType(Idle) /\ Idle.owes = {} /\ Idle.pc = "idle"
BY FS_EmptySet DEF HandlerType, Idle, Pcs, Owes

LEMMA HandlerMoves ==
    ASSUME Typed, HandlersOK, NEW h \in Handlers, NEW q, Becomes(h, q), HandlerType(q),
           \A g \in Handlers \ {h} : handler[g].pc = "put" => created'[handler[g].id] = -1,
           q.pc \in {"count", "vendor", "put", "take"} => q.project \in Projects,
           q.pc \in {"put", "take"} => q.id \in Sessions,
           q.pc = "put" => /\ created'[q.id] = -1
                           /\ \A g \in Handlers \ {h} : handler[g].pc = "put" => handler[g].id # q.id
    PROVE  /\ HandlersOK'
           /\ handler' \in [Handlers ->
                 [pc : Pcs, project : Projects \cup {NoProject}, id : Sessions \cup {NoSession},
                  seconds : Nat, final : BOOLEAN, owes : SUBSET Owes]]
           /\ \A g \in Handlers : IsFiniteSet(handler'[g].owes)
<1>1. handler' = [handler EXCEPT ![h] = q] /\ DOMAIN handler = Handlers
  BY DEF Becomes, Typed
<1>2. handler'[h] = q /\ \A g \in Handlers \ {h} : handler'[g] = handler[g]
  BY <1>1
<1>3. handler' \in [Handlers ->
                 [pc : Pcs, project : Projects \cup {NoProject}, id : Sessions \cup {NoSession},
                  seconds : Nat, final : BOOLEAN, owes : SUBSET Owes]]
  BY <1>1 DEF Typed, HandlerType
<1>4. \A g \in Handlers : IsFiniteSet(handler'[g].owes)
  BY <1>2 DEF Typed, HandlerType
<1>5. HandlersOK'
  BY <1>2 DEF HandlersOK
<1> QED
  BY <1>3, <1>4, <1>5

\* A request that ends, or waits with no more than debts.
LEMMA HandlerEnds ==
    ASSUME Typed, HandlersOK, NEW h \in Handlers, NEW q, Becomes(h, q), HandlerType(q), q.pc = "idle",
           \A g \in Handlers \ {h} : handler[g].pc = "put" => created'[handler[g].id] = -1
    PROVE  /\ HandlersOK'
           /\ handler' \in [Handlers ->
                 [pc : Pcs, project : Projects \cup {NoProject}, id : Sessions \cup {NoSession},
                  seconds : Nat, final : BOOLEAN, owes : SUBSET Owes]]
           /\ \A g \in Handlers : IsFiniteSet(handler'[g].owes)
BY HandlerMoves

LEMMA PutsAreFresh ==
    ASSUME HandlersOK, created' = created
    PROVE  \A g \in Handlers : handler[g].pc = "put" => created'[handler[g].id] = -1
BY DEF HandlersOK

-----------------------------------------------------------------------------
\* What abandoned sessions are billed.
Gain(p, s) == IF s \in Abandoned(p) THEN OwedOf(s) ELSE 0

LEMMA ReapOK ==
    ASSUME LiveInv, SavesMayFail = FALSE, NEW p \in Projects, Reap(p)
    PROVE  /\ sessions' \in Registry /\ file' \in Registry
           /\ \A s \in Sessions :
                 /\ Gain(p, s) \in Nat
                 /\ SameSession(file'[s], sessions'[s])
                 /\ sessions'[s].project = sessions[s].project
                 /\ sessions'[s].created = sessions[s].created
                 /\ sessions'[s].billed = sessions[s].billed + Gain(p, s)
                 /\ Gain(p, s) # 0 => Registered(sessions, s) /\ sessions[s].billed + Gain(p, s) <= Allowance(s)
<1> DEFINE gone == Abandoned(p)
           reg == [s \in Sessions |->
                    IF s \in gone
                    THEN [sessions[s] EXCEPT !.billed = sessions[s].billed + OwedOf(s), !.reaped = TRUE]
                    ELSE sessions[s]]
<1>1. Typed /\ \A s \in Sessions : SessionOK(s)
  BY DEF LiveInv
<1>2. \A s \in Sessions : sessions[s] \in Session /\ OwedOf(s) \in Nat
  BY <1>1, DueReaped DEF Typed, Registry
<1>3. ASSUME NEW s \in Sessions
      PROVE  /\ Gain(p, s) \in Nat
             /\ Gain(p, s) # 0 => Registered(sessions, s) /\ sessions[s].billed + Gain(p, s) <= Allowance(s)
  <2>1. Gain(p, s) \in Nat
    BY <1>2 DEF Gain
  <2>2. ASSUME Gain(p, s) # 0
        PROVE  Registered(sessions, s) /\ sessions[s].billed + Gain(p, s) <= Allowance(s)
    <3>1. /\ s \in Abandoned(p) /\ Gain(p, s) = OwedOf(s) /\ OwedOf(s) # 0
      BY <2>2 DEF Gain
    <3>2. sessions[s].project = p /\ now - sessions[s].lastSeen > StaleAfter
      BY <3>1 DEF Abandoned, Open
    <3>3. Registered(sessions, s)
      BY <3>2, LiveAssumption DEF Registered
    <3>4. created[s] = sessions[s].created
      BY <1>1, <3>3 DEF SessionOK
    <3>5. /\ sessions[s].lastSeen \in Nat /\ sessions[s].created \in Nat /\ sessions[s].billed \in Nat
          /\ now \in Nat /\ StaleAfter \in Nat /\ ClockSlack \in Nat /\ PrepaidSeconds \in Nat
      BY <1>1, <1>2, LiveAssumption DEF Session, Typed
    <3>6. OwedOf(s) = sessions[s].lastSeen + StaleAfter - sessions[s].created - sessions[s].billed
      BY <3>1, <3>5 DEF OwedOf, Positive
    <3>7. sessions[s].billed + OwedOf(s) <= now - created[s] + ClockSlack
      BY <3>2, <3>4, <3>5, <3>6
    <3>8. now - created[s] + ClockSlack <= Allowance(s)
      BY <3>4, <3>5 DEF Allowance
    <3>9. sessions[s].billed + OwedOf(s) <= Allowance(s)
      BY <3>4, <3>5, <3>6, <3>7, <3>8 DEF Allowance
    <3> QED
      BY <3>1, <3>3, <3>9
  <2> QED
    BY <2>1, <2>2
<1>4. CASE gone = {}
  <2>1. sessions' = sessions /\ file' = file
    BY <1>4 DEF Reap
  <2>2. \A s \in Sessions : Gain(p, s) = 0
    BY <1>4 DEF Gain
  <2>3. \A s \in Sessions : sessions[s].billed \in Nat
    BY <1>2 DEF Session
  <2> QED
    BY <1>1, <1>3, <2>1, <2>2, <2>3 DEF Typed, SessionOK
<1>5. CASE gone # {}
  <2>1. SaveLocked(reg)
    BY <1>2, <1>5 DEF Reap, Session
  <2>2. sessions' = reg /\ file' = reg
    BY <2>1 DEF SaveLocked
  <2>3. ASSUME NEW s \in Sessions
        PROVE  /\ reg[s] \in Session
               /\ reg[s].project = sessions[s].project /\ reg[s].created = sessions[s].created
               /\ reg[s].billed = sessions[s].billed + Gain(p, s)
    <3>1. CASE s \in gone
      <4> DEFINE b == sessions[s].billed + OwedOf(s)
                 one == [sessions[s] EXCEPT !.billed = b]
      <4>1. b \in Nat
        BY <1>2 DEF Session
      <4>2. reg[s] = [one EXCEPT !.reaped = TRUE]
        BY <1>2, <3>1 DEF Session
      <4>3. b = sessions[s].billed + Gain(p, s)
        BY <3>1 DEF Gain
      <4> HIDE DEF b
      <4>4. one \in Session /\ one.project = sessions[s].project /\ one.created = sessions[s].created /\ one.billed = b
        BY <1>2, <4>1 DEF Session
      <4> HIDE DEF one, reg
      <4> QED
        BY <4>2, <4>3, <4>4 DEF Session
    <3>2. CASE s \notin gone
      BY <1>2, <3>2 DEF Gain, Session
    <3> QED
      BY <3>1, <3>2
  <2>4. reg \in Registry
    BY <2>3 DEF Registry
  <2> HIDE DEF reg
  <2> QED
    BY <1>3, <2>2, <2>3, <2>4 DEF SameSession
<1> QED
  BY <1>4, <1>5

\* Either request begins by reaping.
LEMMA StartOK ==
    ASSUME LiveInv, SavesMayFail = FALSE, NEW h \in Handlers, NEW p \in Projects, Ready(h, "idle"), Reap(p),
           NEW q, Becomes(h, q), HandlerType(q), q.owes = Reaped(p), q.pc \in {"count", "take"},
           q.project \in Projects, q.pc = "take" => q.id \in Sessions,
           UNCHANGED <<wallet, clock, created>>
    PROVE  LiveInv'
<1>1. Typed /\ HandlersOK /\ \A s \in Sessions : SessionOK(s)
  BY DEF LiveInv
<1>2. UNCHANGED <<charged, flushed, now, crashes, created>>
  BY DEF wallet, clock
<1>3. \A g \in Handlers : handler[g].pc = "put" => created'[handler[g].id] = -1
  BY <1>1, <1>2, PutsAreFresh
<1>4. HandlersOK' /\ Typed'
  <2>1. sessions' \in Registry /\ file' \in Registry
    BY ReapOK
  <2> QED
    BY <1>1, <1>2, <1>3, <2>1, HandlerMoves DEF Typed
<1>5. ASSUME NEW s \in Sessions PROVE SessionOK(s)'
  <2>1. Cost(s)' = Cost(s) + Gain(p, s)
    BY <1>1, <1>2, CostMoves, DueReaped DEF Gain
  <2>2. /\ Gain(p, s) \in Nat /\ SameSession(file'[s], sessions'[s])
        /\ sessions'[s].project = sessions[s].project
        /\ sessions'[s].created = sessions[s].created
        /\ sessions'[s].billed = sessions[s].billed + Gain(p, s)
        /\ Gain(p, s) # 0 => Registered(sessions, s) /\ sessions[s].billed + Gain(p, s) <= Allowance(s)
    BY ReapOK
  <2>3. flushed'[s] <= charged'[s] /\ now' >= now
    BY <1>1, <1>2 DEF SessionOK, Typed
  <2> QED
    BY <1>1, <1>2, <1>4, <2>1, <2>2, <2>3, Advances
<1> QED
  BY <1>4, <1>5 DEF LiveInv

LEMMA StartCreateOK ==
    ASSUME LiveInv, SavesMayFail = FALSE, NEW h \in Handlers, NEW p \in Projects, StartCreate(h, p)
    PROVE  LiveInv'
<1> DEFINE o == Reaped(p)
           one == [Idle EXCEPT !.pc = "count"]
           two == [one EXCEPT !.project = p]
           q == [two EXCEPT !.owes = o]
<1>1. o \in SUBSET Owes /\ IsFiniteSet(o)
  <2>1. CASE Sessions = {}
    <3>1. Reaped(p) = {}
      BY <2>1 DEF Reaped, Abandoned, Open
    <3> QED
      BY <3>1, FS_EmptySet
  <2>2. CASE Sessions # {}
    BY <2>2, DueReaped DEF LiveInv
  <2> QED
    BY <2>1, <2>2
<1>2. Becomes(h, q)
  BY DEF StartCreate
<1> HIDE DEF o
<1>3. HandlerType(one) /\ one.pc = "count"
  BY FS_EmptySet DEF HandlerType, Idle, Pcs, Owes
<1> HIDE DEF one
<1>4. HandlerType(two) /\ two.pc = "count" /\ two.project = p
  BY <1>3 DEF HandlerType
<1> HIDE DEF two
<1>5. HandlerType(q) /\ q.owes = o /\ q.pc = "count" /\ q.project = p
  BY <1>1, <1>4 DEF HandlerType
<1> HIDE DEF q
<1> QED
  BY <1>2, <1>5, StartOK DEF StartCreate, o

LEMMA StartReportOK ==
    ASSUME LiveInv, SavesMayFail = FALSE, NEW h \in Handlers, NEW p \in Projects, NEW r \in Sessions,
           NEW n \in Reports, NEW f \in BOOLEAN, StartReport(h, p, r, n, f)
    PROVE  LiveInv'
<1> DEFINE o == Reaped(p)
           q == [pc |-> "take", project |-> p, id |-> r, seconds |-> n, final |-> f, owes |-> o]
<1>1. o \in SUBSET Owes /\ IsFiniteSet(o)
  BY DueReaped DEF LiveInv
<1>2. Becomes(h, q)
  BY DEF StartReport
<1> HIDE DEF o
<1>3. HandlerType(q) /\ q.owes = o /\ q.pc = "take" /\ q.project = p /\ q.id = r
  BY <1>1, LiveAssumption DEF HandlerType, Pcs
<1> HIDE DEF q
<1> QED
  BY <1>2, <1>3, StartOK DEF StartReport, o

\* A request goes on and the registry and the wallet do not change.
LEMMA GoesOnOK ==
    ASSUME LiveInv, NEW h \in Handlers, NEW pc, Ready(h, pc), NEW q, Becomes(h, q), HandlerType(q), q.owes = {},
           q.pc \in {"count", "vendor", "put", "take"} => q.project \in Projects,
           q.pc \in {"put", "take"} => q.id \in Sessions,
           q.pc = "put" => /\ created[q.id] = -1
                           /\ \A g \in Handlers \ {h} : handler[g].pc = "put" => handler[g].id # q.id,
           UNCHANGED <<sessions, file, wallet, clock, created>>
    PROVE  LiveInv'
<1>1. Typed /\ HandlersOK /\ \A s \in Sessions : SessionOK(s)
  BY DEF LiveInv
<1>2. UNCHANGED <<sessions, file, charged, flushed, now, crashes, created>>
  BY DEF wallet, clock
<1>3. \A g \in Handlers : handler[g].pc = "put" => created'[handler[g].id] = -1
  BY <1>1, <1>2, PutsAreFresh
<1>4. HandlersOK' /\ Typed'
  BY <1>1, <1>2, <1>3, HandlerMoves DEF Typed
<1>5. ASSUME NEW s \in Sessions PROVE SessionOK(s)'
  <2>1. q.owes \in SUBSET Owes /\ IsFiniteSet(q.owes) /\ Due(q.owes, s) = 0
    BY DueNothing DEF HandlerType
  <2>2. Cost(s)' = Cost(s)
    BY <1>1, <1>2, <2>1, CostMoves, CostType
  <2>3. flushed'[s] <= charged'[s] /\ now' >= now /\ SameSession(file'[s], sessions'[s])
    BY <1>1, <1>2 DEF SessionOK, Typed
  <2> QED
    BY <1>1, <1>2, <1>4, <2>2, <2>3, StaysOK DEF SameSession
<1> QED
  BY <1>4, <1>5 DEF LiveInv

LEMMA CountOpenOK == ASSUME LiveInv, NEW h \in Handlers, CountOpen(h) PROVE LiveInv'
<1>1. HandlerType(handler[h]) /\ handler[h].project \in Projects /\ handler[h].owes = {}
  BY DEF LiveInv, Typed, HandlersOK, CountOpen, Ready, HandlerType
<1> DEFINE q == [handler[h] EXCEPT !.pc = "vendor"]
<1>2. HandlerType(q) /\ q.pc = "vendor" /\ q.project \in Projects /\ q.owes = {}
  BY <1>1 DEF HandlerType, Pcs
<1>3. Becomes(h, q) \/ Becomes(h, Idle)
  BY DEF CountOpen
<1>4. HandlerType(Idle) /\ Idle.owes = {} /\ Idle.pc = "idle"
  BY IdleOwing, FS_EmptySet
<1> HIDE DEF q
<1> QED
  BY <1>2, <1>3, <1>4, GoesOnOK DEF CountOpen

LEMMA VendorOK ==
    ASSUME LiveInv, NEW h \in Handlers, VendorRefuses(h) \/ \E s \in Sessions : VendorOpens(h, s)
    PROVE  LiveInv'
<1>1. CASE VendorRefuses(h)
  <2>1. HandlerType(Idle) /\ Idle.owes = {} /\ Idle.pc = "idle"
    BY IdleOwing, FS_EmptySet
  <2> QED
    BY <1>1, <2>1, GoesOnOK DEF VendorRefuses
<1>2. ASSUME NEW s \in Sessions, VendorOpens(h, s) PROVE LiveInv'
  <2>1. HandlerType(handler[h]) /\ handler[h].project \in Projects /\ handler[h].owes = {}
    BY <1>2 DEF LiveInv, Typed, HandlersOK, VendorOpens, Ready, HandlerType
  <2> DEFINE one == [handler[h] EXCEPT !.pc = "put"]
             q == [one EXCEPT !.id = s]
  <2>2. HandlerType(one) /\ one.pc = "put" /\ one.project \in Projects /\ one.owes = {}
    BY <2>1 DEF HandlerType, Pcs
  <2>3. Becomes(h, q)
    BY <1>2 DEF VendorOpens
  <2> HIDE DEF one
  <2>4. HandlerType(q) /\ q.pc = "put" /\ q.project \in Projects /\ q.owes = {} /\ q.id = s
    BY <2>2 DEF HandlerType, Pcs
  <2> HIDE DEF q
  <2> QED
    BY <1>2, <2>3, <2>4, GoesOnOK DEF VendorOpens
<1> QED
  BY <1>1, <1>2

\* A session is registered, and others may be forgotten for their age.
LEMMA RegisterOK ==
    ASSUME LiveInv, SavesMayFail = FALSE, NEW h \in Handlers, Register(h)
    PROVE  LiveInv'
<1> DEFINE r == handler[h].id
           p == handler[h].project
           o == {[id |-> r, seconds |-> PrepaidSeconds]}
           new == [project |-> p, created |-> now, billed |-> PrepaidSeconds, lastSeen |-> now, reaped |-> FALSE]
           reg == [Prune(sessions) EXCEPT ![r] = new]
<1>1. Typed /\ HandlersOK /\ \A s \in Sessions : SessionOK(s)
  BY DEF LiveInv
<1>2. /\ handler[h].pc = "put" /\ r \in Sessions /\ p \in Projects /\ created[r] = -1
      /\ \A g \in Handlers \ {h} : handler[g].pc = "put" => handler[g].id # r
  BY <1>1 DEF HandlersOK, Register, Ready
<1>3. /\ sessions' = reg /\ file' = reg
      /\ created' = [created EXCEPT ![r] = now]
      /\ charged' = charged /\ flushed' = flushed /\ now' = now /\ crashes' = crashes
  BY DEF Register, SaveLocked, Put, wallet, clock
<1>4. Becomes(h, [Idle EXCEPT !.owes = o])
  BY DEF Register
<1>5. o \in SUBSET Owes /\ IsFiniteSet(o) /\ \A s : Due(o, s) = IF r = s THEN PrepaidSeconds ELSE 0
  <2> DEFINE b == [id |-> r, seconds |-> PrepaidSeconds]
  <2>1. b \in Owes /\ b.id = r /\ b.seconds = PrepaidSeconds /\ PrepaidSeconds \in Nat
    BY <1>2, LiveAssumption DEF Owes
  <2> HIDE DEF b
  <2>2. {b} \in SUBSET Owes /\ IsFiniteSet({b})
    BY <2>1, FS_Singleton
  <2>3. Due({b}, r) = PrepaidSeconds
    BY <2>1, <2>2, DueSingle
  <2>4. ASSUME NEW s, r # s PROVE Due({b}, s) = 0
    BY <2>1, <2>2, <2>4, DueSingle
  <2>5. o = {b}
    BY DEF b
  <2> QED
    BY <2>2, <2>3, <2>4, <2>5
<1> HIDE DEF o
<1>6. /\ HandlerType([Idle EXCEPT !.owes = o]) /\ [Idle EXCEPT !.owes = o].owes = o
      /\ [Idle EXCEPT !.owes = o].pc = "idle"
  BY <1>5, IdleOwing
<1>7. \A g \in Handlers \ {h} : handler[g].pc = "put" => created'[handler[g].id] = -1
  <2> SUFFICES ASSUME NEW g \in Handlers \ {h}, handler[g].pc = "put"
               PROVE  created'[handler[g].id] = -1
    OBVIOUS
  <2>1. handler[g].id # r /\ handler[g].id \in Sessions /\ created[handler[g].id] = -1
    BY <1>1, <1>2 DEF HandlersOK
  <2> QED
    BY <1>1, <1>3, <2>1 DEF Typed
<1>8. new \in Session /\ new.project = p /\ new.created = now /\ new.billed = PrepaidSeconds
  BY <1>1, <1>2, LiveAssumption DEF Session, Typed
<1> HIDE DEF new
<1>9. /\ reg \in Registry /\ reg[r] = new
      /\ \A s \in Sessions \ {r} : reg[s] = sessions[s] \/ reg[s] = Absent
  <2>1. Absent \in Session
    BY DEF Absent, Session
  <2>2. Prune(sessions) \in Registry /\ \A s \in Sessions : Prune(sessions)[s] = sessions[s] \/ Prune(sessions)[s] = Absent
    BY <1>1, <2>1 DEF Prune, Typed, Registry
  <2> QED
    BY <1>2, <1>8, <2>2 DEF Registry
<1> HIDE DEF reg
<1>10. Typed' /\ HandlersOK'
  <2>1. created' \in [Sessions -> Nat \cup {-1}]
    BY <1>1, <1>3 DEF Typed
  <2>2. /\ HandlersOK'
        /\ handler' \in [Handlers ->
              [pc : Pcs, project : Projects \cup {NoProject}, id : Sessions \cup {NoSession},
               seconds : Nat, final : BOOLEAN, owes : SUBSET Owes]]
        /\ \A g \in Handlers : IsFiniteSet(handler'[g].owes)
    BY <1>1, <1>4, <1>6, <1>7, HandlerEnds
  <2>3. sessions' \in Registry /\ file' \in Registry
    BY <1>3, <1>9
  <2> QED
    BY <1>1, <1>3, <2>1, <2>2, <2>3 DEF Typed
<1>11. \A s \in Sessions : Cost(s)' = Cost(s) + Due(o, s)
  <2>1. Ready(h, "put")
    BY DEF Register
  <2> QED
    BY <1>1, <1>3, <1>4, <1>5, <1>6, <2>1, CostMoves
<1>12. ASSUME NEW s \in Sessions PROVE SessionOK(s)'
  <2>1. CASE s = r
    <3>1. Cost(s) = 0 /\ flushed[s] <= charged[s]
      BY <1>1, <1>2, <2>1 DEF SessionOK
    <3>2. Cost(s)' = PrepaidSeconds
      BY <1>5, <1>11, <2>1, <3>1, LiveAssumption
    <3>3. created'[s] = now /\ now \in Nat /\ PrepaidSeconds \in Nat /\ ClockSlack \in Nat
      BY <1>1, <1>3, <2>1, LiveAssumption DEF Typed
    <3>4. PrepaidSeconds <= Allowance(s)' /\ Allowance(s)' \in Int
      BY <1>3, <3>3 DEF Allowance
    <3>5. sessions'[s] = new /\ file'[s] = new
      BY <1>3, <1>9, <2>1
    <3>6. created'[s] # -1
      BY <3>3
    <3>7. Registered(sessions', s) =>
          /\ created'[s] = sessions'[s].created
          /\ Cost(s)' <= sessions'[s].billed /\ sessions'[s].billed <= Allowance(s)'
          /\ crashes' = 0 => Cost(s)' = sessions'[s].billed
      BY <1>8, <3>2, <3>3, <3>4, <3>5
    <3> QED
      BY <1>3, <3>1, <3>2, <3>4, <3>5, <3>6, <3>7 DEF SessionOK, Registered, SameSession
  <2>2. CASE s # r
    <3>1. Cost(s)' = Cost(s)
      BY <1>1, <1>5, <1>11, <2>2, CostType
    <3>2. sessions'[s] = file'[s] /\ (sessions'[s] = sessions[s] \/ sessions'[s] = Absent)
      BY <1>3, <1>9, <2>2
    <3>3. Registered(sessions', s) => sessions'[s] = sessions[s]
      BY <3>2 DEF Registered, Absent
    <3>4. created'[s] = created[s]
      BY <1>1, <1>3, <2>2 DEF Typed
    <3>5. Allowance(s)' = Allowance(s)
      BY <1>3, <3>4 DEF Allowance
    <3>6. Registered(sessions', s) => Registered(sessions, s)
      BY <3>3 DEF Registered
    <3> QED
      BY <1>1, <1>3, <3>1, <3>2, <3>3, <3>4, <3>5, <3>6 DEF SessionOK, SameSession, Registered
  <2> QED
    BY <2>1, <2>2
<1> QED
  BY <1>10, <1>12 DEF LiveInv

\* A report moves the mark by what it adds, and forgets the session at the end.
LEMMA TakeOK ==
    ASSUME LiveInv, SavesMayFail = FALSE, NEW h \in Handlers, Take(h)
    PROVE  LiveInv'
<1> DEFINE x == handler[h]
           r == x.id
           delta == Delta(x.id, x.seconds)
           o == Debt(r, delta)
<1>1. Typed /\ HandlersOK /\ \A s \in Sessions : SessionOK(s)
  BY DEF LiveInv
<1>2. /\ x.pc = "take" /\ r \in Sessions /\ x.project \in Projects /\ x.seconds \in Nat
      /\ Ready(h, "take") /\ UNCHANGED <<charged, flushed, now, crashes, created>>
  BY <1>1 DEF HandlersOK, Take, Ready, Typed, wallet, clock
<1>3. /\ sessions[r] \in Session /\ sessions[r].created \in Nat /\ sessions[r].billed \in Nat
      /\ sessions[r].lastSeen \in Nat /\ now \in Nat /\ ClockSlack \in Nat /\ PrepaidSeconds \in Nat
  BY <1>1, <1>2, LiveAssumption DEF Typed, Registry, Session
<1> DEFINE top == IF x.seconds > now - sessions[r].created + ClockSlack
                  THEN now - sessions[r].created + ClockSlack ELSE x.seconds
<1>4. /\ top \in Int /\ top <= now - sessions[r].created + ClockSlack
      /\ delta = Positive(top - sessions[r].billed) /\ delta \in Nat
  BY <1>2, <1>3 DEF Delta, Positive
<1> HIDE DEF top, delta
<1>5. o \in SUBSET Owes /\ IsFiniteSet(o) /\ \A s : Due(o, s) = IF r = s THEN delta ELSE 0
  BY <1>2, <1>4, DueDebt
<1> HIDE DEF o
<1>6. CASE Becomes(h, Idle) /\ UNCHANGED <<sessions, file>>
  <2>1. HandlerType(Idle) /\ Idle.owes = {} /\ Idle.pc = "idle"
    BY IdleOwing, FS_EmptySet
  <2> QED
    BY <1>2, <1>6, <2>1, GoesOnOK DEF Take
<1>7. CASE /\ sessions[r].project = x.project
           /\ Becomes(h, [Idle EXCEPT !.owes = o])
  <2> DEFINE one == [sessions[r] EXCEPT !.billed = sessions[r].billed + delta]
             entry == [one EXCEPT !.lastSeen = now]
             seen == [sessions EXCEPT ![r] = entry]
             gone == [sessions EXCEPT ![r] = Absent]
  <2>1. one \in Session /\ one.project = sessions[r].project /\ one.created = sessions[r].created /\ one.billed = sessions[r].billed + delta
    BY <1>3, <1>4 DEF Session
  <2>2. \/ sessions' = seen /\ (file' = seen \/ (file' = file /\ delta = 0))
        \/ sessions' = gone /\ file' = gone
    <3>1. [sessions EXCEPT ![r].billed = sessions[r].billed + delta, ![r].lastSeen = now] = seen
      BY <1>1, <1>2 DEF Typed, Registry
    <3>2. ~(delta > 0) => delta = 0
      BY <1>4
    <3>3. IF delta > 0 \/ x.final
          THEN SaveLocked(IF x.final THEN gone ELSE [sessions EXCEPT ![r].billed = @ + delta, ![r].lastSeen = now])
          ELSE sessions' = [sessions EXCEPT ![r].billed = @ + delta, ![r].lastSeen = now] /\ UNCHANGED file
      BY <1>2, <1>7 DEF Take, delta
    <3>4. [sessions EXCEPT ![r].billed = @ + delta, ![r].lastSeen = now] = seen
      BY <3>1, <1>1, <1>2 DEF Typed, Registry
    <3> HIDE DEF seen, gone
    <3> QED
      BY <3>2, <3>3, <3>4 DEF SaveLocked
  <2> HIDE DEF one
  <2>3. /\ entry \in Session /\ entry.project = sessions[r].project
        /\ entry.created = sessions[r].created /\ entry.billed = sessions[r].billed + delta
    BY <1>3, <2>1 DEF Session
  <2> HIDE DEF entry
  <2>4. /\ seen \in Registry /\ seen[r] = entry /\ \A s \in Sessions \ {r} : seen[s] = sessions[s]
        /\ gone \in Registry /\ gone[r] = Absent /\ \A s \in Sessions \ {r} : gone[s] = sessions[s]
    <3>1. Absent \in Session
      BY DEF Absent, Session
    <3> QED
      BY <1>1, <1>2, <2>3, <3>1 DEF Typed, Registry
  <2> HIDE DEF seen, gone
  <2>5. /\ HandlerType([Idle EXCEPT !.owes = o]) /\ [Idle EXCEPT !.owes = o].owes = o
        /\ [Idle EXCEPT !.owes = o].pc = "idle"
    BY <1>5, IdleOwing
  <2>6. \A g \in Handlers : handler[g].pc = "put" => created'[handler[g].id] = -1
    BY <1>1, <1>2, PutsAreFresh
  <2>7. Typed' /\ HandlersOK'
    <3>1. sessions' \in Registry /\ file' \in Registry
      BY <1>1, <2>2, <2>4 DEF Typed
    <3> QED
      BY <1>1, <1>2, <1>7, <2>5, <2>6, <3>1, HandlerEnds DEF Typed
  <2>8. \A s \in Sessions : Cost(s)' = Cost(s) + Due(o, s)
    <3> DEFINE q == [Idle EXCEPT !.owes = o]
    <3>1. Becomes(h, q) /\ q.owes = o
      BY <1>7, <2>5
    <3> HIDE DEF q, x
    <3> TAKE s \in Sessions
    <3> QED
      BY <1>1, <1>2, <1>5, <3>1, CostMoves
  <2>9. ASSUME NEW s \in Sessions PROVE SessionOK(s)'
    <3>1. flushed'[s] <= charged'[s] /\ now' >= now /\ created' = created /\ crashes' = crashes
      BY <1>1, <1>2 DEF SessionOK, Typed
    <3>2. CASE s # r
      <4>1. Cost(s)' = Cost(s)
        BY <1>1, <1>5, <2>8, <3>2, CostType
      <4>2. sessions'[s] = sessions[s] /\ file'[s] \in {sessions[s], file[s]}
        BY <2>2, <2>4, <3>2
      <4>3. SameSession(file'[s], sessions'[s])
        BY <1>1, <4>2 DEF SessionOK, SameSession
      <4> QED
        BY <1>1, <2>7, <3>1, <4>1, <4>2, <4>3, StaysOK DEF SameSession
    <3>3. CASE s = r
      <4>1. Cost(s)' = Cost(s) + delta
        BY <1>5, <2>8, <3>3
      <4>2. Registered(sessions, s)
        BY <1>2, <1>7, <3>3, LiveAssumption DEF Registered
      <4>3. created[s] = sessions[s].created /\ sessions[s].billed <= Allowance(s)
        BY <1>1, <4>2 DEF SessionOK
      <4>4. sessions[s].billed + delta <= Allowance(s)
        <5>1. CASE delta = 0
          BY <1>3, <3>3, <4>3, <5>1
        <5>2. CASE delta # 0
          <6>1. sessions[s].billed + delta = top
            BY <1>3, <1>4, <3>3, <5>2 DEF Positive
          <6>2. top <= Allowance(s)
            BY <1>3, <1>4, <3>3, <4>3 DEF Allowance
          <6> QED
            BY <6>1, <6>2
        <5> QED
          BY <5>1, <5>2
      <4>5. SameSession(file'[s], sessions'[s])
        <5>1. CASE file' = file /\ delta = 0 /\ sessions' = seen
          BY <1>1, <1>3, <2>3, <2>4, <3>3, <5>1 DEF SessionOK, SameSession
        <5>2. CASE file' = sessions'
          BY <5>2 DEF SameSession
        <5> QED
          BY <2>2, <5>1, <5>2
      <4>6. Registered(sessions', s) =>
              /\ sessions'[s].project = sessions[s].project
              /\ sessions'[s].created = sessions[s].created
              /\ sessions'[s].billed = sessions[s].billed + delta
        <5>1. CASE sessions' = seen
          BY <2>3, <2>4, <3>3, <5>1
        <5>2. CASE sessions' = gone
          BY <2>4, <3>3, <5>2 DEF Registered, Absent
        <5> QED
          BY <2>2, <5>1, <5>2
      <4> QED
        BY <1>1, <1>4, <2>7, <3>1, <4>1, <4>2, <4>4, <4>5, <4>6, Advances
    <3> QED
      BY <3>2, <3>3
  <2> QED
    BY <2>7, <2>9 DEF LiveInv
<1> QED
  BY <1>6, <1>7 DEF Take, o, delta

\* A debt is charged: the session costs what it did.
LEMMA BillOK == ASSUME LiveInv, NEW h \in Handlers, Bill(h) PROVE LiveInv'
<1>1. Typed /\ HandlersOK /\ \A s \in Sessions : SessionOK(s)
  BY DEF LiveInv
<1>2. PICK b \in handler[h].owes :
         /\ charged' = [charged EXCEPT ![b.id] = charged[b.id] + b.seconds]
         /\ Becomes(h, [handler[h] EXCEPT !.owes = handler[h].owes \ {b}])
  BY <1>1 DEF Bill, Typed
<1> DEFINE o == handler[h].owes
           q == [handler[h] EXCEPT !.owes = o \ {b}]
<1>3. o \in SUBSET Owes /\ IsFiniteSet(o) /\ b \in o /\ b \in Owes /\ b.id \in Sessions /\ b.seconds \in Nat
  BY <1>1, OwesTyped DEF Owes
<1>4. o \ {b} \in SUBSET Owes /\ IsFiniteSet(o \ {b})
  BY <1>3, FS_RemoveElement
<1>5. HandlerType(q) /\ q.owes = o \ {b} /\ q.pc = handler[h].pc /\ q.project = handler[h].project /\ q.id = handler[h].id
  <2>1. HandlerType(handler[h])
    BY <1>1 DEF Typed, HandlerType
  <2> HIDE DEF o
  <2> QED
    BY <1>4, <2>1 DEF HandlerType
<1>6. Becomes(h, q)
  BY <1>2
<1> HIDE DEF q
<1>7. UNCHANGED <<sessions, file, flushed, now, crashes, created>>
  BY DEF Bill, clock
<1>8. Typed' /\ HandlersOK'
  <2>1. charged' \in [Sessions -> Nat]
    BY <1>1, <1>2, <1>3 DEF Typed
  <2>2. \A g \in Handlers : handler[g].pc = "put" => created'[handler[g].id] = -1
    BY <1>1, <1>7, PutsAreFresh
  <2>3. /\ q.pc \in {"count", "vendor", "put", "take"} => q.project \in Projects
        /\ q.pc \in {"put", "take"} => q.id \in Sessions
        /\ q.pc = "put" => /\ created'[q.id] = -1
                           /\ \A g \in Handlers \ {h} : handler[g].pc = "put" => handler[g].id # q.id
    BY <1>1, <1>5, <1>7 DEF HandlersOK
  <2>4. /\ HandlersOK'
        /\ handler' \in [Handlers ->
              [pc : Pcs, project : Projects \cup {NoProject}, id : Sessions \cup {NoSession},
               seconds : Nat, final : BOOLEAN, owes : SUBSET Owes]]
        /\ \A g \in Handlers : IsFiniteSet(handler'[g].owes)
    BY <1>1, <1>5, <1>6, <2>2, <2>3, HandlerMoves
  <2> QED
    BY <1>1, <1>7, <2>1, <2>4 DEF Typed
<1>9. ASSUME NEW s \in Sessions PROVE SessionOK(s)'
  <2> DEFINE n == IF b.id = s THEN b.seconds ELSE 0
  <2>1. n \in Nat /\ charged[s] \in Nat /\ charged'[s] = charged[s] + n
    BY <1>1, <1>2, <1>3 DEF Typed
  <2>2. InFlight(s)' = InFlight(s) - Due(o, s) + Due(o \ {b}, s)
    BY <1>1, <1>4, <1>5, <1>6, InFlightMoves
  <2>3. Due(o, s) = Due(o \ {b}, s) + n
    BY <1>3, DueLess
  <2>4. Due(o \ {b}, s) \in Nat /\ InFlight(s) \in Nat
    BY <1>1, <1>4, DueType, CostType
  <2> HIDE DEF n, o
  <2>5. Cost(s)' = Cost(s)
    BY <2>1, <2>2, <2>3, <2>4 DEF Cost
  <2>6. flushed'[s] <= charged'[s]
    BY <1>1, <1>7, <2>1 DEF SessionOK, Typed
  <2>7. now' >= now /\ SameSession(file'[s], sessions'[s])
    BY <1>1, <1>7 DEF SessionOK, Typed
  <2> QED
    BY <1>1, <1>7, <1>8, <2>5, <2>6, <2>7, StaysOK DEF SameSession
<1> QED
  BY <1>8, <1>9 DEF LiveInv

-----------------------------------------------------------------------------
LEMMA FlushTickOK == LiveInv /\ (Flush \/ Tick) => LiveInv'
<1> SUFFICES ASSUME LiveInv, Flush \/ Tick PROVE LiveInv'
  OBVIOUS
<1>1. Typed /\ HandlersOK /\ \A s \in Sessions : SessionOK(s)
  BY DEF LiveInv
<1>2. /\ UNCHANGED <<sessions, file, charged, handler, created, crashes>>
      /\ now' \in Nat /\ now' >= now /\ (flushed' = charged \/ flushed' = flushed)
  BY <1>1 DEF Flush, Tick, wallet, clock, Typed
<1>3. Typed' /\ HandlersOK'
  BY <1>1, <1>2 DEF Typed, HandlersOK
<1>4. ASSUME NEW s \in Sessions PROVE SessionOK(s)'
  <2>1. Cost(s)' = Cost(s)
    BY <1>2, InFlightStays DEF Cost
  <2>2. flushed'[s] <= charged'[s] /\ SameSession(file'[s], sessions'[s])
    BY <1>1, <1>2 DEF SessionOK, Typed
  <2> QED
    BY <1>1, <1>2, <1>3, <2>1, <2>2, StaysOK DEF SameSession
<1> QED
  BY <1>3, <1>4 DEF LiveInv

\* A restart finds the marks that were written, and no more charges than there were.
LEMMA LiveRestartOK == LiveInv /\ SavesMayFail = FALSE /\ LiveRestart => LiveInv'
<1> SUFFICES ASSUME LiveInv, SavesMayFail = FALSE, LiveRestart PROVE LiveInv'
  OBVIOUS
<1>1. Typed /\ HandlersOK /\ \A s \in Sessions : SessionOK(s)
  BY DEF LiveInv
<1>2. /\ sessions' = Prune(file) /\ file' = Prune(file) /\ charged' = flushed
      /\ handler' = [h \in Handlers |-> Idle] /\ crashes' = crashes + 1
      /\ UNCHANGED <<flushed, now, created>>
  BY DEF LiveRestart, SaveLocked
<1>3. HandlerType(Idle) /\ Idle.owes = {} /\ Idle.pc = "idle"
  BY IdleOwing, FS_EmptySet
<1>4. Absent \in Session /\ Absent.project = NoProject
  BY DEF Absent, Session
<1>5. /\ Prune(file) \in Registry
      /\ \A s \in Sessions : Prune(file)[s] = file[s] \/ Prune(file)[s] = Absent
  BY <1>1, <1>4 DEF Prune, Typed, Registry
<1>6. Typed'
  <2>1. sessions' \in Registry /\ file' \in Registry
    BY <1>2, <1>5
  <2>2. handler' \in [Handlers ->
              [pc : Pcs, project : Projects \cup {NoProject}, id : Sessions \cup {NoSession},
               seconds : Nat, final : BOOLEAN, owes : SUBSET Owes]]
    BY <1>2, <1>3 DEF HandlerType
  <2>3. \A h \in Handlers : IsFiniteSet(handler'[h].owes)
    BY <1>2, <1>3, FS_EmptySet
  <2> QED
    BY <1>1, <1>2, <2>1, <2>2, <2>3 DEF Typed
<1>7. HandlersOK'
  BY <1>2, <1>3 DEF HandlersOK
<1>8. ASSUME NEW s \in Sessions PROVE SessionOK(s)'
  <2>1. InFlight(s)' = 0
    <3>1. \A h \in Handlers : DueBy(s)'[h] = 0
      BY <1>2, <1>3, DueNothing DEF DueBy
    <3> QED
      BY <3>1, InFlightIsSumNext, SumZero, LiveAssumption
  <2>2. flushed[s] \in Nat /\ charged[s] \in Nat /\ InFlight(s) \in Nat /\ flushed[s] <= charged[s]
    BY <1>1, CostType DEF Typed, SessionOK
  <2>3. Cost(s)' = flushed[s] /\ Cost(s)' <= Cost(s) /\ Cost(s)' \in Nat /\ Cost(s) \in Nat
    BY <1>2, <2>1, <2>2 DEF Cost
  <2>4. Allowance(s)' = Allowance(s) /\ Allowance(s) \in Int
    BY <1>1, <1>2, AllowanceIsMax DEF Allowance
  <2>5. created'[s] = created[s] /\ SameSession(file'[s], sessions'[s]) /\ flushed'[s] <= charged'[s]
    BY <1>2, <2>2 DEF SameSession
  <2>6. Registered(sessions', s) => Registered(sessions, s) /\ SameSession(sessions'[s], sessions[s])
    BY <1>1, <1>2, <1>4, <1>5 DEF Registered, SameSession, SessionOK
  <2>7. crashes' # 0
    BY <1>1, <1>2 DEF Typed
  <2>8. Registered(sessions', s) =>
          /\ created'[s] = sessions'[s].created
          /\ Cost(s)' <= sessions'[s].billed /\ sessions'[s].billed <= Allowance(s)'
          /\ crashes' = 0 => Cost(s)' = sessions'[s].billed
    <3>1. sessions[s].billed \in Nat
      BY <1>1 DEF Typed, Registry, Session
    <3> QED
      BY <1>1, <2>3, <2>4, <2>5, <2>6, <2>7, <3>1 DEF SessionOK, SameSession
  <2>9. created'[s] = -1 => Cost(s)' = 0 /\ ~Registered(sessions', s)
    <3>1. created[s] = -1 => Cost(s) = 0 /\ ~Registered(sessions, s)
      BY <1>1 DEF SessionOK
    <3>2. Cost(s) = 0 => Cost(s)' = 0
      BY <2>3
    <3> QED
      BY <2>5, <2>6, <3>1, <3>2
  <2>10. created'[s] >= 0 => Cost(s)' <= Allowance(s)'
    BY <1>1, <2>3, <2>4, <2>5 DEF SessionOK
  <2> QED
    BY <2>5, <2>8, <2>9, <2>10 DEF SessionOK, Registered
<1> QED
  BY <1>6, <1>7, <1>8 DEF LiveInv

LEMMA LiveStep == SavesMayFail = FALSE => (LiveInv /\ [Next]_liveVars => LiveInv')
<1> SUFFICES ASSUME SavesMayFail = FALSE, LiveInv, [Next]_liveVars PROVE LiveInv'
  OBVIOUS
<1>1. CASE UNCHANGED liveVars
  <2>1. Typed' /\ HandlersOK'
    BY <1>1 DEF LiveInv, liveVars, Typed, HandlersOK
  <2>2. ASSUME NEW s \in Sessions PROVE SessionOK(s)'
    <3>1. Cost(s)' = Cost(s)
      BY <1>1, InFlightStays DEF liveVars, Cost
    <3>2. now' >= now /\ flushed'[s] <= charged'[s] /\ SameSession(file'[s], sessions'[s])
      BY <1>1 DEF LiveInv, liveVars, Typed, SessionOK
    <3> QED
      BY <1>1, <2>1, <3>1, <3>2, StaysOK DEF LiveInv, liveVars, SameSession
  <2> QED
    BY <2>1, <2>2 DEF LiveInv
<1>2. ASSUME NEW h \in Handlers, ServeLive(h) PROVE LiveInv'
  BY <1>2, StartCreateOK, StartReportOK, CountOpenOK, VendorOK, RegisterOK, TakeOK, BillOK DEF ServeLive
<1> QED
  BY <1>1, <1>2, FlushTickOK, LiveRestartOK DEF Next

LEMMA LiveStart == Init => LiveInv
<1> SUFFICES ASSUME Init PROVE LiveInv
  OBVIOUS
<1>1. Absent \in Session /\ Absent.project = NoProject
  BY DEF Absent, Session
<1>2. HandlerType(Idle) /\ Idle.owes = {} /\ Idle.pc = "idle"
  BY IdleOwing, FS_EmptySet
<1>3. Typed /\ HandlersOK
  BY <1>1, <1>2, FS_EmptySet DEF Init, Typed, HandlersOK, HandlerType, Empty, Registry
<1>4. ASSUME NEW s \in Sessions PROVE SessionOK(s)
  <2>1. \A h \in Handlers : DueBy(s)[h] = 0
    BY <1>2, DueNothing DEF DueBy, Init
  <2>2. Cost(s) = 0
    BY <2>1, InFlightIsSum, SumZero, LiveAssumption DEF Cost, Init
  <2> QED
    BY <1>1, <2>2 DEF Init, SessionOK, SameSession, Empty, Registered
<1> QED
  BY <1>3, <1>4 DEF LiveInv

\* While the registry's writes land, a second on its mark is charged once: never
\* more than the mark, and exactly the mark until a process dies (take, reapLive,
\* billLive).
THEOREM EverySecondIsBilledOnce == SavesMayFail = FALSE => (Spec => []BilledOnce)
<1> SUFFICES ASSUME SavesMayFail = FALSE PROVE Spec => []BilledOnce
  OBVIOUS
<1>1. LiveInv => BilledOnce
  BY DEF LiveInv, SessionOK, BilledOnce, Cost
<1> QED
  BY <1>1, LiveStart, LiveStep, PTL DEF Spec

\* While they land, no session costs more than the time since it was created and
\* the slack, or its first minute ("billing a customer for a call longer than the
\* time that has passed is not on", live.go).
THEOREM NobodyPaysAheadOfTheClock == SavesMayFail = FALSE => (Spec => []WithinTheClock)
<1> SUFFICES ASSUME SavesMayFail = FALSE PROVE Spec => []WithinTheClock
  OBVIOUS
<1>1. LiveInv => WithinTheClock
  BY AllowanceIsMax DEF LiveInv, SessionOK, WithinTheClock, Cost
<1> QED
  BY <1>1, LiveStart, LiveStep, PTL DEF Spec
=============================================================================
