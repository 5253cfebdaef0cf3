----------------------------- MODULE ChainLemmas -----------------------------
(***************************************************************************)
(* What the operators of Chains make of a chain, for any chain, key ring   *)
(* and approvals: the rungs a call may ask are the ones its caller's keys  *)
(* and mode allow, each of them, none twice.                               *)
(***************************************************************************)
EXTENDS Chains, DataLemmas

\* What counts of a caller's keys: how many, and when to use them.
HasKeys(c) ==
    /\ c.mode \in {"global", "own", "own-first", "global-first", "unset"}
    /\ c.keys \in [Providers -> Nat]

\* The rungs a key ring lets a caller stand on at some places of a chain.
Within(c, P, vendors) ==
    {g \in Rung : /\ g.target \in P /\ g.prov \in Range(vendors[g.target])
                  /\ Gateway(g) => Mode(c) # "own"
                  /\ ~Gateway(g) => Mode(c) # "global"}

LEMMA OneOf ==
    ASSUME NEW S, NEW e \in S
    PROVE  <<e>> \in Seq(S) /\ Range(<<e>>) = {e}
BY DEF Range

LEMMA NoneOf ==
    ASSUME NEW S
    PROVE  <<>> \in Seq(S) /\ Range(<<>>) = {}
BY DEF Range

LEMMA Both ==
    ASSUME NEW S, NEW s \in Seq(S), NEW t \in Seq(S)
    PROVE  s \o t \in Seq(S) /\ Range(s \o t) = Range(s) \cup Range(t)
BY RangeConcatenation, ConcatProperties

LEMMA Modes ==
    ASSUME NEW c, HasKeys(c)
    PROVE  Mode(c) \in {"global", "own", "own-first", "global-first"}
BY DEF HasKeys, Mode

\* One provider at one place.
LEMMA RungsAreWithin ==
    ASSUME NEW c, HasKeys(c), NEW P \in SUBSET Nat, NEW vendors,
           NEW t \in P, NEW p \in Providers, p \in Range(vendors[t])
    PROVE  /\ RungsOf(c, t, p) \in Seq(Within(c, P, vendors))
           /\ \A g \in Within(c, P, vendors) :
                 g.target = t /\ g.prov = p /\ g.key <= c.keys[p] => g \in Range(RungsOf(c, t, p))
<1> DEFINE W == Within(c, P, vendors)
           At(n) == [target |-> t, prov |-> p, key |-> n]
           n == IF c.keys[p] = 0 THEN 1 ELSE c.keys[p]
           own == OwnRungs(c, t, p)
           global == <<At(0)>>
           sent == IF c.keys[p] = 0 THEN <<>> ELSE own
<1>1. c.keys[p] \in Nat /\ n \in Nat \ {0}
  BY DEF HasKeys
<1>2. \A k \in Nat : At(k) \in Rung /\ At(k).target = t /\ At(k).prov = p /\ At(k).key = k
  BY DEF Rung
<1>3. own = [k \in 1 .. n |-> At(k)]
  BY DEF OwnRungs
<1>4. \A k \in 1 .. n : Mode(c) # "global" => At(k) \in W
  BY <1>1, <1>2 DEF Within, Gateway
<1>5. Mode(c) # "own" => At(0) \in W
  BY <1>2 DEF Within, Gateway
<1>6. Mode(c) # "global" => own \in Seq(W) /\ Range(own) = {At(k) : k \in 1 .. n}
  <2> SUFFICES ASSUME Mode(c) # "global"
               PROVE  own \in Seq(W) /\ Range(own) = {At(k) : k \in 1 .. n}
    OBVIOUS
  <2> HIDE DEF n, W, At
  <2>1. own \in [1 .. n -> W]
    BY <1>3, <1>4
  <2> QED
    BY <1>1, <1>3, <2>1, SeqDef DEF Range
<1>7. Mode(c) # "own" => global \in Seq(W) /\ Range(global) = {At(0)}
  <2> HIDE DEF At, W
  <2> QED
    BY <1>5, OneOf
<1>8. \A g \in W : g.target = t /\ g.prov = p => g = At(g.key) /\ g.key \in Nat
  BY DEF Within, Rung
<1> HIDE DEF W, At
<1>9. Mode(c) # "global" => /\ sent \in Seq(W)
                            /\ \A k \in 1 .. c.keys[p] : At(k) \in Range(sent)
  <2>1. CASE c.keys[p] = 0
    BY <1>1, <2>1, NoneOf
  <2>2. CASE c.keys[p] # 0
    <3>1. n = c.keys[p] /\ sent = own
      BY <2>2
    <3> QED
      BY <1>6, <3>1
  <2> QED
    BY <2>1, <2>2
<1>10. \A g \in W : g.target = t /\ g.prov = p /\ g.key <= c.keys[p] =>
          g = At(g.key) /\ (g.key = 0 \/ g.key \in 1 .. c.keys[p])
  BY <1>1, <1>8
<1>11. \A g \in W : (g.key = 0 => Mode(c) # "own") /\ (g.key # 0 => Mode(c) # "global")
  BY DEF W, Within, Gateway
<1>12. RungsOf(c, t, p) = CASE Mode(c) = "own"          -> own
                            [] Mode(c) = "own-first"    -> sent \o global
                            [] Mode(c) = "global-first" -> global \o sent
                            [] Mode(c) = "global"       -> global
  BY DEF RungsOf, At
<1>13. \A k \in 1 .. c.keys[p] : k \in 1 .. n
  BY <1>1
<1> HIDE DEF own, sent, global, n
<1>14. CASE Mode(c) = "own"
  BY <1>6, <1>10, <1>11, <1>12, <1>13, <1>14 DEF W
<1>15. CASE Mode(c) = "own-first"
  <2>1. sent \o global \in Seq(W) /\ Range(sent \o global) = Range(sent) \cup Range(global)
    BY <1>7, <1>9, <1>15, Both
  <2> QED
    BY <1>7, <1>9, <1>10, <1>11, <1>12, <1>15, <2>1 DEF W
<1>16. CASE Mode(c) = "global-first"
  <2>1. global \o sent \in Seq(W) /\ Range(global \o sent) = Range(global) \cup Range(sent)
    BY <1>7, <1>9, <1>16, Both
  <2> QED
    BY <1>7, <1>9, <1>10, <1>11, <1>12, <1>16, <2>1 DEF W
<1>17. CASE Mode(c) = "global"
  BY <1>7, <1>10, <1>11, <1>12, <1>17 DEF W
<1> QED
  BY <1>14, <1>15, <1>16, <1>17, Modes

LEMMA Listed ==
    ASSUME NEW S, NEW n \in Nat, NEW s, s = [i \in 1 .. n |-> s[i]], \A i \in 1 .. n : s[i] \in S
    PROVE  s \in Seq(S) /\ DOMAIN s = 1 .. n /\ Len(s) = n
<1>1. s \in [1 .. n -> S]
  OBVIOUS
<1>2. s \in Seq(S)
  BY <1>1, SeqDef
<1> QED
  BY <1>1, <1>2, LenProperties

LEMMA AttemptsAreWithin ==
    ASSUME NEW c, HasKeys(c), NEW P \in SUBSET Nat, NEW places \in Seq(P), NEW vendors,
           \A t \in P : vendors[t] \in Seq(Providers)
    PROVE  /\ Attempts(c, places, vendors) \in Seq(Within(c, P, vendors))
           /\ \A g \in Within(c, P, vendors) :
                 g.target \in Range(places) /\ g.key <= c.keys[g.prov] =>
                     g \in Range(Attempts(c, places, vendors))
<1> DEFINE W == Within(c, P, vendors)
           ofVendors(t) == [j \in 1 .. Len(vendors[t]) |-> RungsOf(c, t, vendors[t][j])]
           ofPlace(t) == FlattenSeq(ofVendors(t))
           ofPlaces == [i \in 1 .. Len(places) |-> ofPlace(places[i])]
<1>1. Attempts(c, places, vendors) = FlattenSeq(ofPlaces)
  BY DEF Attempts
<1>2. ASSUME NEW t \in P
      PROVE  /\ ofPlace(t) \in Seq(W)
             /\ \A g \in W : g.target = t /\ g.key <= c.keys[g.prov] => g \in Range(ofPlace(t))
  <2> DEFINE v == vendors[t]
             ss == ofVendors(t)
  <2>1. v \in Seq(Providers) /\ Len(v) \in Nat /\ Range(v) = {v[j] : j \in 1 .. Len(v)}
        /\ \A j \in 1 .. Len(v) : v[j] \in Providers
    BY RangeEquality, LenProperties, ElementOfSeq
  <2>2. \A j \in 1 .. Len(v) :
           /\ RungsOf(c, t, v[j]) \in Seq(W)
           /\ \A g \in W : g.target = t /\ g.prov = v[j] /\ g.key <= c.keys[v[j]] =>
                            g \in Range(RungsOf(c, t, v[j]))
    <3> HIDE DEF W
    <3> TAKE j \in 1 .. Len(v)
    <3>1. v[j] \in Providers /\ v[j] \in Range(v)
      BY <2>1
    <3> QED
      BY <3>1, RungsAreWithin DEF W
  <2>3. ss = [j \in 1 .. Len(v) |-> ss[j]] /\ \A j \in 1 .. Len(v) : ss[j] = RungsOf(c, t, v[j])
    OBVIOUS
  <2> HIDE DEF v, ss, W
  <2>4. ss \in Seq(Seq(W)) /\ DOMAIN ss = 1 .. Len(v)
    BY <2>1, <2>2, <2>3, Listed
  <2>5. FlattenSeq(ss) \in Seq(W) /\ Range(FlattenSeq(ss)) = UNION {Range(ss[i]) : i \in DOMAIN ss}
    BY <2>4, JoinRange
  <2>6. \A g \in W : g.prov \in Range(vendors[g.target])
    BY DEF W, Within
  <2>7. ASSUME NEW g \in W, g.target = t, g.key <= c.keys[g.prov]
        PROVE  g \in Range(FlattenSeq(ss))
    <3>1. g.prov \in Range(v)
      BY <2>6, <2>7 DEF v
    <3>2. PICK j \in 1 .. Len(v) : g.prov = v[j]
      BY <2>1, <3>1
    <3>3. g \in Range(ss[j])
      BY <2>2, <2>3, <2>7, <3>2
    <3> QED
      BY <2>4, <2>5, <3>3
  <2>8. ofPlace(t) = FlattenSeq(ss)
    BY DEF ss
  <2> QED
    BY <2>5, <2>7, <2>8
<1>3. Len(places) \in Nat /\ Range(places) = {places[i] : i \in 1 .. Len(places)}
      /\ \A i \in 1 .. Len(places) : places[i] \in P
  BY RangeEquality, LenProperties, ElementOfSeq
<1> HIDE DEF W, ofPlace
<1>4. ofPlaces = [i \in 1 .. Len(places) |-> ofPlaces[i]]
      /\ \A i \in 1 .. Len(places) : ofPlaces[i] = ofPlace(places[i])
  OBVIOUS
<1> HIDE DEF ofPlaces
<1>5. ofPlaces \in Seq(Seq(W)) /\ DOMAIN ofPlaces = 1 .. Len(places)
  <2>1. \A i \in 1 .. Len(places) : ofPlaces[i] \in Seq(W)
    BY <1>2, <1>3, <1>4
  <2> QED
    BY <1>3, <1>4, <2>1, Listed
<1>6. /\ FlattenSeq(ofPlaces) \in Seq(W)
      /\ Range(FlattenSeq(ofPlaces)) = UNION {Range(ofPlaces[i]) : i \in DOMAIN ofPlaces}
  BY <1>5, JoinRange
<1>7. ASSUME NEW g \in W, g.target \in Range(places), g.key <= c.keys[g.prov]
      PROVE  g \in Range(FlattenSeq(ofPlaces))
  <2>1. PICK i \in 1 .. Len(places) : g.target = places[i]
    BY <1>3, <1>7
  <2>2. g \in Range(ofPlace(places[i]))
    BY <1>2, <1>3, <1>7, <2>1
  <2> QED
    BY <1>4, <1>5, <1>6, <2>2
<1> QED
  BY <1>1, <1>6, <1>7 DEF W

\* The places of a chain, the chosen one first: all of them.
LEMMA OrderedPlaces ==
    ASSUME NEW T, NEW chain \in Seq(T), NEW first \in 0 .. Len(chain)
    PROVE  Ordered(chain, first) \in Seq(DOMAIN chain) /\ Range(Ordered(chain, first)) = DOMAIN chain
<1> DEFINE D == DOMAIN chain
           places == [i \in 1 .. Len(chain) |-> i]
           other == D \ {first}
           rest == Only(places, other)
<1>1. Len(chain) \in Nat /\ D = 1 .. Len(chain)
  BY LenProperties
<1>2. places = [i \in 1 .. Len(chain) |-> places[i]] /\ \A i \in 1 .. Len(chain) : places[i] = i
  OBVIOUS
<1>3. Ordered(chain, first) = IF first = 0 THEN places ELSE <<first>> \o rest
  BY DEF Ordered
<1> HIDE DEF places, D
<1>4. places \in Seq(D)
  BY <1>1, <1>2, Listed
<1>5. Range(places) = D
  <2>1. Range(places) = {places[i] : i \in 1 .. Len(chain)}
    BY <1>2 DEF Range
  <2> QED
    BY <1>1, <1>2, <2>1
<1>6. CASE first = 0
  BY <1>3, <1>4, <1>5, <1>6 DEF D
<1>7. CASE first # 0
  <2>1. first \in D
    BY <1>1, <1>7
  <2> DEFINE some == D \cap other
             head == <<first>>
  <2> HIDE DEF other
  <2>2. rest \in Seq(some) /\ Range(rest) = some
    BY <1>4, <1>5, OnlyRange
  <2>3. some \subseteq D /\ {first} \cup some = D
    BY <2>1 DEF other
  <2>4. head \in Seq(D) /\ Range(head) = {first}
    BY <2>1, OneOf
  <2> HIDE DEF rest, some, head
  <2>5. rest \in Seq(D)
    BY <2>2, <2>3, SeqMonotonic
  <2>6. head \o rest \in Seq(D) /\ Range(head \o rest) = {first} \cup some
    BY <2>2, <2>4, <2>5, Both
  <2>7. Ordered(chain, first) = head \o rest
    BY <1>3, <1>7 DEF head
  <2> QED
    BY <2>3, <2>6, <2>7 DEF D
<1> QED
  BY <1>6, <1>7

-----------------------------------------------------------------------------
\* One provider at one place: no rung twice, and none of another.
LEMMA RungsOnce ==
    ASSUME NEW c, HasKeys(c), NEW t \in Nat, NEW p \in Providers
    PROVE  /\ RungsOf(c, t, p) \in Seq(Rung) /\ IsInjective(RungsOf(c, t, p))
           /\ \A g \in Range(RungsOf(c, t, p)) : g.target = t /\ g.prov = p
<1> DEFINE At(n) == [target |-> t, prov |-> p, key |-> n]
           n == IF c.keys[p] = 0 THEN 1 ELSE c.keys[p]
           own == OwnRungs(c, t, p)
           global == <<At(0)>>
           sent == IF c.keys[p] = 0 THEN <<>> ELSE own
           Good(s) == /\ s \in Seq(Rung) /\ IsInjective(s)
                      /\ \A g \in Range(s) : g.target = t /\ g.prov = p
<1>1. n \in Nat
  BY DEF HasKeys
<1>2. \A k \in Nat : At(k) \in Rung /\ At(k).target = t /\ At(k).prov = p /\ At(k).key = k
  BY DEF Rung
<1>3. own = [k \in 1 .. n |-> own[k]] /\ \A k \in 1 .. n : own[k] = At(k)
  BY DEF OwnRungs
<1>4. RungsOf(c, t, p) = CASE Mode(c) = "own"          -> own
                            [] Mode(c) = "own-first"    -> sent \o global
                            [] Mode(c) = "global-first" -> global \o sent
                            [] Mode(c) = "global"       -> global
  BY DEF RungsOf
<1> HIDE DEF At, n
<1>5. Good(own) /\ \A g \in Range(own) : g.key # 0
  <2> HIDE DEF own
  <2>1. \A k \in 1 .. n : own[k] \in Rung
    BY <1>1, <1>2, <1>3
  <2>2. own \in Seq(Rung) /\ DOMAIN own = 1 .. n
    BY <1>1, <1>3, <2>1, Listed
  <2>3. IsInjective(own)
    <3>1. \A i, j \in 1 .. n : own[i] = own[j] => own[i].key = own[j].key /\ own[i].key = i /\ own[j].key = j
      BY <1>1, <1>2, <1>3
    <3> QED
      BY <2>2, <3>1 DEF IsInjective
  <2>4. \A g \in Range(own) : \E k \in 1 .. n : g = At(k)
    BY <1>3, <2>2 DEF Range
  <2> QED
    BY <1>1, <1>2, <2>2, <2>3, <2>4
<1>6. Good(global) /\ \A g \in Range(global) : g.key = 0
  <2> DEFINE e == At(0)
  <2>1. e \in Rung /\ e.target = t /\ e.prov = p /\ e.key = 0
    BY <1>2
  <2> HIDE DEF e
  <2>2. <<e>> \in Seq(Rung) /\ Range(<<e>>) = {e}
    BY <2>1, OneOf
  <2>3. IsInjective(<<e>>)
    BY DEF IsInjective
  <2> QED
    BY <2>1, <2>2, <2>3 DEF e
<1> HIDE DEF own, global
<1>7. Good(sent) /\ \A g \in Range(sent) : g.key # 0
  <2>1. Good(<<>>) /\ Range(<<>>) = {}
    BY NoneOf DEF IsInjective
  <2> HIDE DEF Good
  <2> QED
    BY <1>5, <2>1
<1> HIDE DEF sent
<1>8. ASSUME NEW a, NEW b, Good(a), Good(b), Range(a) \cap Range(b) = {}
      PROVE  Good(a \o b)
  <2>1. a \o b \in Seq(Rung) /\ Range(a \o b) = Range(a) \cup Range(b)
    BY <1>8, Both
  <2>2. IsInjective(a \o b)
    BY <1>8, ConcatOnce
  <2> QED
    BY <1>8, <2>1, <2>2
<1> HIDE DEF Good
<1>9. Good(sent \o global) /\ Good(global \o sent)
  BY <1>6, <1>7, <1>8
<1>10. Good(RungsOf(c, t, p))
  BY <1>4, <1>5, <1>6, <1>9, Modes
<1> QED
  BY <1>10 DEF Good

\* A chain that names a provider once at each place asks no rung twice.
LEMMA AttemptsOnce ==
    ASSUME NEW c, HasKeys(c), NEW P \in SUBSET Nat, NEW places \in Seq(P), IsInjective(places),
           NEW vendors, \A t \in P : vendors[t] \in Seq(Providers) /\ IsInjective(vendors[t])
    PROVE  IsInjective(Attempts(c, places, vendors))
<1> DEFINE ofVendors(t) == [j \in 1 .. Len(vendors[t]) |-> RungsOf(c, t, vendors[t][j])]
           ofPlace(t) == FlattenSeq(ofVendors(t))
           ofPlaces == [i \in 1 .. Len(places) |-> ofPlace(places[i])]
<1>1. Attempts(c, places, vendors) = FlattenSeq(ofPlaces)
  BY DEF Attempts
<1>2. ASSUME NEW t \in P
      PROVE  /\ ofPlace(t) \in Seq(Rung) /\ IsInjective(ofPlace(t))
             /\ \A g \in Range(ofPlace(t)) : g.target = t
  <2> DEFINE v == vendors[t]
             ss == ofVendors(t)
  <2>1. v \in Seq(Providers) /\ IsInjective(v) /\ Len(v) \in Nat /\ DOMAIN v = 1 .. Len(v)
        /\ \A j \in 1 .. Len(v) : v[j] \in Providers
    BY LenProperties, ElementOfSeq
  <2>2. ss = [j \in 1 .. Len(v) |-> ss[j]] /\ \A j \in 1 .. Len(v) : ss[j] = RungsOf(c, t, v[j])
    OBVIOUS
  <2>3. \A j \in 1 .. Len(v) : /\ ss[j] \in Seq(Rung) /\ IsInjective(ss[j])
                               /\ \A g \in Range(ss[j]) : g.target = t /\ g.prov = v[j]
    <3> TAKE j \in 1 .. Len(v)
    <3>1. v[j] \in Providers /\ t \in Nat /\ ss[j] = RungsOf(c, t, v[j])
      BY <2>1, <2>2
    <3> HIDE DEF v, ss
    <3> QED
      BY <3>1, RungsOnce
  <2> HIDE DEF v, ss
  <2>4. ss \in Seq(Seq(Rung)) /\ DOMAIN ss = 1 .. Len(v)
    BY <2>1, <2>2, <2>3, Listed
  <2>5. FlattenSeq(ss) \in Seq(Rung) /\ Range(FlattenSeq(ss)) = UNION {Range(ss[i]) : i \in DOMAIN ss}
    BY <2>4, JoinRange
  <2>6. \A i, j \in DOMAIN ss : i # j => Range(ss[i]) \cap Range(ss[j]) = {}
    <3> SUFFICES ASSUME NEW i \in 1 .. Len(v), NEW j \in 1 .. Len(v), i # j,
                        NEW g, g \in Range(ss[i]), g \in Range(ss[j])
                 PROVE  FALSE
      BY <2>4
    <3>1. g.prov = v[i] /\ g.prov = v[j]
      BY <2>3
    <3> QED
      BY <2>1, <3>1 DEF IsInjective
  <2>7. IsInjective(FlattenSeq(ss))
    BY <2>3, <2>4, <2>6, JoinOnce
  <2>8. \A g \in Range(FlattenSeq(ss)) : g.target = t
    BY <2>3, <2>4, <2>5
  <2>9. ofPlace(t) = FlattenSeq(ss)
    BY DEF ss
  <2> QED
    BY <2>5, <2>7, <2>8, <2>9
<1>3. Len(places) \in Nat /\ DOMAIN places = 1 .. Len(places) /\ \A i \in 1 .. Len(places) : places[i] \in P
  BY LenProperties, ElementOfSeq
<1> HIDE DEF ofPlace
<1>4. ofPlaces = [i \in 1 .. Len(places) |-> ofPlaces[i]]
      /\ \A i \in 1 .. Len(places) : ofPlaces[i] = ofPlace(places[i])
  OBVIOUS
<1> HIDE DEF ofPlaces
<1>5. ofPlaces \in Seq(Seq(Rung)) /\ DOMAIN ofPlaces = 1 .. Len(places)
  <2>1. \A i \in 1 .. Len(places) : ofPlaces[i] \in Seq(Rung)
    BY <1>2, <1>3, <1>4
  <2> QED
    BY <1>3, <1>4, <2>1, Listed
<1>6. \A i, j \in DOMAIN ofPlaces : i # j => Range(ofPlaces[i]) \cap Range(ofPlaces[j]) = {}
  <2> SUFFICES ASSUME NEW i \in 1 .. Len(places), NEW j \in 1 .. Len(places), i # j,
                      NEW g, g \in Range(ofPlaces[i]), g \in Range(ofPlaces[j])
               PROVE  FALSE
    BY <1>5
  <2>1. g.target = places[i] /\ g.target = places[j]
    BY <1>2, <1>3, <1>4
  <2> QED
    BY <1>3, <2>1 DEF IsInjective
<1>7. \A i \in DOMAIN ofPlaces : IsInjective(ofPlaces[i])
  BY <1>2, <1>3, <1>4, <1>5
<1> QED
  BY <1>1, <1>5, <1>6, <1>7, JoinOnce

\* Whichever place is put first, every place stands once in the order.
LEMMA OrderedOnce ==
    ASSUME NEW T, NEW chain \in Seq(T), NEW first \in 0 .. Len(chain)
    PROVE  IsInjective(Ordered(chain, first))
<1> DEFINE D == DOMAIN chain
           places == [i \in 1 .. Len(chain) |-> i]
           other == D \ {first}
           rest == Only(places, other)
<1>1. Len(chain) \in Nat /\ D = 1 .. Len(chain)
  BY LenProperties
<1>2. places = [i \in 1 .. Len(chain) |-> places[i]] /\ \A i \in 1 .. Len(chain) : places[i] = i
  OBVIOUS
<1>3. Ordered(chain, first) = IF first = 0 THEN places ELSE <<first>> \o rest
  BY DEF Ordered
<1> HIDE DEF places, D
<1>4. places \in Seq(D) /\ DOMAIN places = 1 .. Len(chain)
  BY <1>1, <1>2, Listed
<1>5. IsInjective(places)
  BY <1>2, <1>4 DEF IsInjective
<1>6. CASE first # 0
  <2> DEFINE some == D \cap other
             head == <<first>>
  <2>1. first \in D /\ some \subseteq D /\ first \notin some
    BY <1>1, <1>6
  <2> HIDE DEF other, some
  <2>2. rest \in Seq(some) /\ Range(rest) \subseteq some /\ IsInjective(rest)
    <3>1. rest \in Seq(D \cap other) /\ Range(rest) = Range(places) \cap other
      BY <1>4, OnlyRange
    <3>2. IsInjective(rest)
      BY <1>4, <1>5, OnlyOnce
    <3>3. Range(rest) \subseteq some
      BY <1>4, <3>1, RangeEquality DEF some
    <3> HIDE DEF rest
    <3> QED
      BY <3>1, <3>2, <3>3 DEF some
  <2>3. head \in Seq(D) /\ Range(head) = {first}
    BY <2>1, OneOf
  <2>4. IsInjective(head)
    BY DEF IsInjective
  <2> HIDE DEF rest, head
  <2>5. rest \in Seq(D)
    BY <2>1, <2>2, SeqMonotonic
  <2>6. IsInjective(head \o rest)
    BY <2>1, <2>2, <2>3, <2>4, <2>5, ConcatOnce
  <2> QED
    BY <1>3, <1>6, <2>6 DEF head
<1> QED
  BY <1>3, <1>5, <1>6

=============================================================================
