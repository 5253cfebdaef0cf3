----------------------------- MODULE DataLemmas -----------------------------
(***************************************************************************)
(* Induction over data for the operators the models are built from.  The   *)
(* library's induction theorems take the predicate as an operator; here it *)
(* is the set of what satisfies it.  From that: what FlattenSeq and the    *)
(* sums of a function compute, for any sequence and any finite set.        *)
(***************************************************************************)
EXTENDS Naturals, FiniteSets, SequencesExt, Lists, TLAPS,
        WellFoundedInduction, SequenceTheorems, FiniteSetTheorems

\* Induction on the natural numbers.
LEMMA NatSetInduction ==
    ASSUME NEW T, 0 \in T, \A n \in Nat : n \in T => n + 1 \in T
    PROVE  Nat \subseteq T
<1> DEFINE U == Nat \ T
           R == OpToRel(<, Nat)
<1>1. SUFFICES ASSUME U # {} PROVE FALSE
  OBVIOUS
<1>2. IsWellFoundedOn(R, Nat)
  BY NatLessThanWellFounded
<1>3. U \subseteq Nat
  OBVIOUS
<1>4. \E x \in U : \A y \in U : ~ (<<y, x>> \in R)
  <2> HIDE DEF U, R
  <2> QED
    BY <1>1, <1>2, <1>3, WFMin
<1>5. PICK x \in U : \A y \in U : ~ (<<y, x>> \in R)
  BY <1>4
<1>6. x # 0 /\ x \in Nat /\ x - 1 \in Nat /\ x = (x - 1) + 1 /\ x - 1 < x
  OBVIOUS
<1>7. <<x - 1, x>> \in R
  BY <1>6 DEF OpToRel
<1>8. x - 1 \notin U
  BY <1>5, <1>7
<1> QED
  BY <1>6, <1>8

LEMMA LeastNat ==
    ASSUME NEW S, S \subseteq Nat, S # {}
    PROVE  \E x \in S : \A y \in S : x <= y
<1> DEFINE R == OpToRel(<, Nat)
<1>1. IsWellFoundedOn(R, Nat)
  BY NatLessThanWellFounded
<1>2. \E x \in S : \A y \in S : ~ (<<y, x>> \in R)
  <2> HIDE DEF R
  <2> QED
    BY <1>1, WFMin
<1>3. PICK x \in S : \A y \in S : ~ (<<y, x>> \in R)
  BY <1>2
<1>4. \A y \in S : ~ (y < x)
  BY <1>3 DEF OpToRel
<1> QED
  BY <1>4

-----------------------------------------------------------------------------
\* FlattenSeq.
Joins(ss, f) ==
    f = [i \in 1 .. Len(ss) |-> IF i = 1 THEN ss[i] ELSE f[i - 1] \o ss[i]]

JoinsTo(ss, n, f) ==
    f = [i \in 1 .. n |-> IF i = 1 THEN ss[i] ELSE f[i - 1] \o ss[i]]

LEMMA JoinsExists ==
    ASSUME NEW ss, Len(ss) \in Nat
    PROVE  \E f : Joins(ss, f)
<1> DEFINE T == {n \in Nat : \E f : JoinsTo(ss, n, f)}
<1>1. 0 \in T
  <2>1. JoinsTo(ss, 0, [i \in 1 .. 0 |-> 0])
    BY DEF JoinsTo
  <2> QED
    BY <2>1
<1>2. ASSUME NEW n \in Nat, n \in T
      PROVE  n + 1 \in T
  <2>1. PICK f : JoinsTo(ss, n, f)
    BY <1>2
  <2> DEFINE g == [i \in 1 .. n + 1 |-> IF i = n + 1 THEN (IF n = 0 THEN ss[1] ELSE f[n] \o ss[n + 1])
                                         ELSE f[i]]
             h == [i \in 1 .. n + 1 |-> IF i = 1 THEN ss[i] ELSE g[i - 1] \o ss[i]]
  <2>2. \A i \in 1 .. n + 1 : i # 1 => g[i - 1] = f[i - 1]
    OBVIOUS
  <2>3. \A i \in 1 .. n + 1 : g[i] = h[i]
    <3> TAKE i \in 1 .. n + 1
    <3>1. CASE i = n + 1
      BY <3>1, <2>2
    <3>2. CASE i # n + 1
      <4>1. i \in 1 .. n /\ g[i] = f[i]
        BY <3>2
      <4>2. f[i] = IF i = 1 THEN ss[i] ELSE f[i - 1] \o ss[i]
        BY <2>1, <4>1 DEF JoinsTo
      <4> QED
        BY <4>1, <4>2, <2>2
    <3> QED
      BY <3>1, <3>2
  <2>4. g = [i \in 1 .. n + 1 |-> g[i]] /\ h = [i \in 1 .. n + 1 |-> h[i]]
    OBVIOUS
  <2>5. g = h
    <3> HIDE DEF g, h
    <3> QED
      BY <2>3, <2>4
  <2>6. JoinsTo(ss, n + 1, g)
    BY <2>5 DEF JoinsTo
  <2>7. \E x : JoinsTo(ss, n + 1, x)
    <3> HIDE DEF g
    <3> QED
      BY <2>6
  <2> QED
    BY <2>7
<1>3. Len(ss) \in T
  <2> HIDE DEF T
  <2> QED
    BY <1>1, <1>2, NatSetInduction
<1> QED
  BY <1>3 DEF Joins, JoinsTo

LEMMA FlattenJoins ==
    ASSUME NEW ss, Len(ss) \in Nat, Len(ss) # 0
    PROVE  \E f : Joins(ss, f) /\ FlattenSeq(ss) = f[Len(ss)]
<1> DEFINE f == CHOOSE g : Joins(ss, g)
<1>1. FlattenSeq(ss) = f[Len(ss)]
  BY DEF FlattenSeq, Joins
<1>2. Joins(ss, f)
  BY JoinsExists
<1> QED
  BY <1>1, <1>2

\* A join of sequences is a sequence of their elements, of all of them.
LEMMA FlattenRange ==
    ASSUME NEW S, NEW ss \in Seq(Seq(S))
    PROVE  /\ FlattenSeq(ss) \in Seq(S)
           /\ \A e : (\E i \in DOMAIN FlattenSeq(ss) : FlattenSeq(ss)[i] = e) <=>
                     (\E i \in DOMAIN ss : \E j \in DOMAIN ss[i] : ss[i][j] = e)
<1> DEFINE Has(s, e) == \E j \in DOMAIN s : s[j] = e
<1>1. Len(ss) \in Nat /\ DOMAIN ss = 1 .. Len(ss)
  BY LenProperties
<1>2. CASE Len(ss) = 0
  <2>1. FlattenSeq(ss) = ss /\ ss = <<>>
    BY <1>2, EmptySeq DEF FlattenSeq
  <2> QED
    BY <2>1, EmptySeq
<1>3. CASE Len(ss) # 0
  <2>1. PICK f : Joins(ss, f) /\ FlattenSeq(ss) = f[Len(ss)]
    BY <1>1, <1>3, FlattenJoins
  <2> DEFINE OK(n) == /\ f[n] \in Seq(S)
                      /\ \A e : Has(f[n], e) <=> \E i \in 1 .. n : Has(ss[i], e)
             T == {n \in Nat : n \in 1 .. Len(ss) => OK(n)}
  <2> HIDE DEF Has
  <2>2. 0 \in T
    OBVIOUS
  <2>3. ASSUME NEW n \in Nat, n \in T
        PROVE  n + 1 \in T
    <3>1. SUFFICES ASSUME n + 1 \in 1 .. Len(ss)
                   PROVE  OK(n + 1)
      OBVIOUS
    <3>2. ss[n + 1] \in Seq(S)
      BY <3>1, <1>1, ElementOfSeq
    <3>3. CASE n = 0
      <4>1. f[1] = ss[1]
        BY <3>1, <3>3, <2>1 DEF Joins
      <4> QED
        BY <4>1, <3>2, <3>3
    <3>4. CASE n # 0
      <4>1. OK(n)
        BY <2>3, <3>1, <3>4
      <4> HIDE DEF OK
      <4>2. f[n + 1] = f[n] \o ss[n + 1]
        <5>1. n + 1 \in 1 .. Len(ss) /\ n + 1 # 1 /\ (n + 1) - 1 = n
          BY <3>1, <3>4
        <5>2. \A i \in 1 .. Len(ss) : f[i] = IF i = 1 THEN ss[i] ELSE f[i - 1] \o ss[i]
          BY <2>1 DEF Joins
        <5> QED
          BY <5>1, <5>2
      <4> DEFINE a == f[n]
                 b == ss[n + 1]
                 c == a \o b
      <4>3. a \in Seq(S) /\ b \in Seq(S) /\ f[n + 1] = c
        BY <4>1, <4>2, <3>2 DEF OK
      <4>4. c \in Seq(S) /\ \A e : Has(c, e) <=> Has(a, e) \/ Has(b, e)
        <5> HIDE DEF a, b
        <5>1. /\ c \in Seq(S) /\ Len(c) = Len(a) + Len(b)
              /\ \A i \in 1 .. Len(a) + Len(b) :
                    c[i] = IF i <= Len(a) THEN a[i] ELSE b[i - Len(a)]
              /\ Len(a) \in Nat /\ Len(b) \in Nat
          BY <4>3, ConcatProperties, LenProperties
        <5>2. DOMAIN a = 1 .. Len(a) /\ DOMAIN b = 1 .. Len(b) /\ DOMAIN c = 1 .. Len(a) + Len(b)
          BY <4>3, <5>1, LenProperties
        <5> HIDE DEF c
        <5>3. /\ \A i \in 1 .. Len(a) : c[i] = a[i] /\ i \in DOMAIN c
              /\ \A i \in 1 .. Len(b) : c[i + Len(a)] = b[i] /\ i + Len(a) \in DOMAIN c
          BY <5>1, <5>2
        <5>4. \A i \in DOMAIN c : \/ i \in 1 .. Len(a) /\ c[i] = a[i]
                                  \/ i - Len(a) \in 1 .. Len(b) /\ c[i] = b[i - Len(a)]
          BY <5>1, <5>2
        <5>5. \A e : Has(c, e) <=> Has(a, e) \/ Has(b, e)
          BY <5>2, <5>3, <5>4 DEF Has
        <5> QED
          BY <5>1, <5>5
      <4>5. \A e : (\E i \in 1 .. n + 1 : Has(ss[i], e)) <=>
                   (\E i \in 1 .. n : Has(ss[i], e)) \/ Has(ss[n + 1], e)
        BY <3>1
      <4> HIDE DEF a, b, c
      <4>6. \A e : Has(c, e) <=> (\E i \in 1 .. n : Has(ss[i], e)) \/ Has(ss[n + 1], e)
        BY <4>1, <4>4 DEF OK, a, b
      <4>7. \A e : Has(c, e) <=> \E i \in 1 .. n + 1 : Has(ss[i], e)
        BY <4>5, <4>6
      <4> QED
        BY <4>3, <4>4, <4>7 DEF OK
    <3> QED
      BY <3>3, <3>4
  <2>4. OK(Len(ss))
    <3>1. Len(ss) \in T
      <4> HIDE DEF T
      <4> QED
        BY <1>1, <2>2, <2>3, NatSetInduction
    <3>2. Len(ss) \in 1 .. Len(ss)
      BY <1>1, <1>3
    <3> HIDE DEF OK
    <3> QED
      BY <3>1, <3>2
  <2> QED
    BY <1>1, <2>1, <2>4 DEF Has
<1> QED
  BY <1>2, <1>3
\* The same with Range.
LEMMA JoinRange ==
    ASSUME NEW S, NEW ss \in Seq(Seq(S))
    PROVE  /\ FlattenSeq(ss) \in Seq(S)
           /\ Range(FlattenSeq(ss)) = UNION {Range(ss[i]) : i \in DOMAIN ss}
<1> DEFINE f == FlattenSeq(ss)
<1>1. f \in Seq(S) /\ \A e : (\E i \in DOMAIN f : f[i] = e) <=>
                               (\E i \in DOMAIN ss : \E j \in DOMAIN ss[i] : ss[i][j] = e)
  BY FlattenRange
<1> HIDE DEF f
<1>2. \A e : e \in Range(f) <=> \E i \in DOMAIN f : f[i] = e
  BY DEF Range
<1>3. \A e : e \in UNION {Range(ss[i]) : i \in DOMAIN ss} <=>
            \E i \in DOMAIN ss : \E j \in DOMAIN ss[i] : ss[i][j] = e
  BY DEF Range
<1> QED
  BY <1>1, <1>2, <1>3 DEF f

\* What is kept is what was there and is wanted.
LEMMA OnlyRange ==
    ASSUME NEW T, NEW s \in Seq(T), NEW S
    PROVE  /\ Only(s, S) \in Seq(T \cap S)
           /\ Range(Only(s, S)) = Range(s) \cap S
<1> DEFINE ss == [i \in 1 .. Len(s) |-> IF s[i] \in S THEN <<s[i]>> ELSE <<>>]
<1>1. Len(s) \in Nat /\ DOMAIN s = 1 .. Len(s) /\ \A i \in 1 .. Len(s) : s[i] \in T
  BY LenProperties, ElementOfSeq
<1>2. ss \in Seq(Seq(T \cap S))
  <2>1. \A i \in 1 .. Len(s) : ss[i] \in Seq(T \cap S)
    <3> TAKE i \in 1 .. Len(s)
    <3>1. CASE s[i] \in S
      <4>1. s[i] \in T \cap S
        BY <1>1, <3>1
      <4>2. <<s[i]>> \in Seq(T \cap S)
        <5> DEFINE e == s[i]
        <5> HIDE DEF e
        <5> SUFFICES ASSUME e \in T \cap S PROVE <<e>> \in Seq(T \cap S)
          BY <4>1 DEF e
        <5> QED
          OBVIOUS
      <4> QED
        BY <3>1, <4>2
    <3>2. CASE s[i] \notin S
      BY <3>2
    <3> QED
      BY <3>1, <3>2
  <2> HIDE DEF ss
  <2>2. ss = [i \in 1 .. Len(s) |-> ss[i]]
    BY DEF ss
  <2> QED
    BY <1>1, <2>1, <2>2, SeqDef
<1>3. DOMAIN ss = 1 .. Len(s)
  OBVIOUS
<1>4. \A i \in 1 .. Len(s) : Range(ss[i]) = {s[i]} \cap S
  BY DEF Range
<1>5. Only(s, S) = FlattenSeq(ss)
  BY DEF Only
<1> HIDE DEF ss
<1>6. Only(s, S) \in Seq(T \cap S) /\ Range(Only(s, S)) = UNION {Range(ss[i]) : i \in DOMAIN ss}
  BY <1>2, <1>5, JoinRange
<1>7. Range(s) = {s[i] : i \in 1 .. Len(s)}
  BY <1>1 DEF Range
<1> QED
  BY <1>3, <1>4, <1>6, <1>7

\* What says everything once, says it once when it is joined or thinned out.
LEMMA ConcatOnce ==
    ASSUME NEW S, NEW s \in Seq(S), NEW t \in Seq(S), IsInjective(s), IsInjective(t),
           Range(s) \cap Range(t) = {}
    PROVE  IsInjective(s \o t)
<1> DEFINE c == s \o t
           m == Len(s)
<1>1. /\ DOMAIN c = 1 .. m + Len(t) /\ m \in Nat /\ Len(t) \in Nat
      /\ \A i \in 1 .. m + Len(t) : c[i] = IF i <= m THEN s[i] ELSE t[i - m]
      /\ DOMAIN s = 1 .. m /\ DOMAIN t = 1 .. Len(t)
  <2>1. c \in Seq(S) /\ Len(c) = m + Len(t) /\ \A i \in 1 .. m + Len(t) : c[i] = IF i <= m THEN s[i] ELSE t[i - m]
    BY ConcatProperties
  <2> QED
    BY <2>1, LenProperties
<1>2. SUFFICES ASSUME NEW i \in DOMAIN c, NEW j \in DOMAIN c, c[i] = c[j]
               PROVE  i = j
  BY DEF IsInjective
<1> HIDE DEF c, m
<1>3. \A x \in DOMAIN c : \/ x \in DOMAIN s /\ c[x] = s[x] /\ c[x] \in Range(s)
                          \/ x - m \in DOMAIN t /\ c[x] = t[x - m] /\ c[x] \in Range(t)
  <2> TAKE x \in DOMAIN c
  <2>1. CASE x <= m
    <3>1. x \in DOMAIN s /\ c[x] = s[x]
      BY <1>1, <2>1
    <3>2. s[x] \in Range(s)
      BY <3>1 DEF Range
    <3> QED
      BY <3>1, <3>2
  <2>2. CASE ~(x <= m)
    <3>1. x - m \in DOMAIN t /\ c[x] = t[x - m]
      BY <1>1, <2>2
    <3>2. t[x - m] \in Range(t)
      BY <3>1 DEF Range
    <3> QED
      BY <3>1, <3>2
  <2> QED
    BY <2>1, <2>2
<1>4. CASE c[i] \in Range(s)
  <2>1. i \in DOMAIN s /\ c[i] = s[i] /\ j \in DOMAIN s /\ c[j] = s[j]
    BY <1>2, <1>3, <1>4
  <2> QED
    BY <1>2, <2>1 DEF IsInjective
<1>5. CASE c[i] \in Range(t)
  <2>1. i - m \in DOMAIN t /\ c[i] = t[i - m] /\ j - m \in DOMAIN t /\ c[j] = t[j - m]
    BY <1>2, <1>3, <1>5
  <2>2. i - m = j - m
    BY <1>2, <2>1 DEF IsInjective
  <2> QED
    BY <1>1, <2>2
<1> QED
  BY <1>3, <1>4, <1>5

LEMMA JoinOnce ==
    ASSUME NEW S, NEW ss \in Seq(Seq(S)), \A i \in DOMAIN ss : IsInjective(ss[i]),
           \A i, j \in DOMAIN ss : i # j => Range(ss[i]) \cap Range(ss[j]) = {}
    PROVE  IsInjective(FlattenSeq(ss))
<1>1. Len(ss) \in Nat /\ DOMAIN ss = 1 .. Len(ss) /\ \A i \in 1 .. Len(ss) : ss[i] \in Seq(S)
  BY LenProperties, ElementOfSeq
<1>2. CASE Len(ss) = 0
  BY <1>1, <1>2 DEF FlattenSeq, IsInjective
<1>3. CASE Len(ss) # 0
  <2>1. PICK f : Joins(ss, f) /\ FlattenSeq(ss) = f[Len(ss)]
    BY <1>1, <1>3, FlattenJoins
  <2> DEFINE OK(n) == /\ f[n] \in Seq(S) /\ IsInjective(f[n])
                      /\ \A e \in Range(f[n]) : \E i \in 1 .. n : e \in Range(ss[i])
             T == {n \in Nat : n \in 1 .. Len(ss) => OK(n)}
  <2>2. 0 \in T
    OBVIOUS
  <2>3. ASSUME NEW n \in Nat, n \in T
        PROVE  n + 1 \in T
    <3>1. SUFFICES ASSUME n + 1 \in 1 .. Len(ss)
                   PROVE  OK(n + 1)
      OBVIOUS
    <3>2. ss[n + 1] \in Seq(S) /\ IsInjective(ss[n + 1])
      BY <3>1, <1>1
    <3>3. CASE n = 0
      <4>1. f[1] = ss[1]
        BY <3>1, <3>3, <2>1 DEF Joins
      <4> QED
        BY <4>1, <3>2, <3>3
    <3>4. CASE n # 0
      <4>1. OK(n)
        BY <2>3, <3>1, <3>4
      <4>2. f[n + 1] = f[n] \o ss[n + 1]
        <5>1. n + 1 \in 1 .. Len(ss) /\ n + 1 # 1 /\ (n + 1) - 1 = n
          BY <3>1, <3>4
        <5>2. \A i \in 1 .. Len(ss) : f[i] = IF i = 1 THEN ss[i] ELSE f[i - 1] \o ss[i]
          BY <2>1 DEF Joins
        <5> QED
          BY <5>1, <5>2
      <4> DEFINE a == f[n]
                 b == ss[n + 1]
                 c == f[n + 1]
      <4>3. \A e \in Range(a) : e \notin Range(b)
        <5> SUFFICES ASSUME NEW e \in Range(a), e \in Range(b) PROVE FALSE
          OBVIOUS
        <5>1. PICK i \in 1 .. n : e \in Range(ss[i])
          BY <4>1
        <5>2. i \in DOMAIN ss /\ n + 1 \in DOMAIN ss /\ i # n + 1
          BY <1>1, <3>1
        <5> QED
          BY <5>1, <5>2
      <4>4. a \in Seq(S) /\ b \in Seq(S) /\ IsInjective(a) /\ IsInjective(b) /\ c = a \o b
            /\ \A e \in Range(a) : \E i \in 1 .. n : e \in Range(ss[i])
        BY <3>2, <4>1, <4>2
      <4> HIDE DEF a, b, c
      <4>5. c \in Seq(S) /\ Range(c) = Range(a) \cup Range(b)
        BY <4>4, ConcatProperties, RangeConcatenation
      <4>6. IsInjective(c)
        BY <4>3, <4>4, ConcatOnce
      <4>7. \A e \in Range(c) : \E i \in 1 .. n + 1 : e \in Range(ss[i])
        <5> TAKE e \in Range(c)
        <5>1. CASE e \in Range(a)
          BY <4>4, <5>1
        <5>2. CASE e \in Range(b)
          <6>1. n + 1 \in 1 .. n + 1
            OBVIOUS
          <6> QED
            BY <5>2, <6>1 DEF b
        <5> QED
          BY <4>5, <5>1, <5>2
      <4> QED
        BY <4>5, <4>6, <4>7 DEF c
    <3> QED
      BY <3>3, <3>4
  <2>4. OK(Len(ss))
    <3>1. Len(ss) \in T
      <4> HIDE DEF T
      <4> QED
        BY <1>1, <2>2, <2>3, NatSetInduction
    <3>2. Len(ss) \in 1 .. Len(ss)
      BY <1>1, <1>3
    <3> HIDE DEF OK
    <3> QED
      BY <3>1, <3>2
  <2> QED
    BY <2>1, <2>4
<1> QED
  BY <1>2, <1>3

LEMMA OnlyOnce ==
    ASSUME NEW T, NEW s \in Seq(T), NEW S, IsInjective(s)
    PROVE  IsInjective(Only(s, S))
<1> DEFINE one(i) == IF s[i] \in S THEN <<s[i]>> ELSE <<>>
           ss == [i \in 1 .. Len(s) |-> one(i)]
<1>1. Len(s) \in Nat /\ DOMAIN s = 1 .. Len(s) /\ \A i \in 1 .. Len(s) : s[i] \in T
  BY LenProperties, ElementOfSeq
<1>2. \A i \in 1 .. Len(s) : one(i) \in Seq(T) /\ IsInjective(one(i)) /\ Range(one(i)) \subseteq {s[i]}
  <2> TAKE i \in 1 .. Len(s)
  <2> DEFINE e == s[i]
  <2>1. e \in T
    BY <1>1
  <2> HIDE DEF e
  <2>2. <<e>> \in Seq(T) /\ IsInjective(<<e>>) /\ Range(<<e>>) \subseteq {e}
    BY <2>1 DEF IsInjective, Range
  <2>3. <<>> \in Seq(T) /\ IsInjective(<<>>) /\ Range(<<>>) \subseteq {e}
    BY DEF IsInjective, Range
  <2>4. one(i) = <<e>> \/ one(i) = <<>>
    BY DEF e
  <2> HIDE DEF one
  <2> QED
    BY <2>2, <2>3, <2>4 DEF e
<1>3. Only(s, S) = FlattenSeq(ss)
  BY DEF Only
<1> HIDE DEF one
<1>4. DOMAIN ss = 1 .. Len(s) /\ \A i \in 1 .. Len(s) : ss[i] = one(i)
  OBVIOUS
<1>5. ss \in Seq(Seq(T))
  <2>1. ss \in [1 .. Len(s) -> Seq(T)]
    BY <1>2
  <2> HIDE DEF ss
  <2> QED
    BY <1>1, <2>1, SeqDef
<1> HIDE DEF ss
<1>6. \A i, j \in DOMAIN ss : i # j => Range(ss[i]) \cap Range(ss[j]) = {}
  BY <1>1, <1>2, <1>4 DEF IsInjective
<1>7. \A i \in DOMAIN ss : IsInjective(ss[i])
  BY <1>2, <1>4
<1> QED
  BY <1>3, <1>5, <1>6, <1>7, JoinOnce

\* The rest of it does not hold its head again.
LEMMA TailOnce ==
    ASSUME NEW S, NEW s \in Seq(S), s # <<>>, IsInjective(s)
    PROVE  IsInjective(Tail(s)) /\ Range(Tail(s)) = Range(s) \ {Head(s)}
<1> DEFINE t == Tail(s)
<1>1. /\ t \in Seq(S) /\ Len(t) = Len(s) - 1 /\ \A i \in 1 .. Len(t) : t[i] = s[i + 1]
      /\ Len(s) \in Nat /\ DOMAIN s = 1 .. Len(s) /\ Len(s) # 0
  BY HeadTailProperties, LenProperties, EmptySeq
<1>2. DOMAIN t = 1 .. Len(t) /\ Head(s) = s[1] /\ Len(t) \in Nat
  <2>1. Head(s) = s[1]
    BY <1>1
  <2> QED
    BY <1>1, <2>1, LenProperties
<1> HIDE DEF t
<1>3. \A i \in DOMAIN t : i + 1 \in DOMAIN s /\ t[i] = s[i + 1] /\ i + 1 # 1
  BY <1>1, <1>2
<1>4. \A i \in DOMAIN s : i # 1 => i - 1 \in DOMAIN t /\ t[i - 1] = s[i]
  BY <1>1, <1>2
<1>5. IsInjective(t)
  <2> SUFFICES ASSUME NEW i \in DOMAIN t, NEW j \in DOMAIN t, t[i] = t[j] PROVE i = j
    BY DEF IsInjective
  <2>1. i + 1 = j + 1
    BY <1>3 DEF IsInjective
  <2> QED
    BY <1>2, <2>1
<1>6. Range(t) \subseteq Range(s) \ {Head(s)}
  <2> SUFFICES ASSUME NEW i \in DOMAIN t PROVE t[i] \in Range(s) \ {Head(s)}
    BY DEF Range
  <2>1. t[i] = s[i + 1] /\ i + 1 \in DOMAIN s /\ 1 \in DOMAIN s /\ i + 1 # 1
    BY <1>1, <1>3
  <2> QED
    BY <1>2, <2>1 DEF IsInjective, Range
<1>7. Range(s) \ {Head(s)} \subseteq Range(t)
  BY <1>2, <1>4 DEF Range
<1> QED
  BY <1>5, <1>6, <1>7 DEF t

-----------------------------------------------------------------------------
\* Sums.
One(s) == CHOOSE x \in s : TRUE

Adds(f, S, i) ==
    i = [s \in SUBSET S |-> IF s = {} THEN 0 ELSE f[One(s)] + i[s \ {One(s)}]]

AddsTo(f, S, n, i) ==
    i = [s \in {t \in SUBSET S : Cardinality(t) <= n} |->
            IF s = {} THEN 0 ELSE f[One(s)] + i[s \ {One(s)}]]

LEMMA OneLess ==
    ASSUME NEW s, IsFiniteSet(s), s # {}
    PROVE  /\ One(s) \in s /\ IsFiniteSet(s \ {One(s)}) /\ Cardinality(s) \in Nat \ {0}
           /\ Cardinality(s \ {One(s)}) = Cardinality(s) - 1
<1>1. One(s) \in s
  BY DEF One
<1> QED
  BY <1>1, FS_RemoveElement, FS_EmptySet, FS_CardinalityType

LEMMA AddsExists ==
    ASSUME NEW f, NEW S, IsFiniteSet(S)
    PROVE  \E i : Adds(f, S, i)
<1> DEFINE T == {n \in Nat : \E i : AddsTo(f, S, n, i)}
           Of(n) == {t \in SUBSET S : Cardinality(t) <= n}
<1>1. \A t \in SUBSET S : IsFiniteSet(t) /\ Cardinality(t) \in Nat /\ Cardinality(t) <= Cardinality(S)
  BY FS_Subset, FS_CardinalityType
<1>2. \A n \in Nat : \A s \in Of(n) : s # {} =>
          One(s) \in s /\ n # 0 /\ s \ {One(s)} \in Of(n - 1)
  <2> TAKE n \in Nat
  <2> TAKE s \in Of(n)
  <2> HAVE s # {}
  <2>1. IsFiniteSet(s) /\ s \in SUBSET S /\ Cardinality(s) <= n
    BY <1>1
  <2>2. One(s) \in s /\ Cardinality(s) \in Nat \ {0} /\ Cardinality(s \ {One(s)}) = Cardinality(s) - 1
    BY <2>1, OneLess
  <2>3. n # 0 /\ Cardinality(s \ {One(s)}) <= n - 1 /\ s \ {One(s)} \in SUBSET S
    BY <2>1, <2>2
  <2> QED
    BY <2>2, <2>3
<1>3. 0 \in T
  <2> DEFINE g == [s \in Of(0) |-> 0]
             h == [s \in Of(0) |-> IF s = {} THEN 0 ELSE f[One(s)] + g[s \ {One(s)}]]
  <2>1. \A s \in Of(0) : s = {}
    BY <1>2
  <2>2. \A s \in Of(0) : h[s] = g[s]
    BY <2>1
  <2>3. g = [s \in Of(0) |-> g[s]] /\ h = [s \in Of(0) |-> h[s]]
    OBVIOUS
  <2>4. g = h
    <3> HIDE DEF g, h
    <3> QED
      BY <2>2, <2>3
  <2>5. AddsTo(f, S, 0, g)
    BY <2>4 DEF AddsTo
  <2>6. \E x : AddsTo(f, S, 0, x)
    <3> HIDE DEF g
    <3> QED
      BY <2>5
  <2> QED
    BY <2>6
<1>4. ASSUME NEW n \in Nat, n \in T
      PROVE  n + 1 \in T
  <2>1. PICK i : AddsTo(f, S, n, i)
    BY <1>4
  <2> DEFINE g == [s \in Of(n + 1) |-> IF s = {} THEN 0 ELSE f[One(s)] + i[s \ {One(s)}]]
             h == [s \in Of(n + 1) |-> IF s = {} THEN 0 ELSE f[One(s)] + g[s \ {One(s)}]]
  <2>2. \A s \in Of(n) : s \in Of(n + 1) /\ g[s] = i[s]
    <3>1. \A s \in Of(n) : s \in Of(n + 1)
      BY <1>1
    <3>2. \A s \in Of(n) : i[s] = IF s = {} THEN 0 ELSE f[One(s)] + i[s \ {One(s)}]
      BY <2>1 DEF AddsTo
    <3> QED
      BY <3>1, <3>2
  <2>3. \A s \in Of(n + 1) : s # {} => s \ {One(s)} \in Of(n)
    <3>1. n + 1 \in Nat /\ (n + 1) - 1 = n
      OBVIOUS
    <3> HIDE DEF Of
    <3> QED
      BY <1>2, <3>1
  <2>4. \A s \in Of(n + 1) : h[s] = g[s]
    BY <2>2, <2>3
  <2>5. g = [s \in Of(n + 1) |-> g[s]] /\ h = [s \in Of(n + 1) |-> h[s]]
    OBVIOUS
  <2>6. g = h
    <3> HIDE DEF g, h
    <3> QED
      BY <2>4, <2>5
  <2>7. AddsTo(f, S, n + 1, g)
    BY <2>6 DEF AddsTo
  <2>8. \E x : AddsTo(f, S, n + 1, x)
    <3> HIDE DEF g
    <3> QED
      BY <2>7
  <2> QED
    BY <2>8
<1>5. Cardinality(S) \in T
  <2> HIDE DEF T
  <2> QED
    BY <1>1, <1>3, <1>4, NatSetInduction
<1>6. Of(Cardinality(S)) = SUBSET S
  BY <1>1
<1>7. PICK i : AddsTo(f, S, Cardinality(S), i)
  BY <1>5
<1>8. Adds(f, S, i)
  BY <1>6, <1>7 DEF Adds, AddsTo
<1> QED
  BY <1>8

LEMMA SumAdds ==
    ASSUME NEW f, NEW S, IsFiniteSet(S)
    PROVE  \E i : Adds(f, S, i) /\ SumFunctionOnSet(f, S) = i[S]
<1> DEFINE i == CHOOSE j : Adds(f, S, j)
<1>1. SumFunctionOnSet(f, S) = i[S]
  BY DEF SumFunctionOnSet, FoldFunctionOnSet, MapThenFoldSet, Adds, One
<1>2. Adds(f, S, i)
  BY AddsExists
<1> QED
  BY <1>1, <1>2

\* Two ways of adding up agree on a set on which the functions do.
LEMMA AddsAgree ==
    ASSUME NEW f, NEW S, NEW i, Adds(f, S, i),
           NEW g, NEW R, NEW j, Adds(g, R, j),
           NEW s, IsFiniteSet(s), s \subseteq S, s \subseteq R,
           \A x \in s : f[x] = g[x]
    PROVE  i[s] = j[s]
<1> DEFINE T == {n \in Nat : \A t \in SUBSET s : Cardinality(t) = n => i[t] = j[t]}
<1>1. \A t \in SUBSET s : IsFiniteSet(t) /\ Cardinality(t) \in Nat
  BY FS_Subset, FS_CardinalityType
<1>2. \A t \in SUBSET s : /\ i[t] = IF t = {} THEN 0 ELSE f[One(t)] + i[t \ {One(t)}]
                          /\ j[t] = IF t = {} THEN 0 ELSE g[One(t)] + j[t \ {One(t)}]
  BY DEF Adds
<1>3. 0 \in T
  BY <1>1, <1>2, FS_EmptySet
<1>4. ASSUME NEW n \in Nat, n \in T
      PROVE  n + 1 \in T
  <2>1. SUFFICES ASSUME NEW t \in SUBSET s, Cardinality(t) = n + 1
                 PROVE  i[t] = j[t]
    OBVIOUS
  <2>2. t # {}
    BY <2>1, FS_EmptySet
  <2>3. One(t) \in t /\ Cardinality(t \ {One(t)}) = n /\ t \ {One(t)} \in SUBSET s
    BY <1>1, <2>1, <2>2, OneLess
  <2>4. i[t \ {One(t)}] = j[t \ {One(t)}] /\ f[One(t)] = g[One(t)]
    BY <1>4, <2>3
  <2> QED
    BY <1>2, <2>2, <2>4
<1>5. Cardinality(s) \in T /\ s \in SUBSET s
  <2> HIDE DEF T
  <2> QED
    BY <1>1, <1>3, <1>4, NatSetInduction
<1> QED
  BY <1>5

\* Whichever element is taken first.
TakenAny(f, i, s) == i[s] \in Int /\ \A x \in s : i[s] = f[x] + i[s \ {x}]

LEMMA AddsAny ==
    ASSUME NEW f, NEW S, NEW i, Adds(f, S, i), IsFiniteSet(S), \A x \in S : f[x] \in Int
    PROVE  \A s \in SUBSET S : TakenAny(f, i, s)
<1> DEFINE T == {n \in Nat : \A t \in SUBSET S : Cardinality(t) <= n => TakenAny(f, i, t)}
<1>1. \A t \in SUBSET S : IsFiniteSet(t) /\ Cardinality(t) \in Nat
  BY FS_Subset, FS_CardinalityType
<1>2. \A t \in SUBSET S : i[t] = IF t = {} THEN 0 ELSE f[One(t)] + i[t \ {One(t)}]
  BY DEF Adds
<1>3. TakenAny(f, i, {})
  <2>1. {} \in SUBSET S
    OBVIOUS
  <2>2. i[{}] = 0
    BY <1>2, <2>1
  <2> QED
    BY <2>2 DEF TakenAny
<1>4. 0 \in T
  <2>1. \A t \in SUBSET S : Cardinality(t) <= 0 => t = {}
    BY <1>1, FS_EmptySet
  <2> QED
    BY <1>3, <2>1
<1>5. ASSUME NEW n \in Nat, n \in T
      PROVE  n + 1 \in T
  <2>1. SUFFICES ASSUME NEW t \in SUBSET S, Cardinality(t) <= n + 1
                 PROVE  TakenAny(f, i, t)
    OBVIOUS
  <2>2. CASE t = {}
    BY <1>3, <2>2
  <2>3. CASE t # {}
    <3> DEFINE c == One(t)
    <3>1. c \in t /\ Cardinality(t \ {c}) = Cardinality(t) - 1 /\ t \ {c} \in SUBSET S
      BY <1>1, <2>3, OneLess
    <3>2. Cardinality(t) \in Nat /\ Cardinality(t \ {c}) <= n
      BY <1>1, <2>1, <3>1
    <3> HIDE DEF c
    <3>3. TakenAny(f, i, t \ {c}) /\ f[c] \in Int
      BY <1>5, <3>1, <3>2
    <3>4. i[t] = f[c] + i[t \ {c}]
      BY <1>2, <2>3 DEF c
    <3>5. ASSUME NEW x \in t, x # c
          PROVE  i[t] = f[x] + i[t \ {x}]
      <4> DEFINE rest == (t \ {c}) \ {x}
      <4>1. x \in t \ {c} /\ c \in t \ {x} /\ t \ {x} \in SUBSET S /\ rest = (t \ {x}) \ {c}
        BY <3>1, <3>5
      <4>2. Cardinality(t \ {x}) = Cardinality(t) - 1 /\ Cardinality(rest) = Cardinality(t \ {x}) - 1
        <5>1. \A u \in SUBSET S : \A e \in u : Cardinality(u \ {e}) = Cardinality(u) - 1
          BY <1>1, FS_RemoveElement
        <5> HIDE DEF rest
        <5> QED
          BY <3>5, <4>1, <5>1
      <4>3. Cardinality(t \ {x}) <= n /\ Cardinality(rest) <= n /\ rest \in SUBSET S
        BY <1>1, <2>1, <4>1, <4>2
      <4>4. TakenAny(f, i, t \ {x}) /\ TakenAny(f, i, rest)
        BY <1>5, <4>1, <4>3
      <4> HIDE DEF rest
      <4>5. i[t \ {c}] = f[x] + i[rest]
        BY <3>3, <4>1 DEF TakenAny, rest
      <4>6. i[t \ {x}] = f[c] + i[rest]
        BY <4>1, <4>4 DEF TakenAny
      <4>7. i[rest] \in Int /\ f[x] \in Int /\ f[c] \in Int
        BY <3>3, <4>4 DEF TakenAny
      <4>8. f[c] + (f[x] + i[rest]) = f[x] + (f[c] + i[rest])
        <5> DEFINE u == f[c]
                   v == f[x]
                   w == i[rest]
        <5> HIDE DEF u, v, w
        <5>1. u \in Int /\ v \in Int /\ w \in Int
          BY <4>7 DEF u, v, w
        <5>2. u + (v + w) = v + (u + w)
          BY <5>1
        <5> QED
          BY <5>2 DEF u, v, w
      <4> QED
        BY <3>4, <4>5, <4>6, <4>8
    <3>6. i[t] \in Int
      <4>1. i[t \ {c}] \in Int
        BY <3>3 DEF TakenAny
      <4> QED
        BY <3>3, <3>4, <4>1
    <3> QED
      BY <3>4, <3>5, <3>6 DEF TakenAny
  <2> QED
    BY <2>2, <2>3
<1>6. \A t \in SUBSET S : Cardinality(t) \in T
  <2> HIDE DEF T
  <2> QED
    BY <1>1, <1>4, <1>5, NatSetInduction
<1>7. TAKE s \in SUBSET S
<1>8. Cardinality(s) \in T /\ Cardinality(s) \in Nat
  BY <1>1, <1>6
<1> QED
  BY <1>8

\* What the models ask of a sum: nothing is 0, one element more adds its value,
\* and only the values on the set count.
LEMMA SumEmpty ==
    ASSUME NEW f
    PROVE  SumFunctionOnSet(f, {}) = 0
<1>1. IsFiniteSet({})
  BY FS_EmptySet
<1>2. PICK i : Adds(f, {}, i) /\ SumFunctionOnSet(f, {}) = i[{}]
  BY <1>1, SumAdds
<1> QED
  BY <1>2 DEF Adds

LEMMA SumType ==
    ASSUME NEW f, NEW S, IsFiniteSet(S), \A x \in S : f[x] \in Int
    PROVE  SumFunctionOnSet(f, S) \in Int
<1>1. PICK i : Adds(f, S, i) /\ SumFunctionOnSet(f, S) = i[S]
  BY SumAdds
<1>2. TakenAny(f, i, S)
  BY <1>1, AddsAny
<1> QED
  BY <1>1, <1>2 DEF TakenAny

LEMMA SumAgree ==
    ASSUME NEW f, NEW g, NEW S, IsFiniteSet(S), \A x \in S : f[x] = g[x]
    PROVE  SumFunctionOnSet(f, S) = SumFunctionOnSet(g, S)
<1>1. PICK i : Adds(f, S, i) /\ SumFunctionOnSet(f, S) = i[S]
  BY SumAdds
<1>2. PICK j : Adds(g, S, j) /\ SumFunctionOnSet(g, S) = j[S]
  BY SumAdds
<1> QED
  BY <1>1, <1>2, AddsAgree

LEMMA SumLess ==
    ASSUME NEW f, NEW S, IsFiniteSet(S), \A x \in S : f[x] \in Int, NEW e \in S
    PROVE  SumFunctionOnSet(f, S) = f[e] + SumFunctionOnSet(f, S \ {e})
<1>1. PICK i : Adds(f, S, i) /\ SumFunctionOnSet(f, S) = i[S]
  BY SumAdds
<1>2. IsFiniteSet(S \ {e})
  BY FS_RemoveElement
<1>3. PICK j : Adds(f, S \ {e}, j) /\ SumFunctionOnSet(f, S \ {e}) = j[S \ {e}]
  BY <1>2, SumAdds
<1>4. i[S \ {e}] = j[S \ {e}]
  BY <1>1, <1>2, <1>3, AddsAgree
<1>5. i[S] = f[e] + i[S \ {e}]
  <2>1. TakenAny(f, i, S)
    BY <1>1, AddsAny
  <2> QED
    BY <2>1 DEF TakenAny
<1> QED
  BY <1>1, <1>3, <1>4, <1>5

LEMMA SumMore ==
    ASSUME NEW f, NEW S, IsFiniteSet(S), NEW e, e \notin S,
           \A x \in S \cup {e} : f[x] \in Int
    PROVE  SumFunctionOnSet(f, S \cup {e}) = SumFunctionOnSet(f, S) + f[e]
<1>1. IsFiniteSet(S \cup {e}) /\ (S \cup {e}) \ {e} = S
  BY FS_AddElement
<1>2. SumFunctionOnSet(f, S \cup {e}) = f[e] + SumFunctionOnSet(f, S)
  BY <1>1, SumLess
<1>3. SumFunctionOnSet(f, S) \in Int
  BY SumType
<1> QED
  BY <1>2, <1>3

\* A value that changes changes the sum by as much.
LEMMA SumChange ==
    ASSUME NEW f, NEW g, NEW S, IsFiniteSet(S), NEW e \in S,
           \A x \in S : f[x] \in Int /\ g[x] \in Int,
           \A x \in S \ {e} : g[x] = f[x]
    PROVE  SumFunctionOnSet(g, S) = SumFunctionOnSet(f, S) - f[e] + g[e]
<1>1. IsFiniteSet(S \ {e})
  BY FS_RemoveElement
<1>2. SumFunctionOnSet(f, S \ {e}) = SumFunctionOnSet(g, S \ {e})
  BY <1>1, SumAgree
<1>3. SumFunctionOnSet(f, S \ {e}) \in Int
  BY <1>1, SumType
<1>4. /\ SumFunctionOnSet(f, S) = f[e] + SumFunctionOnSet(f, S \ {e})
      /\ SumFunctionOnSet(g, S) = g[e] + SumFunctionOnSet(g, S \ {e})
  BY SumLess
<1>5. f[e] \in Int /\ g[e] \in Int
  OBVIOUS
<1> QED
  BY <1>2, <1>3, <1>4, <1>5

LEMMA SumPositive ==
    ASSUME NEW f, NEW S, IsFiniteSet(S), \A x \in S : f[x] \in Nat
    PROVE  SumFunctionOnSet(f, S) \in Nat
<1> DEFINE T == {n \in Nat : \A t \in SUBSET S : Cardinality(t) = n => SumFunctionOnSet(f, t) \in Nat}
<1>1. \A t \in SUBSET S : IsFiniteSet(t) /\ Cardinality(t) \in Nat
  BY FS_Subset, FS_CardinalityType
<1>2. 0 \in T
  BY <1>1, SumEmpty, FS_EmptySet
<1>3. ASSUME NEW n \in Nat, n \in T
      PROVE  n + 1 \in T
  <2>1. SUFFICES ASSUME NEW t \in SUBSET S, Cardinality(t) = n + 1
                 PROVE  SumFunctionOnSet(f, t) \in Nat
    OBVIOUS
  <2>2. t # {}
    BY <2>1, FS_EmptySet
  <2>3. PICK e \in t : TRUE
    BY <2>2
  <2>4. Cardinality(t \ {e}) = n /\ t \ {e} \in SUBSET S
    <3>1. Cardinality(t \ {e}) = Cardinality(t) - 1
      BY <1>1, <2>3, FS_RemoveElement
    <3> QED
      BY <2>1, <3>1
  <2>5. SumFunctionOnSet(f, t \ {e}) \in Nat /\ f[e] \in Nat
    BY <1>3, <2>4
  <2>6. SumFunctionOnSet(f, t) = f[e] + SumFunctionOnSet(f, t \ {e})
    BY <1>1, SumLess
  <2> QED
    BY <2>5, <2>6
<1>4. Cardinality(S) \in T
  <2> HIDE DEF T
  <2> QED
    BY <1>1, <1>2, <1>3, NatSetInduction
<1> QED
  BY <1>4

LEMMA SumZero ==
    ASSUME NEW f, NEW S, IsFiniteSet(S), \A x \in S : f[x] = 0
    PROVE  SumFunctionOnSet(f, S) = 0
<1> DEFINE T == {n \in Nat : \A t \in SUBSET S : Cardinality(t) = n => SumFunctionOnSet(f, t) = 0}
<1>1. \A t \in SUBSET S : IsFiniteSet(t) /\ Cardinality(t) \in Nat
  BY FS_Subset, FS_CardinalityType
<1>2. 0 \in T
  BY <1>1, SumEmpty, FS_EmptySet
<1>3. ASSUME NEW n \in Nat, n \in T
      PROVE  n + 1 \in T
  <2>1. SUFFICES ASSUME NEW t \in SUBSET S, Cardinality(t) = n + 1
                 PROVE  SumFunctionOnSet(f, t) = 0
    OBVIOUS
  <2>2. t # {}
    BY <2>1, FS_EmptySet
  <2>3. PICK e \in t : TRUE
    BY <2>2
  <2>4. Cardinality(t \ {e}) = n /\ t \ {e} \in SUBSET S
    <3>1. Cardinality(t \ {e}) = Cardinality(t) - 1
      BY <1>1, <2>3, FS_RemoveElement
    <3> QED
      BY <2>1, <3>1
  <2>5. SumFunctionOnSet(f, t \ {e}) = 0 /\ f[e] = 0
    BY <1>3, <2>4
  <2>6. \A x \in t : f[x] \in Int
    OBVIOUS
  <2>7. SumFunctionOnSet(f, t) = f[e] + SumFunctionOnSet(f, t \ {e})
    BY <1>1, <2>6, SumLess
  <2> QED
    BY <2>5, <2>7
<1>4. Cardinality(S) \in T
  <2> HIDE DEF T
  <2> QED
    BY <1>1, <1>2, <1>3, NatSetInduction
<1> QED
  BY <1>1, <1>4
=============================================================================
