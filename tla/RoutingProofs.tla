---------------------------- MODULE RoutingProofs ----------------------------
(***************************************************************************)
(* Who is asked, who is asked late and who pays: ImplementsFallback,       *)
(* DemotedOnlyIfRefused and BilledAsServed, for any chain, callers, keys,  *)
(* approvals and number of requests.                                       *)
(*                                                                         *)
(* A mark is never newer than the last refusal (MarksOK), so a rung that   *)
(* creditLast sends to the back on a mark of less than a cooldown ago had  *)
(* its refusal within a cooldown of the call's beginning, and what is      *)
(* refused later only moves that refusal nearer (RungOK).  And a recorder  *)
(* that is set before the first answer of a request would let its source   *)
(* and its bill disagree; it never is (NothingYet).                        *)
(*                                                                         *)
(* A call's list of rungs holds each of those that stand open to it once,  *)
(* and creditLast only permutes it (WalkInv): what lies from the place of  *)
(* the call on is what Fallback has left to ask.                           *)
(***************************************************************************)
EXTENDS Routing, ChainLemmas

Labels == {"pc", "caller", "order", "funded", "back", "pos", "began", "at", "broke", "wire",
           "hung", "round", "source", "own", "gateway", "charged", "result"}

Fields(q) == DOMAIN q = Labels

\* The refusals that move a rung of a call, which began at some time, to the back.
RungOK(g, began, ref) ==
    /\ Gateway(g) /\ g.prov \in Providers
    /\ ref[g.prov] # Never /\ ref[g.prov] + Cooldown > began

BackOK(q, time, ref) ==
    /\ q.began \in Nat /\ q.began <= time
    /\ q.back \in Seq(Range(q.back))
    /\ \A g \in Range(q.back) : RungOK(g, q.began, ref)

NothingYet(q) == q.pc # "idle" /\ q.own + q.gateway = 0 => q.source = "none"

Billed(q) ==
    q.pc = "idle" /\ q.own + q.gateway <= 1 /\ ~q.hung =>
        q.charged = (IF q.result = "answered" THEN q.gateway ELSE 0)

BillOK(q) == q.own \in Nat /\ q.gateway \in Nat /\ NothingYet(q) /\ Billed(q)

ReqOK(q, time, ref) == Fields(q) /\ BackOK(q, time, ref) /\ BillOK(q)

MarksOK(time, marks, ref) ==
    /\ time \in Nat \ {0}
    /\ marks \in [Providers -> Nat] /\ ref \in [Providers -> Nat]
    /\ \A p \in Providers : marks[p] <= ref[p] /\ ref[p] <= time

RoutingInv ==
    /\ MarksOK(now, drained, refused)
    /\ DOMAIN req = Requests
    /\ \A r \in Requests : ReqOK(req[r], now, refused)

\* Time and refusals only move forward.
Later == now' >= now /\ \A p \in Providers : refused'[p] >= refused[p]

-----------------------------------------------------------------------------
\* What the operators on a request make of it.
LEMMA NoRungs == <<>> \in Seq(Range(<<>>)) /\ Range(<<>>) = {}
<1>1. DOMAIN <<>> = {}
  OBVIOUS
<1>2. Range(<<>>) = {}
  BY <1>1 DEF Range
<1> QED
  BY <1>2, EmptySeq

LEMMA OneMore ==
    ASSUME NEW s, s \in Seq(Range(s)), NEW g
    PROVE  /\ Append(s, g) \in Seq(Range(Append(s, g)))
           /\ Range(Append(s, g)) = Range(s) \cup {g}
<1> DEFINE S == Range(s) \cup {g}
           t == Append(s, g)
<1>1. s \in Seq(S) /\ g \in S
  BY SeqMonotonic
<1>2. t \in Seq(S) /\ Len(t) = Len(s) + 1 /\ \A i \in 1 .. Len(s) : t[i] = s[i]
  BY <1>1, AppendProperties
<1>3. t[Len(s) + 1] = g /\ Len(s) \in Nat /\ DOMAIN s = 1 .. Len(s) /\ DOMAIN t = 1 .. Len(t)
  BY <1>1, <1>2, AppendProperties, LenProperties
<1>4. Range(t) = S
  BY <1>2, <1>3 DEF Range
<1> QED
  BY <1>2, <1>4

LEMMA NothingBehind ==
    ASSUME NEW q, NEW time, NEW ref, q.began \in Nat, q.began <= time, q.back = <<>>
    PROVE  BackOK(q, time, ref)
<1>1. Range(q.back) = {}
  BY NoRungs
<1>2. q.back \in Seq(Range(q.back))
  BY <1>1, EmptySeq
<1> QED
  BY <1>1, <1>2 DEF BackOK

LEMMA FreshFields ==
    ASSUME NEW c
    PROVE  Fields(Fresh(c))
BY DEF Fresh, Fields, Labels

LEMMA RoutedFields ==
    ASSUME NEW q, Fields(q)
    PROVE  /\ Fields(Routed(q))
           /\ Routed(q).pc \in {"call", "sort"} /\ Routed(q).back = <<>> /\ Routed(q).began = now
           /\ Routed(q).own = q.own /\ Routed(q).gateway = q.gateway /\ Routed(q).source = q.source
<1> DEFINE order == ChatAttempts(q.caller, primary)
<1>1. Routed(q) = [q EXCEPT !.pc = IF order = <<>> THEN "call" ELSE "sort", !.order = order,
                            !.funded = <<>>, !.back = <<>>, !.pos = 1, !.began = now,
                            !.result = "trying"]
  BY DEF Routed
<1> HIDE DEF order
<1> QED
  BY <1>1 DEF Fields, Labels

LEMMA DoneFields ==
    ASSUME NEW q, Fields(q), NEW res
    PROVE  /\ Fields(Done(q, res))
           /\ Done(q, res).pc = "idle" /\ Done(q, res).back = <<>> /\ Done(q, res).began = 0
           /\ Done(q, res).own = q.own /\ Done(q, res).gateway = q.gateway
           /\ Done(q, res).hung = q.hung /\ Done(q, res).charged = q.charged
           /\ Done(q, res).result = res
BY FreshFields DEF Fields, Done, Fresh, Labels

LEMMA WorkedFields ==
    ASSUME NEW q, Fields(q), q.own \in Nat, q.gateway \in Nat
    PROVE  LET w == Worked(q) IN
           /\ Fields(w) /\ w.pc = q.pc /\ w.source = q.source /\ w.hung = q.hung /\ w.at = q.at
           /\ w.back = q.back /\ w.began = q.began
           /\ w.own = (IF Gateway(q.at) THEN q.own ELSE q.own + 1)
           /\ w.gateway = (IF Gateway(q.at) THEN q.gateway + 1 ELSE q.gateway)
BY DEF Fields, Worked, Labels

LEMMA RecordedFields ==
    ASSUME NEW q, Fields(q)
    PROVE  LET w == Recorded(q) IN
           /\ Fields(w) /\ w.pc = q.pc /\ w.hung = q.hung /\ w.at = q.at
           /\ w.own = q.own /\ w.gateway = q.gateway
           /\ w.back = q.back /\ w.began = q.began
           /\ w.source = (IF q.source # "none" THEN q.source
                          ELSE IF Gateway(q.at) THEN "gateway" ELSE "caller")
BY DEF Fields, Recorded, Labels

LEMMA BrokenFields ==
    ASSUME NEW q, Fields(q)
    PROVE  LET w == Broken(q) IN
           /\ Fields(w) /\ w.own = q.own /\ w.gateway = q.gateway /\ w.hung = q.hung
           /\ ~q.hung => w.charged = 0
BY DEF Fields, Broken, Labels

-----------------------------------------------------------------------------
\* A refusal is forgotten by nobody, and only a newer one takes its place.
LEMMA RungLasts ==
    ASSUME MarksOK(now, drained, refused), MarksOK(now', drained', refused'), Later,
           NEW g, NEW began \in Nat, RungOK(g, began, refused)
    PROVE  RungOK(g, began, refused')
<1> DEFINE old == refused[g.prov]
           new == refused'[g.prov]
<1>1. g.prov \in Providers /\ Gateway(g) /\ old # 0 /\ old + Cooldown > began
  BY DEF RungOK, Never
<1>2. old \in Nat /\ new \in Nat /\ new >= old
  BY <1>1 DEF MarksOK, Later
<1>3. Cooldown \in Nat
  BY RoutingAssumption
<1> HIDE DEF old, new
<1>4. new # 0 /\ new + Cooldown > began
  BY <1>1, <1>2, <1>3
<1> QED
  BY <1>1, <1>4 DEF RungOK, Never, new

LEMMA BackLasts ==
    ASSUME MarksOK(now, drained, refused), MarksOK(now', drained', refused'), Later,
           NEW q, BackOK(q, now, refused)
    PROVE  BackOK(q, now', refused')
<1>1. q.began \in Nat /\ q.began <= now /\ q.back \in Seq(Range(q.back))
  BY DEF BackOK
<1>2. q.began <= now'
  BY <1>1 DEF Later, MarksOK
<1>3. \A g \in Range(q.back) : RungOK(g, q.began, refused')
  BY <1>1, RungLasts DEF BackOK
<1> QED
  BY <1>1, <1>2, <1>3 DEF BackOK

\* A request that was right stays right when it is not touched, and when it is
\* touched in a field neither property looks at.
LEMMA SameCore ==
    ASSUME RoutingInv, Later, MarksOK(now', drained', refused'),
           NEW q, ReqOK(q, now, refused), q.pc # "idle",
           NEW n, Fields(n), n.pc # "idle", n.back = q.back, n.began = q.began,
           n.own = q.own, n.gateway = q.gateway, n.source = q.source
    PROVE  ReqOK(n, now', refused')
<1>1. BackOK(n, now', refused')
  <2>1. BackOK(q, now', refused')
    BY BackLasts DEF RoutingInv, ReqOK
  <2> QED
    BY <2>1 DEF BackOK
<1>2. BillOK(n)
  BY DEF ReqOK, BillOK, NothingYet, Billed
<1> QED
  BY <1>1, <1>2 DEF ReqOK

LEMMA Untouched ==
    ASSUME RoutingInv, Later, MarksOK(now', drained', refused'),
           NEW q, ReqOK(q, now, refused)
    PROVE  ReqOK(q, now', refused')
<1>1. BackOK(q, now', refused')
  BY BackLasts DEF RoutingInv, ReqOK
<1> QED
  BY <1>1 DEF ReqOK

LEMMA OneRequest ==
    ASSUME RoutingInv, Later, MarksOK(now', drained', refused'),
           NEW r \in Requests, NEW n, req' = [req EXCEPT ![r] = n],
           ReqOK(n, now', refused')
    PROVE  RoutingInv'
<1>1. DOMAIN req' = Requests /\ req'[r] = n
  BY DEF RoutingInv
<1>2. ASSUME NEW x \in Requests
      PROVE  ReqOK(req'[x], now', refused')
  <2>1. CASE x = r
    BY <2>1, <1>1
  <2>2. CASE x # r
    BY <2>2, Untouched DEF RoutingInv
  <2> QED
    BY <2>1, <2>2
<1> QED
  BY <1>1, <1>2 DEF RoutingInv

LEMMA ItIsRouted ==
    ASSUME RoutingInv, NEW q, Fields(q), q.own \in Nat, q.gateway \in Nat,
           q.own + q.gateway = 0 => q.source = "none"
    PROVE  ReqOK(Routed(q), now, refused)
<1>1. BackOK(Routed(q), now, refused)
  BY RoutedFields, NothingBehind DEF RoutingInv, MarksOK
<1>2. BillOK(Routed(q))
  BY RoutedFields DEF BillOK, NothingYet, Billed
<1> QED
  BY <1>1, <1>2, RoutedFields DEF ReqOK

LEMMA ItIsDone ==
    ASSUME NEW time \in Nat, NEW ref, NEW q, Fields(q), q.own \in Nat, q.gateway \in Nat,
           NEW res \in {"answered", "failed", "cut"},
           q.own + q.gateway <= 1 /\ ~q.hung =>
               q.charged = (IF res = "answered" THEN q.gateway ELSE 0)
    PROVE  ReqOK(Done(q, res), time, ref)
<1>1. BackOK(Done(q, res), time, ref)
  BY DoneFields, NothingBehind
<1>2. BillOK(Done(q, res))
  BY DoneFields DEF BillOK, NothingYet, Billed
<1> QED
  BY <1>1, <1>2, DoneFields DEF ReqOK

-----------------------------------------------------------------------------
\* One step of a request each.
LEMMA StillMarks ==
    ASSUME RoutingInv, UNCHANGED <<now, drained, refused>>
    PROVE  Later /\ MarksOK(now', drained', refused')
BY DEF RoutingInv, MarksOK, Later

LEMMA ArriveKeeps ==
    ASSUME RoutingInv, NEW r \in Requests, NEW c \in Callers, Arrive(r, c)
    PROVE  RoutingInv'
<1> DEFINE n == Routed(Fresh(c))
<1>1. Fields(Fresh(c)) /\ Fresh(c).own = 0 /\ Fresh(c).gateway = 0 /\ Fresh(c).source = "none"
  BY FreshFields DEF Fresh
<1>2. ReqOK(n, now, refused)
  BY <1>1, ItIsRouted
<1>3. req' = [req EXCEPT ![r] = n] /\ UNCHANGED <<now, drained, refused>>
  BY DEF Arrive
<1> HIDE DEF n
<1>4. ReqOK(n, now', refused')
  BY <1>2, <1>3
<1> QED
  BY <1>3, <1>4, StillMarks, OneRequest

LEMMA NextRoundKeeps ==
    ASSUME RoutingInv, NEW r \in Requests, NextRound(r)
    PROVE  RoutingInv'
<1> DEFINE n == Routed(req[r])
<1>1. ReqOK(req[r], now, refused) /\ req[r].pc = "tools"
  BY DEF RoutingInv, NextRound
<1>2. ReqOK(n, now, refused)
  BY <1>1, ItIsRouted DEF ReqOK, BillOK, NothingYet
<1>3. req' = [req EXCEPT ![r] = n] /\ UNCHANGED <<now, drained, refused>>
  BY DEF NextRound
<1> HIDE DEF n
<1>4. ReqOK(n, now', refused')
  BY <1>2, <1>3
<1> QED
  BY <1>3, <1>4, StillMarks, OneRequest

LEMMA SortKeeps ==
    ASSUME RoutingInv, NEW r \in Requests, Sort(r)
    PROVE  RoutingInv'
<1> DEFINE q == req[r]
           g == q.order[q.pos]
           last == q.pos = Len(q.order)
           moves == Gateway(g) /\ Available(q.caller, g) /\ Marked(g.prov)
           s == Split(q, g)
           n == [s EXCEPT !.pc = IF last THEN "call" ELSE "sort",
                          !.pos = IF last THEN 1 ELSE @ + 1]
<1>1. ReqOK(q, now, refused) /\ q.pc = "sort"
  BY DEF RoutingInv, Sort
<1>2. req' = [req EXCEPT ![r] = n] /\ UNCHANGED <<now, refused>>
  BY DEF Sort
<1>3. drained' \in [Providers -> Nat] /\ \A p \in Providers : drained'[p] <= drained[p]
  <2>1. drained' = drained \/ drained' = [drained EXCEPT ![g.prov] = 0]
    BY DEF Sort, Never
  <2>2. drained \in [Providers -> Nat]
    BY DEF RoutingInv, MarksOK
  <2> HIDE DEF q, g
  <2> QED
    BY <2>1, <2>2
<1>4. Later /\ MarksOK(now', drained', refused')
  BY <1>2, <1>3 DEF RoutingInv, MarksOK, Later
<1>5. /\ Fields(s) /\ s.began = q.began /\ s.own = q.own /\ s.gateway = q.gateway
      /\ s.source = q.source /\ s.back = IF moves THEN Append(q.back, g) ELSE q.back
  BY <1>1 DEF ReqOK, Fields, Split, Labels
<1>6. moves => RungOK(g, q.began, refused)
  <2> SUFFICES ASSUME moves PROVE RungOK(g, q.began, refused)
    OBVIOUS
  <2>1. Gateway(g) /\ g.prov \in Providers
    BY RoutingAssumption DEF Available
  <2>2. drained[g.prov] # 0 /\ now - drained[g.prov] < Cooldown
    BY DEF Marked, Never
  <2>3. /\ drained[g.prov] \in Nat /\ refused[g.prov] \in Nat /\ now \in Nat
        /\ drained[g.prov] <= refused[g.prov] /\ q.began \in Nat /\ q.began <= now
    BY <1>1, <2>1 DEF RoutingInv, MarksOK, ReqOK, BackOK
  <2> HIDE DEF q, g
  <2> QED
    BY <2>1, <2>2, <2>3, RoutingAssumption DEF RungOK, Never
<1>7. BackOK(s, now, refused)
  <2>1. q.back \in Seq(Range(q.back)) /\ \A x \in Range(q.back) : RungOK(x, q.began, refused)
    BY <1>1 DEF ReqOK, BackOK
  <2>2. s.back \in Seq(Range(s.back)) /\ \A x \in Range(s.back) : RungOK(x, q.began, refused)
    <3> HIDE DEF q, g, moves, s
    <3>1. CASE moves
      <4>1. s.back = Append(q.back, g)
        BY <3>1, <1>5
      <4>2. s.back \in Seq(Range(s.back)) /\ Range(s.back) = Range(q.back) \cup {g}
        BY <4>1, <2>1, OneMore
      <4> QED
        BY <4>2, <3>1, <1>6, <2>1
    <3>2. CASE ~moves
      BY <3>2, <1>5, <2>1
    <3> QED
      BY <3>1, <3>2
  <2> QED
    BY <1>1, <1>5, <2>2 DEF ReqOK, BackOK
<1>8. /\ Fields(n) /\ n.pc \in {"call", "sort"} /\ n.began = s.began /\ n.own = s.own
      /\ n.gateway = s.gateway /\ n.source = s.source /\ n.back = s.back
  <2> HIDE DEF s, last
  <2> QED
    BY <1>5 DEF Fields, Labels
<1> HIDE DEF n, s, q, g, moves, last
<1>9. ReqOK(n, now', refused')
  <2>1. BackOK(n, now', refused')
    BY <1>2, <1>7, <1>8 DEF BackOK
  <2>2. BillOK(n)
    BY <1>1, <1>5, <1>8 DEF ReqOK, BillOK, NothingYet, Billed
  <2> QED
    BY <2>1, <2>2, <1>8 DEF ReqOK
<1> QED
  BY <1>2, <1>4, <1>9, OneRequest

LEMMA SkipKeeps ==
    ASSUME RoutingInv, NEW r \in Requests, Skip(r)
    PROVE  RoutingInv'
<1> DEFINE q == req[r]
           n == [q EXCEPT !.pos = @ + 1]
<1>1. ReqOK(q, now, refused) /\ q.pc = "call"
  BY DEF RoutingInv, Skip
<1>2. req' = [req EXCEPT ![r] = n] /\ UNCHANGED <<now, drained, refused>>
  BY DEF Skip
<1>3. /\ Fields(n) /\ n.pc # "idle" /\ n.back = q.back /\ n.began = q.began
      /\ n.own = q.own /\ n.gateway = q.gateway /\ n.source = q.source
  BY <1>1 DEF ReqOK, Fields, Labels
<1> HIDE DEF n
<1>4. ReqOK(n, now', refused')
  BY <1>1, <1>2, <1>3, StillMarks, SameCore
<1> QED
  BY <1>2, <1>4, StillMarks, OneRequest

LEMMA CallKeeps ==
    ASSUME RoutingInv, NEW r \in Requests, NEW broke \in BOOLEAN, Call(r, broke)
    PROVE  RoutingInv'
<1> DEFINE q == req[r]
           n == [q EXCEPT !.pc = "wait", !.at = Rungs(q)[q.pos], !.broke = broke, !.pos = @ + 1]
<1>1. ReqOK(q, now, refused) /\ q.pc = "call"
  BY DEF RoutingInv, Call
<1>2. req' = [req EXCEPT ![r] = n] /\ UNCHANGED <<now, drained, refused>>
  BY DEF Call
<1>3. /\ Fields(n) /\ n.pc # "idle" /\ n.back = q.back /\ n.began = q.began
      /\ n.own = q.own /\ n.gateway = q.gateway /\ n.source = q.source
  BY <1>1 DEF ReqOK, Fields, Labels
<1> HIDE DEF n
<1>4. ReqOK(n, now', refused')
  BY <1>1, <1>2, <1>3, StillMarks, SameCore
<1> QED
  BY <1>2, <1>4, StillMarks, OneRequest

LEMMA FirstByteKeeps ==
    ASSUME RoutingInv, NEW r \in Requests, FirstByte(r)
    PROVE  RoutingInv'
<1> DEFINE q == req[r]
           n == [q EXCEPT !.wire = TRUE]
<1>1. ReqOK(q, now, refused) /\ q.pc = "wait"
  BY DEF RoutingInv, FirstByte
<1>2. req' = [req EXCEPT ![r] = n] /\ UNCHANGED <<now, drained, refused>>
  BY DEF FirstByte
<1>3. /\ Fields(n) /\ n.pc # "idle" /\ n.back = q.back /\ n.began = q.began
      /\ n.own = q.own /\ n.gateway = q.gateway /\ n.source = q.source
  BY <1>1 DEF ReqOK, Fields, Labels
<1> HIDE DEF n
<1>4. ReqOK(n, now', refused')
  BY <1>1, <1>2, <1>3, StillMarks, SameCore
<1> QED
  BY <1>2, <1>4, StillMarks, OneRequest

LEMMA EmptyKeeps ==
    ASSUME RoutingInv, NEW r \in Requests, Empty(r)
    PROVE  RoutingInv'
<1> DEFINE q == req[r]
           n == [q EXCEPT !.pc = "call", !.at = NoRung]
<1>1. ReqOK(q, now, refused) /\ q.pc = "wait"
  BY DEF RoutingInv, Empty
<1>2. req' = [req EXCEPT ![r] = n] /\ UNCHANGED <<now, drained, refused>>
  BY DEF Empty
<1>3. /\ Fields(n) /\ n.pc # "idle" /\ n.back = q.back /\ n.began = q.began
      /\ n.own = q.own /\ n.gateway = q.gateway /\ n.source = q.source
  BY <1>1 DEF ReqOK, Fields, Labels
<1> HIDE DEF n
<1>4. ReqOK(n, now', refused')
  BY <1>1, <1>2, <1>3, StillMarks, SameCore
<1> QED
  BY <1>2, <1>4, StillMarks, OneRequest

LEMMA HangUpKeeps ==
    ASSUME RoutingInv, NEW r \in Requests, HangUp(r)
    PROVE  RoutingInv'
<1> DEFINE q == req[r]
           n == [q EXCEPT !.hung = TRUE]
<1>1. ReqOK(q, now, refused) /\ q.pc = "wait"
  BY DEF RoutingInv, HangUp
<1>2. req' = [req EXCEPT ![r] = n] /\ UNCHANGED <<now, drained, refused>>
  BY DEF HangUp
<1>3. /\ Fields(n) /\ n.pc # "idle" /\ n.back = q.back /\ n.began = q.began
      /\ n.own = q.own /\ n.gateway = q.gateway /\ n.source = q.source
  BY <1>1 DEF ReqOK, Fields, Labels
<1> HIDE DEF n
<1>4. ReqOK(n, now', refused')
  BY <1>1, <1>2, <1>3, StillMarks, SameCore
<1> QED
  BY <1>2, <1>4, StillMarks, OneRequest

LEMMA FailKeeps ==
    ASSUME RoutingInv, NEW r \in Requests, Fail(r)
    PROVE  RoutingInv'
<1> DEFINE q == req[r]
           next == [q EXCEPT !.pc = "call", !.at = NoRung, !.broke = FALSE]
           cut == Done(Broken(Worked(q)), "cut")
           n == IF q.wire THEN cut ELSE next
<1>1. ReqOK(q, now, refused) /\ q.pc = "wait" /\ now \in Nat \ {0}
  BY DEF RoutingInv, MarksOK, Fail
<1>2. req' = [req EXCEPT ![r] = n] /\ now' = now
  BY DEF Fail
<1>3. Later /\ MarksOK(now', drained', refused')
  <2> DEFINE p == q.at.prov
  <2>1. \/ drained' = drained /\ refused' = refused
        \/ drained' = [drained EXCEPT ![p] = now] /\ refused' = [refused EXCEPT ![p] = now]
    BY DEF Fail
  <2>2. MarksOK(now, drained, refused)
    BY DEF RoutingInv
  <2> HIDE DEF p, q
  <2> QED
    BY <1>2, <2>1, <2>2 DEF MarksOK, Later
<1>4. ReqOK(next, now', refused')
  <2>1. /\ Fields(next) /\ next.pc # "idle" /\ next.back = q.back /\ next.began = q.began
        /\ next.own = q.own /\ next.gateway = q.gateway /\ next.source = q.source
    BY <1>1 DEF ReqOK, Fields, Labels
  <2> HIDE DEF next, q
  <2> QED
    BY <1>1, <1>3, <2>1, SameCore
<1>5. ReqOK(cut, now', refused')
  <2> DEFINE w == Worked(q)
             b == Broken(w)
  <2>1. Fields(q) /\ q.own \in Nat /\ q.gateway \in Nat
    BY <1>1 DEF ReqOK, BillOK
  <2>2. Fields(w) /\ w.own \in Nat /\ w.gateway \in Nat
    BY <2>1, WorkedFields
  <2> HIDE DEF w
  <2>3. Fields(b) /\ b.own \in Nat /\ b.gateway \in Nat /\ (~b.hung => b.charged = 0)
    BY <2>2, BrokenFields
  <2> HIDE DEF b
  <2>4. ReqOK(Done(b, "cut"), now, refused')
    BY <1>1, <2>3, ItIsDone
  <2> QED
    BY <1>2, <2>4 DEF b, w
<1>6. ReqOK(n, now', refused')
  BY <1>4, <1>5
<1> HIDE DEF n
<1> QED
  BY <1>2, <1>3, <1>6, OneRequest

LEMMA GiveUpKeeps ==
    ASSUME RoutingInv, NEW r \in Requests, GiveUp(r)
    PROVE  RoutingInv'
<1> DEFINE q == req[r]
           b == Broken(q)
           n == Done(b, "failed")
<1>1. Fields(q) /\ q.own \in Nat /\ q.gateway \in Nat /\ now \in Nat
  BY DEF RoutingInv, MarksOK, ReqOK, BillOK
<1>2. req' = [req EXCEPT ![r] = n] /\ UNCHANGED <<now, drained, refused>>
  BY DEF GiveUp
<1>3. Fields(b) /\ b.own \in Nat /\ b.gateway \in Nat /\ (~b.hung => b.charged = 0)
  BY <1>1, BrokenFields
<1> HIDE DEF b
<1>4. ReqOK(n, now, refused)
  BY <1>1, <1>3, ItIsDone
<1> HIDE DEF n
<1>5. ReqOK(n, now', refused')
  BY <1>2, <1>4
<1> QED
  BY <1>2, <1>5, StillMarks, OneRequest

\* The first answer of a request is recorded under the key that gave it.
LEMMA ServeKeeps ==
    ASSUME RoutingInv, NEW r \in Requests, NEW more \in BOOLEAN, Serve(r, more)
    PROVE  RoutingInv'
<1> DEFINE q == req[r]
           w == Worked(q)
           served == Recorded(w)
           bill == Charge(served.source, served.own + served.gateway)
           billed == [served EXCEPT !.charged = bill]
           again == [served EXCEPT !.pc = "tools", !.round = @ + 1, !.at = NoRung,
                                   !.result = "answered"]
           n == IF more THEN again ELSE Done(billed, "answered")
<1>1. /\ ReqOK(q, now, refused) /\ q.pc = "wait" /\ now \in Nat
      /\ Fields(q) /\ q.own \in Nat /\ q.gateway \in Nat
  BY DEF RoutingInv, MarksOK, ReqOK, BillOK, Serve
<1>2. req' = [req EXCEPT ![r] = n] /\ UNCHANGED <<now, refused>>
  BY DEF Serve
<1>3. Later /\ MarksOK(now', drained', refused')
  <2> DEFINE p == q.at.prov
  <2>1. drained' = drained \/ drained' = [drained EXCEPT ![p] = 0]
    BY DEF Serve, Never
  <2>2. MarksOK(now, drained, refused)
    BY DEF RoutingInv
  <2> HIDE DEF p, q
  <2> QED
    BY <1>2, <2>1, <2>2 DEF MarksOK, Later
<1>4. /\ Fields(w) /\ w.pc = "wait" /\ w.source = q.source /\ w.at = q.at
      /\ w.back = q.back /\ w.began = q.began
      /\ w.own = (IF Gateway(q.at) THEN q.own ELSE q.own + 1)
      /\ w.gateway = (IF Gateway(q.at) THEN q.gateway + 1 ELSE q.gateway)
  BY <1>1, WorkedFields
<1> HIDE DEF w
<1>5. /\ Fields(served) /\ served.back = q.back /\ served.began = q.began
      /\ served.own = w.own /\ served.gateway = w.gateway
      /\ served.source = (IF q.source # "none" THEN q.source
                          ELSE IF Gateway(q.at) THEN "gateway" ELSE "caller")
  BY <1>4, RecordedFields
<1>6. q.own + q.gateway = 0 => q.source = "none"
  BY <1>1 DEF ReqOK, BillOK, NothingYet
<1> HIDE DEF q, served
<1>7. served.own \in Nat /\ served.gateway \in Nat /\ served.own + served.gateway >= 1
  BY <1>1, <1>4, <1>5
<1>8. ReqOK(again, now, refused)
  <2>1. /\ Fields(again) /\ again.pc = "tools" /\ again.back = q.back /\ again.began = q.began
        /\ again.own = served.own /\ again.gateway = served.gateway
    BY <1>5 DEF Fields, Labels
  <2> HIDE DEF again
  <2>2. BackOK(again, now, refused)
    BY <1>1, <2>1 DEF ReqOK, BackOK
  <2>3. BillOK(again)
    BY <1>7, <2>1 DEF BillOK, NothingYet, Billed
  <2> QED
    BY <2>1, <2>2, <2>3 DEF ReqOK
<1>9. ReqOK(Done(billed, "answered"), now, refused)
  <2>1. /\ Fields(billed) /\ billed.charged = bill
        /\ billed.own = served.own /\ billed.gateway = served.gateway
    BY <1>5 DEF Fields, Labels
  <2>2. served.own + served.gateway <= 1 => bill = served.gateway
    BY <1>1, <1>4, <1>5, <1>6, <1>7 DEF Charge
  <2> HIDE DEF billed, bill
  <2> QED
    BY <1>1, <1>7, <2>1, <2>2, ItIsDone
<1>10. ReqOK(n, now', refused')
  BY <1>2, <1>8, <1>9
<1> HIDE DEF n
<1> QED
  BY <1>2, <1>3, <1>10, OneRequest

-----------------------------------------------------------------------------
LEMMA AnyStep ==
    ASSUME RoutingInv, [Next]_vars
    PROVE  RoutingInv'
<1>1. ASSUME NEW r \in Requests, NEW c \in Callers, Arrive(r, c)
      PROVE  RoutingInv'
  BY <1>1, ArriveKeeps
<1>2. ASSUME NEW r \in Requests, Step(r)
      PROVE  RoutingInv'
  BY <1>2, NextRoundKeeps, SortKeeps, SkipKeeps, GiveUpKeeps, CallKeeps, ServeKeeps,
     FailKeeps, EmptyKeeps DEF Step
<1>3. ASSUME NEW r \in Requests, FirstByte(r) \/ HangUp(r)
      PROVE  RoutingInv'
  BY <1>3, FirstByteKeeps, HangUpKeeps
<1>4. ASSUME UNCHANGED <<drained, refused, req>>, now' = now \/ now' = now + 1
      PROVE  RoutingInv'
  <2>1. Later /\ MarksOK(now', drained', refused')
    BY <1>4 DEF RoutingInv, MarksOK, Later
  <2>2. \A r \in Requests : ReqOK(req[r], now', refused')
    BY <2>1, Untouched DEF RoutingInv
  <2> QED
    BY <1>4, <2>1, <2>2 DEF RoutingInv
<1>5. CASE UNCHANGED vars
  BY <1>4, <1>5 DEF vars
<1>6. ASSUME NEW k \in Chosen, SetPrimary(k)
      PROVE  RoutingInv'
  BY <1>4, <1>6 DEF SetPrimary
<1>7. CASE Tick
  BY <1>4, <1>7 DEF Tick
<1> QED
  BY <1>1, <1>2, <1>3, <1>5, <1>6, <1>7 DEF Next

LEMMA AtFirst == Init => RoutingInv
<1> SUFFICES ASSUME Init PROVE RoutingInv
  OBVIOUS
<1>1. MarksOK(now, drained, refused)
  BY DEF Init, MarksOK, Never
<1>2. ASSUME NEW c
      PROVE  ReqOK(Fresh(c), now, refused)
  <2>1. /\ Fresh(c).back = <<>> /\ Fresh(c).began = 0 /\ Fresh(c).own = 0 /\ Fresh(c).gateway = 0
        /\ Fresh(c).source = "none" /\ Fresh(c).result = "none" /\ Fresh(c).charged = 0
    BY DEF Fresh
  <2>2. BackOK(Fresh(c), now, refused)
    BY <1>1, <2>1, NothingBehind DEF MarksOK
  <2>3. BillOK(Fresh(c))
    BY <2>1 DEF BillOK, NothingYet, Billed
  <2> QED
    BY <2>2, <2>3, FreshFields DEF ReqOK
<1>3. DOMAIN req = Requests /\ \A r \in Requests : \E c : req[r] = Fresh(c)
  BY DEF Init
<1> QED
  BY <1>1, <1>2, <1>3 DEF RoutingInv

\* Marks are no newer than refusals, and every request is where its locals say
\* (Chat, ChatStream, runToolLoop).
THEOREM Always == Spec => []RoutingInv
BY AtFirst, AnyStep, PTL DEF Spec

\* DemotedOnlyIfRefused: whatever calls mark and clear meanwhile, a rung is asked
\* behind a later one only for a refusal of the gateway's own key for its provider,
\* within a cooldown of the call's beginning or during it (creditLast).
THEOREM CreditReordersOnly == Spec => []DemotedOnlyIfRefused
<1>1. RoutingInv => DemotedOnlyIfRefused
  BY DEF RoutingInv, ReqOK, BackOK, RungOK, DemotedOnlyIfRefused
<1> QED
  BY <1>1, Always, PTL

\* BilledAsServed: after whatever failures, on whichever keys, one answer costs its
\* caller the gateway's work and nothing else (served, charge, recordBrokenUsage).
THEOREM OneAnswerIsBilledAsServed == Spec => []BilledAsServed
<1>1. RoutingInv => BilledAsServed
  BY DEF RoutingInv, ReqOK, BillOK, Billed, BilledAsServed
<1> QED
  BY <1>1, Always, PTL
-----------------------------------------------------------------------------
(***************************************************************************)
(* Fallback: every rung offered is asked at most once, and a call fails    *)
(* only when all of them did.  The walk along the rungs (WalkOK) is what   *)
(* it rests on: while creditLast sorts, front and back hold what was seen  *)
(* of the order and no rung twice; afterwards what is left is what lies    *)
(* ahead.                                                                  *)
(***************************************************************************)

\* The hypothesis: no entry of the registry names a provider twice, as none of
\* config.default.yaml does; attempts would ask it twice.
ServedOnce == \A t \in DOMAIN Chain : IsInjective(Chain[t].serves)

\* A list of rungs, none of them twice.
Walk(s) == s \in Seq(Rung) /\ IsInjective(s)

Sorting(q) ==
    /\ Walk(q.order) /\ q.pos \in 1 .. Len(q.order)
    /\ Walk(q.funded) /\ Walk(q.back) /\ Range(q.funded) \cap Range(q.back) = {}
    /\ Range(q.funded) \cup Range(q.back) = {q.order[i] : i \in 1 .. q.pos - 1}

Walking(q) == Walk(Rungs(q)) /\ q.pos \in 1 .. Len(Rungs(q)) + 1

WalkOK(q) ==
    /\ Fields(q) /\ q.caller \in Callers /\ q.wire \in BOOLEAN
    /\ q.pc \in {"idle", "sort", "call", "wait", "tools"}
    /\ q.at = NoRung <=> q.pc # "wait"
    /\ q.wire => q.pc = "wait" /\ q.caller.kind = "stream"
    /\ q.result = "trying" <=> q.pc \in {"sort", "call", "wait"}
    /\ q.pc = "sort" => Sorting(q)
    /\ q.pc \in {"call", "wait"} => Walking(q)

WalkInv ==
    /\ primary \in 0 .. Len(Chain) /\ DOMAIN req = Requests
    /\ \A r \in Requests : WalkOK(req[r])

LEMMA Appended ==
    ASSUME NEW s, Walk(s), NEW g \in Rung, g \notin Range(s)
    PROVE  Walk(Append(s, g)) /\ Range(Append(s, g)) = Range(s) \cup {g}
<1> DEFINE t == Append(s, g)
<1>1. t \in Seq(Rung) /\ Len(t) = Len(s) + 1 /\ \A i \in 1 .. Len(s) : t[i] = s[i]
  BY AppendProperties DEF Walk
<1>2. t[Len(s) + 1] = g /\ Len(s) \in Nat /\ DOMAIN s = 1 .. Len(s) /\ DOMAIN t = 1 .. Len(s) + 1
  BY <1>1, AppendProperties, LenProperties DEF Walk
<1> HIDE DEF t
<1>3. Range(t) = Range(s) \cup {g}
  BY <1>1, <1>2 DEF Range
<1>4. \A i \in 1 .. Len(s) : t[i] \in Range(s)
  BY <1>1, <1>2 DEF Range
<1>5. IsInjective(t)
  <2> SUFFICES ASSUME NEW i \in 1 .. Len(s) + 1, NEW j \in 1 .. Len(s) + 1, t[i] = t[j]
               PROVE  i = j
    BY <1>2 DEF IsInjective
  <2>1. CASE i = Len(s) + 1 \/ j = Len(s) + 1
    BY <2>1, <1>2, <1>4
  <2>2. CASE i # Len(s) + 1 /\ j # Len(s) + 1
    <3>1. i \in 1 .. Len(s) /\ j \in 1 .. Len(s)
      BY <1>2, <2>2
    <3> QED
      BY <3>1, <1>1, <1>2 DEF Walk, IsInjective
  <2> QED
    BY <2>1, <2>2
<1> QED
  BY <1>1, <1>3, <1>5 DEF Walk, t

\* What lies ahead of a place in a list.
Ahead(s, m) == Range(SubSeq(s, m, Len(s)))

LEMMA AheadIs ==
    ASSUME NEW S, NEW s \in Seq(S), NEW m \in 1 .. Len(s) + 1
    PROVE  Ahead(s, m) = {s[i] : i \in m .. Len(s)}
<1> DEFINE t == SubSeq(s, m, Len(s))
<1>0. Len(s) \in Nat
  BY LenProperties
<1>1. /\ Len(t) = (IF m <= Len(s) THEN (Len(s) - m) + 1 ELSE 0)
      /\ t \in Seq(S) /\ \A i \in 1 .. (Len(s) - m) + 1 : t[i] = s[(m + i) - 1]
  <2>1. \A i \in m .. Len(s) : i \in 1 .. Len(s)
    BY <1>0
  <2> QED
    BY <1>0, <2>1, SubSeqProperties
<1>2. DOMAIN t = 1 .. (Len(s) - m) + 1
  BY <1>0, <1>1, LenProperties
<1> HIDE DEF t
<1>3. Range(t) = {t[i] : i \in 1 .. (Len(s) - m) + 1}
  BY <1>2 DEF Range
<1>4. \A i \in 1 .. (Len(s) - m) + 1 : (m + i) - 1 \in m .. Len(s) /\ t[i] = s[(m + i) - 1]
  BY <1>0, <1>1
<1>5. \A j \in m .. Len(s) : (j - m) + 1 \in 1 .. (Len(s) - m) + 1 /\ t[(j - m) + 1] = s[j]
  <2> TAKE j \in m .. Len(s)
  <2>1. (j - m) + 1 \in 1 .. (Len(s) - m) + 1 /\ (m + ((j - m) + 1)) - 1 = j
    BY <1>0
  <2> QED
    BY <1>1, <2>1
<1>6. Range(t) = {s[i] : i \in m .. Len(s)}
  <2>1. ASSUME NEW e \in Range(t) PROVE e \in {s[i] : i \in m .. Len(s)}
    <3>1. PICK i \in 1 .. (Len(s) - m) + 1 : e = t[i]
      BY <1>3
    <3> QED
      BY <1>4, <3>1
  <2>2. ASSUME NEW j \in m .. Len(s) PROVE s[j] \in Range(t)
    <3>1. (j - m) + 1 \in 1 .. (Len(s) - m) + 1 /\ t[(j - m) + 1] = s[j]
      BY <1>5
    <3> QED
      BY <1>3, <3>1
  <2> QED
    BY <2>1, <2>2
<1> QED
  BY <1>6 DEF Ahead, t

LEMMA AheadSteps ==
    ASSUME NEW s, Walk(s)
    PROVE  /\ Ahead(s, 1) = Range(s)
           /\ Ahead(s, Len(s) + 1) = {}
           /\ \A m \in 1 .. Len(s) : /\ s[m] \in Rung /\ Ahead(s, m) = {s[m]} \cup Ahead(s, m + 1)
                                     /\ s[m] \notin Ahead(s, m + 1)
<1>1. s \in Seq(Rung) /\ Len(s) \in Nat /\ DOMAIN s = 1 .. Len(s) /\ IsInjective(s)
      /\ \A i \in 1 .. Len(s) : s[i] \in Rung
  BY LenProperties, ElementOfSeq DEF Walk
<1>2. \A m \in 1 .. Len(s) + 1 : Ahead(s, m) = {s[i] : i \in m .. Len(s)}
  BY <1>1, AheadIs
<1>3. Ahead(s, 1) = Range(s)
  BY <1>1, <1>2 DEF Range
<1>4. Ahead(s, Len(s) + 1) = {}
  BY <1>1, <1>2
<1>5. ASSUME NEW m \in 1 .. Len(s)
      PROVE  Ahead(s, m) = {s[m]} \cup Ahead(s, m + 1) /\ s[m] \notin Ahead(s, m + 1)
  <2>1. Ahead(s, m) = {s[i] : i \in m .. Len(s)} /\ Ahead(s, m + 1) = {s[i] : i \in m + 1 .. Len(s)}
    BY <1>1, <1>2
  <2>2. \A i \in m + 1 .. Len(s) : i # m /\ i \in DOMAIN s
    BY <1>1
  <2>3. s[m] \notin {s[i] : i \in m + 1 .. Len(s)}
    BY <1>1, <2>2 DEF IsInjective
  <2>4. \A i : i \in m .. Len(s) <=> i = m \/ i \in m + 1 .. Len(s)
    BY <1>1
  <2> QED
    BY <2>1, <2>3, <2>4
<1> QED
  BY <1>1, <1>3, <1>4, <1>5

\* The chain attempts builds holds what stands open to the caller, each rung once.
LEMMA ChatOffered ==
    ASSUME ServedOnce, NEW c \in Callers, NEW first \in 0 .. Len(Chain)
    PROVE  /\ Walk(ChatAttempts(c, first))
           /\ {g \in Range(ChatAttempts(c, first)) : Usable(c, g)} = Offered[c]
<1> DEFINE P == DOMAIN Chain
           places == Ordered(Chain, first)
           vendors == [t \in DOMAIN Chain |-> Expand(Chain[t])]
           s == Attempts(c, places, vendors)
           W == Within(c, P, vendors)
<1>1. HasKeys(c) /\ c.keys \in [Providers -> Nat]
  BY RoutingAssumption DEF HasKeys, Caller
<1>2. Chain \in Seq(Target) /\ P \in SUBSET Nat
  BY RoutingAssumption, LenProperties
<1>3. places \in Seq(P) /\ Range(places) = P /\ IsInjective(places)
  BY <1>2, OrderedPlaces, OrderedOnce
<1>4. \A t \in P : vendors[t] = Expand(Chain[t])
  OBVIOUS
<1>5. ASSUME NEW t \in P
      PROVE  vendors[t] \in Seq(Providers) /\ IsInjective(vendors[t])
  <2> DEFINE v == Chain[t].serves
  <2>1. v \in Seq(Providers) /\ IsInjective(v)
    <3>1. Chain[t] \in Target
      BY <1>2, ElementOfSeq, LenProperties
    <3> QED
      BY <3>1 DEF ServedOnce, Target
  <2>2. Expand(Chain[t]) = v \/ Expand(Chain[t]) = Only(v, Live)
    BY DEF Expand
  <2> HIDE DEF v, vendors
  <2>3. Only(v, Live) \in Seq(Providers \cap Live) /\ IsInjective(Only(v, Live))
    BY <2>1, OnlyRange, OnlyOnce
  <2>4. Only(v, Live) \in Seq(Providers)
    BY <2>3, SeqMonotonic
  <2> QED
    BY <1>4, <2>1, <2>2, <2>3, <2>4
<1>6. ChatAttempts(c, first) = s
  BY DEF ChatAttempts
<1> HIDE DEF places, P, vendors
<1>7. s \in Seq(W) /\ IsInjective(s)
      /\ \A g \in W : g.target \in Range(places) /\ g.key <= c.keys[g.prov] => g \in Range(s)
  BY <1>1, <1>2, <1>3, <1>5, AttemptsAreWithin, AttemptsOnce
<1>8. W \subseteq Rung
  BY DEF Within
<1>9. Range(s) \subseteq W
  BY <1>7, RangeEquality, ElementOfSeq DEF Range
<1>10. Walk(s)
  BY <1>7, <1>8, SeqMonotonic DEF Walk
<1> HIDE DEF s
<1>11. ASSUME NEW g, g \in Range(s), Usable(c, g)
       PROVE  g \in Offered[c]
  <2>1. g \in Rung /\ g.target \in P /\ g.prov \in Range(vendors[g.target])
        /\ (Gateway(g) => Mode(c) # "own") /\ (~Gateway(g) => Mode(c) # "global")
    BY <1>9, <1>11 DEF Within
  <2>2. g.prov \in Providers /\ g.key \in Nat /\ c.keys[g.prov] \in Nat
    BY <1>1, <2>1 DEF Rung
  <2>3. g.key <= c.keys[g.prov]
    BY <1>11, <2>2 DEF Usable, Available, Gateway
  <2>4. g \in [target : DOMAIN Chain, prov : {g.prov}, key : 0 .. c.keys[g.prov]]
    BY <2>1, <2>2, <2>3 DEF Rung, P
  <2>5. vendors[g.target] = Expand(Chain[g.target])
    BY <1>4, <2>1
  <2> QED
    BY <1>11, <2>1, <2>2, <2>4, <2>5 DEF Offered
<1>12. ASSUME NEW g, g \in Offered[c]
       PROVE  g \in Range(s) /\ Usable(c, g)
  <2>1. PICK p \in Providers : g \in [target : DOMAIN Chain, prov : {p}, key : 0 .. c.keys[p]]
    BY <1>12 DEF Offered
  <2>2. /\ g.prov \in Range(Expand(Chain[g.target])) /\ Usable(c, g)
        /\ Gateway(g) => Mode(c) # "own"
        /\ ~Gateway(g) => Mode(c) # "global"
    BY <1>12 DEF Offered
  <2>3. c.keys[p] \in Nat /\ g.target \in P /\ g.prov = p /\ g.key <= c.keys[g.prov] /\ g.key \in Nat
        /\ g = [target |-> g.target, prov |-> g.prov, key |-> g.key]
    BY <1>1, <2>1 DEF P
  <2>4. g \in Rung
    BY <1>2, <2>3 DEF Rung
  <2>5. vendors[g.target] = Expand(Chain[g.target])
    BY <1>4, <2>3
  <2>6. g \in W
    BY <2>2, <2>3, <2>4, <2>5 DEF Within
  <2> QED
    BY <1>3, <1>7, <2>2, <2>3, <2>6
<1> QED
  BY <1>6, <1>10, <1>11, <1>12

LEMMA LeftIs ==
    ASSUME NEW q
    PROVE  /\ q.pc = "sort" => Left(q) = {g \in Range(q.order) : Usable(q.caller, g)}
           /\ q.pc \in {"call", "wait"} =>
                  Left(q) = {g \in Ahead(Rungs(q), q.pos) : Usable(q.caller, g)}
           /\ q.pc \in {"idle", "tools"} => Left(q) = {}
BY DEF Left, Ahead

-----------------------------------------------------------------------------
\* What each step makes of the walk, and of what is left.
LEMMA WalkBegins ==
    ASSUME ServedOnce, primary \in 0 .. Len(Chain), NEW q, Fields(q), q.caller \in Callers,
           q.at = NoRung, q.wire = FALSE
    PROVE  LET n == Routed(q) IN
           /\ WalkOK(n) /\ n.caller = q.caller /\ n.at = NoRung /\ n.wire = FALSE
           /\ n.result = "trying" /\ Left(n) = Offered[q.caller]
<1> DEFINE order == ChatAttempts(q.caller, primary)
           n == Routed(q)
<1>1. n = [q EXCEPT !.pc = IF order = <<>> THEN "call" ELSE "sort", !.order = order,
                    !.funded = <<>>, !.back = <<>>, !.pos = 1, !.began = now,
                    !.result = "trying"]
  BY DEF Routed
<1>2. Walk(order) /\ {g \in Range(order) : Usable(q.caller, g)} = Offered[q.caller]
  BY ChatOffered
<1> HIDE DEF order, n
<1>3. /\ Fields(n) /\ n.pc = (IF order = <<>> THEN "call" ELSE "sort") /\ n.order = order
      /\ n.funded = <<>> /\ n.back = <<>> /\ n.pos = 1 /\ n.result = "trying"
      /\ n.caller = q.caller /\ n.at = q.at /\ n.wire = q.wire
  BY <1>1 DEF Fields, Labels
<1>4. Walk(<<>>) /\ Range(<<>>) = {} /\ Len(<<>>) = 0 /\ <<>> \o <<>> = <<>>
  BY NoneOf DEF Walk, IsInjective
<1>5. CASE order = <<>>
  <2>1. n.pc = "call" /\ Rungs(n) = <<>> /\ Offered[q.caller] = {}
    BY <1>2, <1>3, <1>4, <1>5 DEF Rungs
  <2>2. Walking(n)
    BY <1>3, <1>4, <2>1 DEF Walking
  <2>3. Ahead(Rungs(n), n.pos) = {}
    <3>1. Ahead(<<>>, 1) = Range(<<>>)
      BY <1>4, AheadSteps
    <3> QED
      BY <1>3, <1>4, <2>1, <3>1
  <2>4. Left(n) = {}
    BY <2>1, <2>3, LeftIs
  <2> QED
    BY <1>3, <2>1, <2>2, <2>4 DEF WalkOK, n
<1>6. CASE order # <<>>
  <2>1. Len(order) \in Nat \ {0}
    BY <1>2, <1>6, EmptySeq, LenProperties DEF Walk
  <2>2. Sorting(n)
    BY <1>2, <1>3, <1>4, <2>1 DEF Sorting
  <2>3. Left(n) = Offered[q.caller]
    BY <1>2, <1>3, <1>6, LeftIs
  <2> QED
    BY <1>3, <1>6, <2>2, <2>3 DEF WalkOK, n
<1> QED
  BY <1>5, <1>6

\* What the view of a request is made of.
Same(n, q) ==
    /\ n.caller = q.caller /\ n.at = q.at /\ n.wire = q.wire /\ n.result = q.result
    /\ Left(n) = Left(q)

\* creditLast moves a rung and loses none.
LEMMA WalkSorts ==
    ASSUME NEW r \in Requests, WalkOK(req[r]), Sort(r)
    PROVE  \E n : req' = [req EXCEPT ![r] = n] /\ WalkOK(n) /\ Same(n, req[r])
<1> DEFINE q == req[r]
           g == q.order[q.pos]
           last == q.pos = Len(q.order)
           s == Split(q, g)
           n == [s EXCEPT !.pc = IF last THEN "call" ELSE "sort",
                          !.pos = IF last THEN 1 ELSE @ + 1]
           seen == {q.order[i] : i \in 1 .. q.pos - 1}
<1>1. q.pc = "sort" /\ WalkOK(q) /\ req' = [req EXCEPT ![r] = n]
  BY DEF Sort
<1>2. Fields(q) /\ Sorting(q)
  BY <1>1 DEF WalkOK
<1>3. /\ Walk(q.order) /\ q.order \in Seq(Rung) /\ IsInjective(q.order)
      /\ Len(q.order) \in Nat /\ DOMAIN q.order = 1 .. Len(q.order) /\ q.pos \in 1 .. Len(q.order)
      /\ Walk(q.funded) /\ Walk(q.back) /\ Range(q.funded) \cap Range(q.back) = {}
      /\ Range(q.funded) \cup Range(q.back) = seen
  BY <1>2, LenProperties DEF Sorting, Walk
<1>4. g \in Rung /\ g \notin seen /\ seen \cup {g} = {q.order[i] : i \in 1 .. q.pos}
  <2>1. g \in Rung
    BY <1>3, ElementOfSeq
  <2>2. \A i \in 1 .. q.pos - 1 : i \in DOMAIN q.order /\ q.pos \in DOMAIN q.order /\ i # q.pos
    BY <1>3
  <2>3. g \notin seen
    BY <1>3, <2>2 DEF IsInjective
  <2>4. \A i : i \in 1 .. q.pos <=> i = q.pos \/ i \in 1 .. q.pos - 1
    BY <1>3
  <2> QED
    BY <2>1, <2>3, <2>4
<1>5. s = [q EXCEPT !.back = Append(q.back, g)] \/ s = [q EXCEPT !.funded = Append(q.funded, g)]
  BY DEF Split
<1>6. /\ Fields(s) /\ s.pos = q.pos /\ s.order = q.order /\ s.caller = q.caller
      /\ s.at = q.at /\ s.wire = q.wire /\ s.result = q.result
      /\ \/ s.funded = q.funded /\ s.back = Append(q.back, g)
         \/ s.back = q.back /\ s.funded = Append(q.funded, g)
  <2> HIDE DEF s, g, q
  <2> QED
    BY <1>2, <1>5 DEF Fields, Labels
<1> HIDE DEF s
<1>7. /\ Fields(n) /\ n.order = q.order /\ n.caller = q.caller
      /\ n.at = q.at /\ n.wire = q.wire /\ n.result = q.result
      /\ n.funded = s.funded /\ n.back = s.back
      /\ n.pc = (IF last THEN "call" ELSE "sort") /\ n.pos = (IF last THEN 1 ELSE q.pos + 1)
  <2> HIDE DEF last, q
  <2> QED
    BY <1>6 DEF Fields, Labels
<1>8. /\ Walk(s.funded) /\ Walk(s.back) /\ Range(s.funded) \cap Range(s.back) = {}
      /\ Range(s.funded) \cup Range(s.back) = seen \cup {g}
  <2>1. g \notin Range(q.funded) /\ g \notin Range(q.back)
    BY <1>3, <1>4
  <2>2. Walk(Append(q.funded, g)) /\ Range(Append(q.funded, g)) = Range(q.funded) \cup {g}
    BY <1>3, <1>4, <2>1, Appended
  <2>3. Walk(Append(q.back, g)) /\ Range(Append(q.back, g)) = Range(q.back) \cup {g}
    BY <1>3, <1>4, <2>1, Appended
  <2> HIDE DEF g, seen, q
  <2>4. CASE s.funded = q.funded /\ s.back = Append(q.back, g)
    BY <1>3, <2>1, <2>3, <2>4
  <2>5. CASE s.back = q.back /\ s.funded = Append(q.funded, g)
    BY <1>3, <2>1, <2>2, <2>5
  <2> QED
    BY <1>6, <2>4, <2>5
<1> HIDE DEF n
<1>9. CASE ~last
  <2>1. n.pc = "sort" /\ n.pos = q.pos + 1 /\ n.pos - 1 = q.pos /\ n.pos \in 1 .. Len(n.order)
    BY <1>3, <1>7, <1>9
  <2>2. Sorting(n)
    BY <1>3, <1>4, <1>7, <1>8, <2>1 DEF Sorting
  <2>3. Left(n) = Left(q)
    BY <1>1, <1>7, <2>1, LeftIs
  <2> QED
    BY <1>1, <1>7, <2>1, <2>2, <2>3 DEF WalkOK, Same
<1>10. CASE last
  <2> DEFINE f == s.funded
             b == s.back
             u == f \o b
  <2>1. n.pc = "call" /\ n.pos = 1 /\ Rungs(n) = u
    BY <1>7, <1>10 DEF Rungs
  <2>2. Walk(f) /\ Walk(b) /\ Range(f) \cap Range(b) = {}
    BY <1>8
  <2>3. Range(f) \cup Range(b) = Range(q.order)
    BY <1>3, <1>4, <1>8, <1>10 DEF Range
  <2> HIDE DEF f, b
  <2>4. Walk(u) /\ Range(u) = Range(f) \cup Range(b) /\ Len(u) \in Nat
    BY <2>2, Both, ConcatOnce, LenProperties DEF Walk
  <2> HIDE DEF u
  <2>5. Walking(n)
    BY <2>1, <2>4 DEF Walking
  <2>6. Ahead(Rungs(n), n.pos) = Range(q.order)
    BY <2>1, <2>3, <2>4, AheadSteps
  <2>7. Left(n) = Left(q)
    <3>1. Left(n) = {x \in Ahead(Rungs(n), n.pos) : Usable(n.caller, x)}
      BY <2>1, LeftIs
    <3>2. Left(q) = {x \in Range(q.order) : Usable(q.caller, x)}
      BY <1>1, LeftIs
    <3> QED
      BY <1>7, <2>6, <3>1, <3>2
  <2> QED
    BY <1>1, <1>7, <2>1, <2>5, <2>7 DEF WalkOK, Same
<1> QED
  BY <1>9, <1>10

LEMMA WalkSkips ==
    ASSUME NEW r \in Requests, WalkOK(req[r]), Skip(r)
    PROVE  \E n : req' = [req EXCEPT ![r] = n] /\ WalkOK(n) /\ Same(n, req[r])
<1> DEFINE q == req[r]
           u == Rungs(q)
           g == u[q.pos]
           n == [q EXCEPT !.pos = @ + 1]
<1>1. /\ q.pc = "call" /\ q.pos <= Len(u) /\ ~Usable(q.caller, g)
      /\ req' = [req EXCEPT ![r] = n] /\ WalkOK(q) /\ Walking(q) /\ Fields(q)
  BY DEF Skip, WalkOK
<1>2. Walk(u) /\ q.pos \in 1 .. Len(u) /\ Len(u) \in Nat
  BY <1>1, LenProperties DEF Walking, Walk
<1> HIDE DEF u, g
<1>3. /\ Fields(n) /\ n.pc = q.pc /\ n.pos = q.pos + 1 /\ n.caller = q.caller /\ n.at = q.at
      /\ n.wire = q.wire /\ n.result = q.result /\ n.funded = q.funded /\ n.back = q.back
  BY <1>1 DEF Fields, Labels
<1> HIDE DEF n
<1>4. Rungs(n) = u /\ n.pos \in 1 .. Len(u) + 1
  <2>1. Rungs(n) = u
    BY <1>3 DEF Rungs, u
  <2>2. n.pos \in 1 .. Len(u) + 1
    BY <1>2, <1>3
  <2> QED
    BY <2>1, <2>2
<1>5. Ahead(u, q.pos) = {g} \cup Ahead(u, q.pos + 1)
  BY <1>2, AheadSteps DEF g
<1>6. Left(n) = Left(q)
  <2>1. Left(n) = {x \in Ahead(u, q.pos + 1) : Usable(q.caller, x)}
    BY <1>1, <1>3, <1>4, LeftIs
  <2>2. Left(q) = {x \in Ahead(u, q.pos) : Usable(q.caller, x)}
    BY <1>1, LeftIs DEF u
  <2> QED
    BY <1>1, <1>5, <2>1, <2>2
<1>7. Walking(n)
  BY <1>2, <1>4 DEF Walking
<1> QED
  BY <1>1, <1>3, <1>6, <1>7 DEF WalkOK, Same

\* The rung that is asked was left, and is not left any more.
LEMMA WalkCalls ==
    ASSUME NEW r \in Requests, WalkOK(req[r]), NEW broke \in BOOLEAN, Call(r, broke)
    PROVE  \E n : /\ req' = [req EXCEPT ![r] = n] /\ WalkOK(n)
                  /\ req[r].result = "trying" /\ req[r].at = NoRung /\ n.at \in Left(req[r])
                  /\ n.caller = req[r].caller /\ n.wire = req[r].wire
                  /\ n.result = req[r].result /\ Left(n) = Left(req[r]) \ {n.at}
<1> DEFINE q == req[r]
           u == Rungs(q)
           g == u[q.pos]
           n == [q EXCEPT !.pc = "wait", !.at = g, !.broke = broke, !.pos = @ + 1]
<1>1. /\ q.pc = "call" /\ q.pos <= Len(u) /\ Usable(q.caller, g)
      /\ req' = [req EXCEPT ![r] = n] /\ WalkOK(q) /\ Walking(q) /\ Fields(q)
  BY DEF Call, WalkOK
<1>2. Walk(u) /\ q.pos \in 1 .. Len(u) /\ Len(u) \in Nat
  BY <1>1, LenProperties DEF Walking, Walk
<1>3. g \in Rung /\ Ahead(u, q.pos) = {g} \cup Ahead(u, q.pos + 1) /\ g \notin Ahead(u, q.pos + 1)
  BY <1>2, AheadSteps
<1> HIDE DEF u, g
<1>4. /\ Fields(n) /\ n.pc = "wait" /\ n.pos = q.pos + 1 /\ n.caller = q.caller /\ n.at = g
      /\ n.wire = q.wire /\ n.result = q.result /\ n.funded = q.funded /\ n.back = q.back
  BY <1>1 DEF Fields, Labels
<1> HIDE DEF n
<1>5. Rungs(n) = u /\ n.pos \in 1 .. Len(u) + 1
  <2>1. Rungs(n) = u
    BY <1>4 DEF Rungs, u
  <2>2. n.pos \in 1 .. Len(u) + 1
    BY <1>2, <1>4
  <2> QED
    BY <2>1, <2>2
<1>6. Walking(n) /\ g # NoRung
  BY <1>2, <1>3, <1>5, RungAssumption DEF Walking
<1>7. Left(n) = Left(q) \ {g} /\ g \in Left(q)
  <2>1. Left(n) = {x \in Ahead(u, q.pos + 1) : Usable(q.caller, x)}
    BY <1>4, <1>5, LeftIs
  <2>2. Left(q) = {x \in Ahead(u, q.pos) : Usable(q.caller, x)}
    BY <1>1, LeftIs DEF u
  <2> QED
    BY <1>1, <1>3, <2>1, <2>2
<1>8. q.result = "trying" /\ q.at = NoRung /\ q.wire \in BOOLEAN /\ ~q.wire /\ q.caller \in Callers
  BY <1>1 DEF WalkOK
<1>9. WalkOK(n)
  BY <1>4, <1>6, <1>8 DEF WalkOK
<1> QED
  BY <1>1, <1>4, <1>7, <1>8, <1>9

LEMMA WalkGoesOut ==
    ASSUME NEW r \in Requests, WalkOK(req[r]), FirstByte(r)
    PROVE  \E n : /\ req' = [req EXCEPT ![r] = n] /\ WalkOK(n)
                  /\ req[r].at # NoRung /\ ~req[r].wire /\ n.wire = TRUE
                  /\ n.caller = req[r].caller /\ n.at = req[r].at
                  /\ n.result = req[r].result /\ Left(n) = Left(req[r])
<1> DEFINE q == req[r]
           n == [q EXCEPT !.wire = TRUE]
<1>1. /\ q.pc = "wait" /\ q.caller.kind = "stream" /\ ~q.wire
      /\ req' = [req EXCEPT ![r] = n] /\ WalkOK(q) /\ Walking(q) /\ Fields(q)
  BY DEF FirstByte, WalkOK
<1>2. /\ Fields(n) /\ n.pc = "wait" /\ n.pos = q.pos /\ n.caller = q.caller /\ n.at = q.at
      /\ n.wire = TRUE /\ n.result = q.result /\ n.funded = q.funded /\ n.back = q.back
  BY <1>1 DEF Fields, Labels
<1> HIDE DEF n
<1>3. Rungs(n) = Rungs(q)
  BY <1>2 DEF Rungs
<1>4. Left(n) = Left(q)
  BY <1>1, <1>2, <1>3, LeftIs
<1>5. Walking(n)
  BY <1>1, <1>2, <1>3 DEF Walking
<1>6. q.at # NoRung /\ WalkOK(n)
  BY <1>1, <1>2, <1>5 DEF WalkOK
<1> QED
  BY <1>1, <1>2, <1>4, <1>6

LEMMA WalkHangsUp ==
    ASSUME NEW r \in Requests, WalkOK(req[r]), HangUp(r)
    PROVE  \E n : req' = [req EXCEPT ![r] = n] /\ WalkOK(n) /\ Same(n, req[r])
<1> DEFINE q == req[r]
           n == [q EXCEPT !.hung = TRUE]
<1>1. q.pc = "wait" /\ req' = [req EXCEPT ![r] = n] /\ WalkOK(q) /\ Walking(q) /\ Fields(q)
  BY DEF HangUp, WalkOK
<1>2. /\ Fields(n) /\ n.pc = "wait" /\ n.pos = q.pos /\ n.caller = q.caller /\ n.at = q.at
      /\ n.wire = q.wire /\ n.result = q.result /\ n.funded = q.funded /\ n.back = q.back
  BY <1>1 DEF Fields, Labels
<1> HIDE DEF n
<1>3. Rungs(n) = Rungs(q)
  BY <1>2 DEF Rungs
<1>4. Left(n) = Left(q)
  BY <1>1, <1>2, <1>3, LeftIs
<1>5. Walking(n)
  BY <1>1, <1>2, <1>3 DEF Walking
<1>6. WalkOK(n)
  BY <1>1, <1>2, <1>5 DEF WalkOK
<1> QED
  BY <1>1, <1>2, <1>4, <1>6 DEF Same

\* A rung of which nothing has gone out fails: the walk goes on behind it.
GoesOn(n, q) ==
    /\ q.at # NoRung /\ ~q.wire /\ n.at = NoRung
    /\ n.caller = q.caller /\ n.wire = q.wire /\ n.result = q.result /\ Left(n) = Left(q)

LEMMA WalkGoesOn ==
    ASSUME NEW q, WalkOK(q), q.pc = "wait", ~q.wire, NEW n, Fields(n),
           n.pc = "call", n.at = NoRung, n.pos = q.pos, n.caller = q.caller, n.wire = q.wire,
           n.result = q.result, n.funded = q.funded, n.back = q.back
    PROVE  WalkOK(n) /\ GoesOn(n, q)
<1>1. Rungs(n) = Rungs(q)
  BY DEF Rungs
<1>2. Left(n) = Left(q)
  BY <1>1, LeftIs
<1>3. Walking(n)
  BY <1>1 DEF Walking, WalkOK
<1> QED
  BY <1>2, <1>3 DEF WalkOK, GoesOn

\* The request ends: nothing is asked, nothing is left.
Ended(n, q, res) ==
    /\ n.caller = q.caller /\ n.at = NoRung /\ n.wire = FALSE
    /\ n.result = res /\ Left(n) = {}

LEMMA WalkEnds ==
    ASSUME NEW q, Fields(q), q.caller \in Callers, NEW res \in {"answered", "failed", "cut"}
    PROVE  WalkOK(Done(q, res)) /\ Ended(Done(q, res), q, res)
<1> DEFINE n == Done(q, res)
<1>1. /\ Fields(n) /\ n.pc = "idle" /\ n.caller = q.caller /\ n.at = NoRung /\ n.wire = FALSE
      /\ n.result = res
  BY DEF Done, Fresh, Fields, Labels
<1> HIDE DEF n
<1>2. Left(n) = {}
  BY <1>1, LeftIs
<1> QED
  BY <1>1, <1>2 DEF WalkOK, Ended, n

LEMMA CallerKept ==
    ASSUME NEW q, Fields(q)
    PROVE  /\ Fields(Worked(q)) /\ Worked(q).caller = q.caller
           /\ Fields(Broken(q)) /\ Broken(q).caller = q.caller
           /\ Fields(Recorded(q)) /\ Recorded(q).caller = q.caller
           /\ Worked(q).wire = q.wire /\ Recorded(q).wire = q.wire
BY DEF Worked, Broken, Recorded, Fields, Labels

LEMMA WalkFails ==
    ASSUME NEW r \in Requests, WalkOK(req[r]), Fail(r) \/ Empty(r)
    PROVE  \E n : /\ req' = [req EXCEPT ![r] = n] /\ WalkOK(n)
                  /\ \/ GoesOn(n, req[r])
                     \/ req[r].at # NoRung /\ req[r].wire /\ Ended(n, req[r], "cut")
<1> DEFINE q == req[r]
           next == [q EXCEPT !.pc = "call", !.at = NoRung, !.broke = FALSE]
           cut == Done(Broken(Worked(q)), "cut")
           void == [q EXCEPT !.pc = "call", !.at = NoRung]
<1>1. q.pc = "wait" /\ Fields(q) /\ q.caller \in Callers /\ q.at # NoRung /\ q.wire \in BOOLEAN
  BY DEF Fail, Empty, WalkOK
<1>2. \/ ~q.wire /\ req' = [req EXCEPT ![r] = next]
      \/ q.wire /\ req' = [req EXCEPT ![r] = cut]
      \/ ~q.wire /\ req' = [req EXCEPT ![r] = void]
  BY <1>1 DEF Fail, Empty
<1>3. /\ Fields(next) /\ next.pc = "call" /\ next.at = NoRung /\ next.pos = q.pos
      /\ next.caller = q.caller /\ next.wire = q.wire /\ next.result = q.result
      /\ next.funded = q.funded /\ next.back = q.back
  BY <1>1 DEF Fields, Labels
<1>4. /\ Fields(void) /\ void.pc = "call" /\ void.at = NoRung /\ void.pos = q.pos
      /\ void.caller = q.caller /\ void.wire = q.wire /\ void.result = q.result
      /\ void.funded = q.funded /\ void.back = q.back
  BY <1>1 DEF Fields, Labels
<1>5. WalkOK(cut) /\ Ended(cut, q, "cut")
  <2> DEFINE b == Broken(Worked(q))
  <2>1. Fields(b) /\ b.caller = q.caller
    BY <1>1, CallerKept
  <2> HIDE DEF b
  <2>2. WalkOK(Done(b, "cut")) /\ Ended(Done(b, "cut"), b, "cut")
    BY <1>1, <2>1, WalkEnds
  <2> QED
    BY <2>1, <2>2 DEF Ended, b
<1> HIDE DEF next, cut, void, q
<1>6. CASE ~q.wire /\ req' = [req EXCEPT ![r] = next]
  BY <1>1, <1>3, <1>6, WalkGoesOn DEF q
<1>7. CASE ~q.wire /\ req' = [req EXCEPT ![r] = void]
  BY <1>1, <1>4, <1>7, WalkGoesOn DEF q
<1>8. CASE q.wire /\ req' = [req EXCEPT ![r] = cut]
  BY <1>1, <1>5, <1>8 DEF q
<1> QED
  BY <1>2, <1>6, <1>7, <1>8

LEMMA WalkServes ==
    ASSUME NEW r \in Requests, WalkOK(req[r]), NEW more \in BOOLEAN, Serve(r, more)
    PROVE  \E n : /\ req' = [req EXCEPT ![r] = n] /\ WalkOK(n) /\ req[r].result = "trying"
                  /\ req[r].at # NoRung /\ Ended(n, req[r], "answered")
<1> DEFINE q == req[r]
           served == Recorded(Worked(q))
           bill == Charge(served.source, served.own + served.gateway)
           billed == [served EXCEPT !.charged = bill]
           again == [served EXCEPT !.pc = "tools", !.round = @ + 1, !.at = NoRung,
                                   !.result = "answered"]
           n == IF more THEN again ELSE Done(billed, "answered")
<1>1. /\ q.pc = "wait" /\ Fields(q) /\ q.caller \in Callers /\ q.at # NoRung
      /\ q.result = "trying" /\ (q.wire => q.caller.kind = "stream") /\ q.wire \in BOOLEAN
      /\ req' = [req EXCEPT ![r] = n] /\ (more => q.caller.kind = "loop")
  BY DEF Serve, WalkOK
<1>2. Fields(served) /\ served.caller = q.caller /\ served.wire = q.wire
  BY <1>1, CallerKept
<1> HIDE DEF served, bill
<1>3. more => WalkOK(again) /\ Ended(again, q, "answered")
  <2> SUFFICES ASSUME more PROVE WalkOK(again) /\ Ended(again, q, "answered")
    OBVIOUS
  <2>1. /\ Fields(again) /\ again.pc = "tools" /\ again.at = NoRung /\ again.result = "answered"
        /\ again.caller = q.caller /\ again.wire = FALSE
    BY <1>1, <1>2 DEF Fields, Labels
  <2> HIDE DEF again
  <2>2. Left(again) = {}
    BY <2>1, LeftIs
  <2> QED
    BY <1>1, <2>1, <2>2 DEF WalkOK, Ended
<1>4. WalkOK(Done(billed, "answered")) /\ Ended(Done(billed, "answered"), q, "answered")
  <2>1. Fields(billed) /\ billed.caller = q.caller
    BY <1>2 DEF Fields, Labels
  <2> HIDE DEF billed
  <2>2. /\ WalkOK(Done(billed, "answered"))
        /\ Ended(Done(billed, "answered"), billed, "answered")
    BY <1>1, <2>1, WalkEnds
  <2> QED
    BY <2>1, <2>2 DEF Ended
<1>5. WalkOK(n) /\ Ended(n, q, "answered")
  BY <1>3, <1>4
<1> HIDE DEF n
<1> QED
  BY <1>1, <1>5

LEMMA WalkGivesUp ==
    ASSUME NEW r \in Requests, WalkOK(req[r]), GiveUp(r)
    PROVE  \E n : /\ req' = [req EXCEPT ![r] = n] /\ WalkOK(n) /\ req[r].result = "trying"
                  /\ req[r].at = NoRung /\ Left(req[r]) = {} /\ Ended(n, req[r], "failed")
<1> DEFINE q == req[r]
           b == Broken(q)
           n == Done(b, "failed")
<1>1. /\ q.pc = "call" /\ Fields(q) /\ q.caller \in Callers /\ q.at = NoRung
      /\ q.result = "trying" /\ Walking(q) /\ q.pos > Len(Rungs(q))
      /\ req' = [req EXCEPT ![r] = n]
  BY DEF GiveUp, WalkOK
<1>2. Fields(b) /\ b.caller = q.caller
  BY <1>1, CallerKept
<1> HIDE DEF b
<1>3. WalkOK(n) /\ Ended(n, b, "failed")
  BY <1>1, <1>2, WalkEnds
<1> HIDE DEF n
<1>4. Left(q) = {}
  <2> DEFINE u == Rungs(q)
  <2>1. Walk(u) /\ Len(u) \in Nat /\ q.pos = Len(u) + 1
    BY <1>1, LenProperties DEF Walking, Walk
  <2> HIDE DEF u
  <2>2. Ahead(u, q.pos) = {}
    BY <2>1, AheadSteps
  <2> QED
    BY <1>1, <2>2, LeftIs DEF u
<1> QED
  BY <1>1, <1>2, <1>3, <1>4 DEF Ended

-----------------------------------------------------------------------------
\* The view of the requests that Fallback speaks of.
Offers  == [r \in Requests |-> Offered[req[r].caller]]
Lefts   == [r \in Requests |-> Left(req[r])]
Ats     == [r \in Requests |-> req[r].at]
Wires   == [r \in Requests |-> req[r].wire]
Results == [r \in Requests |-> req[r].result]

Becomes(r, n) ==
    /\ WalkInv'
    /\ Offers' = [Offers EXCEPT ![r] = Offered[n.caller]]
    /\ Lefts' = [Lefts EXCEPT ![r] = Left(n)]
    /\ Ats' = [Ats EXCEPT ![r] = n.at]
    /\ Wires' = [Wires EXCEPT ![r] = n.wire]
    /\ Results' = [Results EXCEPT ![r] = n.result]

LEMMA OneView ==
    ASSUME WalkInv, NEW r \in Requests, NEW n, req' = [req EXCEPT ![r] = n], WalkOK(n),
           primary' = primary
    PROVE  Becomes(r, n)
<1>1. /\ DOMAIN req' = Requests /\ req'[r] = n
      /\ \A x \in Requests : x # r => req'[x] = req[x]
  BY DEF WalkInv
<1>2. WalkInv'
  <2>1. \A x \in Requests : WalkOK(req'[x])
    BY <1>1 DEF WalkInv
  <2> QED
    BY <1>1, <2>1 DEF WalkInv
<1>3. Offers' = [Offers EXCEPT ![r] = Offered[n.caller]]
  BY <1>1 DEF Offers
<1>4. Lefts' = [Lefts EXCEPT ![r] = Left(n)]
  BY <1>1 DEF Lefts
<1>5. Ats' = [Ats EXCEPT ![r] = n.at]
  BY <1>1 DEF Ats
<1>6. Wires' = [Wires EXCEPT ![r] = n.wire]
  BY <1>1 DEF Wires
<1>7. Results' = [Results EXCEPT ![r] = n.result]
  BY <1>1 DEF Results
<1> QED
  BY <1>2, <1>3, <1>4, <1>5, <1>6, <1>7 DEF Becomes

LEMMA Viewed ==
    ASSUME NEW r \in Requests
    PROVE  /\ Offers[r] = Offered[req[r].caller] /\ Lefts[r] = Left(req[r])
           /\ Ats[r] = req[r].at /\ Wires[r] = req[r].wire /\ Results[r] = req[r].result
           /\ Offers = [Offers EXCEPT ![r] = Offers[r]] /\ Lefts = [Lefts EXCEPT ![r] = Lefts[r]]
           /\ Ats = [Ats EXCEPT ![r] = Ats[r]] /\ Wires = [Wires EXCEPT ![r] = Wires[r]]
           /\ Results = [Results EXCEPT ![r] = Results[r]]
BY DEF Offers, Lefts, Ats, Wires, Results

\* The steps of Fallback, said of the view.
LEMMA ItBegins ==
    ASSUME NEW r \in Requests, Results[r] # "trying",
           Offers' = [Offers EXCEPT ![r] = Offers'[r]],
           Lefts' = [Lefts EXCEPT ![r] = Offers'[r]],
           Results' = [Results EXCEPT ![r] = "trying"], UNCHANGED <<Ats, Wires>>
    PROVE  FallbackView!Next
<1>1. FallbackView!Begin(r)
  BY DEF FallbackView!Begin, Offers, Lefts, Ats, Wires, Results
<1> QED
  BY <1>1 DEF FallbackView!Next

LEMMA ItAsks ==
    ASSUME NEW r \in Requests, Results[r] = "trying", Ats[r] = NoRung, NEW g, g \in Lefts[r],
           Ats' = [Ats EXCEPT ![r] = g], Lefts' = [Lefts EXCEPT ![r] = Lefts[r] \ {g}],
           UNCHANGED <<Offers, Wires, Results>>
    PROVE  FallbackView!Next
<1>1. FallbackView!Ask(r, g) /\ g \in Left(req[r])
  BY DEF FallbackView!Ask, Offers, Lefts, Ats, Wires, Results
<1> QED
  BY <1>1 DEF FallbackView!Next

LEMMA ItGoesOut ==
    ASSUME NEW r \in Requests, Ats[r] # NoRung, ~Wires[r],
           Wires' = [Wires EXCEPT ![r] = TRUE], UNCHANGED <<Offers, Lefts, Ats, Results>>
    PROVE  FallbackView!Next
<1>1. FallbackView!Byte(r)
  BY DEF FallbackView!Byte, Offers, Lefts, Ats, Wires, Results
<1> QED
  BY <1>1 DEF FallbackView!Next

LEMMA ItMisses ==
    ASSUME NEW r \in Requests, Ats[r] # NoRung, ~Wires[r],
           Ats' = [Ats EXCEPT ![r] = NoRung], UNCHANGED <<Offers, Lefts, Wires, Results>>
    PROVE  FallbackView!Next
<1>1. FallbackView!Miss(r)
  BY DEF FallbackView!Miss, Offers, Lefts, Ats, Wires, Results
<1> QED
  BY <1>1 DEF FallbackView!Next

LEMMA ItEnds ==
    ASSUME NEW r \in Requests, Results[r] = "trying", NEW res,
           \/ Ats[r] # NoRung /\ res = "answered"
           \/ Ats[r] # NoRung /\ Wires[r] /\ res = "cut"
           \/ Ats[r] = NoRung /\ Lefts[r] = {} /\ res = "failed",
           Results' = [Results EXCEPT ![r] = res],
           Ats' = [Ats EXCEPT ![r] = NoRung], Lefts' = [Lefts EXCEPT ![r] = {}],
           Wires' = [Wires EXCEPT ![r] = FALSE], Offers' = Offers
    PROVE  FallbackView!Next
<1>1. FallbackView!End(r)
  BY DEF FallbackView!End, Offers, Lefts, Ats, Wires, Results
<1> QED
  BY <1>1 DEF FallbackView!Next

LEMMA ItStutters ==
    ASSUME UNCHANGED <<Offers, Lefts, Ats, Wires, Results>>
    PROVE  UNCHANGED FallbackView!fallback
BY DEF FallbackView!fallback, Offers, Lefts, Ats, Wires, Results

\* Every step of a request is a step of Fallback, or none.
Shown == WalkInv' /\ [FallbackView!Next]_(FallbackView!fallback)

LEMMA BeginIsShown ==
    ASSUME ServedOnce, WalkInv, NEW r \in Requests, (\E c \in Callers : Arrive(r, c)) \/ NextRound(r)
    PROVE  Shown
<1>1. WalkOK(req[r]) /\ primary \in 0 .. Len(Chain) /\ primary' = primary
  BY DEF WalkInv, Arrive, NextRound
<1>2. /\ req[r].result # "trying" /\ req[r].at = NoRung /\ req[r].wire = FALSE
      /\ req[r].pc # "wait"
  BY <1>1 DEF WalkOK, Arrive, NextRound
<1>3. \E n : /\ req' = [req EXCEPT ![r] = n] /\ WalkOK(n) /\ n.at = NoRung /\ n.wire = FALSE
             /\ n.result = "trying" /\ Left(n) = Offered[n.caller]
  <2>1. CASE NextRound(r)
    <3>1. Fields(req[r]) /\ req[r].caller \in Callers
      BY <1>1 DEF WalkOK
    <3>2. req' = [req EXCEPT ![r] = Routed(req[r])]
      BY <2>1 DEF NextRound
    <3> DEFINE m == Routed(req[r])
    <3>3. WalkOK(m) /\ m.at = NoRung /\ m.wire = FALSE /\ m.caller = req[r].caller
          /\ m.result = "trying" /\ Left(m) = Offered[req[r].caller]
      BY <1>1, <1>2, <3>1, WalkBegins
    <3> HIDE DEF m
    <3> QED
      BY <3>2, <3>3 DEF m
  <2>2. ASSUME NEW c \in Callers, Arrive(r, c)
        PROVE  <1>3!:
    <3>1. Fields(Fresh(c)) /\ Fresh(c).caller = c /\ Fresh(c).at = NoRung /\ Fresh(c).wire = FALSE
      BY DEF Fresh, Fields, Labels
    <3>2. req' = [req EXCEPT ![r] = Routed(Fresh(c))]
      BY <2>2 DEF Arrive
    <3> QED
      BY <1>1, <3>1, <3>2, WalkBegins
  <2> QED
    BY <2>1, <2>2
<1>4. PICK n : /\ req' = [req EXCEPT ![r] = n] /\ WalkOK(n) /\ n.at = NoRung /\ n.wire = FALSE
               /\ n.result = "trying" /\ Left(n) = Offered[n.caller]
  BY <1>3
<1>5. /\ WalkInv'
      /\ Offers' = [Offers EXCEPT ![r] = Offered[n.caller]]
      /\ Lefts' = [Lefts EXCEPT ![r] = Offered[n.caller]]
      /\ Ats' = [Ats EXCEPT ![r] = NoRung] /\ Wires' = [Wires EXCEPT ![r] = FALSE]
      /\ Results' = [Results EXCEPT ![r] = "trying"]
  <2>1. Becomes(r, n)
    BY <1>1, <1>4, OneView
  <2> QED
    BY <1>4, <2>1 DEF Becomes
<1>6. Offers'[r] = Offered[n.caller] /\ Results[r] # "trying" /\ UNCHANGED <<Ats, Wires>>
  <2>1. Offers'[r] = Offered[n.caller]
    BY <1>5 DEF Offers
  <2> QED
    BY <1>2, <1>5, <2>1, Viewed
<1> QED
  BY <1>5, <1>6, ItBegins DEF Shown

LEMMA SameIsShown ==
    ASSUME WalkInv, NEW r \in Requests, primary' = primary,
           \E n : req' = [req EXCEPT ![r] = n] /\ WalkOK(n) /\ Same(n, req[r])
    PROVE  Shown
<1>1. PICK n : req' = [req EXCEPT ![r] = n] /\ WalkOK(n) /\ Same(n, req[r])
  OBVIOUS
<1>2. WalkInv' /\ UNCHANGED <<Offers, Lefts, Ats, Wires, Results>>
  <2>1. Becomes(r, n)
    BY <1>1, OneView
  <2> QED
    BY <1>1, <2>1, Viewed DEF Becomes, Same
<1> QED
  BY <1>2, ItStutters DEF Shown

LEMMA CallIsShown ==
    ASSUME WalkInv, NEW r \in Requests, NEW broke \in BOOLEAN, Call(r, broke)
    PROVE  Shown
<1>1. WalkOK(req[r]) /\ primary' = primary
  BY DEF WalkInv, Call
<1>2. PICK n : /\ req' = [req EXCEPT ![r] = n] /\ WalkOK(n)
               /\ req[r].result = "trying" /\ req[r].at = NoRung /\ n.at \in Left(req[r])
               /\ n.caller = req[r].caller /\ n.wire = req[r].wire
               /\ n.result = req[r].result /\ Left(n) = Left(req[r]) \ {n.at}
  BY <1>1, WalkCalls
<1>3. /\ WalkInv' /\ UNCHANGED <<Offers, Wires, Results>>
      /\ Ats' = [Ats EXCEPT ![r] = n.at] /\ Lefts' = [Lefts EXCEPT ![r] = Lefts[r] \ {n.at}]
  <2>1. Becomes(r, n)
    BY <1>1, <1>2, OneView
  <2>2. UNCHANGED <<Offers, Wires, Results>>
    BY <1>2, <2>1, Viewed DEF Becomes
  <2>3. Lefts' = [Lefts EXCEPT ![r] = Lefts[r] \ {n.at}]
    BY <1>2, <2>1, Viewed DEF Becomes
  <2> QED
    BY <2>1, <2>2, <2>3 DEF Becomes
<1>4. Results[r] = "trying" /\ Ats[r] = NoRung /\ n.at \in Lefts[r]
  BY <1>2, Viewed
<1> QED
  BY <1>3, <1>4, ItAsks DEF Shown

LEMMA ByteIsShown ==
    ASSUME WalkInv, NEW r \in Requests, FirstByte(r)
    PROVE  Shown
<1>1. WalkOK(req[r]) /\ primary' = primary
  BY DEF WalkInv, FirstByte
<1>2. PICK n : /\ req' = [req EXCEPT ![r] = n] /\ WalkOK(n)
               /\ req[r].at # NoRung /\ ~req[r].wire /\ n.wire = TRUE
               /\ n.caller = req[r].caller /\ n.at = req[r].at
               /\ n.result = req[r].result /\ Left(n) = Left(req[r])
  BY <1>1, WalkGoesOut
<1>3. /\ WalkInv' /\ UNCHANGED <<Offers, Lefts, Ats, Results>>
      /\ Wires' = [Wires EXCEPT ![r] = TRUE]
  <2>1. Becomes(r, n)
    BY <1>1, <1>2, OneView
  <2>2. UNCHANGED <<Offers, Lefts, Ats, Results>>
    BY <1>2, <2>1, Viewed DEF Becomes
  <2>3. Wires' = [Wires EXCEPT ![r] = TRUE]
    BY <1>2, <2>1 DEF Becomes
  <2> QED
    BY <2>1, <2>2, <2>3 DEF Becomes
<1>4. Ats[r] # NoRung /\ ~Wires[r]
  BY <1>2, Viewed
<1> QED
  BY <1>3, <1>4, ItGoesOut DEF Shown

LEMMA EndIsShown ==
    ASSUME WalkInv, NEW r \in Requests, primary' = primary,
           NEW n, req' = [req EXCEPT ![r] = n], WalkOK(n), NEW res, Ended(n, req[r], res),
           req[r].result = "trying",
           \/ req[r].at # NoRung /\ res = "answered"
           \/ req[r].at # NoRung /\ req[r].wire /\ res = "cut"
           \/ req[r].at = NoRung /\ Left(req[r]) = {} /\ res = "failed"
    PROVE  Shown
<1>1. /\ WalkInv' /\ UNCHANGED Offers
      /\ Ats' = [Ats EXCEPT ![r] = NoRung] /\ Lefts' = [Lefts EXCEPT ![r] = {}]
      /\ Wires' = [Wires EXCEPT ![r] = FALSE] /\ Results' = [Results EXCEPT ![r] = res]
  <2>1. Becomes(r, n)
    BY OneView
  <2> QED
    BY <2>1, Viewed DEF Becomes, Ended
<1>2. /\ Results[r] = "trying"
      /\ \/ Ats[r] # NoRung /\ res = "answered"
         \/ Ats[r] # NoRung /\ Wires[r] /\ res = "cut"
         \/ Ats[r] = NoRung /\ Lefts[r] = {} /\ res = "failed"
  BY Viewed
<1>3. FallbackView!Next
  BY <1>1, <1>2, ItEnds
<1> QED
  BY <1>1, <1>3 DEF Shown

LEMMA FailIsShown ==
    ASSUME WalkInv, NEW r \in Requests, Fail(r) \/ Empty(r)
    PROVE  Shown
<1>1. WalkOK(req[r]) /\ primary' = primary /\ req[r].pc = "wait" /\ req[r].result = "trying"
  BY DEF WalkInv, WalkOK, Fail, Empty
<1>2. PICK n : /\ req' = [req EXCEPT ![r] = n] /\ WalkOK(n)
               /\ \/ GoesOn(n, req[r])
                  \/ req[r].at # NoRung /\ req[r].wire /\ Ended(n, req[r], "cut")
  BY <1>1, WalkFails
<1>3. CASE GoesOn(n, req[r])
  <2>1. /\ WalkInv' /\ UNCHANGED <<Offers, Lefts, Wires, Results>>
        /\ Ats' = [Ats EXCEPT ![r] = NoRung]
    <3>1. Becomes(r, n)
      BY <1>1, <1>2, OneView
    <3> QED
      BY <1>3, <3>1, Viewed DEF Becomes, GoesOn
  <2>2. Ats[r] # NoRung /\ ~Wires[r]
    BY <1>3, Viewed DEF GoesOn
  <2> QED
    BY <2>1, <2>2, ItMisses DEF Shown
<1>4. CASE req[r].at # NoRung /\ req[r].wire /\ Ended(n, req[r], "cut")
  BY <1>1, <1>2, <1>4, EndIsShown
<1> QED
  BY <1>2, <1>3, <1>4

LEMMA ServeIsShown ==
    ASSUME WalkInv, NEW r \in Requests, NEW more \in BOOLEAN, Serve(r, more)
    PROVE  Shown
<1>1. WalkOK(req[r]) /\ primary' = primary
  BY DEF WalkInv, Serve
<1>2. PICK n : /\ req' = [req EXCEPT ![r] = n] /\ WalkOK(n) /\ req[r].result = "trying"
               /\ req[r].at # NoRung /\ Ended(n, req[r], "answered")
  BY <1>1, WalkServes
<1> QED
  BY <1>1, <1>2, EndIsShown

LEMMA GiveUpIsShown ==
    ASSUME WalkInv, NEW r \in Requests, GiveUp(r)
    PROVE  Shown
<1>1. WalkOK(req[r]) /\ primary' = primary
  BY DEF WalkInv, GiveUp
<1>2. PICK n : /\ req' = [req EXCEPT ![r] = n] /\ WalkOK(n) /\ req[r].result = "trying"
               /\ req[r].at = NoRung /\ Left(req[r]) = {} /\ Ended(n, req[r], "failed")
  BY <1>1, WalkGivesUp
<1> QED
  BY <1>1, <1>2, EndIsShown

LEMMA StepIsShown ==
    ASSUME ServedOnce, WalkInv, [Next]_vars
    PROVE  Shown
<1>1. ASSUME NEW r \in Requests, Sort(r) \/ Skip(r) \/ HangUp(r)
      PROVE  Shown
  <2>1. WalkOK(req[r]) /\ primary' = primary
    BY <1>1 DEF WalkInv, Sort, Skip, HangUp
  <2> QED
    BY <1>1, <2>1, WalkSorts, WalkSkips, WalkHangsUp, SameIsShown
<1>2. ASSUME NEW r \in Requests, Step(r) \/ FirstByte(r) \/ HangUp(r)
                                 \/ \E c \in Callers : Arrive(r, c)
      PROVE  Shown
  BY <1>1, <1>2, BeginIsShown, CallIsShown, ByteIsShown, FailIsShown, ServeIsShown,
     GiveUpIsShown DEF Step
<1>3. ASSUME req' = req, primary' \in 0 .. Len(Chain)
      PROVE  Shown
  <2>1. WalkInv'
    BY <1>3 DEF WalkInv
  <2>2. UNCHANGED <<Offers, Lefts, Ats, Wires, Results>>
    BY <1>3 DEF Offers, Lefts, Ats, Wires, Results
  <2> QED
    BY <2>1, <2>2, ItStutters DEF Shown
<1>4. ASSUME NEW k \in Chosen, SetPrimary(k)
      PROVE  Shown
  BY <1>3, <1>4, RoutingAssumption DEF SetPrimary
<1>5. CASE Tick \/ UNCHANGED vars
  BY <1>3, <1>5 DEF Tick, vars, WalkInv
<1> QED
  BY <1>2, <1>4, <1>5 DEF Next

LEMMA FirstIsShown ==
    ASSUME Init
    PROVE  WalkInv /\ FallbackView!Init
<1> DEFINE c == CHOOSE x \in Callers : TRUE
           n == Fresh(c)
<1>1. c \in Callers
  BY RoutingAssumption
<1> HIDE DEF c
<1>2. /\ Fields(n) /\ n.pc = "idle" /\ n.caller = c /\ n.at = NoRung /\ n.wire = FALSE
      /\ n.result = "none"
  BY DEF Fresh, Fields, Labels
<1>3. req = [r \in Requests |-> n] /\ primary = 0
  BY DEF Init, c
<1> HIDE DEF n
<1>4. WalkOK(n) /\ Left(n) = {}
  BY <1>1, <1>2, LeftIs DEF WalkOK
<1>5. WalkInv
  BY <1>3, <1>4, RoutingAssumption, LenProperties DEF WalkInv
<1>6. FallbackView!Init
  BY <1>2, <1>3, <1>4 DEF FallbackView!Init
<1> QED
  BY <1>5, <1>6

\* ImplementsFallback: whatever other calls mark, an administrator reorders and a
\* stream sends, each call asks every rung that stands open to its caller at most
\* once, fails only after all of them, and stays with the one that has spoken
\* (attempts, creditLast, Chat, ChatStream).
THEOREM CallsFallBack == ServedOnce => (Spec => ImplementsFallback)
<1> SUFFICES ASSUME ServedOnce PROVE Spec => ImplementsFallback
  OBVIOUS
<1>1. Init => WalkInv /\ FallbackView!Init
  BY FirstIsShown
<1>2. WalkInv /\ [Next]_vars => WalkInv' /\ [FallbackView!Next]_(FallbackView!fallback)
  BY StepIsShown DEF Shown
<1> QED
  BY <1>1, <1>2, PTL DEF Spec, ImplementsFallback, FallbackView!Spec

=============================================================================
