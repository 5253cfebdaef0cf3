--------------------------- MODULE AdmissionProofs ---------------------------
(***************************************************************************)
(* Proofs about Admission, for any accounts and key names, any finite      *)
(* number of requests in flight, any reserve and any costs, with failing   *)
(* writes, deletions and renewals of names, and crashes.                   *)
(*                                                                         *)
(* The argument for FanOutCovered: a request is admitted on a balance of   *)
(* less than k reserves only while fewer than k reserves are held, however *)
(* a tie is rounded, and what is held counts every request that holds      *)
(* (HeldIsRunning), stale balances or not.                                 *)
(***************************************************************************)
EXTENDS Admission, FiniteSetTheorems, TLAPS

\* A request being served came with a key that had an owner.
Served == \A r \in Requests : req[r].pc # "idle" => /\ req[r].owner \in Users
                                                    /\ req[r].name \in Names

\* Only a running call has a reservation, until it gives it back.
HoldersRun == \A r \in Requests : req[r].holds => req[r].pc \in {"running", "ending"}

IInv == TypeOK /\ Served /\ HoldersRun /\ HeldIsRunning /\ FanOutCovered

-----------------------------------------------------------------------------
(***************************************************************************)
(* The store.                                                              *)
(***************************************************************************)
StoreOK == mem \in State /\ disk \in State /\ dirty \in BOOLEAN

LEMMA Written ==
  ASSUME StoreOK, NEW new \in State,
         Saved(new) \/ SaveOrKeep(new) \/ Later(new)
  PROVE  StoreOK'
BY DEF StoreOK, Saved, SaveOrKeep, Later

LEMMA DeniedTyped ==
  ASSUME StoreOK, NEW n \in Names, RecordDenied(n)
  PROVE  StoreOK' /\ mem'.bal = mem.bal /\ disk' = disk
<1> DEFINE new == [mem EXCEPT !.hist = @ \cup {n}]
<1>1. new \in State /\ new.bal = mem.bal  BY DEF StoreOK, State
<1>2. Later(new)  BY DEF RecordDenied
<1> QED BY <1>1, <1>2, Written DEF Later

\* What a recorded call leaves: the owner of its name, if any, has paid, and a
\* payment that empties the account is not left for the flush.
LEMMA UsageTyped ==
  ASSUME AdmissionAssumption, StoreOK, NEW n \in Names, NEW cost \in Nat, RecordUsage(n, cost)
  PROVE  /\ StoreOK'
         /\ \/ mem'.bal = mem.bal /\ disk' = disk
            \/ \E u \in Users :
                /\ mem'.bal = [mem.bal EXCEPT ![u] = @ - cost]
                /\ IF Exhausted(u, cost) THEN Saved(mem') \/ SavesMayFail
                                         ELSE disk' = disk
<1> DEFINE used == [mem EXCEPT !.hist = @ \cup {n}]
           u    == mem.key[n].owner
           paid == [used EXCEPT !.bal[u] = @ - cost]
<1>1. /\ used \in State /\ used.bal = mem.bal
      /\ mem.key[n] \in Key  BY DEF StoreOK, State
<1>2. CASE ~Exists(n)
  <2>1. Later(used)  BY <1>2 DEF RecordUsage
  <2> QED BY <1>1, <2>1, Written DEF Later
<1>3. CASE Exists(n)
  <2>1. u \in Users  BY <1>1, <1>3 DEF Exists, Key
  <2>2. paid.bal = [mem.bal EXCEPT ![u] = @ - cost]  BY <1>1, <2>1 DEF State
  <2>a. cost \in Int /\ paid.bal \in [Users -> Int]  BY <1>1, <2>1, <2>2 DEF State
  <2>b. paid = [used EXCEPT !.bal = paid.bal]  BY <1>1 DEF State
  <2>3. paid \in State  BY <1>1, <2>a, <2>b DEF State
  <2>4. IF Exhausted(u, cost) THEN SaveOrKeep(paid) ELSE Later(paid)
    BY <1>3 DEF RecordUsage
  <2>5. StoreOK' /\ mem' = paid
    BY <2>3, <2>4, Written DEF SaveOrKeep, Saved, Later
  <2>6. IF Exhausted(u, cost) THEN Saved(mem') \/ SavesMayFail ELSE disk' = disk
    BY <2>4 DEF SaveOrKeep, Saved, Later
  <2> QED BY <2>1, <2>2, <2>5, <2>6
<1> QED BY <1>2, <1>3

\* The console's writes keep the balances they do not top up.
LEMMA ConsoleTyped ==
  ASSUME AdmissionAssumption, StoreOK, Console
  PROVE  /\ StoreOK'
         /\ SavesMayFail \/ disk' = mem'
         /\ topups \in Nat => topups' \in Nat
         /\ UNCHANGED <<held, req, crashes>>
<1>1. ASSUME NEW u \in Users, AddPayment(u) PROVE StoreOK' /\ (SavesMayFail \/ disk' = mem')
  <2> DEFINE new == [mem EXCEPT !.bal[u] = @ + TopUp]
  <2>1. new \in State  BY DEF StoreOK, State, AdmissionAssumption
  <2>2. SaveOrKeep(new)  BY <1>1 DEF AddPayment
  <2> QED BY <2>1, <2>2, Written DEF SaveOrKeep, Saved
<1>2. ASSUME NEW u \in Users, NEW n \in Names, CreateToken(u, n)
      PROVE  StoreOK' /\ (SavesMayFail \/ disk' = mem')
  <2> DEFINE k == [owner |-> u, disabled |-> FALSE]
             new == [mem EXCEPT !.key[n] = k]
  <2>0. k \in Key  BY DEF Key
  <2>1. new \in State  BY <2>0 DEF StoreOK, State
  <2>2. SaveOrKeep(new)  BY <1>2 DEF CreateToken
  <2> QED BY <2>1, <2>2, Written DEF SaveOrKeep, Saved
<1>3. ASSUME NEW n \in Names, DeleteToken(n) PROVE StoreOK' /\ (SavesMayFail \/ disk' = mem')
  <2> DEFINE new == [mem EXCEPT !.key[n] = NoKey]
  <2>0. NoKey \in Key  BY DEF NoKey, Key
  <2>1. new \in State  BY <2>0 DEF StoreOK, State
  <2>2. SaveOrKeep(new)  BY <1>3 DEF DeleteToken
  <2> QED BY <2>1, <2>2, Written DEF SaveOrKeep, Saved
<1>4. ASSUME NEW n \in Names, SetTokenDisabled(n)
      PROVE  StoreOK' /\ (SavesMayFail \/ disk' = mem')
  <2> DEFINE k == [mem.key[n] EXCEPT !.disabled = ~@]
             new == [mem EXCEPT !.key[n].disabled = ~@]
  <2>0. mem.key[n] \in Key /\ k \in Key  BY DEF StoreOK, State, Key
  <2>1. new = [mem EXCEPT !.key = [mem.key EXCEPT ![n] = k]]  BY DEF StoreOK, State
  <2>2. new \in State  BY <2>0, <2>1 DEF StoreOK, State
  <2>3. SaveOrKeep(new)  BY <1>4 DEF SetTokenDisabled
  <2> QED BY <2>2, <2>3, Written DEF SaveOrKeep, Saved
<1>5. ASSUME NEW names \in SUBSET Names, ResetUsage(names)
      PROVE  StoreOK' /\ (SavesMayFail \/ disk' = mem')
  <2> DEFINE new == [mem EXCEPT !.hist = @ \ names]
  <2>1. new \in State  BY DEF StoreOK, State
  <2>2. SaveOrKeep(new)  BY <1>5 DEF ResetUsage
  <2> QED BY <2>1, <2>2, Written DEF SaveOrKeep, Saved
<1>6. StoreOK' /\ (SavesMayFail \/ disk' = mem')
  BY <1>1, <1>2, <1>3, <1>4, <1>5 DEF Console
<1>7. UNCHANGED <<held, req, crashes>> /\ (topups \in Nat => topups' \in Nat)
  <2>1. ASSUME NEW u \in Users, AddPayment(u)
        PROVE  UNCHANGED <<held, req, crashes>> /\ (topups \in Nat => topups' \in Nat)
    BY <2>1 DEF AddPayment
  <2>2. ASSUME UNCHANGED <<held, req, bounds>>
        PROVE  UNCHANGED <<held, req, crashes>> /\ (topups \in Nat => topups' \in Nat)
    BY <2>2 DEF bounds
  <2>3. ASSUME NEW u \in Users, NEW n \in Names, CreateToken(u, n)
        PROVE  UNCHANGED <<held, req, bounds>>
    BY <2>3 DEF CreateToken
  <2>4. ASSUME NEW n \in Names, DeleteToken(n) \/ SetTokenDisabled(n)
        PROVE  UNCHANGED <<held, req, bounds>>
    BY <2>4 DEF DeleteToken, SetTokenDisabled
  <2>5. ASSUME NEW names \in SUBSET Names, ResetUsage(names)
        PROVE  UNCHANGED <<held, req, bounds>>
    BY <2>5 DEF ResetUsage
  <2> QED BY <2>1, <2>2, <2>3, <2>4, <2>5 DEF Console
<1> QED BY <1>6, <1>7

LEMMA PersistTyped ==
  ASSUME StoreOK, Persist
  PROVE  StoreOK' /\ mem' = mem /\ (SavesMayFail \/ disk' = mem')
BY Written DEF Persist, SaveOrKeep, Saved, StoreOK

-----------------------------------------------------------------------------
(***************************************************************************)
(* The requests and what they hold.                                        *)
(***************************************************************************)
Requesting == held \in [Users -> Nat] /\ req \in [Requests -> Request]

\* The part of the invariant that is about reservations.
Reserving == Requesting /\ Served /\ HoldersRun /\ HeldIsRunning /\ FanOutCovered

\* Nobody takes or gives back a reservation.
Quiet ==
    /\ held' = held
    /\ \A q \in Requests :
        /\ req'[q].holds <=> req[q].holds
        /\ req[q].holds => req'[q].owner = req[q].owner /\ req'[q].seen = req[q].seen

LEMMA HoldingFinite ==
  ASSUME AdmissionAssumption, NEW u
  PROVE  /\ IsFiniteSet(Holding(u)) /\ Cardinality(Holding(u)) \in Nat
         /\ \A S \in SUBSET Holding(u) : /\ IsFiniteSet(S) /\ Cardinality(S) \in Nat
                                        /\ Cardinality(S) <= Cardinality(Holding(u))
<1>1. Holding(u) \in SUBSET Requests  BY DEF Holding
<1>2. IsFiniteSet(Holding(u))  BY <1>1, FS_Subset DEF AdmissionAssumption
<1> QED BY <1>2, FS_Subset, FS_CardinalityType

LEMMA QuietKeeps ==
  ASSUME AdmissionAssumption, HeldIsRunning, FanOutCovered, Quiet
  PROVE  HeldIsRunning' /\ FanOutCovered'
<1>1. \A u : Holding(u)' = Holding(u)  BY DEF Quiet, Holding
<1>2. HeldIsRunning'  BY <1>1 DEF HeldIsRunning, Quiet
<1>3. ASSUME NEW u \in Users, NEW k
      PROVE  {r \in Holding(u) : req[r].seen < k * Reserve}'
             = {r \in Holding(u) : req[r].seen < k * Reserve}
  BY <1>1 DEF Quiet, Holding
<1> QED BY <1>2, <1>3 DEF FanOutCovered

LEMMA HoldKeeps ==
  ASSUME AdmissionAssumption, Reserving, NEW r \in Requests, Hold(r)
  PROVE  Reserving'
<1>u. PICK u \in Users : u = req[r].owner
  BY DEF Hold, Release, Reserving, Served
<1>0. /\ req[r].owner = u /\ req[r] \in Request /\ req[r].seen \in Int /\ ~req[r].holds
      /\ held \in [Users -> Nat] /\ req \in [Requests -> Request] /\ Reserve \in Nat \ {0}
  BY <1>u DEF Hold, Reserving, Requesting, Served, HoldersRun, Request, AdmissionAssumption
<1>1. CASE req' = [req EXCEPT ![r] = Idle] /\ held' = held
  <2>1. req' = [req EXCEPT ![r] = Idle] /\ held' = held  BY <1>1
  <2>2. Idle \in Request  BY DEF Idle, Request
  <2>3. Requesting' /\ Served' /\ HoldersRun'
    BY <1>0, <2>1, <2>2 DEF Reserving, Requesting, Served, HoldersRun, Idle
  <2>4. Quiet  BY <1>0, <2>1 DEF Quiet, Idle
  <2> QED BY <2>3, <2>4, QuietKeeps DEF Reserving
<1>2. CASE /\ Covers(req[r].seen, held[u]) \/ Rounds(req[r].seen, held[u])
           /\ held' = [held EXCEPT ![u] = @ + Reserve]
           /\ req' = [req EXCEPT ![r].pc = "running", ![r].holds = TRUE]
  <2> DEFINE x == [req[r] EXCEPT !.pc = "running", !.holds = TRUE]
  <2>1. /\ held' = [held EXCEPT ![u] = @ + Reserve]
        /\ req' = [req EXCEPT ![r] = x]
    BY <1>0, <1>2
  <2>2. /\ x \in Request /\ x.holds /\ x.owner = u /\ x.seen = req[r].seen
        /\ x.name = req[r].name /\ x.pc = "running"
    BY <1>0 DEF Request
  <2> HIDE DEF x
  <2>3. held' \in [Users -> Nat]  BY <1>0, <2>1
  <2>4. Requesting' /\ Served' /\ HoldersRun'
    <3>1. req[r].pc # "idle"  BY DEF Hold
    <3> QED BY <1>0, <2>1, <2>2, <2>3, <3>1
        DEF Reserving, Requesting, Served, HoldersRun
  <2>5. r \notin Holding(u) /\ Holding(u)' = Holding(u) \cup {r}
    BY <1>0, <2>1, <2>2 DEF Holding
  <2>6. \A w \in Users \ {u} : Holding(w)' = Holding(w)
    BY <1>0, <2>1, <2>2 DEF Holding
  <2>7. Cardinality(Holding(u)') = Cardinality(Holding(u)) + 1
    BY <2>5, HoldingFinite, FS_AddElement
  <2>8. HeldIsRunning'
    <3>1. held[u] = Reserve * Cardinality(Holding(u))  BY <1>0 DEF Reserving, HeldIsRunning
    <3>2. held'[u] = Reserve * (Cardinality(Holding(u)) + 1)
      BY <1>0, <2>1, <3>1, HoldingFinite
    <3>3. \A w \in Users \ {u} : held'[w] = held[w]  BY <1>0, <2>1
    <3> QED BY <2>6, <2>7, <3>2, <3>3 DEF Reserving, HeldIsRunning
  <2>9. ASSUME NEW w \in Users, NEW k \in 0 .. Cardinality(Requests)
        PROVE  Cardinality({q \in Holding(w) : req[q].seen < k * Reserve}') <= k
    <3> DEFINE few == {q \in Holding(w) : req[q].seen < k * Reserve}
    <3>0. /\ Cardinality(few) <= k /\ few \in SUBSET Holding(w) /\ k \in Nat
      BY FS_CardinalityType DEF AdmissionAssumption, Reserving, FanOutCovered
    <3>1. CASE w # u
      <4>1. few' = few  BY <1>0, <2>1, <2>2, <2>6, <3>1 DEF Holding
      <4> QED BY <3>0, <4>1
    <3>2. CASE w = u /\ req[r].seen >= k * Reserve
      <4>1. few' = few  BY <1>0, <2>1, <2>2, <2>5, <3>0, <3>2 DEF Holding
      <4> QED BY <3>0, <4>1
    <3>3. CASE w = u /\ req[r].seen < k * Reserve
      <4>1. few' = few \cup {r}  BY <1>0, <2>1, <2>2, <2>5, <3>3 DEF Holding
      <4>2. Reserve * Cardinality(Holding(u)) < k * Reserve
        <5>1. held[u] <= req[r].seen  BY <1>0, <1>2 DEF Covers, Rounds
        <5>2. held[u] = Reserve * Cardinality(Holding(u))
          BY <1>0 DEF Reserving, HeldIsRunning
        <5>3. k * Reserve \in Int  BY <1>0, <3>0
        <5> QED BY <1>0, <3>3, <5>1, <5>2, <5>3
      <4>3. Cardinality(Holding(u)) < k
        <5>1. Cardinality(Holding(u)) \in Nat  BY HoldingFinite
        <5>2. Cardinality(Holding(u)) >= k =>
                Reserve * Cardinality(Holding(u)) >= Reserve * k
          BY <1>0, <3>0, <5>1
        <5> QED BY <1>0, <3>0, <4>2, <5>1, <5>2
      <4>4. /\ Cardinality(few) \in Nat /\ Cardinality(few) < k /\ IsFiniteSet(few)
            /\ Cardinality(few \cup {r}) <= Cardinality(few) + 1
        <5>1. /\ IsFiniteSet(few) /\ Cardinality(few) \in Nat
              /\ Cardinality(few) <= Cardinality(Holding(u))
              /\ Cardinality(Holding(u)) \in Nat
          BY <3>0, <3>3, HoldingFinite
        <5> HIDE DEF few
        <5>2. Cardinality(few \cup {r}) <= Cardinality(few) + 1
          <6>1. Cardinality(few \cup {r}) = Cardinality(few)
                \/ Cardinality(few \cup {r}) = Cardinality(few) + 1
            BY <5>1, FS_AddElement
          <6> QED BY <5>1, <6>1
        <5> QED BY <3>0, <4>3, <5>1, <5>2
      <4>5. Cardinality(few \cup {r}) <= k
        <5> HIDE DEF few
        <5>1. Cardinality(few \cup {r}) \in Nat  BY <4>4, FS_AddElement, FS_CardinalityType
        <5> QED BY <3>0, <4>4, <5>1
      <4> QED BY <4>1, <4>5
    <3> QED BY <1>0, <3>0, <3>1, <3>2, <3>3
  <2> QED BY <2>4, <2>8, <2>9 DEF Reserving, FanOutCovered
<1> QED BY <1>0, <1>1, <1>2 DEF Hold

LEMMA ReleaseKeeps ==
  ASSUME AdmissionAssumption, Reserving, NEW r \in Requests, Release(r)
  PROVE  Reserving'
<1>u. PICK u \in Users : u = req[r].owner
  BY DEF Hold, Release, Reserving, Served
<1>0. /\ req[r].owner = u /\ req[r] \in Request
      /\ held \in [Users -> Nat] /\ req \in [Requests -> Request] /\ Reserve \in Nat \ {0}
      /\ req' = [req EXCEPT ![r] = Idle] /\ Idle \in Request /\ Idle.pc = "idle" /\ ~Idle.holds
  BY <1>u DEF Release, Reserving, Requesting, Served, Idle, Request, AdmissionAssumption
<1>1. CASE ~req[r].holds
  <2>1. held' = held  BY <1>1 DEF Release
  <2>2. Requesting' /\ Served' /\ HoldersRun'
    BY <1>0, <2>1 DEF Reserving, Requesting, Served, HoldersRun
  <2>3. Quiet  BY <1>0, <1>1, <2>1 DEF Quiet
  <2> QED BY <2>2, <2>3, QuietKeeps DEF Reserving
<1>2. CASE req[r].holds
  <2>1. held' = [held EXCEPT ![u] = @ - Reserve]  BY <1>0, <1>2 DEF Release
  <2>2. r \in Holding(u) /\ Holding(u)' = Holding(u) \ {r}
    BY <1>0, <1>2 DEF Holding
  <2>3. \A w \in Users \ {u} : Holding(w)' = Holding(w)  BY <1>0, <1>2 DEF Holding
  <2>4. /\ Cardinality(Holding(u)') = Cardinality(Holding(u)) - 1
        /\ Cardinality(Holding(u)) \in Nat /\ Cardinality(Holding(u)') \in Nat
    BY <2>2, HoldingFinite, FS_RemoveElement, FS_CardinalityType
  <2>5. held[u] - Reserve = Reserve * (Cardinality(Holding(u)) - 1)
    <3>1. held[u] = Reserve * Cardinality(Holding(u))  BY <1>0 DEF Reserving, HeldIsRunning
    <3> QED BY <1>0, <2>4, <3>1
  <2>6. held' \in [Users -> Nat]
    <3>1. held[u] - Reserve \in Nat  BY <1>0, <2>4, <2>5
    <3> QED BY <1>0, <2>1, <3>1
  <2>7. Requesting' /\ Served' /\ HoldersRun'
    BY <1>0, <2>6 DEF Reserving, Requesting, Served, HoldersRun
  <2>8. HeldIsRunning'
    <3>1. held'[u] = Reserve * Cardinality(Holding(u)')  BY <1>0, <2>1, <2>4, <2>5
    <3>2. \A w \in Users \ {u} : held'[w] = held[w]  BY <1>0, <2>1
    <3> QED BY <2>3, <3>1, <3>2 DEF Reserving, HeldIsRunning
  <2>9. ASSUME NEW w \in Users, NEW k \in 0 .. Cardinality(Requests)
        PROVE  Cardinality({q \in Holding(w) : req[q].seen < k * Reserve}') <= k
    <3> DEFINE few == {q \in Holding(w) : req[q].seen < k * Reserve}
    <3>1. few' \in SUBSET few  BY <1>0, <2>2, <2>3 DEF Holding
    <3>2. /\ Cardinality(few) <= k /\ IsFiniteSet(few) /\ k \in Nat
      BY HoldingFinite, FS_CardinalityType DEF AdmissionAssumption, Reserving, FanOutCovered
    <3>3. Cardinality(few') <= Cardinality(few) /\ Cardinality(few) \in Nat
          /\ Cardinality(few') \in Nat
      BY <3>1, <3>2, FS_Subset, FS_CardinalityType
    <3>4. Cardinality(few') <= k
      <4> HIDE DEF few
      <4> QED BY <3>2, <3>3
    <3> QED BY <3>4
  <2> QED BY <2>7, <2>8, <2>9 DEF Reserving, FanOutCovered
<1> QED BY <1>1, <1>2

\* A step of a request that takes or gives back no reservation: the request is
\* dropped, or goes on, or arrives.
Stepped(r, x) ==
    /\ held' = held /\ req' = [req EXCEPT ![r] = x]
    /\ x \in Request /\ (x.holds <=> req[r].holds)
    /\ x.holds => /\ x.pc \in {"running", "ending"}
                  /\ x.owner = req[r].owner /\ x.seen = req[r].seen
    /\ x.pc # "idle" => x.owner \in Users /\ x.name \in Names

LEMMA SteppedKeeps ==
  ASSUME AdmissionAssumption, Reserving, NEW r \in Requests, NEW x, Stepped(r, x)
  PROVE  Reserving'
<1>1. req \in [Requests -> Request]  BY DEF Reserving, Requesting
<1>2. Requesting' /\ Served' /\ HoldersRun'
  BY <1>1 DEF Reserving, Requesting, Served, HoldersRun, Stepped
<1>3. Quiet  BY <1>1 DEF Quiet, Stepped
<1> QED BY <1>2, <1>3, QuietKeeps DEF Reserving

\* Every other step of a request is of that kind.
LEMMA ServeSteps ==
  ASSUME AdmissionAssumption, StoreOK, Reserving, NEW r \in Requests, Serve(r)
  PROVE  Hold(r) \/ Release(r) \/ \E x : Stepped(r, x)
<1>0. /\ req \in [Requests -> Request] /\ req[r] \in Request
      /\ Idle \in Request /\ Idle.pc = "idle" /\ ~Idle.holds
  BY DEF Reserving, Requesting, Idle, Request
<1>1. ASSUME NEW n \in Names, Arrive(r, n) PROVE \E x : Stepped(r, x)
  <2> DEFINE x == [Idle EXCEPT !.pc = "keyed", !.name = n, !.owner = mem.key[n].owner]
  <2>1. ~req[r].holds /\ mem.key[n].owner \in Users
    BY <1>1 DEF Arrive, Reserving, HoldersRun, Exists, StoreOK, State, Key
  <2>2. Stepped(r, x)  BY <1>0, <1>1, <2>1 DEF Arrive, Stepped, Idle, Request
  <2> QED BY <2>2
<1>2. CASE RefuseOrigin(r) \/ Gate(r) \/ RefuseRate(r)
  <2>1. ~req[r].holds /\ held' = held /\ req[r].owner \in Users /\ req[r].name \in Names
    BY <1>2 DEF RefuseOrigin, Gate, RefuseRate, Reserving, HoldersRun, Served
  <2>2. CASE req' = [req EXCEPT ![r] = Idle]
    <3>1. Stepped(r, Idle)  BY <1>0, <2>1, <2>2 DEF Stepped
    <3> QED BY <3>1
  <2>3. CASE req' = [req EXCEPT ![r].pc = "passed"]
    <3>1. Stepped(r, [req[r] EXCEPT !.pc = "passed"])
      BY <1>0, <2>1, <2>3 DEF Stepped, Request
    <3> QED BY <3>1
  <2> QED BY <1>2, <2>2, <2>3 DEF RefuseOrigin, Gate, RefuseRate
<1>3. CASE SpendOwnKeys(r)
  <2>1. Stepped(r, [req[r] EXCEPT !.pc = "running"])
    BY <1>0, <1>3 DEF SpendOwnKeys, Stepped, Request, Reserving, HoldersRun, Served
  <2> QED BY <2>1
<1>4. CASE ReadBalance(r)
  <2> DEFINE x == [req[r] EXCEPT !.pc = "read", !.seen = mem.bal[req[r].owner]]
  <2>1. /\ ~req[r].holds /\ req[r].owner \in Users /\ req[r].name \in Names
        /\ mem.bal[req[r].owner] \in Int
    BY <1>4 DEF ReadBalance, Reserving, HoldersRun, Served, StoreOK, State
  <2>2. Stepped(r, x)  BY <1>0, <1>4, <2>1 DEF ReadBalance, Stepped, Request
  <2> QED BY <2>2
<1>5. ASSUME req[r].pc = "running", held' = held, req' = [req EXCEPT ![r].pc = "ending"]
      PROVE  \E x : Stepped(r, x)
  <2>1. Stepped(r, [req[r] EXCEPT !.pc = "ending"])
    BY <1>0, <1>5 DEF Stepped, Request, Reserving, Served
  <2> QED BY <2>1
<1>6. ASSUME (\E cost \in Costs \cup {0} : Meter(r, cost)) \/ Refused(r)
      PROVE  \E x : Stepped(r, x)
  BY <1>5, <1>6 DEF Meter, Refused
<1> QED BY <1>1, <1>2, <1>3, <1>4, <1>6 DEF Serve

\* What a request's step does to the store.
LEMMA ServeTyped ==
  ASSUME AdmissionAssumption, StoreOK, Reserving, NEW r \in Requests, Serve(r)
  PROVE  /\ StoreOK' /\ UNCHANGED <<topups, crashes>>
         /\ \/ mem'.bal = mem.bal /\ disk' = disk
            \/ \E u \in Users, cost \in Nat :
                /\ mem'.bal = [mem.bal EXCEPT ![u] = @ - cost]
                /\ IF Exhausted(u, cost) THEN Saved(mem') \/ SavesMayFail
                                         ELSE disk' = disk
<1>1. req[r].pc # "idle" => req[r].name \in Names  BY DEF Reserving, Served
<1>2. ASSUME Store' = Store PROVE StoreOK' /\ mem'.bal = mem.bal /\ disk' = disk
  BY <1>2 DEF Store, StoreOK
<1>3. UNCHANGED <<topups, crashes>>
  BY DEF Serve, Arrive, RefuseOrigin, Gate, RefuseRate, SpendOwnKeys, ReadBalance,
         Hold, Meter, Refused, Release, bounds
<1>4. CASE RefuseOrigin(r) \/ Gate(r)
  <2>1. RecordDenied(req[r].name) \/ Store' = Store
    BY <1>4 DEF RefuseOrigin, Gate, Store
  <2> QED BY <1>1, <1>2, <1>3, <1>4, <2>1, DeniedTyped DEF RefuseOrigin, Gate
<1>5. ASSUME NEW cost \in Costs \cup {0}, Meter(r, cost)
      PROVE  /\ StoreOK'
             /\ \/ mem'.bal = mem.bal /\ disk' = disk
                \/ \E u \in Users :
                    /\ mem'.bal = [mem.bal EXCEPT ![u] = @ - cost]
                    /\ IF Exhausted(u, cost) THEN Saved(mem') \/ SavesMayFail
                                             ELSE disk' = disk
  BY <1>1, <1>5, UsageTyped DEF Meter, AdmissionAssumption
<1>6. ASSUME ~RefuseOrigin(r), ~Gate(r), ~(\E cost \in Costs \cup {0} : Meter(r, cost))
      PROVE  Store' = Store
  BY <1>6 DEF Serve, Arrive, RefuseRate, SpendOwnKeys, ReadBalance, Hold, Refused,
              Release, Store
<1>7. Costs \cup {0} \subseteq Nat  BY DEF AdmissionAssumption
<1> QED BY <1>2, <1>3, <1>4, <1>5, <1>6, <1>7

-----------------------------------------------------------------------------
(***************************************************************************)
(* The invariant.                                                          *)
(***************************************************************************)
LEMMA InitInvariant == Init => IInv
<1> SUFFICES ASSUME Init PROVE IInv  OBVIOUS
<1>0. AdmissionAssumption  BY AdmissionAssumption
<1>1. TypeOK
  <2>1. NoKey \in Key /\ Idle \in Request  BY DEF NoKey, Key, Idle, Request
  <2>a. dirty = FALSE  BY DEF Init
  <2>b. dirty \in BOOLEAN  BY <2>a
  <2>c. mem \in State /\ disk = mem  BY <2>1 DEF Init, State
  <2>2. mem \in State /\ disk \in State /\ dirty \in BOOLEAN  BY <2>b, <2>c
  <2>3. held \in [Users -> Nat] /\ req \in [Requests -> Request]  BY <2>1 DEF Init
  <2>4. topups \in Nat /\ crashes \in Nat  BY DEF Init
  <2> QED BY <2>2, <2>3, <2>4 DEF TypeOK
<1>2. Served /\ HoldersRun  BY DEF Init, Served, HoldersRun, Idle
<1>3. \A u : Holding(u) = {}  BY DEF Init, Holding, Idle
<1>4. HeldIsRunning
  <2>1. Cardinality({}) = 0 /\ Reserve \in Nat  BY <1>0, FS_EmptySet DEF AdmissionAssumption
  <2> QED BY <1>3, <2>1 DEF Init, HeldIsRunning
<1>5. FanOutCovered
  <2>1. ASSUME NEW u \in Users, NEW k \in 0 .. Cardinality(Requests)
        PROVE  Cardinality({r \in Holding(u) : req[r].seen < k * Reserve}) <= k
    <3>1. {r \in Holding(u) : req[r].seen < k * Reserve} = {}  BY <1>3
    <3> QED BY <3>1, FS_EmptySet
  <2> QED BY <2>1 DEF FanOutCovered
<1> QED BY <1>1, <1>2, <1>4, <1>5 DEF IInv

LEMMA NextInvariant == IInv /\ [Next]_vars => IInv'
<1> SUFFICES ASSUME IInv, [Next]_vars PROVE IInv'  OBVIOUS
<1>0. AdmissionAssumption  BY AdmissionAssumption
<1>1. StoreOK /\ Reserving /\ topups \in Nat /\ crashes \in Nat
  BY DEF IInv, TypeOK, StoreOK, Reserving, Requesting
<1>2. SUFFICES StoreOK' /\ Reserving' /\ topups' \in Nat /\ crashes' \in Nat
  BY DEF IInv, TypeOK, StoreOK, Reserving, Requesting
<1>3. ASSUME held' = held, req' = req PROVE Reserving'
  <2>1. Quiet  BY <1>3 DEF Quiet
  <2>2. HeldIsRunning' /\ FanOutCovered'  BY <1>0, <1>1, <2>1, QuietKeeps DEF Reserving
  <2> QED BY <1>1, <1>3, <2>2 DEF Reserving, Requesting, Served, HoldersRun
<1>4. ASSUME NEW r \in Requests, Serve(r)
      PROVE  StoreOK' /\ Reserving' /\ topups' \in Nat /\ crashes' \in Nat
  <2>1. StoreOK' /\ UNCHANGED <<topups, crashes>>  BY <1>0, <1>1, <1>4, ServeTyped
  <2>2. Reserving'
    BY <1>0, <1>1, <1>4, ServeSteps, HoldKeeps, ReleaseKeeps, SteppedKeeps
  <2> QED BY <1>1, <2>1, <2>2
<1>5. CASE Console  BY <1>0, <1>1, <1>3, <1>5, ConsoleTyped
<1>6. CASE Persist
  <2>1. held' = held /\ req' = req /\ topups' = topups /\ crashes' = crashes
    BY <1>6 DEF Persist, bounds
  <2>2. StoreOK'  BY <1>1, <1>6, PersistTyped
  <2> QED BY <1>1, <1>3, <2>1, <2>2
<1>7. CASE Crash
  <2>a. dirty' = FALSE  BY <1>7 DEF Crash
  <2>b. dirty' \in BOOLEAN  BY <2>a
  <2>c. mem' = disk /\ disk' = disk /\ topups' = topups /\ crashes' = crashes + 1
    BY <1>7 DEF Crash
  <2>1. StoreOK' /\ topups' \in Nat /\ crashes' \in Nat  BY <1>1, <2>b, <2>c DEF StoreOK
  <2>2. Requesting' /\ Served' /\ HoldersRun'
    BY <1>7 DEF Crash, Requesting, Served, HoldersRun, Idle, Request
  <2>3. \A u : Holding(u)' = {}  BY <1>7 DEF Crash, Holding, Idle
  <2>4. Reserve * 0 = 0 /\ Cardinality({}) = 0
    BY <1>0, FS_EmptySet DEF AdmissionAssumption
  <2>5. HeldIsRunning'  BY <1>7, <2>3, <2>4 DEF Crash, HeldIsRunning
  <2>6. ASSUME NEW u \in Users, NEW k \in 0 .. Cardinality(Requests)
        PROVE  Cardinality({r \in Holding(u) : req[r].seen < k * Reserve}') <= k
    <3>1. {r \in Holding(u) : req[r].seen < k * Reserve}' = {}  BY <2>3
    <3> QED BY <3>1, FS_EmptySet
  <2> QED BY <2>1, <2>2, <2>5, <2>6 DEF Reserving, FanOutCovered
<1>8. CASE UNCHANGED vars  BY <1>1, <1>3, <1>8 DEF vars, StoreOK
<1> QED BY <1>4, <1>5, <1>6, <1>7, <1>8 DEF Next

\* What is held counts the calls that hold, and only running ones do, always.
THEOREM Invariance == Spec => []IInv
BY InitInvariant, NextInvariant, PTL DEF Spec

\* Every reachable state is of its type.
THEOREM Typed == Spec => []TypeOK
<1>1. IInv => TypeOK  BY DEF IInv
<1> QED BY <1>1, Invariance, PTL

\* The reservations match the calls in flight, for any number of requests of
\* any number of owners and any exit of a handler.
THEOREM ReservationsMatchCalls == Spec => []HeldIsRunning
<1>1. IInv => HeldIsRunning  BY DEF IInv
<1> QED BY <1>1, Invariance, PTL

\* The bound on what a balance of less than k reserves can start at once,
\* however many requests read it before any of them took its reservation, and
\* whichever way the sum of the reservations is rounded.
THEOREM FanOutIsBounded == Spec => []FanOutCovered
<1>1. IInv => FanOutCovered  BY DEF IInv
<1> QED BY <1>1, Invariance, PTL

-----------------------------------------------------------------------------
(***************************************************************************)
(* The debit that empties an account.                                      *)
(***************************************************************************)
LEMMA EmptiedStep ==
  SavesMayFail = FALSE /\ IInv /\ ExhaustionIsDurable /\ [Next]_vars => ExhaustionIsDurable'
<1> SUFFICES ASSUME SavesMayFail = FALSE, IInv, ExhaustionIsDurable, [Next]_vars
             PROVE  ExhaustionIsDurable'
  OBVIOUS
<1>0. AdmissionAssumption  BY AdmissionAssumption
<1>1. StoreOK /\ Reserving  BY DEF IInv, TypeOK, StoreOK, Reserving, Requesting
<1>2. ASSUME mem'.bal = disk'.bal PROVE ExhaustionIsDurable'
  BY <1>2 DEF ExhaustionIsDurable
<1>3. ASSUME mem'.bal = mem.bal, disk'.bal = disk.bal PROVE ExhaustionIsDurable'
  BY <1>3 DEF ExhaustionIsDurable
<1>4. ASSUME NEW r \in Requests, Serve(r) PROVE ExhaustionIsDurable'
  <2>1. ASSUME NEW u \in Users, NEW cost \in Nat, ~Exhausted(u, cost),
               mem'.bal = [mem.bal EXCEPT ![u] = @ - cost], disk' = disk
        PROVE  ExhaustionIsDurable'
    <3>1. mem.bal \in [Users -> Int]  BY <1>1 DEF StoreOK, State
    <3>2. \A w \in Users : mem'.bal[w] <= 0 => mem.bal[w] <= 0
      BY <2>1, <3>1 DEF Exhausted
    <3> QED BY <2>1, <3>2 DEF ExhaustionIsDurable
  <2>2. ASSUME Saved(mem') PROVE ExhaustionIsDurable'
    BY <1>2, <2>2 DEF Saved
  <2> QED BY <1>0, <1>1, <1>3, <1>4, <2>1, <2>2, ServeTyped
<1>5. CASE Console  BY <1>0, <1>1, <1>2, <1>5, ConsoleTyped
<1>6. CASE Persist  BY <1>1, <1>2, <1>6, PersistTyped
<1>7. CASE Crash  BY <1>2, <1>7 DEF Crash
<1>8. CASE UNCHANGED vars  BY <1>3, <1>8 DEF vars
<1> QED BY <1>4, <1>5, <1>6, <1>7, <1>8 DEF Next

\* While writes land, no crash brings back an account that was spent to
\* nothing: every other debit may be lost with the process, that one is not.
THEOREM EmptiedStaysEmptied == SavesMayFail = FALSE => (Spec => []ExhaustionIsDurable)
<1>1. Init => ExhaustionIsDurable  BY DEF Init, ExhaustionIsDurable
<1> SUFFICES ASSUME SavesMayFail = FALSE PROVE Spec => []ExhaustionIsDurable
  OBVIOUS
<1>2. IInv /\ ExhaustionIsDurable /\ [Next]_vars => ExhaustionIsDurable'
  BY EmptiedStep
<1> QED BY <1>1, <1>2, Invariance, PTL DEF Spec

=============================================================================
