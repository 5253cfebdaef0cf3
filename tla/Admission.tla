------------------------------ MODULE Admission ------------------------------
(***************************************************************************)
(* Who is served, and who pays: the auth middleware of internal/server     *)
(* with the console keys of internal/adminstore.                           *)
(*                                                                         *)
(* A request looks its key up, passes the balance gate, reads the balance  *)
(* again, takes a reservation on it, runs, is metered when it ends and     *)
(* gives the reservation back.  Each is a step of its own: no lock is held *)
(* from one to the next, and the balance, the key and the key's name can   *)
(* change under a request in flight.  Usage is recorded by the NAME of the *)
(* key, and the debit goes to whoever owns that name when the call ends.   *)
(*                                                                         *)
(* The state is a memory image and a state file; debits ride a periodic    *)
(* flush.  Money is counted in units, and where the code adds up floating  *)
(* point numbers and compares the sum, an exact tie falls either way.      *)
(* What a handler does between its admission and its end is left to the    *)
(* modules of routing and sessions; here it costs some total, once, or     *)
(* fails.  Keys declared in the configuration bill nobody and pass neither *)
(* gate: they are left out.                                                *)
(***************************************************************************)
EXTENDS Integers, FiniteSets, FiniteSetsExt

CONSTANTS
    Users, NoUser,
    Names,          \* names of console keys
    Requests,       \* requests that can be in flight at once
    Reserve,        \* inflightReserveUSD
    Costs,          \* what a call served on the gateway's keys may cost
    SavesMayFail,   \* whether a write of the state file can fail
    TopUp, MaxTopUps, MaxCrashes, MaxDebt   \* bounds of the model

ASSUME AdmissionAssumption ==
    /\ NoUser \notin Users
    /\ IsFiniteSet(Requests)
    /\ Reserve \in Nat \ {0}
    /\ Costs \subseteq Nat \ {0}
    /\ SavesMayFail \in BOOLEAN
    /\ {TopUp, MaxTopUps, MaxCrashes, MaxDebt} \subseteq Nat

VARIABLES
    mem,      \* Store.st: balances, keys, and the names with a usage row
    disk,     \* the state file
    dirty,    \* Store.dirty
    held,     \* reservations.held
    req,      \* the requests in flight
    topups, crashes

vars == <<mem, disk, dirty, held, req, topups, crashes>>

Key == [owner : Users \cup {NoUser}, disabled : BOOLEAN]
NoKey == [owner |-> NoUser, disabled |-> FALSE]

State == [bal : [Users -> Int], key : [Names -> Key], hist : SUBSET Names]

\* seen: the balance the reservation is taken against; holds: whether the
\* request has a reservation to give back.
Request == [pc : {"idle", "keyed", "passed", "read", "running", "ending"},
            name : Names \cup {NoUser}, owner : Users \cup {NoUser},
            seen : Int, holds : BOOLEAN]

Idle == [pc |-> "idle", name |-> NoUser, owner |-> NoUser, seen |-> 0, holds |-> FALSE]

TypeOK ==
    /\ mem \in State /\ disk \in State /\ dirty \in BOOLEAN
    /\ held \in [Users -> Nat]
    /\ req \in [Requests -> Request]
    /\ topups \in Nat /\ crashes \in Nat

Init ==
    /\ mem = [bal  |-> [u \in Users |-> 0],
              key  |-> [n \in Names |-> NoKey],
              hist |-> {}]
    /\ disk = mem /\ dirty = FALSE
    /\ held = [u \in Users |-> 0]
    /\ req = [r \in Requests |-> Idle]
    /\ topups = 0 /\ crashes = 0

-----------------------------------------------------------------------------
(***************************************************************************)
(* The store.                                                              *)
(***************************************************************************)
Saved(new) == mem' = new /\ disk' = new /\ dirty' = FALSE

SaveOrKeep(new) ==
    \/ Saved(new)
    \/ SavesMayFail /\ mem' = new /\ dirty' = TRUE /\ UNCHANGED disk

Later(new) == mem' = new /\ dirty' = TRUE /\ UNCHANGED disk

Exists(n) == mem.key[n].owner # NoUser

\* RecordDenied counts the refusal, which gives the name a usage row.
RecordDenied(n) == Later([mem EXCEPT !.hist = @ \cup {n}])

\* Variant: a debit that lands exactly on zero is left for the flush.
ExhaustedBelow(u, cost) == mem.bal[u] > 0 /\ mem.bal[u] - cost < 0

\* The debit that empties the account is the one written at once.
Exhausted(u, cost) == mem.bal[u] > 0 /\ mem.bal[u] - cost <= 0

\* The owner of the name pays, if the name still has one.
RecordUsage(n, cost) ==
    LET used == [mem EXCEPT !.hist = @ \cup {n}]
        u    == mem.key[n].owner
        paid == [used EXCEPT !.bal[u] = @ - cost]
    IN  IF ~Exists(n) THEN Later(used)
        ELSE IF Exhausted(u, cost) THEN SaveOrKeep(paid) ELSE Later(paid)

-----------------------------------------------------------------------------
(***************************************************************************)
(* auth, one step per stretch between two locks.                           *)
(***************************************************************************)
Store == <<mem, disk, dirty>>
bounds == <<topups, crashes>>

\* Lookup finds an enabled key by its secret.
Arrive(r, n) ==
    /\ req[r].pc = "idle"
    /\ Exists(n) /\ ~mem.key[n].disabled
    /\ req' = [req EXCEPT ![r] = [Idle EXCEPT !.pc = "keyed", !.name = n,
                                              !.owner = mem.key[n].owner]]
    /\ UNCHANGED <<Store, held, bounds>>

\* originAllowed refuses.
RefuseOrigin(r) ==
    /\ req[r].pc = "keyed"
    /\ RecordDenied(req[r].name)
    /\ req' = [req EXCEPT ![r] = Idle]
    /\ UNCHANGED <<held, bounds>>

\* The balance gate.
Gate(r) ==
    /\ req[r].pc = "keyed"
    /\ IF mem.bal[req[r].owner] <= 0
       THEN RecordDenied(req[r].name) /\ req' = [req EXCEPT ![r] = Idle]
       ELSE req' = [req EXCEPT ![r].pc = "passed"] /\ UNCHANGED Store
    /\ UNCHANGED <<held, bounds>>

\* RateOKLimit refuses.
RefuseRate(r) ==
    /\ req[r].pc = "passed"
    /\ req' = [req EXCEPT ![r] = Idle]
    /\ UNCHANGED <<Store, held, bounds>>

\* A request on the caller's own vendor keys takes no reservation.
SpendOwnKeys(r) ==
    /\ req[r].pc = "passed"
    /\ req' = [req EXCEPT ![r].pc = "running"]
    /\ UNCHANGED <<Store, held, bounds>>

\* The balance is read once more ...
ReadBalance(r) ==
    /\ req[r].pc = "passed"
    /\ req' = [req EXCEPT ![r].pc = "read", ![r].seen = mem.bal[req[r].owner]]
    /\ UNCHANGED <<Store, held, bounds>>

\* Variant: the last reservation taken does not count against the balance.
CoversButLast(balance, reserved) == balance > reserved - Reserve

\* What reservations.hold asks of a balance.
Covers(balance, reserved) == balance > reserved

\* What is held is a sum of 0.05 in binary floating point: eight of them make
\* less than 0.40, three make more than 0.15.  Where a balance should equal
\* what is held the rounding decides; nothing held is exactly nothing.
Rounds(balance, reserved) == balance = reserved /\ reserved > 0

\* ... and held against, under the lock of the reservations.
Hold(r) ==
    LET u == req[r].owner
    IN  /\ req[r].pc = "read"
        /\ \/ /\ Covers(req[r].seen, held[u]) \/ Rounds(req[r].seen, held[u])
              /\ held' = [held EXCEPT ![u] = @ + Reserve]
              /\ req' = [req EXCEPT ![r].pc = "running", ![r].holds = TRUE]
           \/ /\ ~Covers(req[r].seen, held[u])
              /\ req' = [req EXCEPT ![r] = Idle] /\ UNCHANGED held
        /\ UNCHANGED <<Store, bounds>>

\* The call ends: it is metered under the name of its key.  One the vendor
\* broke costs nothing, and so does one served on the caller's own keys unless
\* the caller hung up on its stream: the mark that it was is set at the end.
Meter(r, cost) ==
    /\ req[r].pc = "running"
    /\ Exists(req[r].name) => mem.bal[mem.key[req[r].name].owner] >= cost - MaxDebt
    /\ RecordUsage(req[r].name, cost)
    /\ req' = [req EXCEPT ![r].pc = "ending"]
    /\ UNCHANGED <<held, bounds>>

\* A call refused before any vendor worked is not metered at all.
Refused(r) ==
    /\ req[r].pc = "running"
    /\ req' = [req EXCEPT ![r].pc = "ending"]
    /\ UNCHANGED <<Store, held, bounds>>

\* Variant: the reservation is given back only by calls that were metered.
ReleaseMetered(r) ==
    LET u == req[r].owner
    IN  /\ req[r].pc = "ending"
        /\ held' = IF req[r].holds /\ req[r].name \in mem.hist
                   THEN [held EXCEPT ![u] = @ - Reserve] ELSE held
        /\ req' = [req EXCEPT ![r] = Idle]
        /\ UNCHANGED <<Store, bounds>>

\* Variant: a reservation is given back whether or not one was taken.
ReleaseAlways(r) ==
    LET u == req[r].owner
    IN  /\ req[r].pc = "ending"
        /\ held' = [held EXCEPT ![u] = @ - Reserve]
        /\ req' = [req EXCEPT ![r] = Idle]
        /\ UNCHANGED <<Store, bounds>>

\* The deferred release, however the handler returned.
Release(r) ==
    LET u == req[r].owner
    IN  /\ req[r].pc = "ending"
        /\ held' = IF req[r].holds THEN [held EXCEPT ![u] = @ - Reserve] ELSE held
        /\ req' = [req EXCEPT ![r] = Idle]
        /\ UNCHANGED <<Store, bounds>>

-----------------------------------------------------------------------------
(***************************************************************************)
(* The console: keys, usage counters, operator top-ups.                    *)
(***************************************************************************)

\* NewToken refuses a name that has a key or a usage row.
CreateToken(u, n) ==
    /\ ~Exists(n) /\ n \notin mem.hist
    /\ SaveOrKeep([mem EXCEPT !.key[n] = [owner |-> u, disabled |-> FALSE]])
    /\ UNCHANGED <<held, req, bounds>>

DeleteToken(n) ==
    /\ Exists(n)
    /\ SaveOrKeep([mem EXCEPT !.key[n] = NoKey])
    /\ UNCHANGED <<held, req, bounds>>

SetTokenDisabled(n) ==
    /\ Exists(n)
    /\ SaveOrKeep([mem EXCEPT !.key[n].disabled = ~@])
    /\ UNCHANGED <<held, req, bounds>>

\* One project's counters, or all of them.
ResetUsage(names) ==
    /\ SaveOrKeep([mem EXCEPT !.hist = @ \ names])
    /\ UNCHANGED <<held, req, bounds>>

\* adminRechargeUser, for a settled top-up too.
AddPayment(u) ==
    /\ topups < MaxTopUps
    /\ topups' = topups + 1
    /\ SaveOrKeep([mem EXCEPT !.bal[u] = @ + TopUp])
    /\ UNCHANGED <<held, req, crashes>>

Persist ==
    /\ dirty
    /\ SaveOrKeep(mem)
    /\ UNCHANGED <<held, req, bounds>>

\* Killed and started again: nothing is in flight and nothing is held.
Crash ==
    /\ crashes < MaxCrashes
    /\ crashes' = crashes + 1
    /\ mem' = disk /\ dirty' = FALSE
    /\ held' = [u \in Users |-> 0]
    /\ req' = [r \in Requests |-> Idle]
    /\ UNCHANGED <<disk, topups>>

-----------------------------------------------------------------------------
Serve(r) ==
    \/ \E n \in Names : Arrive(r, n)
    \/ RefuseOrigin(r) \/ Gate(r) \/ RefuseRate(r)
    \/ SpendOwnKeys(r) \/ ReadBalance(r) \/ Hold(r)
    \/ \E cost \in Costs \cup {0} : Meter(r, cost)
    \/ Refused(r) \/ Release(r)

Console ==
    \/ \E u \in Users : AddPayment(u)
    \/ \E u \in Users, n \in Names : CreateToken(u, n)
    \/ \E n \in Names : DeleteToken(n) \/ SetTokenDisabled(n) \/ ResetUsage({n})
    \/ ResetUsage(Names)

Next == (\E r \in Requests : Serve(r)) \/ Console \/ Persist \/ Crash

Spec == Init /\ [][Next]_vars

-----------------------------------------------------------------------------
(***************************************************************************)
(* What makes it correct.                                                  *)
(***************************************************************************)

Holding(u) == {r \in Requests : req[r].holds /\ req[r].owner = u}

\* No exit leaks a reservation or gives back one it does not have: what is
\* held for an owner is what the running requests of that owner hold.
HeldIsRunning == \A u \in Users : held[u] = Reserve * Cardinality(Holding(u))

\* A small balance does not fan out: at most k requests in flight were admitted
\* on a balance of less than k reserves, however stale the balance each of them
\* read.  (A balance of exactly k reserves may admit one more, by rounding:
\* reserve.go's "a $5 balance a hundred at once" is a hundred and one.)
FanOutCovered ==
    \A u \in Users : \A k \in 0 .. Cardinality(Requests) :
        Cardinality({r \in Holding(u) : req[r].seen < k * Reserve}) <= k

\* The debit that empties an account is on disk when it is made: the next
\* boot never serves on money already spent.  (While writes land.)
ExhaustionIsDurable == \A u \in Users : mem.bal[u] <= 0 => disk.bal[u] <= 0

=============================================================================
