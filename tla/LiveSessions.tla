---------------------------- MODULE LiveSessions ----------------------------
(***************************************************************************)
(* Live voice sessions (internal/server/live.go): the vendor and the       *)
(* browser talk directly, so a session is registered and prepaid when it   *)
(* is created, charged by the cumulative seconds its caller reports, and   *)
(* billed as abandoned when it goes quiet.                                 *)
(*                                                                         *)
(* Two things are kept: the registry, written to its own file on every     *)
(* change, and the charges, which ride the wallet's periodic flush.  A     *)
(* request advances the registry's mark under the lock and charges the     *)
(* difference after it; requests of one key, other keys, the flush and a   *)
(* killed process come in between.                                         *)
(*                                                                         *)
(* Time and money are both counted in units of call time.  The wallet is   *)
(* seen through charged[s], the share of its debits that session s caused. *)
(* A session on the caller's own vendor key takes the same steps at a      *)
(* price of zero and is left out.                                          *)
(***************************************************************************)
EXTENDS Integers, FiniteSetsExt, Functions

CONSTANTS
    Projects, NoProject,
    Sessions, NoSession,   \* session ids the vendor can issue
    Handlers,              \* requests that can be in flight at once
    PrepaidSeconds,        \* livePrepaidSeconds
    StaleAfter,            \* liveStaleAfter
    ClockSlack,            \* liveClockSlack
    TTL,                   \* liveSessionTTL
    MaxOpen,               \* liveMaxOpen
    Reports,               \* cumulative durations a caller may report
    SavesMayFail,          \* whether a write of the registry can fail
    MaxTime, MaxCrashes    \* bounds of the model

ASSUME LiveAssumption ==
    /\ NoProject \notin Projects /\ NoSession \notin Sessions
    /\ IsFiniteSet(Sessions) /\ IsFiniteSet(Handlers)
    /\ {PrepaidSeconds, StaleAfter, ClockSlack, TTL, MaxTime, MaxCrashes} \subseteq Nat
    /\ MaxOpen \in Nat \ {0}
    /\ Reports \subseteq Nat
    /\ SavesMayFail \in BOOLEAN

VARIABLES
    sessions,      \* liveSessions.sessions
    file,          \* the registry on disk
    charged,       \* the wallet's debits, by session
    flushed,       \* the wallet's debits that are on disk
    handler,       \* the requests in flight
    now,
    created,       \* history: when each session was registered
    crashes

liveVars == <<sessions, file, charged, flushed, handler, now, created, crashes>>

Session == [project : Projects \cup {NoProject}, created : Nat,
            billed : Nat, lastSeen : Nat, reaped : BOOLEAN]

Absent == [project |-> NoProject, created |-> 0, billed |-> 0,
           lastSeen |-> 0, reaped |-> FALSE]

Registry == [Sessions -> Session]

Empty == [s \in Sessions |-> Absent]

\* pc: what the request does next, once everything it owes is charged.
\* owes: seconds it took off the registry and has not charged yet.
Handler == [pc : {"idle", "count", "vendor", "put", "take"},
            project : Projects \cup {NoProject}, id : Sessions \cup {NoSession},
            seconds : Reports \cup {0}, final : BOOLEAN,
            owes : SUBSET [id : Sessions, seconds : Nat]]

Idle == [pc |-> "idle", project |-> NoProject, id |-> NoSession, seconds |-> 0,
         final |-> FALSE, owes |-> {}]

TypeOK ==
    /\ sessions \in Registry /\ file \in Registry
    /\ charged \in [Sessions -> Nat] /\ flushed \in [Sessions -> Nat]
    /\ \A h \in Handlers : handler[h] \in Handler
    /\ now \in Nat /\ crashes \in Nat
    /\ created \in [Sessions -> Nat \cup {-1}]
    /\ \A s \in Sessions : sessions[s].project # NoProject =>
            /\ sessions[s].billed >= PrepaidSeconds
            /\ sessions[s].created <= sessions[s].lastSeen /\ sessions[s].lastSeen <= now

Init ==
    /\ sessions = Empty /\ file = Empty
    /\ charged = [s \in Sessions |-> 0] /\ flushed = charged
    /\ handler = [h \in Handlers |-> Idle]
    /\ now = 0 /\ crashes = 0
    /\ created = [s \in Sessions |-> -1]

-----------------------------------------------------------------------------
(***************************************************************************)
(* The registry.                                                           *)
(***************************************************************************)
Registered(reg, s) == reg[s].project # NoProject

\* A failed write is logged, and the change stays in memory.
SaveLocked(reg) ==
    /\ sessions' = reg
    /\ \/ file' = reg
       \/ SavesMayFail /\ UNCHANGED file

Prune(reg) ==
    [s \in Sessions |-> IF reg[s].created < now - TTL THEN Absent ELSE reg[s]]

Put(reg, s, p) ==
    [Prune(reg) EXCEPT ![s] = [project |-> p, created |-> now, billed |-> PrepaidSeconds,
                               lastSeen |-> now, reaped |-> FALSE]]

Open(p) == {s \in Sessions : sessions[s].project = p /\ ~sessions[s].reaped}

\* Quiet for longer than the window, not billed that way before.
Abandoned(p) == {s \in Open(p) : now - sessions[s].lastSeen > StaleAfter}

Positive(n) == IF n < 0 THEN 0 ELSE n

\* From creation until it went quiet plus the window, less what was billed.
OwedOf(s) ==
    Positive(sessions[s].lastSeen + StaleAfter - sessions[s].created - sessions[s].billed)

\* Variant: the report is taken as it comes.
DeltaUnbounded(s, seconds) == Positive(seconds - sessions[s].billed)

\* What a report adds: no more than the clock allows, never less than nothing.
Delta(s, seconds) ==
    LET ceiling == now - sessions[s].created + ClockSlack
    IN  Positive((IF seconds > ceiling THEN ceiling ELSE seconds) - sessions[s].billed)

\* Nothing is billed for no time at all.
Debt(s, seconds) == IF seconds > 0 THEN {[id |-> s, seconds |-> seconds]} ELSE {}

Reaped(p) == UNION {Debt(s, OwedOf(s)) : s \in Abandoned(p)}

-----------------------------------------------------------------------------
(***************************************************************************)
(* handleLiveSession and handleLiveUsage, one step per critical section.   *)
(***************************************************************************)
wallet == <<charged, flushed>>
clock == <<now, crashes>>

Ready(h, pc) == handler[h].pc = pc /\ handler[h].owes = {}

Becomes(h, x) == handler' = [handler EXCEPT ![h] = x]

\* reapLive, the first thing either request does.
Reap(p) ==
    LET gone == Abandoned(p)
        reg  == [s \in Sessions |->
                    IF s \in gone
                    THEN [sessions[s] EXCEPT !.billed = @ + OwedOf(s), !.reaped = TRUE]
                    ELSE sessions[s]]
    IN  IF gone = {} THEN UNCHANGED <<sessions, file>> ELSE SaveLocked(reg)

StartCreate(h, p) ==
    /\ Ready(h, "idle")
    /\ Reap(p)
    /\ Becomes(h, [Idle EXCEPT !.pc = "count", !.project = p,
                               !.owes = Reaped(p)])
    /\ UNCHANGED <<wallet, clock, created>>

StartReport(h, p, s, seconds, final) ==
    /\ Ready(h, "idle")
    /\ Reap(p)
    /\ Becomes(h, [pc |-> "take", project |-> p, id |-> s, seconds |-> seconds,
                   final |-> final, owes |-> Reaped(p)])
    /\ UNCHANGED <<wallet, clock, created>>

BelowCap(p) == Cardinality(Open(p)) < MaxOpen

CountOpen(h) ==
    /\ Ready(h, "count")
    /\ Becomes(h, IF BelowCap(handler[h].project)
                  THEN [handler[h] EXCEPT !.pc = "vendor"] ELSE Idle)
    /\ UNCHANGED <<sessions, file, wallet, clock, created>>

\* The vendor opens the call under an id of its own, or refuses.
VendorOpens(h, s) ==
    /\ Ready(h, "vendor")
    /\ created[s] = -1 /\ \A g \in Handlers : handler[g].pc = "put" => handler[g].id # s
    /\ Becomes(h, [handler[h] EXCEPT !.pc = "put", !.id = s])
    /\ UNCHANGED <<sessions, file, wallet, clock, created>>

VendorRefuses(h) ==
    /\ Ready(h, "vendor")
    /\ Becomes(h, Idle)
    /\ UNCHANGED <<sessions, file, wallet, clock, created>>

Register(h) ==
    LET s == handler[h].id
    IN  /\ Ready(h, "put")
        /\ SaveLocked(Put(sessions, s, handler[h].project))
        /\ created' = [created EXCEPT ![s] = now]
        /\ Becomes(h, [Idle EXCEPT !.owes = {[id |-> s, seconds |-> PrepaidSeconds]}])
        /\ UNCHANGED <<wallet, clock>>

\* Variant: what the report adds is charged and not marked as billed.
TakeUnmarked(h) ==
    LET x     == handler[h]
        delta == Delta(x.id, x.seconds)
    IN  /\ Ready(h, "take")
        /\ sessions[x.id].project = x.project
        /\ Becomes(h, [Idle EXCEPT !.owes = Debt(x.id, delta)])
        /\ sessions' = [sessions EXCEPT ![x.id].lastSeen = now]
        /\ UNCHANGED <<file, wallet, clock, created>>

\* liveSessions.take.  A report that adds nothing moves lastSeen in memory
\* alone; a final one forgets the session.
Take(h) ==
    LET x     == handler[h]
        delta == Delta(x.id, x.seconds)
        seen  == [sessions EXCEPT ![x.id].billed = @ + delta, ![x.id].lastSeen = now]
        reg   == IF x.final THEN [sessions EXCEPT ![x.id] = Absent] ELSE seen
    IN  /\ Ready(h, "take")
        /\ IF sessions[x.id].project = x.project
           THEN /\ IF delta > 0 \/ x.final THEN SaveLocked(reg)
                                           ELSE sessions' = seen /\ UNCHANGED file
                /\ Becomes(h, [Idle EXCEPT !.owes = Debt(x.id, delta)])
           ELSE Becomes(h, Idle) /\ UNCHANGED <<sessions, file>>
        /\ UNCHANGED <<wallet, clock, created>>

\* billLive, for one session at a time.
Bill(h) ==
    \E b \in handler[h].owes :
        /\ charged' = [charged EXCEPT ![b.id] = @ + b.seconds]
        /\ Becomes(h, [handler[h] EXCEPT !.owes = @ \ {b}])
        /\ UNCHANGED <<sessions, file, flushed, clock, created>>

-----------------------------------------------------------------------------
\* Any write of the wallet: the periodic one, or one an operation forced.
Flush ==
    /\ flushed # charged
    /\ flushed' = charged
    /\ UNCHANGED <<sessions, file, charged, handler, clock, created>>

Tick ==
    /\ now < MaxTime
    /\ now' = now + 1
    /\ UNCHANGED <<sessions, file, wallet, handler, created, crashes>>

\* Killed and started again: persistTo loads the registry, prunes and saves.
LiveRestart ==
    /\ crashes < MaxCrashes
    /\ crashes' = crashes + 1
    /\ SaveLocked(Prune(file))
    /\ charged' = flushed
    /\ handler' = [h \in Handlers |-> Idle]
    /\ UNCHANGED <<flushed, now, created>>

-----------------------------------------------------------------------------
ServeLive(h) ==
    \/ \E p \in Projects : StartCreate(h, p)
    \/ \E p \in Projects, s \in Sessions, n \in Reports, f \in BOOLEAN :
            StartReport(h, p, s, n, f)
    \/ CountOpen(h) \/ VendorRefuses(h) \/ Register(h) \/ Take(h) \/ Bill(h)
    \/ \E s \in Sessions : VendorOpens(h, s)

Next == (\E h \in Handlers : ServeLive(h)) \/ Flush \/ Tick \/ LiveRestart

Spec == Init /\ [][Next]_liveVars

-----------------------------------------------------------------------------
(***************************************************************************)
(* What makes it correct.                                                  *)
(***************************************************************************)

\* What requests in flight took off the registry for s and have yet to charge.
Due(owes, s) == SumFunction([b \in owes |-> IF b.id = s THEN b.seconds ELSE 0])

InFlight(s) == SumFunction([h \in Handlers |-> Due(handler[h].owes, s)])

\* Every second on the registry's mark is charged once, whether by the
\* creation, by one of several reports in flight or as abandoned; a crash may
\* lose a charge, it never makes one payable twice.
BilledOnce ==
    \A s \in Sessions : Registered(sessions, s) =>
        /\ charged[s] + InFlight(s) <= sessions[s].billed
        /\ crashes = 0 => charged[s] + InFlight(s) = sessions[s].billed

\* "Billing a customer for a call longer than the time that has passed is not
\* on": beyond the first minute, no session, finished ones included, costs
\* more than its age and the slack.
WithinTheClock ==
    \A s \in Sessions : created[s] >= 0 =>
        charged[s] + InFlight(s) <= Max({PrepaidSeconds, now - created[s] + ClockSlack})

=============================================================================
