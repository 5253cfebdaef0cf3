------------------------------- MODULE Books -------------------------------
(***************************************************************************)
(* A call on the books: the three places a metered call is written to - the*)
(* tracker in memory, the stored counters, the ring of recent requests -   *)
(* each under a lock of its own, so that calls interleave between them; the *)
(* refusals, which the ring lists too; and what is read from them.  The    *)
(* balance the charge is taken from is Admission's.                        *)
(***************************************************************************)
EXTENDS Integers, Sequences, Functions, Lists

CONSTANTS
    Clients,     \* each makes one call at a time
    ProjectNames,
    Lower,       \* a project's name in lower case
    Outcomes,    \* what came of a call: prov, model, tokens, marked, end
    Prices,      \* the price table, by coordinate, identity or provider/*
    Identity,    \* usage.Identity of a model
    Free,        \* the identities that end in :free
    Markup,      \* the plan's rate of the list price
    RingSize,
    MaxEvents,   \* bound: calls, refusals, resets and restarts together
    Default, NoPrice, NoCall

ASSUME BooksAssumption ==
    /\ IsFiniteSet(Clients) /\ RingSize \in Nat \ {0} /\ MaxEvents \in Nat /\ Markup \in Nat
    /\ \A name \in DOMAIN Prices : Prices[name] \in Nat
    /\ NoPrice \notin Nat
    /\ \A w \in Outcomes : w.tokens \in Nat /\ w.marked \in BOOLEAN

VARIABLES
    call,      \* each client's request
    tracker,   \* usage.Tracker.byProject
    counters,    \* the persisted counters of a project, as the store holds them
    saved,     \* ... as its file does
    ring,      \* RequestLog
    written,   \* history: every entry of the recent requests, oldest first
    due,       \* history: what the calls that ended come to, by project
    base,      \* history: what the counters hold beyond what this process counted:
               \* what it found stored, less what an operator cleared since
    events     \* how many calls, refusals, resets and restarts there were

booksVars == <<call, tracker, counters, saved, ring, written, due, base, events>>

\* The price of a coordinate, the most specific entry first.
Lookup(prov, model) ==
    LET Of(name) == IF name \in DOMAIN Prices THEN Prices[name] ELSE NoPrice
        id == Identity[model]
    IN  CASE Of(<<prov, model>>) # NoPrice -> Of(<<prov, model>>)
          [] Of(<<prov, model>>) = NoPrice /\ Of(<<id>>) # NoPrice -> Of(<<id>>)
          [] Of(<<prov, model>>) = NoPrice /\ Of(<<id>>) = NoPrice ->
                 IF id \in Free THEN 0 ELSE Of(<<prov, Default>>)

Priced(w) == Lookup(w.prov, w.model) # NoPrice

\* What its tokens cost at list price: Price.Of.
ListCost(w) == IF Priced(w) THEN Lookup(w.prov, w.model) * w.tokens ELSE 0

\* charge: nothing once the call is marked as served by the caller's own key,
\* else the plan's rate of the list price; and what the gateway paid.  The mark is
\* set by a whole answer: a stream that breaks off or is hung up on is not marked,
\* whosever key it ran on; the later step of a tool loop that fails may be.
Charge(w) == IF w.marked THEN 0 ELSE Markup * ListCost(w)
Paid(w) == IF w.marked THEN 0 ELSE ListCost(w)

Zero == [requests |-> 0, tokens |-> 0, charged |-> 0, paid |-> 0, unpriced |-> 0, failed |-> 0]

Plus(a, b) == [f \in DOMAIN Zero |-> a[f] + b[f]]
Less(a, b) == [f \in DOMAIN Zero |-> a[f] - b[f]]

Unpriced(w) == IF Priced(w) \/ w.marked THEN 0 ELSE 1

\* recordMeteredFor.
Metered(w) == [requests |-> 1, tokens |-> w.tokens, charged |-> Charge(w), paid |-> Paid(w),
               unpriced |-> Unpriced(w), failed |-> 0]

\* recordFailedUsage: real work of the vendor's, nobody's bill.
MeteredAsFailed(w) == [Metered(w) EXCEPT !.requests = 0, !.charged = 0, !.failed = 1]

\* Variant: a hang-up is a failure like any other.
MeteredHangUpFree(w) == MeteredAsFailed(w)

\* recordBrokenUsage: a caller who hangs up pays for what was delivered.
MeteredAsBroken(w) ==
    IF w.end = "hungup" /\ w.tokens > 0 THEN Metered(w) ELSE MeteredAsFailed(w)

EmptyRing == [entries |-> [i \in 0 .. RingSize - 1 |-> NoCall], next |-> 0, filled |-> FALSE]
Away == [pc |-> "away", project |-> NoCall, work |-> NoCall]
Blank == [p \in ProjectNames |-> Zero]

BooksInit ==
    /\ call = [c \in Clients |-> Away]
    /\ tracker = Blank /\ counters = Blank /\ saved = Blank /\ due = Blank /\ base = Blank
    /\ ring = EmptyRing /\ written = <<>>
    /\ events = 0

Lowest(m, n) == IF m < n THEN m ELSE n
Highest(m, n) == IF m > n THEN m ELSE n

Entry(p, denied) == [at |-> Len(written) + 1, project |-> p, denied |-> denied]

\* RequestLog.Add.
Added(r, e) ==
    LET n == (r.next + 1) % RingSize
    IN  [entries |-> [r.entries EXCEPT ![r.next] = e],
         next |-> n, filled |-> r.filled \/ n = 0]

Log(e) ==
    /\ ring' = Added(ring, e)
    /\ written' = Append(written, e)

Happens == events < MaxEvents /\ events' = events + 1

\* A refusal at the door: of the origin, the balance, the rate or the name.
Refuse(p) ==
    /\ Happens
    /\ Log(Entry(p, TRUE))
    /\ UNCHANGED <<call, tracker, counters, saved, due, base>>

Starts(c, p) ==
    /\ Happens
    /\ call[c].pc = "away"
    /\ call' = [call EXCEPT ![c] = [Away EXCEPT !.pc = "running", !.project = p]]
    /\ UNCHANGED <<tracker, counters, saved, ring, written, due, base>>

\* What is written of a call that ended.
EntryOf(w) == IF w.end = "served" THEN Metered(w) ELSE MeteredAsBroken(w)

\* History: what a call comes to. The caller pays for an answer, and for what
\* was delivered before hanging up; the vendor's own failure is on the books
\* and on nobody's bill; what is marked as the caller's own costs nothing.
ComesTo(w) ==
    LET counts == w.end = "served" \/ w.tokens > 0
        theirs == w.end = "served" \/ (w.end = "hungup" /\ w.tokens > 0)
        Flag(b) == IF b THEN 1 ELSE 0
    IN  [requests |-> Flag(theirs), tokens |-> w.tokens,
         charged |-> Flag(theirs /\ ~w.marked) * Markup * ListCost(w),
         paid |-> Flag(~w.marked) * ListCost(w),
         unpriced |-> Flag(counts /\ ~w.marked /\ Lookup(w.prov, w.model) = NoPrice),
         failed |-> Flag(counts /\ ~theirs)]

\* Both for every way a call can end.
Entries == [w \in Outcomes |-> EntryOf(w)]
Dues == [w \in Outcomes |-> ComesTo(w)]

\* The call ends; one that broke off before any token is not written.
End(c, w) ==
    /\ call[c].pc = "running"
    /\ call' = IF w.end # "served" /\ w.tokens = 0
               THEN [call EXCEPT ![c] = Away]
               ELSE [call EXCEPT ![c].pc = "track", ![c].work = w]
    /\ due' = [due EXCEPT ![call[c].project] = Plus(@, Dues[w])]
    /\ UNCHANGED <<tracker, counters, saved, ring, written, base, events>>

\* meter: the tracker, then the stored counters, then the recent requests.
Track(c) ==
    /\ call[c].pc = "track"
    /\ tracker' = [tracker EXCEPT ![call[c].project] = Plus(@, Entries[call[c].work])]
    /\ call' = [call EXCEPT ![c].pc = "store"]
    /\ UNCHANGED <<counters, saved, ring, written, due, base, events>>

RecordUsage(c) ==
    /\ call[c].pc = "store"
    /\ counters' = [counters EXCEPT ![call[c].project] = Plus(@, Entries[call[c].work])]
    /\ call' = [call EXCEPT ![c].pc = "log"]
    /\ UNCHANGED <<tracker, saved, ring, written, due, base, events>>

NoteRequest(c) ==
    /\ call[c].pc = "log"
    /\ Log(Entry(call[c].project, FALSE))
    /\ call' = [call EXCEPT ![c] = Away]
    /\ UNCHANGED <<tracker, counters, saved, due, base, events>>

\* Persist, and every other save of the store: the counters reach the file.
Persist ==
    /\ saved # counters
    /\ saved' = counters
    /\ UNCHANGED <<call, tracker, counters, ring, written, due, base, events>>

\* An administrator clears the stored counters, of a project or of all of them;
\* the tracker goes on with its own, also when the file cannot be written.
ResetUsage(projects, onDisk) ==
    /\ Happens
    /\ counters' = [p \in ProjectNames |-> IF p \in projects THEN Zero ELSE counters[p]]
    /\ base' = [p \in ProjectNames |-> IF p \in projects THEN Less(base[p], counters[p]) ELSE base[p]]
    /\ saved' = IF onDisk THEN counters' ELSE saved
    /\ UNCHANGED <<call, tracker, ring, written, due>>

\* The process ends and starts: what is in memory is gone, of the stored
\* counters what was saved is back.
BooksRestart ==
    /\ Happens
    /\ counters' = saved /\ base' = saved
    /\ tracker' = Blank /\ due' = Blank
    /\ ring' = EmptyRing /\ written' = <<>>
    /\ call' = [c \in Clients |-> Away]
    /\ UNCHANGED saved

Serving(c) ==
    \/ \E p \in ProjectNames : Starts(c, p)
    \/ \E w \in Outcomes : End(c, w)
    \/ Track(c) \/ RecordUsage(c) \/ NoteRequest(c)

BooksNext ==
    \/ BooksRestart \/ Persist
    \/ \E p \in ProjectNames, d \in BOOLEAN : ResetUsage({p}, d)
    \/ \E d \in BOOLEAN : ResetUsage(ProjectNames, d)
    \/ \E p \in ProjectNames : Refuse(p)
    \/ \E c \in Clients : Serving(c)

BooksSpec == BooksInit /\ [][BooksNext]_booksVars

-----------------------------------------------------------------------------
Everyone == {Lower[p] : p \in ProjectNames}

\* The entries of some projects.
Those(entries, projects) == Only(entries, {e \in Range(entries) : Lower[e.project] \in projects})

\* Variant: a ring that was filled is read without its oldest slot.
RecentFirstSlot(projects, limit) ==
    LET most == IF limit <= 0 \/ limit > RingSize THEN RingSize ELSE limit
        count == IF ring.filled THEN RingSize - 1 ELSE ring.next
        newest == [i \in 1 .. count |-> ring.entries[(ring.next - i + RingSize) % RingSize]]
        mine == Those(newest, projects)
    IN  SubSeq(mine, 1, Lowest(most, Len(mine)))

\* RequestLog.Recent: the ring walked backwards from its last write; a limit
\* out of range stands for the whole ring.
Recent(projects, limit) ==
    LET most == IF limit <= 0 \/ limit > RingSize THEN RingSize ELSE limit
        count == IF ring.filled THEN RingSize ELSE ring.next
        newest == [i \in 1 .. count |-> ring.entries[(ring.next - i + RingSize) % RingSize]]
        mine == Those(newest, projects)
    IN  SubSeq(mine, 1, Lowest(most, Len(mine)))

\* The MCP tools: recent calls of a project, named in any case, and the spend of
\* a project.
RequestsList(project, limit) == Recent({Lower[project]}, Highest(1, limit))

UsageGet(project) == tracker[project]

\* GET /v1/usage: an administrator's key is answered every project, any other
\* key its own.
Usage(admin, project) == [p \in IF admin THEN ProjectNames ELSE {project} |-> UsageGet(p)]

Newest(projects, limit) ==
    LET kept == SubSeq(written, Highest(1, Len(written) - RingSize + 1), Len(written))
        mine == Those(Reverse(kept), projects)
    IN  SubSeq(mine, 1, Lowest(limit, Len(mine)))

\* Whatever the ring has been through - filled, wrapped, written by calls that
\* end at once - what the console and the MCP tool list is the newest entries
\* of the projects asked for, newest first, as many as were asked for.
RecentIsTheTail ==
    /\ \A projects \in SUBSET Everyone, n \in 1 .. RingSize :
           Recent(projects, n) = Newest(projects, n)
    /\ \A p \in ProjectNames : RequestsList(p, 0) = Newest({Lower[p]}, 1)

\* What a call adds to a project's figure while it is at some steps.
InHand(x, p, pcs, f) == IF x.pc \in pcs /\ x.project = p THEN Entries[x.work][f] ELSE 0

Sum(p, pcs) ==
    [f \in DOMAIN Zero |-> SumFunction([c \in Clients |-> InHand(call[c], p, pcs, f)])]

\* The tracker, the stored counters and what the ended calls come to are one
\* book: for every project they differ by exactly the calls still being written,
\* what the process found stored when it started and what an operator cleared
\* since, whatever the interleaving, and however often it started anew.
BooksAgree ==
    \A p \in ProjectNames :
        /\ due[p] = Plus(Usage(FALSE, p)[p], Sum(p, {"track"}))
        /\ tracker[p] = Plus(Less(counters[p], base[p]), Sum(p, {"store"}))
=============================================================================
