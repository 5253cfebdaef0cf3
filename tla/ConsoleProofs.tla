---------------------------- MODULE ConsoleProofs ----------------------------
(***************************************************************************)
(* The console, for any names, browsers, passwords, providers, calls and   *)
(* decisions.                                                              *)
(*                                                                         *)
(* Sessions have accounts: no operation of the store takes an account      *)
(* away, and a handler that is about to issue a session has made sure of   *)
(* one (IssueOK).                                                          *)
(*                                                                         *)
(* Guesses are bounded: every wrong password is in the throttle's count or *)
(* in the hands of a handler that has yet to count it, and each handler    *)
(* past the throttle has one more to compare (GuessOK).                    *)
(*                                                                         *)
(* A grant adds access and never takes it away: a call reads the approvals *)
(* first and the plan afterwards.  What it was granted from its arrival on *)
(* is granted still at either reading (WatchOK), so the first reading has  *)
(* every lasting approval (ReadOK) and the second every lasting plan       *)
(* (RoutedOK); and what either reading found was on a card of the console  *)
(* at that moment.                                                         *)
(*                                                                         *)
(* Credit is accounted: a request that was never made has given nothing    *)
(* (Credited).                                                             *)
(***************************************************************************)
EXTENDS Accounts, Access, DataLemmas

-----------------------------------------------------------------------------
(***************************************************************************)
(* Accounts and sessions.                                                  *)
(***************************************************************************)

\* Every session of s is for an account of s.
Sound(s) == \A w \in Browsers : s.sessions[w] # Absent => HasAccount(s, s.sessions[w].name)

\* No account of s is missing in t.
Keeps(s, t) == \A n \in Names : HasAccount(s, n) => HasAccount(t, n)

\* What a store operation may make of the accounts.
Stored(t) == t \in Book /\ Sound(t) /\ Keeps(book, t)

StoreOK == book \in Book /\ file \in Book /\ Sound(book) /\ Sound(file) /\ mishaps \in 0 .. MaxMishaps

\* A handler that is about to issue a session has an account to issue it for.
IssueOK == \A b \in Browsers : at[b].pc = "issue" => HasAccount(book, at[b].name)

ThrottleOK ==
    /\ tries \in [Names -> [count : Nat, left : 0 .. LockFor]]
    /\ guessed \in [Names -> Nat]

SignInInv == StoreOK /\ at \in [Browsers -> Handler] /\ IssueOK /\ ThrottleOK

LEMMA RestIsHandler == Rest \in Handler /\ Rest.pc = "idle"
BY AccountsAssumption DEF Rest, Handler

\* A session is a value of its own.
LEMMA NotAbsent == TTL \in Nat /\ TTL # 0 /\ Absent \notin Passwords /\ NoPassword # Absent
BY AccountsAssumption

LEMMA AdminStored ==
    ASSUME StoreOK, NEW n \in Names, NEW p \in Passwords
    PROVE  Stored(CreateAdmin(n, p))
BY NotAbsent DEF Stored, StoreOK, Book, Sound, Keeps, HasAccount, CreateAdmin

LEMMA UserStored ==
    ASSUME StoreOK, NEW n \in Names, NEW p \in Passwords \cup {NoPassword}
    PROVE  Stored([book EXCEPT !.users[n] = p])
BY NotAbsent DEF Stored, StoreOK, Book, Sound, Keeps, HasAccount

LEMMA EnsureStored ==
    ASSUME StoreOK, NEW n \in Names
    PROVE  Stored(EnsureUser(n)) /\ HasAccount(EnsureUser(n), n)
<1>1. EnsureUser(n) = [book EXCEPT !.users[n] = IF book.users[n] = Absent THEN NoPassword ELSE book.users[n]]
  BY DEF EnsureUser, StoreOK, Book
<1>2. Stored(EnsureUser(n))
  BY <1>1, NotAbsent DEF Stored, StoreOK, Book, Sound, Keeps, HasAccount
<1>3. EnsureUser(n).users[n] # Absent
  BY <1>1, NotAbsent DEF StoreOK, Book
<1> QED
  BY <1>2, <1>3 DEF HasAccount

\* The sessions change and the accounts do not.
LEMMA SessionsStored ==
    ASSUME StoreOK, NEW new \in [Browsers -> Session \cup {Absent}],
           \A w \in Browsers : new[w] # Absent => HasAccount(book, new[w].name)
    PROVE  Stored([book EXCEPT !.sessions = new])
BY DEF Stored, StoreOK, Book, Sound, Keeps, HasAccount

LEMMA PurgedSessions ==
    ASSUME NEW old \in [Browsers -> Session \cup {Absent}]
    PROVE  /\ Purged(old) \in [Browsers -> Session \cup {Absent}]
           /\ \A w \in Browsers : Purged(old)[w] # Absent => old[w] # Absent /\ Purged(old)[w] = old[w]
BY DEF Purged

LEMMA OrphanStored == StoreOK => Stored(Orphan)
<1> SUFFICES ASSUME StoreOK PROVE Stored(Orphan)
  OBVIOUS
<1>1. book.sessions \in [Browsers -> Session \cup {Absent}]
  BY DEF StoreOK, Book
<1>2. Orphan = [book EXCEPT !.sessions = Purged(book.sessions)]
  BY DEF Orphan, StoreOK, Book
<1>3. \A w \in Browsers : Purged(book.sessions)[w] # Absent =>
        HasAccount(book, Purged(book.sessions)[w].name)
  BY <1>1, PurgedSessions DEF StoreOK, Sound
<1> QED
  BY <1>1, <1>2, <1>3, PurgedSessions, SessionsStored

LEMMA SessionStored ==
    ASSUME StoreOK, NEW b \in Browsers, NEW n \in Names, NEW adm \in BOOLEAN, HasAccount(book, n)
    PROVE  Stored(NewSession(b, n, adm)) /\ Stored([book EXCEPT !.sessions[b] = [left |-> TTL, name |-> n, admin |-> adm]])
<1> DEFINE s == [left |-> TTL, name |-> n, admin |-> adm]
           one == [Purged(book.sessions) EXCEPT ![b] = s]
           two == [book.sessions EXCEPT ![b] = s]
<1>1. book.sessions \in [Browsers -> Session \cup {Absent}]
  BY DEF StoreOK, Book
<1>2. s \in Session /\ s.name = n
  BY NotAbsent DEF Session
<1> HIDE DEF s
<1>3. /\ one \in [Browsers -> Session \cup {Absent}]
      /\ \A w \in Browsers : one[w] # Absent => HasAccount(book, one[w].name)
  BY <1>1, <1>2, PurgedSessions DEF StoreOK, Sound
<1>4. /\ two \in [Browsers -> Session \cup {Absent}]
      /\ \A w \in Browsers : two[w] # Absent => HasAccount(book, two[w].name)
  BY <1>1, <1>2 DEF StoreOK, Sound
<1>5. NewSession(b, n, adm) = [book EXCEPT !.sessions = one]
  BY DEF NewSession, StoreOK, Book, s
<1>6. [book EXCEPT !.sessions[b] = [left |-> TTL, name |-> n, admin |-> adm]] = [book EXCEPT !.sessions = two]
  BY DEF StoreOK, Book, s
<1> HIDE DEF one, two
<1> QED
  BY <1>3, <1>4, <1>5, <1>6, SessionsStored

LEMMA EndStored ==
    ASSUME StoreOK, NEW b \in Browsers
    PROVE  Stored(EndSession(b))
<1> DEFINE new == [book.sessions EXCEPT ![b] = Absent]
<1>1. book.sessions \in [Browsers -> Session \cup {Absent}]
  BY DEF StoreOK, Book
<1>2. new \in [Browsers -> Session \cup {Absent}]
  BY <1>1
<1>3. \A w \in Browsers : new[w] # Absent => HasAccount(book, new[w].name)
  BY <1>1 DEF StoreOK, Sound
<1>4. EndSession(b) = [book EXCEPT !.sessions = new]
  BY DEF EndSession, StoreOK, Book
<1> HIDE DEF new
<1> QED
  BY <1>2, <1>3, <1>4, SessionsStored

LEMMA WriteOK ==
    ASSUME StoreOK, NEW t, Stored(t), Landed(t) \/ NotLanded(t)
    PROVE  StoreOK' /\ book' = t
BY AccountsAssumption DEF StoreOK, Stored, Landed, NotLanded, Sound, HasAccount

\* What was made of the accounts takes none away from a handler that issues.
LEMMA IssueKept ==
    ASSUME SignInInv, Stored(book'),
           \A x \in Browsers : at'[x].pc = "issue" => at[x].pc = "issue" /\ at'[x].name = at[x].name
    PROVE  IssueOK'
BY DEF SignInInv, IssueOK, Stored, Keeps, HasAccount, Handler
-----------------------------------------------------------------------------
\* How a handler moves: it begins, goes on or answers.
Pcs == {"idle", "setup", "state", "signup", "check", "admin", "user", "fail", "reset",
        "redirect", "ensure", "issue"}

Moves(b, h) == h \in Handler /\ at' = [at EXCEPT ![b] = h]

LEMMA HowHandlersMove ==
    ASSUME at \in [Browsers -> Handler], NEW b \in Browsers
    PROVE  /\ \A pc \in Pcs : Go(b, pc) => Moves(b, [pc |-> pc, name |-> at[b].name, pass |-> at[b].pass])
           /\ Answer(b) => Moves(b, Rest)
           /\ \A pc \in Pcs, n \in Names, p \in Passwords :
                  Begin(b, pc, n, p) => Moves(b, [pc |-> pc, name |-> n, pass |-> p]) /\ at[b].pc = "idle"
<1>1. ASSUME NEW pc \in Pcs, Go(b, pc)
      PROVE  Moves(b, [pc |-> pc, name |-> at[b].name, pass |-> at[b].pass])
  <2>1. at[b] \in Handler
    OBVIOUS
  <2>2. [at[b] EXCEPT !.pc = pc] = [pc |-> pc, name |-> at[b].name, pass |-> at[b].pass]
    BY <2>1 DEF Handler
  <2>3. [pc |-> pc, name |-> at[b].name, pass |-> at[b].pass] \in Handler
    BY <2>1 DEF Handler, Pcs
  <2>4. at' = [at EXCEPT ![b] = [at[b] EXCEPT !.pc = pc]]
    BY <1>1 DEF Go
  <2> QED
    BY <2>2, <2>3, <2>4 DEF Moves
<1>2. Answer(b) => Moves(b, Rest)
  BY RestIsHandler DEF Answer, Moves
<1>3. \A pc \in Pcs, n \in Names, p \in Passwords :
         Begin(b, pc, n, p) => Moves(b, [pc |-> pc, name |-> n, pass |-> p]) /\ at[b].pc = "idle"
  BY DEF Begin, Moves, Handler, Pcs
<1> QED
  BY <1>1, <1>2, <1>3

\* A move to anything but the issuing of a session needs nothing.
LEMMA MoveOK ==
    ASSUME SignInInv, NEW b \in Browsers, NEW h, Moves(b, h), Stored(book'),
           h.pc = "issue" => HasAccount(book', h.name)
    PROVE  at' \in [Browsers -> Handler] /\ IssueOK'
<1>1. at' \in [Browsers -> Handler]
  BY DEF SignInInv, Moves
<1>2. ASSUME NEW x \in Browsers, at'[x].pc = "issue" PROVE HasAccount(book', at'[x].name)
  <2>1. CASE x = b
    BY <1>2, <2>1 DEF SignInInv, Moves, HasAccount
  <2>2. CASE x # b
    <3>1. at'[x] = at[x] /\ at[x] \in Handler
      BY <2>2 DEF SignInInv, Moves
    <3>2. HasAccount(book, at[x].name) /\ at[x].name \in Names
      BY <1>2, <3>1 DEF SignInInv, IssueOK, Handler
    <3> QED
      BY <3>1, <3>2 DEF Stored, Keeps, HasAccount
  <2> QED
    BY <2>1, <2>2
<1> QED
  BY <1>1, <1>2 DEF IssueOK

\* What the store stays is a case of what it becomes.
LEMMA UnwrittenOK ==
    ASSUME StoreOK, Unwritten
    PROVE  StoreOK' /\ Stored(book') /\ book' = book
BY DEF StoreOK, Stored, Unwritten, Sound, Keeps, HasAccount

LEMMA WrittenOK ==
    ASSUME StoreOK, NEW t, Stored(t), Landed(t) \/ NotLanded(t)
    PROVE  StoreOK' /\ Stored(book') /\ book' = t
BY WriteOK

LEMMA ThrottleMoves ==
    ASSUME ThrottleOK, NEW n \in Names
    PROVE  /\ Forget(n) => tries' \in [Names -> [count : Nat, left : 0 .. LockFor]]
           /\ Count(n) => tries' \in [Names -> [count : Nat, left : 0 .. LockFor]]
<1>1. LockFor \in Nat /\ NoTries \in [count : Nat, left : 0 .. LockFor]
  BY AccountsAssumption DEF NoTries
<1>2. tries[n] \in [count : Nat, left : 0 .. LockFor]
  BY DEF ThrottleOK
<1>3. Forget(n) => tries' \in [Names -> [count : Nat, left : 0 .. LockFor]]
  BY <1>1 DEF Forget, ThrottleOK
<1>4. Count(n) => tries' \in [Names -> [count : Nat, left : 0 .. LockFor]]
  BY <1>1, <1>2 DEF Count, ThrottleOK
<1> QED
  BY <1>3, <1>4

\* The steps of the handlers.
HandlerStep(b) ==
    \/ Continue(b)
    \/ \E n \in Names : NabuStart(b, n)
    \/ \E n \in Names, p \in Passwords :
          \/ ConsoleSetup(b, n, p) \/ ConsoleLogin(b, n, p) \/ ConsoleSignup(b, n, p)
          \/ ConsoleContinue(b, n, p)

LEMMA BeginsOK ==
    ASSUME SignInInv, NEW b \in Browsers, NEW n \in Names, NEW p \in Passwords,
           NEW pc \in Pcs \ {"issue"}, Begin(b, pc, n, p), Unwritten, UNCHANGED <<tries, guessed>>
    PROVE  SignInInv'
<1>1. StoreOK' /\ Stored(book')
  BY UnwrittenOK DEF SignInInv
<1>2. Moves(b, [pc |-> pc, name |-> n, pass |-> p])
  BY HowHandlersMove DEF SignInInv
<1>3. at' \in [Browsers -> Handler] /\ IssueOK'
  BY <1>1, <1>2, MoveOK
<1> QED
  BY <1>1, <1>3 DEF SignInInv, ThrottleOK

\* A step that goes on or answers, once what it does to the store is known.
LEMMA GoesOnOK ==
    ASSUME SignInInv, NEW b \in Browsers, StoreOK', Stored(book'), ThrottleOK',
           \/ Answer(b)
           \/ \E pc \in Pcs \ {"issue"} : Go(b, pc)
           \/ Go(b, "issue") /\ HasAccount(book', at[b].name)
    PROVE  SignInInv'
<1>1. at \in [Browsers -> Handler]
  BY DEF SignInInv
<1>2. CASE Answer(b)
  <2>1. Moves(b, Rest) /\ Rest.pc # "issue"
    BY <1>1, <1>2, HowHandlersMove, RestIsHandler
  <2> QED
    BY <2>1, MoveOK DEF SignInInv
<1>3. ASSUME NEW pc \in Pcs \ {"issue"}, Go(b, pc) PROVE SignInInv'
  <2>1. Moves(b, [pc |-> pc, name |-> at[b].name, pass |-> at[b].pass])
    BY <1>1, <1>3, HowHandlersMove
  <2> QED
    BY <2>1, MoveOK DEF SignInInv
<1>4. CASE Go(b, "issue") /\ HasAccount(book', at[b].name)
  <2>1. Moves(b, [pc |-> "issue", name |-> at[b].name, pass |-> at[b].pass])
    BY <1>1, <1>4, HowHandlersMove DEF Pcs
  <2> QED
    BY <1>4, <2>1, MoveOK DEF SignInInv
<1> QED
  BY <1>2, <1>3, <1>4

LEMMA SetupOK == ASSUME SignInInv, NEW b \in Browsers, Setup(b) PROVE SignInInv'
<1>1. at[b] \in Handler /\ at[b].name \in Names /\ at[b].pass \in Passwords /\ StoreOK
  BY DEF SignInInv, Handler
<1>2. ThrottleOK'
  BY DEF Setup, SignInInv, ThrottleOK
<1>3. CASE Unwritten /\ Answer(b)
  BY <1>1, <1>2, <1>3, UnwrittenOK, GoesOnOK
<1>4. CASE \/ Landed(CreateAdmin(at[b].name, at[b].pass)) /\ Go(b, "check")
           \/ NotLanded(CreateAdmin(at[b].name, at[b].pass)) /\ Answer(b)
  <2>1. Stored(CreateAdmin(at[b].name, at[b].pass))
    BY <1>1, AdminStored
  <2>2. StoreOK' /\ Stored(book')
    BY <1>1, <1>4, <2>1, WrittenOK
  <2> QED
    BY <1>2, <1>4, <2>2, GoesOnOK DEF Pcs
<1> QED
  BY <1>3, <1>4 DEF Setup

LEMMA SignupOK == ASSUME SignInInv, NEW b \in Browsers, Signup(b) PROVE SignInInv'
<1>1. at[b] \in Handler /\ at[b].name \in Names /\ at[b].pass \in Passwords /\ StoreOK
  BY DEF SignInInv, Handler
<1>2. ThrottleOK'
  BY DEF Signup, SignInInv, ThrottleOK
<1>3. CASE Unwritten /\ Answer(b)
  BY <1>1, <1>2, <1>3, UnwrittenOK, GoesOnOK
<1>4. CASE /\ Landed(SignupUser(at[b].name, at[b].pass)) \/ NotLanded(SignupUser(at[b].name, at[b].pass))
           /\ Go(b, "check")
  <2>1. Stored(SignupUser(at[b].name, at[b].pass))
    BY <1>1, UserStored DEF SignupUser
  <2>2. StoreOK' /\ Stored(book')
    BY <1>1, <1>4, <2>1, WrittenOK
  <2> QED
    BY <1>2, <1>4, <2>2, GoesOnOK DEF Pcs
<1> QED
  BY <1>3, <1>4 DEF Signup

LEMMA CheckOK == ASSUME SignInInv, NEW b \in Browsers, Check(b) PROVE SignInInv'
<1>1. at[b].name \in Names /\ StoreOK
  BY DEF SignInInv, Handler
<1>2. guessed' \in [Names -> Nat]
  BY <1>1 DEF Check, SignInInv, ThrottleOK
<1>3. ThrottleOK'
  BY <1>1, <1>2, ThrottleMoves DEF Check, SignInInv, ThrottleOK
<1>4. StoreOK' /\ Stored(book')
  BY <1>1, UnwrittenOK DEF Check
<1>5. Answer(b) \/ Go(b, "admin")
  BY DEF Check
<1> QED
  BY <1>3, <1>4, <1>5, GoesOnOK DEF Pcs

\* A password that compares equal is the password of an account.
LEMMA AdminOK == ASSUME SignInInv, NEW b \in Browsers, Admin(b) PROVE SignInInv'
<1>1. at[b] \in Handler /\ at[b].name \in Names /\ at[b].pass \in Passwords /\ StoreOK
  BY DEF SignInInv, Handler
<1>2. ThrottleOK'
  BY DEF Admin, SignInInv, ThrottleOK
<1>3. CASE Unwritten /\ Go(b, "user")
  BY <1>1, <1>2, <1>3, UnwrittenOK, GoesOnOK DEF Pcs
<1>4. CASE /\ book.admins[at[b].name] = at[b].pass
           /\ \/ Landed(NewSession(b, at[b].name, TRUE)) /\ Go(b, "reset")
              \/ NotLanded(Orphan) /\ Go(b, "user")
  <2>1. HasAccount(book, at[b].name)
    BY <1>1, <1>4, NotAbsent DEF HasAccount
  <2>2. Stored(NewSession(b, at[b].name, TRUE)) /\ Stored(Orphan)
    BY <1>1, <2>1, SessionStored, OrphanStored
  <2>3. StoreOK' /\ Stored(book')
    BY <1>1, <1>4, <2>2, WrittenOK
  <2> QED
    BY <1>2, <1>4, <2>3, GoesOnOK DEF Pcs
<1> QED
  BY <1>3, <1>4 DEF Admin

LEMMA UserOK == ASSUME SignInInv, NEW b \in Browsers, User(b) PROVE SignInInv'
<1>1. at[b] \in Handler /\ at[b].name \in Names /\ at[b].pass \in Passwords /\ StoreOK
  BY DEF SignInInv, Handler
<1>2. ThrottleOK'
  <2>1. guessed' \in [Names -> Nat]
    BY <1>1 DEF User, SignInInv, ThrottleOK
  <2> QED
    BY <2>1 DEF User, SignInInv, ThrottleOK
<1>3. CASE Unwritten /\ Go(b, "fail")
  BY <1>1, <1>2, <1>3, UnwrittenOK, GoesOnOK DEF Pcs
<1>4. CASE /\ book.users[at[b].name] = at[b].pass
           /\ Landed(NewUserSession(b, at[b].name)) \/ NotLanded(NewUserSession(b, at[b].name))
           /\ Go(b, "reset")
  <2>1. HasAccount(book, at[b].name)
    BY <1>1, <1>4, NotAbsent DEF HasAccount
  <2>2. Stored(NewUserSession(b, at[b].name))
    BY <1>1, <2>1, SessionStored DEF NewUserSession
  <2>3. StoreOK' /\ Stored(book')
    BY <1>1, <1>4, <2>2, WrittenOK
  <2> QED
    BY <1>2, <1>4, <2>3, GoesOnOK DEF Pcs
<1> QED
  BY <1>3, <1>4 DEF User

LEMMA FailOK == ASSUME SignInInv, NEW b \in Browsers, Fail(b) PROVE SignInInv'
<1>1. at[b].name \in Names /\ StoreOK
  BY DEF SignInInv, Handler
<1>2. guessed' \in [Names -> Nat]
  BY <1>1 DEF Fail, SignInInv, ThrottleOK
<1>3. ThrottleOK'
  BY <1>1, <1>2, ThrottleMoves DEF Fail, SignInInv, ThrottleOK
<1>4. StoreOK' /\ Stored(book')
  BY <1>1, UnwrittenOK DEF Fail
<1>5. Answer(b)
  BY DEF Fail
<1> QED
  BY <1>3, <1>4, <1>5, GoesOnOK

LEMMA ResetOK == ASSUME SignInInv, NEW b \in Browsers, Reset(b) PROVE SignInInv'
<1>1. at[b].name \in Names /\ StoreOK
  BY DEF SignInInv, Handler
<1>2. ThrottleOK'
  <2>1. NoTries \in [count : Nat, left : 0 .. LockFor]
    BY AccountsAssumption DEF NoTries
  <2>2. tries' \in [Names -> [count : Nat, left : 0 .. LockFor]]
    BY <2>1 DEF Reset, SignInInv, ThrottleOK
  <2>3. guessed' \in [Names -> Nat]
    BY DEF Reset, SignInInv, ThrottleOK
  <2> QED
    BY <2>2, <2>3 DEF ThrottleOK
<1>4. StoreOK' /\ Stored(book')
  BY <1>1, UnwrittenOK DEF Reset
<1>5. Answer(b)
  BY DEF Reset
<1> QED
  BY <1>2, <1>4, <1>5, GoesOnOK

LEMMA CallbackOK == ASSUME SignInInv, NEW b \in Browsers, NabuCallback(b) PROVE SignInInv'
<1>1. StoreOK' /\ Stored(book') /\ ThrottleOK'
  BY UnwrittenOK DEF NabuCallback, SignInInv, ThrottleOK
<1>2. \/ Answer(b)
      \/ Go(b, "issue") /\ HasAccount(book', at[b].name)
      \/ Go(b, "ensure")
  BY DEF NabuCallback, HasAccount
<1> QED
  BY <1>1, <1>2, GoesOnOK DEF Pcs

LEMMA EnsureOK == ASSUME SignInInv, NEW b \in Browsers, Ensure(b) PROVE SignInInv'
<1>1. at[b].name \in Names /\ StoreOK
  BY DEF SignInInv, Handler
<1>2. ThrottleOK'
  BY DEF Ensure, SignInInv, ThrottleOK
<1>3. Stored(EnsureUser(at[b].name)) /\ HasAccount(EnsureUser(at[b].name), at[b].name)
  BY <1>1, EnsureStored
<1>4. CASE EnsureUser(at[b].name) = book /\ Unwritten /\ Go(b, "issue")
  BY <1>1, <1>2, <1>3, <1>4, UnwrittenOK, GoesOnOK
<1>5. CASE \/ Landed(EnsureUser(at[b].name)) /\ Go(b, "issue")
           \/ NotLanded(EnsureUser(at[b].name)) /\ Answer(b)
  <2>1. StoreOK' /\ Stored(book') /\ book' = EnsureUser(at[b].name)
    BY <1>1, <1>3, <1>5, WrittenOK
  <2> QED
    BY <1>2, <1>3, <1>5, <2>1, GoesOnOK
<1> QED
  BY <1>4, <1>5 DEF Ensure

LEMMA IssuesOK == ASSUME SignInInv, NEW b \in Browsers, Issue(b) PROVE SignInInv'
<1>1. at[b].name \in Names /\ StoreOK /\ HasAccount(book, at[b].name)
  BY DEF SignInInv, Handler, Issue, IssueOK
<1>2. ThrottleOK'
  BY DEF Issue, SignInInv, ThrottleOK
<1>3. (at[b].name \in Allowed) \in BOOLEAN
  OBVIOUS
<1>4. Stored(NewSession(b, at[b].name, at[b].name \in Allowed)) /\ Stored(Orphan)
  BY <1>1, <1>3, SessionStored, OrphanStored
<1>5. StoreOK' /\ Stored(book')
  BY <1>1, <1>4, WrittenOK DEF Issue
<1> QED
  BY <1>2, <1>5, GoesOnOK DEF Issue

-----------------------------------------------------------------------------
\* What leaves the handlers and the throttle alone.
LEMMA OnlyStored ==
    ASSUME SignInInv, NEW t, Stored(t), Landed(t) \/ NotLanded(t), UNCHANGED <<tries, at, guessed>>
    PROVE  SignInInv'
<1>1. StoreOK' /\ Stored(book')
  BY WrittenOK DEF SignInInv
<1>2. IssueOK'
  BY <1>1, IssueKept
<1> QED
  BY <1>1, <1>2 DEF SignInInv, ThrottleOK

LEMMA ChangeOK ==
    ASSUME SignInInv, NEW b \in Browsers, NEW current \in Passwords, NEW next \in Passwords,
           ChangePassword(b, current, next)
    PROVE  SignInInv'
<1>1. book.sessions[b] # Absent /\ StoreOK
  BY DEF ChangePassword, Valid, SignInInv
<1>2. book.sessions[b].name \in Names
  BY <1>1 DEF StoreOK, Book, Session
<1> DEFINE n == book.sessions[b].name
<1>3. Stored([book EXCEPT !.users[n] = next])
  BY <1>1, <1>2, UserStored
<1> QED
  BY <1>3, OnlyStored DEF ChangePassword

LEMMA KillOK == SignInInv /\ Kill => SignInInv'
<1> SUFFICES ASSUME SignInInv, Kill PROVE SignInInv'
  OBVIOUS
<1>1. file.sessions \in [Browsers -> Session \cup {Absent}] /\ file \in Book
  BY DEF SignInInv, StoreOK, Book
<1>2. book' = [file EXCEPT !.sessions = Purged(file.sessions)] /\ file' = file
  BY <1>1 DEF Kill, Book
<1>3. book' \in Book
  BY <1>1, <1>2, PurgedSessions DEF Book
<1>4. Sound(book)'
  <2>1. \A w \in Browsers : Purged(file.sessions)[w] # Absent =>
           HasAccount(file, Purged(file.sessions)[w].name)
    BY <1>1, PurgedSessions DEF SignInInv, StoreOK, Sound
  <2>2. book'.sessions = Purged(file.sessions) /\ book'.admins = file.admins /\ book'.users = file.users
    BY <1>1, <1>2 DEF Book
  <2> QED
    BY <2>1, <2>2 DEF Sound, HasAccount
<1>5. StoreOK'
  BY <1>1, <1>2, <1>3, <1>4, AccountsAssumption DEF SignInInv, StoreOK, Sound, HasAccount, Kill
<1>6. at' \in [Browsers -> Handler] /\ IssueOK'
  BY RestIsHandler DEF Kill, IssueOK
<1>7. ThrottleOK'
  BY AccountsAssumption DEF Kill, ThrottleOK, NoTries
<1> QED
  BY <1>5, <1>6, <1>7 DEF SignInInv

LEMMA TickOK == SignInInv /\ Tick => SignInInv'
<1> SUFFICES ASSUME SignInInv, Tick PROVE SignInInv'
  OBVIOUS
<1> DEFINE Age(s) == [b \in Browsers |-> IF s[b] = Absent THEN Absent ELSE [s[b] EXCEPT !.left = Less(@)]]
<1>1. ASSUME NEW s \in Book, Sound(s), NEW t, t = [s EXCEPT !.sessions = Age(s.sessions)]
      PROVE  t \in Book /\ Sound(t) /\ \A n : HasAccount(s, n) => HasAccount(t, n)
  <2>1. s.sessions \in [Browsers -> Session \cup {Absent}]
    BY DEF Book
  <2>2. ASSUME NEW w \in Browsers, s.sessions[w] # Absent
        PROVE  /\ Age(s.sessions)[w] \in Session
               /\ Age(s.sessions)[w].name = s.sessions[w].name
    <3>1. s.sessions[w] \in Session
      BY <2>1, <2>2
    <3>2. Age(s.sessions)[w] = [s.sessions[w] EXCEPT !.left = Less(s.sessions[w].left)]
      BY <2>2, <3>1 DEF Session
    <3>3. Less(s.sessions[w].left) \in 0 .. TTL
      BY <3>1, NotAbsent DEF Less, Session
    <3> QED
      BY <3>1, <3>2, <3>3 DEF Session
  <2>3. \A w \in Browsers : s.sessions[w] = Absent => Age(s.sessions)[w] = Absent
    OBVIOUS
  <2>4. t.sessions = Age(s.sessions) /\ t.admins = s.admins /\ t.users = s.users
    BY <1>1 DEF Book
  <2>5. Age(s.sessions) \in [Browsers -> Session \cup {Absent}]
    BY <2>2
  <2>6. t \in Book
    BY <1>1, <2>5 DEF Book
  <2>7. Sound(t)
    BY <1>1, <2>2, <2>3, <2>4 DEF Sound, HasAccount
  <2> QED
    BY <2>4, <2>6, <2>7 DEF HasAccount
<1>2. book' = [book EXCEPT !.sessions = Age(book.sessions)] /\ book \in Book /\ Sound(book)
  BY DEF Tick, SignInInv, StoreOK, Book
<1>3. file' = [file EXCEPT !.sessions = Age(file.sessions)] /\ file \in Book /\ Sound(file)
  BY DEF Tick, SignInInv, StoreOK, Book
<1> HIDE DEF Age
<1>4. book' \in Book /\ Sound(book') /\ \A n : HasAccount(book, n) => HasAccount(book', n)
  BY <1>1, <1>2
<1>5. file' \in Book /\ Sound(file')
  BY <1>1, <1>3
<1>6. StoreOK'
  BY <1>4, <1>5 DEF Tick, SignInInv, StoreOK, Sound, HasAccount
<1>7. IssueOK'
  BY <1>4 DEF Tick, SignInInv, IssueOK, HasAccount
<1>8. ThrottleOK'
  <2>1. \A l \in 0 .. LockFor : Less(l) \in 0 .. LockFor
    BY AccountsAssumption DEF Less
  <2>2. tries' = [n \in Names |-> [tries[n] EXCEPT !.left = Less(tries[n].left)]]
    BY DEF Tick, SignInInv, ThrottleOK
  <2>3. \A n \in Names : [tries[n] EXCEPT !.left = Less(tries[n].left)] \in [count : Nat, left : 0 .. LockFor]
    BY <2>1 DEF SignInInv, ThrottleOK
  <2> QED
    BY <2>2, <2>3 DEF Tick, SignInInv, ThrottleOK
<1> QED
  BY <1>6, <1>7, <1>8 DEF Tick, SignInInv

LEMMA SignInStep == SignInInv /\ [AccountsNext]_accountsVars => SignInInv'
<1> SUFFICES ASSUME SignInInv, [AccountsNext]_accountsVars PROVE SignInInv'
  OBVIOUS
<1>1. CASE UNCHANGED accountsVars
  BY <1>1 DEF accountsVars, SignInInv, StoreOK, IssueOK, ThrottleOK, Sound, HasAccount
<1>2. ASSUME NEW b \in Browsers, Continue(b) PROVE SignInInv'
  BY <1>2, SetupOK, SignupOK, CheckOK, AdminOK, UserOK, FailOK, ResetOK, CallbackOK, EnsureOK, IssuesOK
     DEF Continue
<1>3. ASSUME NEW b \in Browsers, Logout(b) PROVE SignInInv'
  BY <1>3, EndStored, OnlyStored DEF Logout, SignInInv
<1>4. ASSUME NEW b \in Browsers, NEW n \in Names, NabuStart(b, n) PROVE SignInInv'
  BY <1>4, BeginsOK, RestIsHandler DEF NabuStart, Pcs, Handler
<1>5. ASSUME NEW b \in Browsers, NEW n \in Names, NEW p \in Passwords,
             ConsoleSetup(b, n, p) \/ ConsoleLogin(b, n, p) \/ ConsoleSignup(b, n, p)
      PROVE  SignInInv'
  BY <1>5, BeginsOK DEF ConsoleSetup, ConsoleLogin, ConsoleSignup, Pcs
<1>6. ASSUME NEW b \in Browsers, NEW n \in Names, NEW p \in Passwords, ConsoleContinue(b, n, p)
      PROVE  SignInInv'
  <2>1. AccountState(n) \in {"none", "password", "sso"}
    BY DEF AccountState
  <2>2. Begin(b, "signup", n, p) \/ Begin(b, "check", n, p)
    BY <1>6, <2>1 DEF ConsoleContinue
  <2> QED
    BY <1>6, <2>2, BeginsOK DEF ConsoleContinue, Pcs
<1>7. ASSUME NEW b \in Browsers, NEW n \in Names, NEW p \in Passwords, AddAdmin(b, n, p) PROVE SignInInv'
  BY <1>7, AdminStored, OnlyStored DEF AddAdmin, SignInInv
<1>8. ASSUME NEW n \in Names, OtherAccount(n) PROVE SignInInv'
  BY <1>8, UserStored, OnlyStored DEF OtherAccount, SignInInv
<1>9. ASSUME Flush PROVE SignInInv'
  BY <1>9, OnlyStored DEF Flush, SignInInv, StoreOK, Stored, Keeps
<1> QED
  BY <1>1, <1>2, <1>3, <1>4, <1>5, <1>6, <1>7, <1>8, <1>9, ChangeOK, KillOK, TickOK DEF AccountsNext

LEMMA SignInStart == AccountsInit => SignInInv
<1> SUFFICES ASSUME AccountsInit PROVE SignInInv
  OBVIOUS
<1>1. EmptyBook \in Book /\ Sound(EmptyBook)
  BY DEF EmptyBook, Book, Sound
<1>2. StoreOK
  BY <1>1, AccountsAssumption DEF AccountsInit, StoreOK
<1>3. at \in [Browsers -> Handler] /\ IssueOK
  BY RestIsHandler DEF AccountsInit, IssueOK
<1>4. ThrottleOK
  BY AccountsAssumption DEF AccountsInit, ThrottleOK, NoTries
<1> QED
  BY <1>2, <1>3, <1>4 DEF SignInInv

\* The session of an administrator or of a user is for an account that exists, in
\* memory and in the file, whichever handlers run side by side, whichever writes
\* fail and wherever the process dies (EnsureUser before issueConsoleSession).
THEOREM SessionsAreOwned == AccountsSpec => []SessionsHaveAccounts
<1>1. SignInInv => SessionsHaveAccounts
  BY DEF SignInInv, StoreOK, Sound, SessionsHaveAccounts
<1> QED
  BY <1>1, SignInStart, SignInStep, PTL DEF AccountsSpec

-----------------------------------------------------------------------------
(***************************************************************************)
(* The throttle.  A wrong password is in the count, or its handler is yet  *)
(* to count it; a handler that passed the throttle still has a guess to    *)
(* make.                                                                   *)
(***************************************************************************)

Comparing(n) == {x \in Browsers : at[x].pc \in {"admin", "user"} /\ at[x].name = n}
Failing(n)   == {x \in Browsers : at[x].pc = "fail" /\ at[x].name = n}

GuessOK(n) ==
    /\ guessed[n] <= tries[n].count + Cardinality(Failing(n))
    /\ guessed[n] + Cardinality(Comparing(n)) < MaxAttempts + Cardinality(Browsers)

GuessInv == SignInInv /\ \A n \in Names : GuessOK(n)

LEMMA DisjointParts ==
    ASSUME NEW S, IsFiniteSet(S), NEW A, NEW B, A \subseteq S, B \subseteq S, A \cap B = {}
    PROVE  /\ IsFiniteSet(A) /\ IsFiniteSet(B)
           /\ Cardinality(A) \in Nat /\ Cardinality(B) \in Nat /\ Cardinality(S) \in Nat
           /\ Cardinality(A) + Cardinality(B) <= Cardinality(S)
<1>1. IsFiniteSet(A) /\ IsFiniteSet(B)
  BY FS_Subset
<1>2. Cardinality(A) \in Nat /\ Cardinality(B) \in Nat /\ Cardinality(S) \in Nat
  BY <1>1, FS_CardinalityType
<1>3. Cardinality(A \cup B) = Cardinality(A) + Cardinality(B) - Cardinality(A \cap B)
  BY <1>1, FS_Union
<1>4. Cardinality(A \cap B) = 0
  BY FS_EmptySet
<1>5. Cardinality(A \cup B) <= Cardinality(S)
  <2>1. A \cup B \subseteq S
    OBVIOUS
  <2> QED
    BY <2>1, FS_Subset
<1>6. Cardinality(A) + Cardinality(B) - 0 <= Cardinality(S)
  BY <1>3, <1>4, <1>5
<1> QED
  BY <1>1, <1>2, <1>6

LEMMA HandlersCount ==
    ASSUME NEW n
    PROVE  /\ IsFiniteSet(Comparing(n)) /\ IsFiniteSet(Failing(n))
           /\ Cardinality(Comparing(n)) \in Nat /\ Cardinality(Failing(n)) \in Nat
           /\ Cardinality(Browsers) \in Nat
           /\ Cardinality(Comparing(n)) + Cardinality(Failing(n)) <= Cardinality(Browsers)
<1>1. IsFiniteSet(Browsers) /\ Comparing(n) \subseteq Browsers /\ Failing(n) \subseteq Browsers
  BY AccountsAssumption DEF Comparing, Failing
<1>2. Comparing(n) \cap Failing(n) = {}
  BY DEF Comparing, Failing
<1> QED
  BY <1>1, <1>2, DisjointParts

\* The same, a step later.
LEMMA HandlersCountNext ==
    ASSUME NEW n
    PROVE  /\ IsFiniteSet(Comparing(n)') /\ IsFiniteSet(Failing(n)')
           /\ Cardinality(Comparing(n)') \in Nat /\ Cardinality(Failing(n)') \in Nat
           /\ Cardinality(Comparing(n)') + Cardinality(Failing(n)') <= Cardinality(Browsers)
<1>1. IsFiniteSet(Browsers) /\ Comparing(n)' \subseteq Browsers /\ Failing(n)' \subseteq Browsers
  BY AccountsAssumption DEF Comparing, Failing
<1>2. Comparing(n)' \cap Failing(n)' = {}
  BY DEF Comparing, Failing
<1> QED
  BY <1>1, <1>2, DisjointParts

\* How many handlers compare and fail when one of them moves.
LEMMA CountsMove ==
    ASSUME at \in [Browsers -> Handler], NEW b \in Browsers, NEW h, Moves(b, h), NEW n
    PROVE  /\ at[b].pc # "fail" /\ h.pc # "fail" => Failing(n)' = Failing(n)
           /\ at[b].pc # "fail" => Failing(n) \subseteq Failing(n)'
           /\ h.pc \notin {"admin", "user"} \/ (at[b].pc \in {"admin", "user"} /\ h.name = at[b].name) =>
                  Comparing(n)' \subseteq Comparing(n)
BY DEF Moves, Comparing, Failing

\* Fewer handlers compare, and none that failed is forgotten.
LEMMA QuietGuesses ==
    ASSUME GuessInv, NEW n \in Names, SignInInv', guessed'[n] = guessed[n], tries'[n].count = tries[n].count,
           Failing(n) \subseteq Failing(n)', Comparing(n)' \subseteq Comparing(n)
    PROVE  GuessOK(n)'
<1>1. Cardinality(Failing(n)) <= Cardinality(Failing(n)') /\ Cardinality(Comparing(n)') <= Cardinality(Comparing(n))
  BY HandlersCount, HandlersCountNext, FS_Subset
<1>2. guessed[n] \in Nat /\ tries[n].count \in Nat /\ MaxAttempts \in Nat
  BY AccountsAssumption DEF GuessInv, SignInInv, ThrottleOK
<1>3. guessed'[n] <= tries'[n].count + Cardinality(Failing(n)')
  BY <1>1, <1>2, HandlersCount, HandlersCountNext DEF GuessInv, GuessOK
<1>4. guessed'[n] + Cardinality(Comparing(n)') < MaxAttempts + Cardinality(Browsers)
  BY <1>1, <1>2, HandlersCount, HandlersCountNext DEF GuessInv, GuessOK
<1> QED
  BY <1>3, <1>4 DEF GuessOK

\* A count that begins again.
LEMMA FreshGuesses ==
    ASSUME NEW n \in Names, SignInInv', guessed'[n] = 0
    PROVE  GuessOK(n)'
<1>1. tries'[n].count \in Nat /\ MaxAttempts \in Nat \ {0}
  BY AccountsAssumption DEF SignInInv, ThrottleOK
<1>2. guessed'[n] <= tries'[n].count + Cardinality(Failing(n)')
  BY <1>1, HandlersCountNext
<1>3. guessed'[n] + Cardinality(Comparing(n)') < MaxAttempts + Cardinality(Browsers)
  BY <1>1, HandlersCount, HandlersCountNext
<1> QED
  BY <1>2, <1>3 DEF GuessOK

LEMMA CheckGuesses == ASSUME GuessInv, SignInInv', NEW b \in Browsers, Check(b), NEW n \in Names PROVE GuessOK(n)'
<1>1. at \in [Browsers -> Handler] /\ at[b].name \in Names /\ at[b].pc = "check"
  BY DEF Check, GuessInv, SignInInv, Handler
<1>2. /\ tries \in [Names -> [count : Nat, left : 0 .. LockFor]] /\ guessed \in [Names -> Nat]
      /\ MaxAttempts \in Nat
  BY AccountsAssumption DEF GuessInv, SignInInv, ThrottleOK
<1> DEFINE h == [pc |-> "admin", name |-> at[b].name, pass |-> at[b].pass]
<1>3. Moves(b, Rest) \/ (Moves(b, h) /\ ~Blocked(at[b].name))
  BY <1>1, HowHandlersMove DEF Check, Pcs
<1>4. Failing(n)' = Failing(n)
  BY <1>1, <1>3, CountsMove, RestIsHandler
<1>5. CASE tries[n].left = 0 /\ at[b].name = n
  <2>1. guessed'[n] = 0
    BY <1>2, <1>5 DEF Check
  <2> QED
    BY <2>1, FreshGuesses
<1>6. CASE ~(tries[n].left = 0 /\ at[b].name = n)
  <2>1. guessed'[n] = guessed[n] /\ tries'[n] = tries[n]
    BY <1>2, <1>6 DEF Check, Forget
  <2>2. CASE Moves(b, Rest) \/ at[b].name # n
    <3>1. Comparing(n)' \subseteq Comparing(n)
      <4>1. CASE Moves(b, Rest)
        BY <1>1, <4>1, CountsMove, RestIsHandler
      <4>2. CASE at[b].name # n /\ Moves(b, h)
        BY <1>1, <4>2 DEF Moves, Comparing
      <4> QED
        BY <1>3, <2>2, <4>1, <4>2
    <3> QED
      BY <1>4, <2>1, <3>1, QuietGuesses
  <2>3. CASE Moves(b, h) /\ ~Blocked(n) /\ at[b].name = n
    <3>1. tries[n].count < MaxAttempts
      BY <1>2, <1>6, <2>3 DEF Blocked
    <3>2. guessed[n] <= tries[n].count + Cardinality(Failing(n)) /\ guessed[n] \in Nat /\ tries[n].count \in Nat
      BY <1>2 DEF GuessInv, GuessOK
    <3>3. guessed'[n] <= tries'[n].count + Cardinality(Failing(n)')
      BY <1>4, <2>1, <3>2
    <3>4. guessed'[n] + Cardinality(Comparing(n)') < MaxAttempts + Cardinality(Browsers)
      BY <1>2, <1>4, <2>1, <3>1, <3>2, HandlersCount, HandlersCountNext
    <3> QED
      BY <3>3, <3>4 DEF GuessOK
  <2> QED
    BY <1>3, <2>2, <2>3
<1> QED
  BY <1>5, <1>6

LEMMA UserGuesses == ASSUME GuessInv, SignInInv', NEW b \in Browsers, User(b), NEW n \in Names PROVE GuessOK(n)'
<1>1. at \in [Browsers -> Handler] /\ at[b].name \in Names /\ at[b].pc = "user"
  BY DEF User, GuessInv, SignInInv, Handler
<1>2. /\ tries \in [Names -> [count : Nat, left : 0 .. LockFor]] /\ guessed \in [Names -> Nat]
      /\ MaxAttempts \in Nat
  BY AccountsAssumption DEF GuessInv, SignInInv, ThrottleOK
<1> DEFINE h(pc) == [pc |-> pc, name |-> at[b].name, pass |-> at[b].pass]
<1>3. \/ Moves(b, h("reset")) /\ UNCHANGED guessed
      \/ Moves(b, h("fail")) /\ guessed' = [guessed EXCEPT ![at[b].name] = guessed[at[b].name] + 1]
  BY <1>1, HowHandlersMove DEF User, Pcs
<1>4. tries' = tries
  BY DEF User
<1>5. Failing(n) \subseteq Failing(n)' /\ Comparing(n)' \subseteq Comparing(n)
  <2>1. CASE Moves(b, h("reset"))
    BY <1>1, <2>1, CountsMove
  <2>2. CASE Moves(b, h("fail"))
    BY <1>1, <2>2, CountsMove
  <2> QED
    BY <1>3, <2>1, <2>2
<1>6. CASE guessed'[n] = guessed[n]
  BY <1>4, <1>5, <1>6, QuietGuesses
<1>7. CASE Moves(b, h("fail")) /\ at[b].name = n /\ guessed'[n] = guessed[n] + 1
  <2>1. Failing(n)' = Failing(n) \cup {b} /\ b \notin Failing(n)
    BY <1>1, <1>7 DEF Moves, Failing, Handler
  <2>2. Comparing(n)' = Comparing(n) \ {b} /\ b \in Comparing(n)
    BY <1>1, <1>7 DEF Moves, Comparing, Handler
  <2>3. Cardinality(Failing(n)') = Cardinality(Failing(n)) + 1
    BY <2>1, HandlersCount, FS_AddElement
  <2>4. Cardinality(Comparing(n)') = Cardinality(Comparing(n)) - 1
    BY <2>2, HandlersCount, FS_RemoveElement
  <2>5. guessed'[n] <= tries'[n].count + Cardinality(Failing(n)')
    BY <1>2, <1>4, <1>7, <2>3, HandlersCount DEF GuessInv, GuessOK
  <2>6. guessed'[n] + Cardinality(Comparing(n)') < MaxAttempts + Cardinality(Browsers)
    BY <1>2, <1>7, <2>4, HandlersCount DEF GuessInv, GuessOK
  <2> QED
    BY <2>5, <2>6 DEF GuessOK
<1> QED
  BY <1>1, <1>2, <1>3, <1>6, <1>7

LEMMA FailGuesses == ASSUME GuessInv, SignInInv', NEW b \in Browsers, Fail(b), NEW n \in Names PROVE GuessOK(n)'
<1>1. at \in [Browsers -> Handler] /\ at[b].name \in Names /\ at[b].pc = "fail"
  BY DEF Fail, GuessInv, SignInInv, Handler
<1>2. /\ tries \in [Names -> [count : Nat, left : 0 .. LockFor]] /\ guessed \in [Names -> Nat]
      /\ MaxAttempts \in Nat \ {0}
  BY AccountsAssumption DEF GuessInv, SignInInv, ThrottleOK
<1>3. Moves(b, Rest)
  BY <1>1, HowHandlersMove DEF Fail
<1>4. Comparing(n)' \subseteq Comparing(n)
  BY <1>1, <1>3, CountsMove, RestIsHandler
<1>5. CASE at[b].name # n
  <2>1. Failing(n)' = Failing(n)
    BY <1>1, <1>3, <1>5, RestIsHandler DEF Moves, Failing
  <2>2. guessed'[n] = guessed[n] /\ tries'[n] = tries[n]
    BY <1>2, <1>5 DEF Fail, Count
  <2> QED
    BY <1>4, <2>1, <2>2, QuietGuesses
<1>6. CASE at[b].name = n
  <2>1. Failing(n)' = Failing(n) \ {b} /\ b \in Failing(n)
    BY <1>1, <1>3, <1>6, RestIsHandler DEF Moves, Failing
  <2>2. Cardinality(Failing(n)') = Cardinality(Failing(n)) - 1
    BY <2>1, HandlersCount, FS_RemoveElement
  <2>3. /\ tries'[n].count = (IF tries[n].left = 0 THEN 0 ELSE tries[n].count) + 1
        /\ guessed'[n] = IF tries[n].left = 0 THEN 1 ELSE guessed[n]
    BY <1>1, <1>2, <1>6 DEF Fail, Count
  <2>4. Cardinality(Comparing(n)') <= Cardinality(Comparing(n))
    BY <1>4, HandlersCount, FS_Subset
  <2>5. Cardinality(Failing(n)) # 0
    BY <2>2, HandlersCount, HandlersCountNext
  <2>6. tries[n].count \in Nat /\ guessed[n] \in Nat
    BY <1>2
  <2>7. guessed'[n] <= tries'[n].count + Cardinality(Failing(n)')
    <3>1. guessed[n] <= tries[n].count + Cardinality(Failing(n))
      BY DEF GuessInv, GuessOK
    <3>2. CASE tries[n].left = 0
      BY <2>3, <3>2, HandlersCountNext
    <3>3. CASE tries[n].left # 0
      BY <2>2, <2>3, <2>6, <3>1, <3>3, HandlersCount
    <3> QED
      BY <3>2, <3>3
  <2>8. guessed'[n] + Cardinality(Comparing(n)') < MaxAttempts + Cardinality(Browsers)
    <3>1. guessed[n] + Cardinality(Comparing(n)) < MaxAttempts + Cardinality(Browsers)
      BY DEF GuessInv, GuessOK
    <3>2. CASE tries[n].left = 0
      BY <1>2, <2>3, <2>4, <2>5, <3>2, HandlersCount, HandlersCountNext
    <3>3. CASE tries[n].left # 0
      BY <1>2, <2>3, <2>4, <2>6, <3>1, <3>3, HandlersCount, HandlersCountNext
    <3> QED
      BY <3>2, <3>3
  <2> QED
    BY <2>7, <2>8 DEF GuessOK
<1> QED
  BY <1>5, <1>6

LEMMA ResetGuesses == ASSUME GuessInv, SignInInv', NEW b \in Browsers, Reset(b), NEW n \in Names PROVE GuessOK(n)'
<1>1. at \in [Browsers -> Handler] /\ at[b].name \in Names /\ at[b].pc = "reset"
  BY DEF Reset, GuessInv, SignInInv, Handler
<1>2. tries \in [Names -> [count : Nat, left : 0 .. LockFor]] /\ guessed \in [Names -> Nat]
  BY DEF GuessInv, SignInInv, ThrottleOK
<1>3. Moves(b, Rest)
  BY <1>1, HowHandlersMove DEF Reset
<1>4. CASE at[b].name # n
  <2>1. Failing(n) \subseteq Failing(n)' /\ Comparing(n)' \subseteq Comparing(n)
    BY <1>1, <1>3, CountsMove, RestIsHandler
  <2>2. guessed'[n] = guessed[n] /\ tries'[n] = tries[n]
    BY <1>2, <1>4 DEF Reset
  <2> QED
    BY <2>1, <2>2, QuietGuesses
<1>5. CASE at[b].name = n
  <2>1. guessed'[n] = 0
    BY <1>2, <1>5 DEF Reset
  <2> QED
    BY <2>1, FreshGuesses
<1> QED
  BY <1>4, <1>5

\* A handler that neither passes the throttle nor compares nor counts.
LEMMA MoveGuesses ==
    ASSUME GuessInv, SignInInv', NEW b \in Browsers, NEW h, Moves(b, h), UNCHANGED <<tries, guessed>>,
           at[b].pc # "fail",
           h.pc \notin {"admin", "user"} \/ (at[b].pc \in {"admin", "user"} /\ h.name = at[b].name),
           NEW n \in Names
    PROVE  GuessOK(n)'
<1>1. Failing(n) \subseteq Failing(n)' /\ Comparing(n)' \subseteq Comparing(n)
  BY CountsMove DEF GuessInv, SignInInv
<1> QED
  BY <1>1, QuietGuesses

LEMMA StillGuesses ==
    ASSUME GuessInv, SignInInv', UNCHANGED <<at, guessed>>, NEW n \in Names, tries'[n].count = tries[n].count
    PROVE  GuessOK(n)'
<1>1. Failing(n)' = Failing(n) /\ Comparing(n)' = Comparing(n)
  BY DEF Failing, Comparing
<1> QED
  BY <1>1, QuietGuesses

LEMMA GoesOnGuesses ==
    ASSUME GuessInv, SignInInv', NEW b \in Browsers, NEW n \in Names,
           Setup(b) \/ Signup(b) \/ Admin(b) \/ NabuCallback(b) \/ Ensure(b) \/ Issue(b)
    PROVE  GuessOK(n)'
<1>1. at \in [Browsers -> Handler] /\ UNCHANGED <<tries, guessed>>
  BY DEF GuessInv, SignInInv, Setup, Signup, Admin, NabuCallback, Ensure, Issue
<1> DEFINE h(pc) == [pc |-> pc, name |-> at[b].name, pass |-> at[b].pass]
<1>2. CASE Admin(b)
  <2>1. Go(b, "reset") \/ Go(b, "user")
    BY <1>2 DEF Admin
  <2>2. Moves(b, h("reset")) \/ Moves(b, h("user"))
    BY <1>1, <2>1, HowHandlersMove DEF Pcs
  <2>3. at[b].pc = "admin"
    BY <1>2 DEF Admin
  <2> QED
    BY <1>1, <2>2, <2>3, MoveGuesses
<1>3. CASE Setup(b) \/ Signup(b) \/ NabuCallback(b) \/ Ensure(b) \/ Issue(b)
  <2>1. at[b].pc # "fail" /\ (Answer(b) \/ \E pc \in Pcs \ {"admin", "user"} : Go(b, pc))
    BY <1>3 DEF Setup, Signup, NabuCallback, Ensure, Issue, Pcs
  <2>2. Moves(b, Rest) \/ \E pc \in Pcs \ {"admin", "user"} : Moves(b, h(pc))
    BY <1>1, <2>1, HowHandlersMove
  <2> QED
    BY <1>1, <2>1, <2>2, MoveGuesses, RestIsHandler
<1> QED
  BY <1>2, <1>3

LEMMA BeginsGuesses ==
    ASSUME GuessInv, SignInInv', NEW b \in Browsers, NEW n \in Names, NEW m \in Names, NEW p \in Passwords,
           \/ ConsoleSetup(b, m, p) \/ ConsoleLogin(b, m, p) \/ ConsoleSignup(b, m, p)
           \/ ConsoleContinue(b, m, p) \/ NabuStart(b, m)
    PROVE  GuessOK(n)'
<1>1. at \in [Browsers -> Handler] /\ UNCHANGED <<tries, guessed>>
  BY DEF GuessInv, SignInInv, ConsoleSetup, ConsoleLogin, ConsoleSignup, ConsoleContinue, NabuStart
<1>2. AccountState(m) \in {"none", "password", "sso"}
  BY DEF AccountState
<1>3. \E pc \in {"setup", "check", "signup", "redirect"}, q \in Passwords : Begin(b, pc, m, q)
  <2>1. Rest.pass \in Passwords
    BY RestIsHandler DEF Handler
  <2> QED
    BY <1>2, <2>1 DEF ConsoleSetup, ConsoleLogin, ConsoleSignup, ConsoleContinue, NabuStart
<1>4. PICK pc \in {"setup", "check", "signup", "redirect"}, q \in Passwords : Begin(b, pc, m, q)
  BY <1>3
<1>5. Moves(b, [pc |-> pc, name |-> m, pass |-> q]) /\ at[b].pc = "idle"
  BY <1>1, <1>4, HowHandlersMove DEF Pcs
<1> QED
  BY <1>1, <1>5, MoveGuesses

LEMMA GuessStep == GuessInv /\ [AccountsNext]_accountsVars => GuessInv'
<1> SUFFICES ASSUME GuessInv, [AccountsNext]_accountsVars PROVE GuessInv'
  OBVIOUS
<1>1. SignInInv'
  BY SignInStep DEF GuessInv
<1> SUFFICES ASSUME NEW n \in Names PROVE GuessOK(n)'
  BY <1>1 DEF GuessInv
<1>2. CASE UNCHANGED accountsVars
  BY <1>1, <1>2, StillGuesses DEF accountsVars
<1>3. ASSUME NEW b \in Browsers, Continue(b) PROVE GuessOK(n)'
  BY <1>1, <1>3, GoesOnGuesses, CheckGuesses, UserGuesses, FailGuesses, ResetGuesses DEF Continue
<1>4. ASSUME NEW b \in Browsers, NEW m \in Names, NabuStart(b, m) PROVE GuessOK(n)'
  <2>1. Rest.pass \in Passwords
    BY RestIsHandler DEF Handler
  <2> QED
    BY <1>1, <1>4, <2>1, BeginsGuesses
<1>5. ASSUME NEW b \in Browsers, NEW m \in Names, NEW p \in Passwords,
             \/ ConsoleSetup(b, m, p) \/ ConsoleLogin(b, m, p) \/ ConsoleSignup(b, m, p)
             \/ ConsoleContinue(b, m, p)
      PROVE  GuessOK(n)'
  BY <1>1, <1>5, BeginsGuesses
<1>6. ASSUME UNCHANGED <<tries, at, guessed>> PROVE GuessOK(n)'
  BY <1>1, <1>6, StillGuesses
<1>7. ASSUME NEW b \in Browsers, Logout(b) PROVE UNCHANGED <<tries, at, guessed>>
  BY <1>7 DEF Logout
<1>8. ASSUME NEW b \in Browsers, NEW m \in Names, NEW p \in Passwords, AddAdmin(b, m, p)
      PROVE  UNCHANGED <<tries, at, guessed>>
  BY <1>8 DEF AddAdmin
<1>9. ASSUME NEW b \in Browsers, NEW current \in Passwords, NEW next \in Passwords,
             ChangePassword(b, current, next)
      PROVE  UNCHANGED <<tries, at, guessed>>
  BY <1>9 DEF ChangePassword
<1>10. ASSUME NEW m \in Names, OtherAccount(m) PROVE UNCHANGED <<tries, at, guessed>>
  BY <1>10 DEF OtherAccount
<1>11. ASSUME Flush PROVE UNCHANGED <<tries, at, guessed>>
  BY <1>11 DEF Flush
<1>12. ASSUME Kill PROVE GuessOK(n)'
  <2>1. guessed'[n] = 0
    BY <1>12 DEF Kill
  <2> QED
    BY <1>1, <2>1, FreshGuesses
<1>13. ASSUME Tick PROVE GuessOK(n)'
  <2>1. tries[n] \in [count : Nat, left : 0 .. LockFor]
    BY DEF GuessInv, SignInInv, ThrottleOK
  <2>2. tries'[n].count = tries[n].count /\ UNCHANGED <<at, guessed>>
    BY <1>13, <2>1 DEF Tick
  <2> QED
    BY <1>1, <2>2, StillGuesses
<1> QED
  BY <1>2, <1>3, <1>4, <1>5, <1>6, <1>7, <1>8, <1>9, <1>10, <1>11, <1>12, <1>13 DEF AccountsNext

\* However many handlers try one name side by side, fewer wrong passwords are
\* compared in a window than the throttle allows plus one for each handler
\* (throttle.blocked, Authenticate, throttle.fail: three calls and no lock).
THEOREM GuessesAreBounded == AccountsSpec => []GuessesBounded
<1>1. AccountsInit => GuessInv
  <2> SUFFICES ASSUME AccountsInit, NEW n \in Names PROVE GuessOK(n)
    BY SignInStart DEF GuessInv
  <2>1. Comparing(n) = {} /\ Failing(n) = {} /\ guessed[n] = 0 /\ tries[n].count = 0
    BY RestIsHandler DEF AccountsInit, Comparing, Failing, NoTries
  <2>2. Cardinality({}) = 0 /\ MaxAttempts \in Nat \ {0}
    BY FS_EmptySet, AccountsAssumption
  <2> QED
    BY <2>1, <2>2, HandlersCount DEF GuessOK
<1>2. GuessInv => GuessesBounded
  <2> SUFFICES ASSUME GuessInv, NEW n \in Names PROVE guessed[n] < MaxAttempts + Cardinality(Browsers)
    BY DEF GuessesBounded
  <2>1. guessed[n] \in Nat /\ MaxAttempts \in Nat
    BY AccountsAssumption DEF GuessInv, SignInInv, ThrottleOK
  <2> QED
    BY <2>1, HandlersCount DEF GuessInv, GuessOK
<1> QED
  BY <1>1, <1>2, GuessStep, PTL DEF AccountsSpec

-----------------------------------------------------------------------------
(***************************************************************************)
(* What a call makes of the grants.                                        *)
(***************************************************************************)

\* A call is a record of these fields; what it says of keys and modes is free.
Fields(q) == q \in
    [pc : {"idle", "keys", "grants", "plan", "routed"}, sent : {q.sent}, asked : {q.asked},
     mode : {q.mode}, keys : {q.keys}, approved : SUBSET Providers, gated : SUBSET Providers,
     planRate : BOOLEAN]

Shaped ==
    /\ DOMAIN call = Calls /\ DOMAIN watch = Calls
    /\ \A c \in Calls : Fields(call[c])

\* A grant that lasted until now is in force now.
WatchOK(c) == call[c].pc # "idle" =>
    /\ watch[c].approved \subseteq Approved(kept)
    /\ watch[c].covered \subseteq covers

\* The approvals were read.
ReadOK(c) == call[c].pc \in {"plan", "routed"} =>
    /\ watch[c].approved \subseteq call[c].approved
    /\ call[c].approved \cap Live \subseteq watch[c].ever

\* The plan was read too.
RoutedOK(c) == call[c].pc = "routed" =>
    /\ (call[c].approved \cup watch[c].covered) \cap call[c].gated = {}
    /\ Live \ (AutoGranted \cup call[c].gated) \subseteq watch[c].ever
    /\ Configured \ (AutoGranted \cup call[c].gated \cup call[c].approved) # {} => call[c].planRate

CallOK(c) == WatchOK(c) /\ ReadOK(c) /\ RoutedOK(c)

AccessInv == Shaped /\ \A c \in Calls : CallOK(c)

\* The providers whose cards say the gateway's key can be used.
Cards == {p \in Providers : UsesGatewayKey(p)}

-----------------------------------------------------------------------------
\* While a call is under way, its watch loses the grants that end and gains the
\* cards that are shown.
LEMMA WatchGoesOn ==
    ASSUME NEW c \in Calls, call[c].pc # "idle", call'[c].pc # "idle"
    PROVE  Watch(c) = [approved |-> watch[c].approved \cap Approved(kept)',
                       covered  |-> watch[c].covered \cap covers',
                       ever     |-> watch[c].ever \cup Cards']
BY DEF Watch, Cards, Approved

LEMMA WatchBegins ==
    ASSUME NEW c \in Calls, call[c].pc = "idle", call'[c].pc # "idle"
    PROVE  Watch(c) = [approved |-> Approved(kept)', covered |-> covers', ever |-> Cards']
BY DEF Watch, Cards, Approved

\* Whatever happens elsewhere, a call that does nothing stays right.
LEMMA OthersStayRight ==
    ASSUME NEW c \in Calls, CallOK(c), call'[c] = call[c], watch'[c] = Watch(c)
    PROVE  CallOK(c)'
<1>1. CASE call[c].pc = "idle"
  BY <1>1 DEF CallOK, WatchOK, ReadOK, RoutedOK
<1>2. CASE call[c].pc # "idle"
  <2>1. watch'[c] = [approved |-> watch[c].approved \cap Approved(kept)',
                     covered  |-> watch[c].covered \cap covers',
                     ever     |-> watch[c].ever \cup Cards']
    BY <1>2, WatchGoesOn
  <2>2. WatchOK(c)'
    BY <2>1 DEF WatchOK
  <2>3. ReadOK(c)'
    BY <2>1 DEF CallOK, ReadOK
  <2>4. RoutedOK(c)'
    BY <2>1 DEF CallOK, RoutedOK
  <2> QED
    BY <2>2, <2>3, <2>4 DEF CallOK
<1> QED
  BY <1>1, <1>2

\* Nothing changes in the store or the plan while a call reads it.
Reads == kept' = kept /\ covers' = covers

LEMMA ArriveOK ==
    ASSUME NEW c \in Calls, NEW h \in Headers, Shaped, Arrive(c, h), watch'[c] = Watch(c)
    PROVE  Fields(call'[c]) /\ CallOK(c)'
<1> DEFINE q == [Quiet EXCEPT !.pc = "keys", !.sent = h.sent, !.asked = h.mode,
                              !.keys = HeaderKeys(h.sent),
                              !.mode = Normal(h.mode, AnyKey(HeaderKeys(h.sent)))]
<1>1. call'[c] = q /\ call[c].pc = "idle"
  BY DEF Arrive, Shaped
<1>2. Fields(q) /\ q.pc = "keys"
  BY DEF Fields, Quiet
<1> HIDE DEF q
<1>3. watch'[c] = [approved |-> Approved(kept)', covered |-> covers', ever |-> Cards']
  BY <1>1, <1>2, WatchBegins
<1> QED
  BY <1>1, <1>2, <1>3 DEF CallOK, WatchOK, ReadOK, RoutedOK

LEMMA ReadKeysOK ==
    ASSUME NEW c \in Calls, Shaped, CallOK(c), ReadKeys(c), watch'[c] = Watch(c)
    PROVE  Fields(call'[c]) /\ CallOK(c)'
<1>1. PICK ks, m : call'[c] \in {[call[c] EXCEPT !.pc = "grants", !.keys = ks, !.mode = m],
                                 [call[c] EXCEPT !.pc = "grants"]}
  BY DEF ReadKeys, Shaped
<1>2. call[c].pc = "keys" /\ Reads
  BY DEF ReadKeys, Reads
<1>3. Fields(call'[c]) /\ call'[c].pc = "grants"
  BY <1>1 DEF Shaped, Fields
<1>4. watch'[c] = [approved |-> watch[c].approved \cap Approved(kept)',
                   covered  |-> watch[c].covered \cap covers',
                   ever     |-> watch[c].ever \cup Cards']
  BY <1>2, <1>3, WatchGoesOn
<1> QED
  BY <1>3, <1>4 DEF CallOK, WatchOK, ReadOK, RoutedOK

LEMMA ReadGrantsOK ==
    ASSUME NEW c \in Calls, Shaped, CallOK(c), ReadGrants(c), watch'[c] = Watch(c)
    PROVE  Fields(call'[c]) /\ CallOK(c)'
<1>1. /\ call'[c] = [call[c] EXCEPT !.pc = "plan", !.approved = Approved(kept)]
      /\ call[c].pc = "grants" /\ Reads
  BY DEF ReadGrants, Shaped, Reads
<1>2. Fields(call'[c]) /\ call'[c].pc = "plan" /\ call'[c].approved = Approved(kept)
  <2> DEFINE v == Approved(kept)
  <2>1. call'[c] = [call[c] EXCEPT !.pc = "plan", !.approved = v] /\ Fields(call[c]) /\ v \in SUBSET Providers
    BY <1>1 DEF Shaped, Approved
  <2> HIDE DEF v
  <2>2. Fields(call'[c]) /\ call'[c].pc = "plan" /\ call'[c].approved = v
    BY <2>1 DEF Fields
  <2> QED
    BY <2>2 DEF v
<1>3. watch'[c] = [approved |-> watch[c].approved \cap Approved(kept)',
                   covered  |-> watch[c].covered \cap covers',
                   ever     |-> watch[c].ever \cup Cards']
  BY <1>1, <1>2, WatchGoesOn
<1>4. Approved(kept)' = Approved(kept) /\ Approved(kept) \cap Live \subseteq Cards'
  BY <1>1 DEF Approved, Reads, Cards, UsesGatewayKey
<1> QED
  BY <1>2, <1>3, <1>4 DEF CallOK, WatchOK, ReadOK, RoutedOK

\* What a call is once it is routed.
LEMMA RoutedFields ==
    ASSUME NEW q, Fields(q), NEW g \in SUBSET Providers, NEW b \in BOOLEAN,
           NEW r, r = Routed(q, g, b)
    PROVE  Fields(r) /\ r.pc = "routed" /\ r.gated = g /\ r.approved = q.approved /\ r.planRate = b
<1> DEFINE r1 == [q EXCEPT !.pc = "routed"]
           r2 == [r1 EXCEPT !.gated = g]
           r3 == [r2 EXCEPT !.planRate = b]
<1>1. Fields(r1) /\ r1.pc = "routed" /\ r1.approved = q.approved
  BY DEF Fields
<1> HIDE DEF r1
<1>2. Fields(r2) /\ r2.pc = "routed" /\ r2.gated = g /\ r2.approved = q.approved
  BY <1>1 DEF Fields
<1> HIDE DEF r2
<1>3. r3.pc = "routed" /\ r3.gated = g /\ r3.approved = q.approved
  BY <1>2 DEF Fields
<1>4. r3.planRate = b
  BY <1>2 DEF Fields
<1>5. Fields(r3)
  BY <1>2 DEF Fields
<1>6. r = r3
  BY DEF r1, r2, Routed
<1> QED
  BY <1>3, <1>4, <1>5, <1>6

LEMMA ReadPlanOK ==
    ASSUME NEW c \in Calls, Shaped, CallOK(c), ReadPlan(c), watch'[c] = Watch(c)
    PROVE  Fields(call'[c]) /\ CallOK(c)'
<1>1. /\ call'[c] = Routed(call[c], Gated(c), covers # {})
      /\ call[c].pc = "plan" /\ Reads
  BY DEF ReadPlan, Shaped, Reads
<1>2. Gated(c) = Configured \ (AutoGranted \cup call[c].approved \cup covers)
  BY DEF Gated, Denied
<1>3. /\ Fields(call'[c]) /\ call'[c].pc = "routed" /\ call'[c].gated = Gated(c)
      /\ call'[c].approved = call[c].approved
      /\ call'[c].planRate = (covers # {})
  <2>1. Gated(c) \in SUBSET Providers
    BY <1>2, AccessAssumption
  <2>2. (covers # {}) \in BOOLEAN
    OBVIOUS
  <2>3. Fields(call[c])
    BY DEF Shaped
  <2> DEFINE q == call[c]
             g == Gated(c)
             b == covers # {}
  <2>4. Fields(q) /\ g \in SUBSET Providers /\ b \in BOOLEAN
    BY <2>1, <2>2, <2>3
  <2>5. call'[c] = Routed(q, g, b)
    BY <1>1
  <2> HIDE DEF q, g, b
  <2>6. /\ Fields(call'[c]) /\ call'[c].pc = "routed" /\ call'[c].gated = g
        /\ call'[c].approved = q.approved /\ call'[c].planRate = b
    BY <2>4, <2>5, RoutedFields
  <2> QED
    BY <2>6 DEF q, g, b
<1>4. watch'[c] = [approved |-> watch[c].approved \cap Approved(kept)',
                   covered  |-> watch[c].covered \cap covers',
                   ever     |-> watch[c].ever \cup Cards']
  BY <1>1, <1>3, WatchGoesOn
<1>5. covers \cap Live \subseteq Cards'
  BY <1>1, AccessAssumption DEF Reads, Cards, UsesGatewayKey
<1>6. WatchOK(c)' /\ ReadOK(c)'
  BY <1>1, <1>3, <1>4 DEF CallOK, WatchOK, ReadOK
<1>7. RoutedOK(c)'
  <2>1. watch'[c].covered \subseteq covers
    BY <1>1, <1>4 DEF Reads
  <2>2. (call'[c].approved \cup watch'[c].covered) \cap call'[c].gated = {}
    BY <1>2, <1>3, <2>1
  <2>3. Live \ (AutoGranted \cup call'[c].gated) \subseteq watch'[c].ever
    <3>1. call[c].approved \cap Live \subseteq watch[c].ever
      BY <1>1 DEF CallOK, ReadOK
    <3>2. watch'[c].ever = watch[c].ever \cup Cards'
      BY <1>4
    <3>3. Live \ (AutoGranted \cup Gated(c)) \subseteq call[c].approved \cup covers
      BY <1>2, AccessAssumption
    <3>4. call'[c].gated = Gated(c)
      BY <1>3
    <3> QED
      BY <1>5, <3>1, <3>2, <3>3, <3>4
  <2>4. Configured \ (AutoGranted \cup call'[c].gated \cup call'[c].approved) # {} => call'[c].planRate
    BY <1>2, <1>3
  <2> QED
    BY <2>2, <2>3, <2>4 DEF RoutedOK
<1> QED
  BY <1>3, <1>6, <1>7 DEF CallOK

LEMMA EndOK ==
    ASSUME NEW c \in Calls, Shaped, End(c)
    PROVE  Fields(call'[c]) /\ CallOK(c)'
<1>1. call'[c] = Quiet
  BY DEF End, Shaped
<1> QED
  BY <1>1 DEF Quiet, Fields, CallOK, WatchOK, ReadOK, RoutedOK

-----------------------------------------------------------------------------
LEMMA StepOK == AccessInv /\ [AccessNext]_accessVars => AccessInv'
<1> SUFFICES ASSUME AccessInv, [AccessNext]_accessVars PROVE AccessInv'
  OBVIOUS
<1> USE DEF AccessInv
<1>1. CASE UNCHANGED accessVars
  BY <1>1 DEF accessVars, Shaped, CallOK, WatchOK, ReadOK, RoutedOK, Approved
<1>2. CASE AccessNext
  <2>1. DOMAIN watch' = Calls /\ \A c \in Calls : watch'[c] = Watch(c)
    BY <1>2 DEF AccessNext
  <2>2. ASSUME call' = call PROVE AccessInv'
    <3>1. \A c \in Calls : CallOK(c)'
      BY <2>1, <2>2, OthersStayRight
    <3> QED
      BY <2>1, <2>2, <3>1 DEF Shaped
  <2>3. ASSUME NEW c \in Calls, DOMAIN call' = Calls, Fields(call'[c]), CallOK(c)',
               \A d \in Calls \ {c} : call'[d] = call[d]
        PROVE  AccessInv'
    <3>1. \A d \in Calls : CallOK(d)'
      BY <2>1, <2>3, OthersStayRight
    <3>2. \A d \in Calls : Fields(call'[d])
      BY <2>3 DEF Shaped
    <3> QED
      BY <2>1, <2>3, <3>1, <3>2 DEF Shaped
  <2>4. ASSUME NEW p \in Providers, AskFor(p) PROVE call' = call
    BY <2>4 DEF AskFor
  <2>5. ASSUME NEW p \in Providers, NEW a \in BOOLEAN, NEW g \in Gifts, Decide(p, a, g) PROVE call' = call
    BY <2>5 DEF Decide
  <2>6. ASSUME NEW p \in Providers, NEW id \in KeyIds, SaveKey(p, id) PROVE call' = call
    BY <2>6 DEF SaveKey
  <2>7. ASSUME NEW p \in Providers, NEW ids, DeleteKeys(p, ids) PROVE call' = call
    BY <2>7 DEF DeleteKeys
  <2>8. ASSUME NEW c \in Calls, NEW h \in Headers, Arrive(c, h) PROVE AccessInv'
    <3>1. Fields(call'[c]) /\ CallOK(c)'
      BY <2>1, <2>8, ArriveOK
    <3>2. DOMAIN call' = Calls /\ \A d \in Calls \ {c} : call'[d] = call[d]
      BY <2>8 DEF Arrive, Shaped
    <3> QED
      BY <2>3, <3>1, <3>2
  <2>9. ASSUME NEW c \in Calls, ReadKeys(c) PROVE AccessInv'
    <3>1. Fields(call'[c]) /\ CallOK(c)'
      BY <2>1, <2>9, ReadKeysOK
    <3>2. DOMAIN call' = Calls /\ \A d \in Calls \ {c} : call'[d] = call[d]
      BY <2>9 DEF ReadKeys, Shaped
    <3> QED
      BY <2>3, <3>1, <3>2
  <2>10. ASSUME NEW c \in Calls, ReadGrants(c) PROVE AccessInv'
    <3>1. Fields(call'[c]) /\ CallOK(c)'
      BY <2>1, <2>10, ReadGrantsOK
    <3>2. DOMAIN call' = Calls /\ \A d \in Calls \ {c} : call'[d] = call[d]
      BY <2>10 DEF ReadGrants, Shaped
    <3> QED
      BY <2>3, <3>1, <3>2
  <2>11. ASSUME NEW c \in Calls, ReadPlan(c) PROVE AccessInv'
    <3>1. Fields(call'[c]) /\ CallOK(c)'
      BY <2>1, <2>11, ReadPlanOK
    <3>2. DOMAIN call' = Calls /\ \A d \in Calls \ {c} : call'[d] = call[d]
      BY <2>11 DEF ReadPlan, Shaped
    <3> QED
      BY <2>3, <3>1, <3>2
  <2>12. ASSUME NEW c \in Calls, End(c) PROVE AccessInv'
    <3>1. Fields(call'[c]) /\ CallOK(c)'
      BY <2>12, EndOK
    <3>2. DOMAIN call' = Calls /\ \A d \in Calls \ {c} : call'[d] = call[d]
      BY <2>12 DEF End, Shaped
    <3> QED
      BY <2>3, <3>1, <3>2
  <2>13. ASSUME NEW P \in SUBSET Providers, PlanChanges(P) PROVE call' = call
    BY <2>13 DEF PlanChanges
  <2>14. ASSUME Persist PROVE call' = call
    BY <2>14 DEF Persist
  <2>15. ASSUME Restart PROVE AccessInv'
    <3>1. call' = [c \in Calls |-> Quiet]
      BY <2>15 DEF Restart
    <3>2. \A c \in Calls : Fields(call'[c]) /\ CallOK(c)'
      BY <3>1 DEF Quiet, Fields, CallOK, WatchOK, ReadOK, RoutedOK
    <3> QED
      BY <2>1, <3>1, <3>2 DEF Shaped
  <2> QED
    BY <1>2, <2>2, <2>4, <2>5, <2>6, <2>7, <2>8, <2>9, <2>10, <2>11, <2>12, <2>13, <2>14, <2>15
       DEF AccessNext
<1> QED
  BY <1>1, <1>2

\* What a call was granted all the time it has at the end, what it spends it was
\* granted at some time, and a plan that lets it through sets its rate; for any
\* calls that read while approvals, plans and keys change.
THEOREM GrantsAreHonoured == AccessSpec => []GrantHonoured
<1>1. AccessInit => AccessInv
  <2> SUFFICES ASSUME AccessInit PROVE AccessInv
    OBVIOUS
  <2>1. call = [c \in Calls |-> Quiet] /\ watch = [c \in Calls |-> Unwatched]
    BY DEF AccessInit
  <2> QED
    BY <2>1 DEF AccessInv, Shaped, Quiet, Fields, CallOK, WatchOK, ReadOK, RoutedOK
<1>2. AccessInv => GrantHonoured
  BY AccessAssumption DEF AccessInv, CallOK, ReadOK, RoutedOK, GrantHonoured, SpendsGateway
<1> QED
  BY <1>1, <1>2, StepOK, PTL DEF AccessSpec

-----------------------------------------------------------------------------
(***************************************************************************)
(* The credit that comes with an approval.                                 *)
(***************************************************************************)

Credits(s) == [p \in Providers |-> s.asks[p].credit]

\* A request that was never made has given nothing, and what the others gave is
\* the balance.
Credited(s) ==
    /\ s \in [asks : [Providers -> Ask], balance : Nat, keys : {s.keys}]
    /\ \A p \in Providers : s.asks[p].status = "none" => s.asks[p].credit = 0
    /\ s.balance = SumFunctionOnSet(Credits(s), Providers)

CreditInv == Credited(kept) /\ Credited(saved)

LEMMA CreditsAreNat ==
    ASSUME NEW s, s.asks \in [Providers -> Ask]
    PROVE  \A p \in Providers : Credits(s)[p] \in Nat /\ Credits(s)[p] = s.asks[p].credit
BY DEF Credits, Ask

\* One request changes, and the balance by as much as the credit it shows.
LEMMA OneAskCredited ==
    ASSUME NEW s, Credited(s), NEW p \in Providers, NEW a \in Ask, NEW t,
           t.asks = [s.asks EXCEPT ![p] = a],
           a.status = "none" => a.credit = 0,
           t \in [asks : [Providers -> Ask], balance : Nat, keys : {t.keys}],
           t.balance = s.balance - s.asks[p].credit + a.credit
    PROVE  Credited(t)
<1>1. s.asks \in [Providers -> Ask] /\ t.asks \in [Providers -> Ask]
  BY DEF Credited
<1>2. t.asks[p] = a /\ \A x \in Providers \ {p} : t.asks[x] = s.asks[x]
  BY <1>1
<1>3. \A x \in Providers : Credits(s)[x] \in Nat /\ Credits(t)[x] \in Nat
  BY <1>1, CreditsAreNat
<1>4. Credits(s)[p] = s.asks[p].credit /\ Credits(t)[p] = a.credit
  BY <1>1, <1>2, CreditsAreNat
<1>5. \A x \in Providers \ {p} : Credits(t)[x] = Credits(s)[x]
  BY <1>2 DEF Credits
<1>6. SumFunctionOnSet(Credits(t), Providers) =
         SumFunctionOnSet(Credits(s), Providers) - Credits(s)[p] + Credits(t)[p]
  BY <1>3, <1>5, SumChange, AccessAssumption
<1>7. t.balance = SumFunctionOnSet(Credits(t), Providers)
  BY <1>4, <1>6 DEF Credited
<1>8. \A x \in Providers : t.asks[x].status = "none" => t.asks[x].credit = 0
  BY <1>2 DEF Credited
<1> QED
  BY <1>7, <1>8 DEF Credited

LEMMA RequestCredited ==
    ASSUME Credited(kept), NEW p \in Providers, NEW auto \in BOOLEAN
    PROVE  Credited(RequestProvider(p, auto))
<1> DEFINE fresh == [status |-> IF auto THEN "approved" ELSE "pending", auto |-> auto, credit |-> 0]
           again == [kept.asks[p] EXCEPT !.status = "pending"]
<1>1. kept \in [asks : [Providers -> Ask], balance : Nat, keys : {kept.keys}] /\ kept.asks[p] \in Ask
  BY DEF Credited
<1>2. CASE kept.asks[p].status = "none"
  <2>1. RequestProvider(p, auto) = [kept EXCEPT !.asks = [kept.asks EXCEPT ![p] = fresh]]
    BY <1>1, <1>2 DEF RequestProvider
  <2>2. fresh \in Ask /\ fresh.status # "none" /\ fresh.credit = 0
    BY DEF Ask
  <2>3. kept.asks[p].credit = 0
    BY <1>2 DEF Credited
  <2> HIDE DEF fresh
  <2> DEFINE t == [kept EXCEPT !.asks = [kept.asks EXCEPT ![p] = fresh]]
  <2>4. /\ t.asks = [kept.asks EXCEPT ![p] = fresh] /\ t.balance = kept.balance
        /\ t \in [asks : [Providers -> Ask], balance : Nat, keys : {t.keys}]
    BY <1>1, <2>2
  <2> HIDE DEF t
  <2>5. t.balance = kept.balance - kept.asks[p].credit + fresh.credit
    BY <1>1, <2>2, <2>3, <2>4
  <2>6. Credited(t)
    BY <2>2, <2>4, <2>5, OneAskCredited
  <2> QED
    BY <2>1, <2>6 DEF t
<1>3. CASE kept.asks[p].status = "denied"
  <2>1. RequestProvider(p, auto) = [kept EXCEPT !.asks = [kept.asks EXCEPT ![p] = again]]
    BY <1>1, <1>3 DEF RequestProvider
  <2>2. again \in Ask /\ again.status # "none" /\ again.credit = kept.asks[p].credit
    BY <1>1 DEF Ask
  <2> HIDE DEF again
  <2> DEFINE t == [kept EXCEPT !.asks = [kept.asks EXCEPT ![p] = again]]
  <2>4. /\ t.asks = [kept.asks EXCEPT ![p] = again] /\ t.balance = kept.balance
        /\ t \in [asks : [Providers -> Ask], balance : Nat, keys : {t.keys}]
    BY <1>1, <2>2
  <2> HIDE DEF t
  <2>5. t.balance = kept.balance - kept.asks[p].credit + again.credit
    BY <1>1, <2>2, <2>4 DEF Ask
  <2>6. Credited(t)
    BY <2>2, <2>4, <2>5, OneAskCredited
  <2> QED
    BY <2>1, <2>6 DEF t
<1>4. CASE kept.asks[p].status \notin {"none", "denied"}
  BY <1>4 DEF RequestProvider
<1> QED
  BY <1>2, <1>3, <1>4

LEMMA DecisionCredited ==
    ASSUME Credited(kept), NEW p \in Providers, NEW approve \in BOOLEAN, NEW gift \in Gifts
    PROVE  Credited(DecideProviderRequest(p, approve, gift))
<1> DEFINE given == IF approve THEN gift ELSE 0
           st == IF approve THEN "approved" ELSE "denied"
           q == [kept.asks[p] EXCEPT !.status = st]
           a == [q EXCEPT !.credit = kept.asks[p].credit + given]
           u == [kept EXCEPT !.asks = [kept.asks EXCEPT ![p] = a]]
           t == [u EXCEPT !.balance = kept.balance + given]
<1>1. kept \in [asks : [Providers -> Ask], balance : Nat, keys : {kept.keys}] /\ kept.asks[p] \in Ask
  BY DEF Credited
<1>2. given \in Nat /\ st \in {"approved", "denied"}
  BY AccessAssumption
<1>3. DecideProviderRequest(p, approve, gift) = t
  <2>1. DecideProviderRequest(p, approve, gift) =
            [kept EXCEPT !.asks[p].status = st, !.asks[p].credit = @ + given, !.balance = @ + given]
    BY DEF DecideProviderRequest
  <2> HIDE DEF given, st
  <2> QED
    BY <1>1, <2>1 DEF Ask
<1> HIDE DEF given, st
<1>4. q \in Ask /\ q.status = st
  BY <1>1, <1>2 DEF Ask
<1> HIDE DEF q
<1>5. kept.asks[p].credit + given \in Nat
  BY <1>1, <1>2 DEF Ask
<1>6. a \in Ask /\ a.status # "none" /\ a.credit = kept.asks[p].credit + given
  BY <1>2, <1>4, <1>5 DEF Ask
<1> HIDE DEF a
<1>7. /\ u.asks = [kept.asks EXCEPT ![p] = a] /\ u.keys = kept.keys
      /\ u \in [asks : [Providers -> Ask], balance : Nat, keys : {kept.keys}]
  BY <1>1, <1>6
<1> HIDE DEF u
<1>8. kept.balance + given \in Nat
  BY <1>1, <1>2
<1>9. /\ t.asks = [kept.asks EXCEPT ![p] = a] /\ t.balance = kept.balance + given
      /\ t \in [asks : [Providers -> Ask], balance : Nat, keys : {t.keys}]
  BY <1>7, <1>8
<1> HIDE DEF t
<1>10. t.balance = kept.balance - kept.asks[p].credit + a.credit
  BY <1>1, <1>2, <1>6, <1>9 DEF Ask
<1>11. Credited(t)
  BY <1>6, <1>9, <1>10, OneAskCredited
<1> QED
  BY <1>3, <1>11

\* The keys have no part in it.
LEMMA KeysCredited ==
    ASSUME Credited(kept), NEW ks, NEW t, t = [kept EXCEPT !.keys = ks]
    PROVE  Credited(t)
<1>1. kept \in [asks : [Providers -> Ask], balance : Nat, keys : {kept.keys}]
  BY DEF Credited
<1>2. t.asks = kept.asks /\ t.balance = kept.balance /\ t \in [asks : [Providers -> Ask], balance : Nat, keys : {t.keys}]
  BY <1>1
<1>3. Credits(t) = Credits(kept)
  BY <1>2 DEF Credits
<1> QED
  BY <1>2, <1>3 DEF Credited

LEMMA WriteCredited ==
    ASSUME CreditInv, NEW new, Credited(new), Write(new)
    PROVE  CreditInv'
BY DEF CreditInv, Write, Credited, Credits

LEMMA CreditStep == CreditInv /\ [AccessNext]_accessVars => CreditInv'
<1> SUFFICES ASSUME CreditInv, [AccessNext]_accessVars PROVE CreditInv'
  OBVIOUS
<1>1. ASSUME UNCHANGED <<kept, saved>> PROVE CreditInv'
  BY <1>1 DEF CreditInv, Credited, Credits
<1>2. ASSUME NEW p \in Providers, AskFor(p) PROVE CreditInv'
  <2>1. (p \in AutoGranted /\ p \in Live) \in BOOLEAN
    OBVIOUS
  <2> DEFINE new == RequestProvider(p, p \in AutoGranted /\ p \in Live)
  <2>2. Credited(new)
    BY <2>1, RequestCredited DEF CreditInv
  <2>3. UNCHANGED <<kept, saved>> \/ Write(new)
    BY <1>2 DEF AskFor
  <2> HIDE DEF new
  <2> QED
    BY <1>1, <2>2, <2>3, WriteCredited
<1>3. ASSUME NEW p \in Providers, NEW approve \in BOOLEAN, NEW gift \in Gifts, Decide(p, approve, gift)
      PROVE  CreditInv'
  BY <1>3, DecisionCredited, WriteCredited DEF Decide, CreditInv
<1>4. ASSUME NEW p \in Providers, NEW id \in KeyIds, SaveKey(p, id) PROVE CreditInv'
  <2>1. Credited(kept) /\ AddProviderKey(p, id) =
            [kept EXCEPT !.keys = [kept.keys EXCEPT ![p] = Append(kept.keys[p], [id |-> id, under |-> secret])]]
    BY DEF AddProviderKey, CreditInv, Credited
  <2> QED
    BY <1>4, <2>1, KeysCredited, WriteCredited DEF SaveKey
<1>5. ASSUME NEW p \in Providers, NEW ids, DeleteKeys(p, ids) PROVE CreditInv'
  <2>1. PICK ks : DeleteProviderKey(p, ids) = [kept EXCEPT !.keys = ks]
    BY DEF DeleteProviderKey, CreditInv, Credited
  <2>2. Credited(DeleteProviderKey(p, ids))
    BY <2>1, KeysCredited DEF CreditInv
  <2> QED
    BY <1>5, <2>2, WriteCredited DEF DeleteKeys
<1>6. ASSUME NEW c \in Calls,
             (\E h \in Headers : Arrive(c, h)) \/ ReadKeys(c) \/ ReadGrants(c) \/ ReadPlan(c) \/ End(c)
      PROVE  UNCHANGED <<kept, saved>>
  BY <1>6 DEF Arrive, ReadKeys, ReadGrants, ReadPlan, End
<1>7. ASSUME NEW P \in SUBSET Providers, PlanChanges(P) PROVE UNCHANGED <<kept, saved>>
  BY <1>7 DEF PlanChanges
<1>8. ASSUME Persist \/ Restart PROVE CreditInv'
  BY <1>8 DEF Persist, Restart, CreditInv, Credited, Credits
<1>9. CASE UNCHANGED accessVars
  BY <1>1, <1>9 DEF accessVars
<1> QED
  BY <1>1, <1>2, <1>3, <1>4, <1>5, <1>6, <1>7, <1>8, <1>9 DEF AccessNext

\* The credit an account has is the credit its requests show, in memory and in the
\* file, through every decision, refusal and request that is opened again
\* (DecideProviderRequest, RequestProvider).
THEOREM CreditIsAccounted == AccessSpec => []CreditAccounted
<1>1. AccessInit => CreditInv
  <2> SUFFICES ASSUME AccessInit PROVE Credited(Nothing)
    BY DEF AccessInit, CreditInv
  <2>1. Nothing \in [asks : [Providers -> Ask], balance : Nat, keys : {Nothing.keys}]
    BY DEF Nothing, NoAsk, Ask
  <2>2. \A p \in Providers : Nothing.asks[p].status = "none" /\ Credits(Nothing)[p] = 0
    BY DEF Nothing, NoAsk, Credits
  <2>3. SumFunctionOnSet(Credits(Nothing), Providers) = 0
    BY <2>2, SumZero, AccessAssumption
  <2> QED
    BY <2>1, <2>2, <2>3 DEF Credited, Nothing, NoAsk, Credits
<1>2. CreditInv => CreditAccounted
  <2>1. \A s : SumFunction(Credits(s)) = SumFunctionOnSet(Credits(s), Providers)
    BY DEF SumFunction, Credits
  <2>2. ASSUME NEW s, Credited(s) PROVE s.balance = SumFunction([p \in Providers |-> s.asks[p].credit])
    BY <2>1, <2>2 DEF Credited, Credits
  <2> QED
    BY <2>2 DEF CreditInv, CreditAccounted
<1> QED
  BY <1>1, <1>2, CreditStep, PTL DEF AccessSpec
=============================================================================
