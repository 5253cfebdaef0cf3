------------------------------ MODULE Accounts ------------------------------
(***************************************************************************)
(* Signing in to the console: administrators, accounts, sessions, first-   *)
(* run setup, sign-up, single sign-on and the throttle of failed sign-ins. *)
(*                                                                         *)
(* A handler holds no lock between its calls to the store and to the       *)
(* throttle, so each call is a step.  Time is kept as what is left of a    *)
(* lock or of a session, 0 being "after until".  The accounts are those of *)
(* the wallet; whatever else creates one does it without a password        *)
(* (OtherAccount).                                                         *)
(***************************************************************************)
EXTENDS Integers, FiniteSets

CONSTANTS
    Names,        \* addresses and usernames
    Allowed,      \* the administrators' allow-list of single sign-on
    Passwords,    \* long enough ones
    Browsers,     \* each runs one handler at a time and keeps one cookie
    MaxAttempts,  \* maxLoginAttempts
    LockFor,      \* loginLockFor
    TTL,          \* SessionTTL
    WritesMayFail,
    MaxMishaps,   \* bound: failed writes and crashes
    NoPassword, Absent

ASSUME AccountsAssumption ==
    /\ Allowed \subseteq Names /\ Names # {} /\ Passwords # {}
    /\ {LockFor, TTL, MaxAttempts} \subseteq Nat \ {0}
    /\ MaxMishaps \in Nat
    /\ WritesMayFail \in BOOLEAN
    /\ NoPassword \notin Passwords /\ Absent \notin Passwords /\ Absent # NoPassword
    /\ IsFiniteSet(Browsers)

VARIABLES
    book,     \* the accounts' part of Store.st
    file,     \* what the state file holds of it
    tries,    \* throttle.attempts, by name (one source address)
    at,       \* what each browser's handler is doing
    guessed,  \* history: wrong passwords compared since a name's count began
    mishaps   \* how many writes failed and how often the process was killed

accountsVars == <<book, file, tries, at, guessed, mishaps>>

\* A session is named by the browser that holds its token: a browser that signs
\* in again overwrites its cookie, and what is left of the old session is an
\* entry nobody has the token of.
Session == [left : 0 .. TTL, name : Names, admin : BOOLEAN]

Book == [admins   : [Names -> Passwords \cup {Absent}],
         users    : [Names -> Passwords \cup {NoPassword, Absent}],
         sessions : [Browsers -> Session \cup {Absent}]]

Handler == [pc : {"idle", "setup", "state", "signup", "check", "admin", "user", "fail", "reset",
                  "redirect", "ensure", "issue"},
            name : Names, pass : Passwords]

AccountsTypeOK ==
    /\ book \in Book /\ file \in Book
    /\ tries \in [Names -> [count : Nat, left : 0 .. LockFor]]
    /\ at \in [Browsers -> Handler]
    /\ guessed \in [Names -> Nat]
    /\ mishaps \in 0 .. MaxMishaps

EmptyBook == [admins |-> [n \in Names |-> Absent], users |-> [n \in Names |-> Absent],
              sessions |-> [b \in Browsers |-> Absent]]

Rest == [pc |-> "idle", name |-> CHOOSE n \in Names : TRUE, pass |-> CHOOSE p \in Passwords : TRUE]

NoTries == [count |-> 0, left |-> 0]

AccountsInit ==
    /\ book = EmptyBook /\ file = EmptyBook
    /\ tries = [n \in Names |-> NoTries]
    /\ at = [b \in Browsers |-> Rest]
    /\ guessed = [n \in Names |-> 0]
    /\ mishaps = 0

-----------------------------------------------------------------------------
(***************************************************************************)
(* The store.                                                              *)
(***************************************************************************)

\* save: the whole store is written.  Every operation here leaves its change in
\* memory when the write fails.
Landed(new) == book' = new /\ file' = new /\ UNCHANGED mishaps
NotLanded(new) == /\ WritesMayFail /\ mishaps < MaxMishaps
                  /\ book' = new /\ mishaps' = mishaps + 1 /\ UNCHANGED file
Unwritten == UNCHANGED <<book, file, mishaps>>

NeedsSetup == \A n \in Names : book.admins[n] = Absent

CreateAdmin(n, p) == [book EXCEPT !.admins[n] = p]
SignupUser(n, p) == [book EXCEPT !.users[n] = p]
EnsureUser(n) == [book EXCEPT !.users[n] = IF @ = Absent THEN NoPassword ELSE @]

\* purgeExpiredLocked
Purged(sessions) ==
    [b \in Browsers |-> IF sessions[b] # Absent /\ sessions[b].left = 0 THEN Absent ELSE sessions[b]]

NewSession(b, n, isAdmin) ==
    [book EXCEPT !.sessions = [Purged(@) EXCEPT ![b] = [left |-> TTL, name |-> n, admin |-> isAdmin]]]

\* The session of an answer that reports the failed write: nobody has its token.
Orphan == [book EXCEPT !.sessions = Purged(@)]

\* AuthenticateUser does not purge.
NewUserSession(b, n) == [book EXCEPT !.sessions[b] = [left |-> TTL, name |-> n, admin |-> FALSE]]

EndSession(b) == [book EXCEPT !.sessions[b] = Absent]

\* ValidSession
Valid(b) == book.sessions[b] # Absent /\ book.sessions[b].left > 0

\* AccountState: "sso" is an account without a password.
AccountState(n) ==
    IF book.admins[n] # Absent THEN "password"
    ELSE IF book.users[n] = Absent THEN "none"
    ELSE IF book.users[n] = NoPassword THEN "sso" ELSE "password"

\* SignupUser refuses an address that has an account.
Vacant(n) == book.users[n] = Absent

-----------------------------------------------------------------------------
(***************************************************************************)
(* The throttle.                                                           *)
(***************************************************************************)

Blocked(n) == tries[n].left > 0 /\ tries[n].count >= MaxAttempts

\* Variant: an attempt that is refused extends the lock.
ForgetExtending(n) ==
    tries' = [tries EXCEPT ![n] = IF Blocked(n) THEN [@ EXCEPT !.left = LockFor]
                                  ELSE IF @.left = 0 THEN NoTries ELSE @]

\* blocked clears an entry whose window has passed.
Forget(n) == tries' = [tries EXCEPT ![n] = IF @.left = 0 THEN NoTries ELSE @]

\* fail
Count(n) ==
    tries' = [tries EXCEPT ![n] =
        [count |-> (IF @.left = 0 THEN 0 ELSE @.count) + 1, left |-> LockFor]]

-----------------------------------------------------------------------------
(***************************************************************************)
(* The handlers.                                                           *)
(***************************************************************************)

Go(b, pc) == at' = [at EXCEPT ![b].pc = pc]
Begin(b, pc, n, p) == at[b].pc = "idle" /\ at' = [at EXCEPT ![b] = [pc |-> pc, name |-> n, pass |-> p]]
Answer(b) == at' = [at EXCEPT ![b] = Rest]

\* consoleSetup, consoleLogin, consoleContinue and consoleSignup arrive with a
\* name and a password; they all end in startConsoleSession.
ConsoleSetup(b, n, p) ==
    /\ NeedsSetup /\ Begin(b, "setup", n, p)
    /\ Unwritten /\ UNCHANGED <<tries, guessed>>

ConsoleLogin(b, n, p) ==
    /\ Begin(b, "check", n, p)
    /\ Unwritten /\ UNCHANGED <<tries, guessed>>

ConsoleSignup(b, n, p) ==
    /\ Begin(b, "signup", n, p)
    /\ Unwritten /\ UNCHANGED <<tries, guessed>>

\* An address without an account is asked once more before one is made; an
\* account that signs in elsewhere is sent there.
ConsoleContinue(b, n, p) ==
    /\ CASE AccountState(n) = "none"     -> Begin(b, "signup", n, p)
         [] AccountState(n) = "password" -> Begin(b, "check", n, p)
         [] AccountState(n) = "sso"      -> FALSE
    /\ Unwritten /\ UNCHANGED <<tries, guessed>>

\* The account of the first administrator: nothing is checked again.
Setup(b) ==
    /\ at[b].pc = "setup"
    /\ IF book.admins[at[b].name] = Absent
       THEN LET new == CreateAdmin(at[b].name, at[b].pass)
            IN  \/ Landed(new) /\ Go(b, "check")
                \/ NotLanded(new) /\ Answer(b)
       ELSE Unwritten /\ Answer(b)
    /\ UNCHANGED <<tries, guessed>>

\* SignupUser ignores a failed write.
Signup(b) ==
    /\ at[b].pc = "signup"
    /\ IF Vacant(at[b].name)
       THEN LET new == SignupUser(at[b].name, at[b].pass)
            IN  (Landed(new) \/ NotLanded(new)) /\ Go(b, "check")
       ELSE Unwritten /\ Answer(b)
    /\ UNCHANGED <<tries, guessed>>

\* Variant: the throttle is not asked.
Unthrottled(b) ==
    /\ at[b].pc = "check" /\ Go(b, "admin") /\ Forget(at[b].name)
    /\ guessed' = [guessed EXCEPT ![at[b].name] = IF tries[at[b].name].left = 0 THEN 0 ELSE @]
    /\ Unwritten

Check(b) ==
    LET n == at[b].name
    IN  /\ at[b].pc = "check"
        /\ Forget(n)
        /\ guessed' = [guessed EXCEPT ![n] = IF tries[n].left = 0 THEN 0 ELSE @]
        /\ IF Blocked(n) THEN Answer(b) ELSE Go(b, "admin")
        /\ Unwritten

\* Authenticate; a failed write is an error like any other here.
Admin(b) ==
    LET new == NewSession(b, at[b].name, TRUE)
    IN  /\ at[b].pc = "admin"
        /\ IF book.admins[at[b].name] = at[b].pass
           THEN \/ Landed(new) /\ Go(b, "reset")
                \/ NotLanded(Orphan) /\ Go(b, "user")
           ELSE Unwritten /\ Go(b, "user")
        /\ UNCHANGED <<tries, guessed>>

\* AuthenticateUser ignores a failed write.
User(b) ==
    LET n == at[b].name  new == NewUserSession(b, n)
    IN  /\ at[b].pc = "user"
        /\ IF book.users[n] = at[b].pass
           THEN (Landed(new) \/ NotLanded(new)) /\ Go(b, "reset") /\ UNCHANGED guessed
           ELSE /\ Unwritten /\ Go(b, "fail")
                /\ guessed' = [guessed EXCEPT ![n] = @ + 1]
        /\ UNCHANGED tries

Fail(b) ==
    LET n == at[b].name
    IN  /\ at[b].pc = "fail" /\ Count(n) /\ Answer(b)
        /\ guessed' = [guessed EXCEPT ![n] = IF tries[n].left = 0 THEN 1 ELSE @]
        /\ Unwritten

Reset(b) ==
    LET n == at[b].name
    IN  /\ at[b].pc = "reset" /\ Answer(b)
        /\ tries' = [tries EXCEPT ![n] = NoTries]
        /\ guessed' = [guessed EXCEPT ![n] = 0]
        /\ Unwritten

\* consoleLogout: the cookie is dropped whether or not the write landed.
Logout(b) ==
    /\ at[b].pc = "idle" /\ book.sessions[b] # Absent
    /\ Landed(EndSession(b)) \/ NotLanded(EndSession(b))
    /\ UNCHANGED <<tries, at, guessed>>

\* createAdmin: an administrator adds another.
AddAdmin(b, n, p) ==
    /\ Valid(b) /\ book.sessions[b].admin /\ book.admins[n] = Absent
    /\ Landed(CreateAdmin(n, p)) \/ NotLanded(CreateAdmin(n, p))
    /\ UNCHANGED <<tries, at, guessed>>

\* ChangeUserPassword, proving the current one; sessions survive.
ChangePassword(b, current, next) ==
    LET n   == book.sessions[b].name
        new == [book EXCEPT !.users[n] = next]
    IN  /\ Valid(b)
        /\ book.users[n] = current
        /\ Landed(new) \/ NotLanded(new)
        /\ UNCHANGED <<tries, at, guessed>>

\* consoleNabuStart and the way back with a code that NabuAuth vouches for; a
\* flow that is too old or not this browser's ends with no effect.
NabuStart(b, n) ==
    /\ Begin(b, "redirect", n, Rest.pass)
    /\ Unwritten /\ UNCHANGED <<tries, guessed>>

NabuCallback(b) ==
    /\ at[b].pc = "redirect"
    /\ \/ Answer(b)
       \/ Go(b, IF at[b].name \in Allowed THEN "issue" ELSE "ensure")
    /\ Unwritten /\ UNCHANGED <<tries, guessed>>

\* Variant: an account that cannot be written is not an obstacle.
EnsureAnyway(b) ==
    LET new == EnsureUser(at[b].name)
    IN  /\ at[b].pc = "ensure"
        /\ Go(b, "issue")
        /\ Landed(new) \/ Unwritten
        /\ UNCHANGED <<tries, guessed>>

Ensure(b) ==
    LET new == EnsureUser(at[b].name)
    IN  /\ at[b].pc = "ensure"
        /\ IF new = book THEN Unwritten /\ Go(b, "issue")
           ELSE \/ Landed(new) /\ Go(b, "issue")
                \/ NotLanded(new) /\ Answer(b)
        /\ UNCHANGED <<tries, guessed>>

Issue(b) ==
    LET n == at[b].name  new == NewSession(b, n, n \in Allowed)
    IN  /\ at[b].pc = "issue"
        /\ Landed(new) \/ NotLanded(Orphan)
        /\ Answer(b)
        /\ UNCHANGED <<tries, guessed>>

-----------------------------------------------------------------------------
(***************************************************************************)
(* The rest of the gateway.                                                *)
(***************************************************************************)

\* A top-up, an approval with credit or a saved key makes an account that has no
\* password.
OtherAccount(n) ==
    /\ book.users[n] = Absent
    /\ Landed([book EXCEPT !.users[n] = NoPassword]) \/ NotLanded([book EXCEPT !.users[n] = NoPassword])
    /\ UNCHANGED <<tries, at, guessed>>

\* Persist
Flush == /\ book # file /\ Landed(book)
         /\ UNCHANGED <<tries, at, guessed>>

\* A restart forgets the throttle, the handlers and what was not written.
Kill ==
    /\ mishaps < MaxMishaps /\ mishaps' = mishaps + 1
    /\ book' = [file EXCEPT !.sessions = Purged(@)]
    /\ tries' = [n \in Names |-> NoTries] /\ guessed' = [n \in Names |-> 0]
    /\ at' = [b \in Browsers |-> Rest]
    /\ UNCHANGED file

Less(n) == IF n = 0 THEN 0 ELSE n - 1

Tick ==
    LET Age(s) == [b \in Browsers |-> IF s[b] = Absent THEN Absent ELSE [s[b] EXCEPT !.left = Less(@)]]
    IN  /\ \/ \E n \in Names : tries[n].left > 0
           \/ \E b \in Browsers : book.sessions[b] # Absent /\ book.sessions[b].left > 0
        /\ tries' = [n \in Names |-> [tries[n] EXCEPT !.left = Less(@)]]
        /\ book' = [book EXCEPT !.sessions = Age(@)]
        /\ file' = [file EXCEPT !.sessions = Age(@)]
        /\ UNCHANGED <<at, guessed, mishaps>>

Continue(b) ==
    \/ Setup(b) \/ Signup(b) \/ Check(b) \/ Admin(b) \/ User(b) \/ Fail(b) \/ Reset(b)
    \/ NabuCallback(b) \/ Ensure(b) \/ Issue(b)

AccountsNext ==
    \/ \E b \in Browsers :
        \/ Continue(b)
        \/ Logout(b)
        \/ \E n \in Names : NabuStart(b, n)
        \/ \E n \in Names, p \in Passwords :
            \/ ConsoleSetup(b, n, p) \/ ConsoleLogin(b, n, p) \/ ConsoleSignup(b, n, p)
            \/ ConsoleContinue(b, n, p) \/ AddAdmin(b, n, p)
        \/ \E current, next \in Passwords : ChangePassword(b, current, next)
    \/ \E n \in Names : OtherAccount(n)
    \/ Flush \/ Kill \/ Tick

-----------------------------------------------------------------------------
(***************************************************************************)
(* Properties.                                                             *)
(***************************************************************************)

\* The throttle is asked before a password is compared and told after, with no
\* lock in between (startConsoleSession).  Guesses that pass it together are all
\* compared, so that a window admits MaxAttempts of them and one more for every
\* other handler.
GuessesBounded ==
    \A n \in Names : guessed[n] < MaxAttempts + Cardinality(Browsers)

\* A session is for an administrator, for the allow-list of single sign-on, or
\* for an account that exists, in memory and in what a restart finds: a session
\* without an account is "a panel that could do nothing" (EnsureUser).
HasAccount(b, n) == n \in Allowed \/ b.admins[n] # Absent \/ b.users[n] # Absent

SessionsHaveAccounts ==
    \A b \in {book, file}, w \in Browsers :
        b.sessions[w] # Absent => HasAccount(b, b.sessions[w].name)

\* Whoever keeps trying a name that is locked does not keep it locked: the lock
\* ends when the window after the last compared guess is over.
LockEnds == \A n \in Names : Blocked(n) ~> ~Blocked(n)

-----------------------------------------------------------------------------
AccountsSpec == AccountsInit /\ [][AccountsNext]_accountsVars

\* Time passes, and a handler that runs goes on.
AccountsFairness ==
    WF_accountsVars(Tick) /\ \A b \in Browsers : WF_accountsVars(Continue(b))
=============================================================================
