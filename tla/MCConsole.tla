------------------------------ MODULE MCConsole ------------------------------
(***************************************************************************)
(* Small instances of the console: signing in (Accounts) and provider      *)
(* access (Access).  The two share nothing but the existence of an         *)
(* account, which Accounts takes from outside, so that every behaviour of  *)
(* both is one of each: a run explores one half or the other.              *)
(***************************************************************************)
EXTENDS Accounts, Access, TLC

CONSTANTS ann, w1, b1, b2, c1, k1, x1, openai, groq

VARIABLE half

consoleVars == <<half, accountsVars, accessVars>>

Sends(n) == [p \in Providers |-> IF p = openai THEN n ELSE 0]
MCHeaders == {[sent |-> Sends(0), mode |-> "unset"], [sent |-> Sends(2), mode |-> "own-first"]}

ConsoleInit == half \in {"accounts", "access"} /\ AccountsInit /\ AccessInit

SigningIn == half = "accounts" /\ AccountsNext /\ UNCHANGED <<half, accessVars>>
UsingProviders == half = "access" /\ AccessNext /\ UNCHANGED <<half, accountsVars>>

ConsoleSpec == ConsoleInit /\ [][SigningIn \/ UsingProviders]_consoleVars /\ AccountsFairness
=============================================================================
