------------------------------ MODULE Fallback ------------------------------
(***************************************************************************)
(* What a caller is promised about one routed call, whatever order the     *)
(* router picks and whatever the other calls do to it: every rung offered  *)
(* is asked at most once, one at a time; the call fails only after all of  *)
(* them failed; and once a byte of one has gone out no other is asked.     *)
(***************************************************************************)
EXTENDS FiniteSets

CONSTANTS Requests, NoRung

VARIABLES
    offer,   \* offer[r]: the rungs that stand open to r's caller
    left,    \* left[r]: those not asked yet
    at,      \* at[r]: the rung that is being asked
    wire,    \* wire[r]: whether a byte of it has reached the caller
    result   \* result[r]: "none", "trying", "answered", "failed", "cut"

fallback == <<offer, left, at, wire, result>>

Init ==
    /\ left = [r \in Requests |-> {}]
    /\ at = [r \in Requests |-> NoRung]
    /\ wire = [r \in Requests |-> FALSE]
    /\ result = [r \in Requests |-> "none"]

\* A call begins; the next one of a request may be another caller's.
Begin(r) ==
    /\ result[r] # "trying"
    /\ offer' = [offer EXCEPT ![r] = offer'[r]]
    /\ left' = [left EXCEPT ![r] = offer'[r]]
    /\ result' = [result EXCEPT ![r] = "trying"]
    /\ UNCHANGED <<at, wire>>

Ask(r, g) ==
    /\ result[r] = "trying" /\ at[r] = NoRung /\ g \in left[r]
    /\ at' = [at EXCEPT ![r] = g]
    /\ left' = [left EXCEPT ![r] = @ \ {g}]
    /\ UNCHANGED <<offer, wire, result>>

Byte(r) ==
    /\ at[r] # NoRung /\ ~wire[r]
    /\ wire' = [wire EXCEPT ![r] = TRUE]
    /\ UNCHANGED <<offer, left, at, result>>

\* The rung fails, and nothing of it has gone out.
Miss(r) ==
    /\ at[r] # NoRung /\ ~wire[r]
    /\ at' = [at EXCEPT ![r] = NoRung]
    /\ UNCHANGED <<offer, left, wire, result>>

End(r) ==
    /\ result[r] = "trying"
    /\ \/ at[r] # NoRung /\ result' = [result EXCEPT ![r] = "answered"]
       \/ at[r] # NoRung /\ wire[r] /\ result' = [result EXCEPT ![r] = "cut"]
       \/ at[r] = NoRung /\ left[r] = {} /\ result' = [result EXCEPT ![r] = "failed"]
    /\ at' = [at EXCEPT ![r] = NoRung]
    /\ left' = [left EXCEPT ![r] = {}]
    /\ wire' = [wire EXCEPT ![r] = FALSE]
    /\ UNCHANGED offer

\* The process dies, and every call with it.
Die ==
    /\ left' = [r \in Requests |-> {}]
    /\ at' = [r \in Requests |-> NoRung]
    /\ wire' = [r \in Requests |-> FALSE]
    /\ result' = [r \in Requests |-> "none"]

Next == Die \/ \E r \in Requests :
    \/ Begin(r) \/ Byte(r) \/ Miss(r) \/ End(r)
    \/ \E g \in left[r] : Ask(r, g)

Spec == Init /\ [][Next]_fallback

=============================================================================
