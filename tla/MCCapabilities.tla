---------------------------- MODULE MCCapabilities ---------------------------
(***************************************************************************)
(* Small instances of Capabilities: five aliases, one per section of the   *)
(* config, two administrators who set the voice alias's rung and voice (a  *)
(* name whose voice at one provider is that name, as the shipped config    *)
(* has them, and another provider's own voice),                            *)
(* two callers with a key of their own or without, and a restart that      *)
(* loads a config with fewer rungs and an unpriced live one.               *)
(***************************************************************************)
EXTENDS Capabilities, TLC

CONSTANTS r1, r2, x1, x2, p1, p2, sp, tr, de, md, lv, n1, n2, deep, warm, alto

Pin(p) == [pinned |-> TRUE, serves |-> <<p>>]
Model(p) == [pinned |-> FALSE, serves |-> <<p>>]

Has(section, ts, voice) ==
    [section |-> section, names |-> SubSeq(<<n1, n2>>, 1, Len(ts)), chain |-> ts, voice |-> voice]

\* A config, and the one that follows it: a rung is gone, and a live alias has
\* one that nobody priced.
Configured(more) ==
    [a \in Aliases |->
        CASE a = sp -> Has("audio", IF more THEN <<Pin(p1), Pin(p2)>> ELSE <<Pin(p1)>>, deep)
          [] a = tr -> Has("transcription", <<Pin(p2)>>, None)
          [] a = de -> Has("decisions", <<Pin(p1)>>, None)
          [] a = md -> Has("models", <<Model(p2), Pin(p1)>>, None)
          [] a = lv -> Has("live", IF more THEN <<Pin(p1)>> ELSE <<Pin(p1), Pin(p2)>>, warm)]

MCDeployments == {Configured(TRUE), Configured(FALSE)}

MCVoices == [v \in {deep, warm} |->
    [p \in Providers |-> IF p # p1 THEN None ELSE IF v = deep THEN deep ELSE alto]]

MCSpeaks == [op \in Ops |-> IF op = "live" THEN {p1, p2} ELSE Providers]

NoKeys == [mode |-> "unset", keys |-> [p \in Providers |-> 0], denied |-> {}]
OwnKey == [mode |-> "unset", keys |-> [p \in Providers |-> IF p = p1 THEN 1 ELSE 0], denied |-> {}]

For(op, a, ring) == [op |-> op, alias |-> a, asked |-> None, engine |-> "auto", ring |-> ring]

MCCalls == {For("speech", sp, NoKeys), [For("speech", sp, NoKeys) EXCEPT !.asked = deep],
            For("transcription", tr, NoKeys),
            For("decision", de, NoKeys), For("calibrate", md, OwnKey),
            For("responses", md, OwnKey), For("live", lv, NoKeys)}

MCEdits == {[alias |-> sp, to |-> [primary |-> n2, voice |-> alto]],
            [alias |-> sp, to |-> [primary |-> n1, voice |-> None]]}

Symmetric == Permutations(Requests) \cup Permutations(Admins)

=============================================================================
