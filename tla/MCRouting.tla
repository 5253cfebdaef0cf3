------------------------------ MODULE MCRouting ------------------------------
(***************************************************************************)
(* Small instances of Routing: an alias whose first target is a provider   *)
(* and whose second is a model that two others serve, one of which never   *)
(* came up.                                                                *)
(***************************************************************************)
EXTENDS Routing, TLC

CONSTANTS p1, p2, down, r1, r2

MCChain == << [pinned |-> TRUE, serves |-> <<p1>>],
              [pinned |-> FALSE, serves |-> <<down, p2>>] >>

\* Keys of the caller's own: of one provider, also of the one that never came
\* up, or none.
None == [x \in Providers |-> 0]
Has(x, n) == [None EXCEPT ![x] = n]
Both == [Has(p2, 1) EXCEPT ![down] = 1]

Who(kind, mode, keys, denied) ==
    [kind |-> kind, mode |-> mode, keys |-> keys, denied |-> denied]

MCCallers == {Who("loop", "unset", None, {}),
              Who("stream", "global-first", Both, {p2})}

MCStreamer == {Who("stream", "own", Has(p2, 1), {})}

Symmetric == Permutations(Requests)

=============================================================================
