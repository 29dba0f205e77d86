--------------------------- MODULE MCSharedStack ---------------------------
(***************************************************************************)
(* Instances of SharedStack for TLC: which arguments set_wait is given.    *)
(***************************************************************************)
EXTENDS SharedStack, TLC

CONSTANTS p1, p2, p3, v1, v2

NoTimeout(v)   == [val |-> v, timeout |-> FALSE]
WithTimeout(v) == [val |-> v, timeout |-> TRUE]

NoWait   == {NoTimeout(-1)}
Wait     == {NoTimeout(0)}

\* every argument but 0, the invalid ones included
NotZero  == {NoTimeout(-1), WithTimeout(1), NoTimeout(1), NoTimeout(2)}
AnyWait  == NotZero \cup Wait

Symmetry == Permutations(Procs) \cup Permutations(Vals)
=============================================================================
