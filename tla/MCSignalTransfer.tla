-------------------------- MODULE MCSignalTransfer --------------------------
(***************************************************************************)
(* Instances of SignalTransfer for TLC: the file sizes.                    *)
(***************************************************************************)
EXTENDS SignalTransfer, TLC

CONSTANTS s1, s2, r

\* With words of 2 bytes and a si_int of 3 bits, -4 .. 3: a partial word, a
\* full one, a full and a partial one, and sizes that become -3, 0 and 1.
AllSizes == {1, 2, 3, 5, 8, 9}

\* Sizes that leave a partial last word and fit the si_int.
PartialSizes == {1, 3, 5}
=============================================================================
