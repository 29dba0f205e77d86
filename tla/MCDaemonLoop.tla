---------------------------- MODULE MCDaemonLoop ----------------------------
(***************************************************************************)
(* Instances of DaemonLoop for TLC: the directories.                       *)
(***************************************************************************)
EXTENDS DaemonLoop, TLC

CONSTANTS c1, c2, a, b

\* Two directories side by side and one in the other, which is not there yet.
MCPaths     == {<<a>>, <<b>>, <<a, b>>}
MCExisting  == {<<a>>, <<b>>}
MCIntervals == {0, 5}
=============================================================================
