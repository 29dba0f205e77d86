-------------------------- MODULE MCStackLifecycle --------------------------
(***************************************************************************)
(* Instances of StackLifecycle for TLC.                                    *)
(***************************************************************************)
EXTENDS StackLifecycle

CONSTANTS p1, p2, p3
=============================================================================
