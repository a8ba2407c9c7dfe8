---------------------------- MODULE MCSmpImages ----------------------------
(***************************************************************************)
(* Instances of SmpImages for TLC.                                         *)
(***************************************************************************)
EXTENDS SmpImages

CONSTANTS a, b

TwoImages == {a, b}
OnlyA == {a}
=============================================================================
