---------------------------- MODULE MCSmpClient ----------------------------
(***************************************************************************)
(* Instances of SmpClient for TLC: which failures happen, and which        *)
(* connection objects are alike.                                           *)
(***************************************************************************)
EXTENDS SmpClient, FiniteSets, TLC

AnyFault == FaultKinds

\* For the runs without temporal formulas of the liveness kind.
ConnsAlike == Permutations(Conns)
=============================================================================
