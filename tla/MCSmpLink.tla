------------------------------ MODULE MCSmpLink ------------------------------
(***************************************************************************)
(* An instance of SmpLink for TLC.                                         *)
(***************************************************************************)
EXTENDS SmpLink

\* Everything that SmpLink lets fail.
EveryLinkFault == {"link", "create", "connect", "scan", "discovery", "reset"}
=============================================================================
