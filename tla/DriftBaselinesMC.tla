---------------------------- MODULE DriftBaselinesMC ----------------------------
(***************************************************************************)
(* Small instances of DriftBaselines for TLC.                              *)
(***************************************************************************)
EXTENDS DriftBaselines

CONSTANT magnitude

MCRegistry == <<magnitude, SchemaColumn>>

\* Three observations, the last two at the same time.
MCObservedAt == <<1, 2, 2>>
===============================================================================
