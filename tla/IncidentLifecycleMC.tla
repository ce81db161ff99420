-------------------------- MODULE IncidentLifecycleMC --------------------------
(***************************************************************************)
(* Small instances of IncidentLifecycle for TLC: one dataset with up to   *)
(* two quality rules and two drift features.                               *)
(***************************************************************************)
EXTENDS IncidentLifecycle, TLC

CONSTANTS q1, q2, d1, d2    \* quality keys and drift keys

\* The quality evaluation of a dataset is its first stage, the drift one its second.
MCStageOf == (q1 :> 1) @@ (q2 :> 1) @@ (d1 :> 2) @@ (d2 :> 2)
MCRank == (q1 :> 1) @@ (q2 :> 2) @@ (d1 :> 3) @@ (d2 :> 4)
Restricted(f) == [k \in Keys |-> f[k]]
Stages == Restricted(MCStageOf)
Ranks == Restricted(MCRank)
===============================================================================
