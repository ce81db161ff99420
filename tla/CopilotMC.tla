------------------------------- MODULE CopilotMC -------------------------------
(***************************************************************************)
(* Small instances of Copilot for TLC.                                     *)
(***************************************************************************)
EXTENDS Copilot, TLC

\* Two incidents of one severity: last_seen_at decides their order.
MCSeverity == [i \in Incidents |-> 2]

MCSymmetry == Permutations(Incidents) \cup Permutations(Evidence) \cup Permutations(Workers)
===============================================================================
