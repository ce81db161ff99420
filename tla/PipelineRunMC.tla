----------------------------- MODULE PipelineRunMC -----------------------------
(***************************************************************************)
(* Small instances of PipelineRun for TLC.                                 *)
(***************************************************************************)
EXTENDS PipelineRun

CONSTANTS weather, quakes

\* ingest all, and ingest usgs.
MCPlans == {<<weather, quakes>>, <<quakes>>}
===============================================================================
