-------------------------- MODULE MCReportPruning --------------------------
(* A small instance of ReportPruning for TLC.                              *)
EXTENDS ReportPruning

CONSTANTS r1, r2, r3, n1, n2

\* Written half and whole, the files of r1 are more than a tick may remove;
\* r3 ended before its delivery had anything to save.
MCNamesOf == [r \in Runs |-> CASE r = r1 -> {n1, n2} [] r = r2 -> {n1} [] r = r3 -> {}]
=============================================================================
