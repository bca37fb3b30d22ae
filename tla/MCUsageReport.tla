---------------------------- MODULE MCUsageReport ----------------------------
(* Model checking of UsageReport.                                          *)
EXTENDS UsageReport
=============================================================================
