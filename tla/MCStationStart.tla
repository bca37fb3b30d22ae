---------------------------- MODULE MCStationStart ----------------------------
(* Model checking of StationStart by itself.                                 *)
EXTENDS StationStart
===============================================================================
