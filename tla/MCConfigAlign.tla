--------------------------- MODULE MCConfigAlign ---------------------------
(* Model checking of ConfigAlign.                                          *)
EXTENDS ConfigAlign
=============================================================================
