------------------------------- MODULE MCDesk -------------------------------
(* Model checking of Desk.                                                 *)
EXTENDS Desk
=============================================================================
