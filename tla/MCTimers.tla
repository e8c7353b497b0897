------------------------------ MODULE MCTimers ------------------------------
(* Timers with three watcher objects and two handles.                      *)
EXTENDS Timers

CONSTANTS w1, w2, w3, h1, h2
=============================================================================
