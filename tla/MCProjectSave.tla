---------------------------- MODULE MCProjectSave ----------------------------
(* TLC instance of ProjectSave: two windows, which is what an id shared by *)
(* two forms and a change of the start window need, and an interval short  *)
(* enough for the timer to fire between any two gestures.                  *)
EXTENDS ProjectSave
=============================================================================
