------------------------------ MODULE MCUIEdit ------------------------------
(* TLC instance of UIEdit: a form read with one control on it, and two     *)
(* more instances, one of them a container, for the session to create.     *)
EXTENDS UIEdit

CONSTANTS box, a, b, i1, i2

MCLoadedForm == <<a>>
=============================================================================
