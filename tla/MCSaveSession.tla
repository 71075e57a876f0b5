---------------------------- MODULE MCSaveSession ----------------------------
(* TLC instance of SaveSession. *)
EXTENDS SaveSession
=============================================================================
