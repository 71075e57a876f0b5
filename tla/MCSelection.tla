----------------------------- MODULE MCSelection -----------------------------
(* TLC instance of Selection: a form read with a container and a control   *)
(* on it, and more controls for the session to create or paste.            *)
EXTENDS Selection

CONSTANTS box, a, b

MCLoadedForm == <<box, a>>
=============================================================================
