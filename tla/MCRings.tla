------------------------------- MODULE MCRings -------------------------------
(* TLC instance of the two rings an editor panel keeps, that of its commands *)
(* and the clipboard.  Nothing passes between them, so that each behaviour   *)
(* is one of the one or of the other.                                        *)
EXTENDS MCCommandRing, ClipRing

VARIABLE at   \* the ring that is used

MCRingsInit == Init /\ ClipInit /\ at \in {"history", "clipboard"}

MCRingsNext ==
  \/ at = "history" /\ Next /\ UNCHANGED <<clipVars, at>>
  \/ at = "clipboard" /\ ClipNext /\ UNCHANGED <<vars, at>>

MCRingsSpec == MCRingsInit /\ [][MCRingsNext]_<<vars, clipVars, at>>
=============================================================================
