------------------------------ MODULE MCIDRanges ------------------------------
(* TLC instance of IDRanges: three ids, two developers, and up to four     *)
(* ranges, so that a range can be added before, between, behind, next to   *)
(* and over others.                                                        *)
EXTENDS IDRanges
=============================================================================
