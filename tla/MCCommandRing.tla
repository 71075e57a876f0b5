--------------------------- MODULE MCCommandRing ---------------------------
(* TLC instance of CommandRing; the small checks of the loop's closed form *)
(* against the loop itself, run step by step.                              *)
EXTENDS CommandRing

(* i after n rounds of for(i = from; i != to; i++) { if(i == max) i = 0; } *)
RoundsOf(from, to, max) ==
  LET body(i) == IF i = max THEN 0 ELSE i
      at[n \in 0 .. 3 * max] ==
        IF n = 0 THEN from
        ELSE LET i == at[n - 1] IN IF i = to THEN to ELSE body(i) + 1
      stop == {n \in 0 .. 3 * max : at[n] = to}
  IN [ends |-> stop # {},
      seen |-> {body(i) : i \in {at[n] : n \in 0 .. 3 * max} \ {to}}]

ASSUME LoopAsWritten ==
  \A from, to \in Index :
    /\ RoundsOf(from, to, maxcount).ends = LoopEnds(from, to)
    /\ RoundsOf(from, to, maxcount).seen = Visited(from, to)
=============================================================================
