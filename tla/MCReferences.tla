---------------------------- MODULE MCReferences ----------------------------
(* TLC instance of References. *)
EXTENDS References, TLC

CONSTANTS c1, c2, r1, a, b

NoForm == [c \in {} |-> [val |-> NoImage, picture |-> None]]

MCProject ==
  {[ids |-> 1 :> a, form |-> NoForm, rdr |-> r1 :> 1],
   [ids |-> 1 :> a, form |-> c1 :> [val |-> 1, picture |-> a],
    rdr |-> r1 :> Default]}
=============================================================================
