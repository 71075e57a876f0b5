----------------------------- MODULE MCControlIds -----------------------------
(* TLC instance of ControlIds: two controls of one form and one of         *)
(* another, two names to choose and one that is predefined, with its id.   *)
EXTENDS ControlIds, TLC

CONSTANTS a, b, c, F, G, P, p

MCFormOf == (a :> F) @@ (b :> F) @@ (c :> G)

OnePredefined == P :> p

(* Ids are handed out in no particular order, and names mean nothing to    *)
(* the table: any two of those that are not predefined are alike.          *)
Alike == Permutations(Id \ ReservedIds) \cup Permutations(Name \ Reserved)
=============================================================================
