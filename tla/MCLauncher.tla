------------------------------ MODULE MCLauncher ------------------------------
(* TLC instances of Launcher. *)
EXTENDS Launcher, TLC

(* Processes differ by their numbers only; for runs without liveness. *)
Symmetry == Permutations(Pid)
=============================================================================
