----------------------------- MODULE MCTextEditor -----------------------------
(* TLC instance of TextEditor.  A text without its closing quote is read as  *)
(* another one.                                                              *)
EXTENDS TextEditor

MCReadAs == [v \in Value |-> IF v = "open" THEN "typed" ELSE v]
=============================================================================
