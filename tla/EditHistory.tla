----------------------------- MODULE EditHistory -----------------------------
(***************************************************************************)
(* What an undo/redo observer promises an editor panel, free of any data   *)
(* structure: two sequences of commands.  The last command of past is the  *)
(* one the next undo reverses, the first of future the one the next redo   *)
(* applies again.  Commands are named by the order they were pushed in.    *)
(*                                                                         *)
(* It is the interface UndoRedoObserver of src/include/undo-redo.h; the    *)
(* ring buffer of DefaultUndoRedoObserver (CommandRing) and the form       *)
(* editor that keeps real commands in it (UIEdit) both implement it.       *)
(***************************************************************************)
EXTENDS Naturals, Sequences

CONSTANTS
  Capacity,   (* how many commands can be undone at most                   *)
  PushLimit   (* bound: the number of pushes considered                    *)

VARIABLES
  past,       (* commands that can be undone, oldest first                 *)
  future,     (* commands that can be redone, next one first               *)
  pushed      (* how many commands were pushed so far                      *)

hvars == <<past, future, pushed>>

HistoryTypeOK ==
  /\ past \in Seq(1 .. pushed)
  /\ future \in Seq(1 .. pushed)
  /\ Len(past) <= Capacity
  /\ pushed \in 0 .. PushLimit

HInit == past = <<>> /\ future = <<>> /\ pushed = 0

(* pushUndoRedoCommand: a new command makes everything undone unreachable, *)
(* and a full history forgets its oldest command.                          *)
HPush ==
  /\ pushed < PushLimit
  /\ pushed' = pushed + 1
  /\ past' = Append(IF Len(past) = Capacity THEN Tail(past) ELSE past,
                    pushed + 1)
  /\ future' = <<>>

(* undo: reverse the newest command. *)
HUndo ==
  /\ past # <<>>
  /\ past' = SubSeq(past, 1, Len(past) - 1)
  /\ future' = <<past[Len(past)]>> \o future
  /\ UNCHANGED pushed

(* redo: apply the command that was undone last. *)
HRedo ==
  /\ future # <<>>
  /\ past' = Append(past, Head(future))
  /\ future' = Tail(future)
  /\ UNCHANGED pushed

HNext == HPush \/ HUndo \/ HRedo

HSpec == HInit /\ [][HNext]_hvars

-----------------------------------------------------------------------------
(* Read from the oldest command to the one undone last, the history is in  *)
(* the order of the pushes, whichever commands were forgotten: undo always *)
(* reverses the newest that is left, and redo follows the same order.      *)
HistoryOrdered ==
  LET all == past \o future
  IN \A j, k \in 1 .. Len(all) : j < k => all[j] < all[k]

(* Any number of undos and redos later the same commands are there: only a *)
(* push makes one unreachable.                                             *)
OnlyPushForgets ==
  [][pushed' = pushed => past' \o future' = past \o future]_hvars
=============================================================================
