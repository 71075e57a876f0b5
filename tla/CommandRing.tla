----------------------------- MODULE CommandRing -----------------------------
(***************************************************************************)
(* DefaultUndoRedoObserver (src/common/defundo-redo-observer.cpp): the     *)
(* ring buffer in which every editor panel keeps its undo and redo         *)
(* commands.  The slots undo_head .. undo_tail-1 hold the commands that    *)
(* can be undone, undo_tail .. redo_tail-1 those that can be redone, all   *)
(* modulo maxcount.                                                        *)
(*                                                                         *)
(* The loops of emptyRedo and of the destructor are modelled by the set of *)
(* slots they visit, and by whether they end at all: the wrap is done in   *)
(* the loop's body, after the exit test, so a loop that has to stop at     *)
(* slot 0 after a wrap misses it.  Such a loop deletes every slot, live    *)
(* commands included, again and again: phase "spin" is the end of the      *)
(* program (it hangs, or dies in the second delete of the same pointer).   *)
(***************************************************************************)
EXTENDS Integers, Sequences

CONSTANTS
  RequestedCount,  (* the constructor's argument                           *)
  MaxPush          (* bound: the number of pushes considered               *)

ASSUME RingAssumption == RequestedCount \in Int /\ MaxPush \in Nat

DEF_UNDOREDO_MIN == 8

maxcount ==
  IF DEF_UNDOREDO_MIN > RequestedCount THEN DEF_UNDOREDO_MIN ELSE RequestedCount

Index == 0 .. maxcount - 1
NULL == 0                     (* an empty slot; commands are 1, 2, 3, ...  *)

VARIABLES
  commands,    (* the slots                                                *)
  undo_head, undo_tail, redo_tail,
  pushes,      (* commands pushed so far; the n-th one is named n          *)
  deleted,     (* commands whose destructor ran                            *)
  phase        (* "open", "closed" by the destructor, or "spin"            *)

pointers == <<commands, undo_head, undo_tail, redo_tail>>
vars == <<pointers, pushes, deleted, phase>>

-----------------------------------------------------------------------------
(* Slips of the kind a change of this code could make, each substituted    *)
(* for the definition it precedes to see that a property notices.          *)

(* The wrap test one too late. *)
AfterLate(i) == IF i + 1 > maxcount THEN 0 ELSE i + 1

-----------------------------------------------------------------------------
(* Indices. *)

After(i) == IF i + 1 >= maxcount THEN 0 ELSE i + 1
Before(i) == IF i - 1 < 0 THEN maxcount - 1 ELSE i - 1

(* The k-th slot from i on, and the number of slots from i up to j. *)
Slot(i, k) == IF i + k >= maxcount THEN i + k - maxcount ELSE i + k
Distance(i, j) == IF i <= j THEN j - i ELSE j - i + maxcount

canUndo == undo_tail # undo_head
canRedo == redo_tail # undo_tail

(* for(i = from; i != to; i++) { if(i == maxcount) i = 0; ... } *)
LoopEnds(from, to) == to # 0 \/ from = 0

Visited(from, to) ==
  IF from <= to THEN from .. to - 1
  ELSE IF to # 0 THEN (from .. maxcount - 1) \cup (0 .. to - 1)
  ELSE Index

CommandsIn(slots) == {commands[i] : i \in slots} \ {NULL}

-----------------------------------------------------------------------------
(* Operations. *)

Init ==
  /\ commands = [i \in Index |-> NULL]
  /\ undo_head = 0 /\ undo_tail = 0 /\ redo_tail = 0
  /\ pushes = 0
  /\ deleted = {}
  /\ phase = "open"

(* A push that does not reset redo_tail. *)
pushKeepsRedoTail ==
  /\ phase = "open"
  /\ pushes < MaxPush
  /\ LoopEnds(undo_tail, redo_tail)
  /\ After(undo_tail) # undo_head
  /\ deleted' = deleted \cup CommandsIn(Visited(undo_tail, redo_tail))
  /\ commands' = [commands EXCEPT ![undo_tail] = pushes + 1]
  /\ undo_tail' = After(undo_tail)
  /\ redo_tail' = (IF redo_tail = undo_tail THEN undo_tail' ELSE redo_tail)
  /\ pushes' = pushes + 1
  /\ UNCHANGED <<undo_head, phase>>

(* A push that forgets the undone commands without deleting them. *)
pushLeaksRedo ==
  /\ phase = "open"
  /\ pushes < MaxPush
  /\ After(undo_tail) # undo_head
  /\ commands' = [commands EXCEPT ![undo_tail] = pushes + 1]
  /\ undo_tail' = After(undo_tail)
  /\ redo_tail' = undo_tail'
  /\ pushes' = pushes + 1
  /\ UNCHANGED <<undo_head, deleted, phase>>

pushUndoRedoCommand ==
  /\ phase = "open"
  /\ pushes < MaxPush
  /\ LoopEnds(undo_tail, redo_tail)
  /\ LET next == After(undo_tail)
         full == next = undo_head
     IN /\ deleted' = deleted \cup CommandsIn(Visited(undo_tail, redo_tail))
                              \cup (IF full THEN CommandsIn({undo_head}) ELSE {})
        /\ undo_head' = (IF full THEN After(undo_head) ELSE undo_head)
        /\ commands' = [commands EXCEPT ![undo_tail] = pushes + 1]
        /\ undo_tail' = next
        /\ redo_tail' = next
  /\ pushes' = pushes + 1
  /\ UNCHANGED phase

(* The push that never comes back from emptyRedo. *)
pushSpins ==
  /\ phase = "open"
  /\ pushes < MaxPush
  /\ ~LoopEnds(undo_tail, redo_tail)
  /\ deleted' = deleted \cup CommandsIn(Visited(undo_tail, redo_tail))
  /\ phase' = "spin"
  /\ UNCHANGED <<pointers, pushes>>

undo ==
  /\ phase = "open"
  /\ canUndo
  /\ undo_tail' = Before(undo_tail)
  /\ UNCHANGED <<commands, undo_head, redo_tail, pushes, deleted, phase>>

(* A redo that applies one command but moves past all of them. *)
redoSkips ==
  /\ phase = "open"
  /\ canRedo
  /\ undo_tail' = redo_tail
  /\ UNCHANGED <<commands, undo_head, redo_tail, pushes, deleted, phase>>

redo ==
  /\ phase = "open"
  /\ canRedo
  /\ undo_tail' = After(undo_tail)
  /\ UNCHANGED <<commands, undo_head, redo_tail, pushes, deleted, phase>>

(* The destructor, run when the panel of the form is closed. *)
destroy ==
  /\ phase = "open"
  /\ deleted' = deleted \cup CommandsIn(Visited(undo_head, redo_tail))
  /\ phase' = (IF LoopEnds(undo_head, redo_tail) THEN "closed" ELSE "spin")
  /\ UNCHANGED <<pointers, pushes>>

Next == pushUndoRedoCommand \/ pushSpins \/ undo \/ redo \/ destroy

Spec == Init /\ [][Next]_vars

-----------------------------------------------------------------------------
(* Properties. *)

(* Every pointer stays inside the array and every slot names a command     *)
(* that was really pushed.                                                 *)
TypeOK ==
  /\ commands \in [Index -> 0 .. pushes]
  /\ undo_head \in Index /\ undo_tail \in Index /\ redo_tail \in Index
  /\ pushes \in 0 .. MaxPush
  /\ deleted \subseteq 1 .. pushes
  /\ phase \in {"open", "closed", "spin"}

(* How many commands the ring holds: those to undo, then those to redo.    *)
Used == Distance(undo_head, redo_tail)
Undoable == Distance(undo_head, undo_tail)

(* The k-th oldest command still in the ring. *)
Held(k) == commands[Slot(undo_head, k)]

(* The redo pointer never falls between undo_head and undo_tail, and the   *)
(* commands from the head on are in the order they were pushed: undo       *)
(* reverses them newest first however often the ring wrapped.              *)
WindowOrdered ==
  /\ Undoable <= Used
  /\ \A k \in 0 .. Used - 1 : Held(k) # NULL
  /\ \A j, k \in 0 .. Used - 1 : j < k => Held(j) < Held(k)

(* No command is leaked and none is used after its destructor ran: while   *)
(* the panel is open every command pushed is either in the ring or         *)
(* deleted, never both; after the destructor returned all are deleted.     *)
Live == IF phase = "open" THEN {Held(k) : k \in 0 .. Used - 1} ELSE {}

Accounted ==
  phase # "spin" => /\ Live \cap deleted = {}
                    /\ Live \cup deleted = 1 .. pushes

(* The comment on the call of emptyRedo says "delete all the redo": of the *)
(* commands that could be undone a push destroys the oldest at most.       *)
PushDeletesOnlyRedo ==
  [][pushUndoRedoCommand \/ pushSpins =>
       \A k \in 1 .. Undoable - 1 : Held(k) \notin deleted']_vars

(* The ring implements the history of EditHistory: undo and redo follow    *)
(* the order of the pushes across every wrap, a push forgets exactly the   *)
(* undone commands, and a full ring forgets exactly its oldest command.    *)
Past == [k \in 1 .. Undoable |-> Held(k - 1)]
Future == [k \in 1 .. Used - Undoable |-> Held(Undoable + k - 1)]

History == INSTANCE EditHistory WITH
  Capacity <- maxcount - 1, PushLimit <- MaxPush, past <- Past, future <- Future,
  pushed <- pushes

ImplementsHistory == History!HSpec
=============================================================================
