------------------------------- MODULE ClipRing -------------------------------
(***************************************************************************)
(* ObjectClipBoard (src/include/clipboard.h), the clipboard the form       *)
(* editor copies controls to: a ring in which every copy puts clones of    *)
(* the selected controls in front of the older ones, and from which a      *)
(* paste reads from the top to the first empty slot.  Nothing is ever      *)
(* popped, so that the ring fills and wraps; clones in the way of a new    *)
(* group are released, the one in its first slot excepted.                 *)
(***************************************************************************)
EXTENDS Integers, Sequences

CONSTANTS
  ObjectCount,  (* the constructor's argument                           *)
  MaxClones        (* bound: the number of clones considered               *)

ASSUME ClipAssumption == ObjectCount \in Int /\ MaxClones \in Nat

max_count == IF ObjectCount < 8 THEN 8 ELSE ObjectCount

Slots == 0 .. max_count - 1
Empty == 0          (* an empty slot; clones are 1, 2, 3, ...               *)

VARIABLES
  objects,   (* the slots                                                  *)
  obj_top,   (* the top of the ring, max_count before the first copy       *)
  clones,    (* clones made so far                                         *)
  released,  (* clones that were released                                  *)
  copied     (* the clones of the last copy that was accepted              *)

clipVars == <<objects, obj_top, clones, released, copied>>

-----------------------------------------------------------------------------
(* A step back that does not wrap: a slip, as are ClearedUnderGroup and     *)
(* pushKeepsPointers below.                                                *)
BackLow(i, k) == i - k

(* The slot k before i, and the number of slots from t up to i.            *)
Back(i, k) == IF i - k < 0 THEN i - k + max_count ELSE i - k
Gap(t, i) == IF t <= i THEN i - t ELSE i - t + max_count

(* push clears from the slot below the top on, downwards; from the last    *)
(* slot when that would be slot 0.                                         *)
Start == IF obj_top - 1 <= 0 THEN max_count - 1 ELSE obj_top - 1

(* A copy of n controls clears n + 1 slots and begins one further down ... *)
NewTop(n) == Back(Start, n + 1)

(* Only the slots the group itself takes. *)
ClearedUnderGroup(t, n) == {i \in Slots : Gap(t, i) \in 1 .. n - 1}

(* ... so that two empty slots stay behind the group.                      *)
Cleared(t, n) == {i \in Slots : Gap(t, i) \in 1 .. n + 1}

ClipInit ==
  /\ objects = [i \in Slots |-> Empty]
  /\ obj_top = max_count
  /\ clones = 0
  /\ released = {}
  /\ copied = <<>>

(* A push that releases the clones but leaves the pointers. *)
pushKeepsPointers(n) ==
  LET t == NewTop(n)
  IN /\ n < max_count - 1
     /\ clones + n <= MaxClones
     /\ objects' = [i \in Slots |->
                     IF Gap(t, i) < n THEN clones + 1 + Gap(t, i) ELSE objects[i]]
     /\ released' = released \cup ({objects[i] : i \in Cleared(t, n)} \ {Empty})
     /\ obj_top' = t
     /\ clones' = clones + n
     /\ copied' = [k \in 1 .. n |-> clones + k]

(* push of n > 0 clones.  A group that leaves no two slots free is refused,*)
(* and nothing changes.                                                    *)
push(n) ==
  LET t == NewTop(n)
  IN /\ n < max_count - 1
     /\ clones + n <= MaxClones
     /\ objects' = [i \in Slots |->
                     IF Gap(t, i) < n THEN clones + 1 + Gap(t, i)
                     ELSE IF i \in Cleared(t, n) THEN Empty ELSE objects[i]]
     /\ released' = released \cup ({objects[i] : i \in Cleared(t, n)} \ {Empty})
     /\ obj_top' = t
     /\ clones' = clones + n
     /\ copied' = [k \in 1 .. n |-> clones + k]

ClipNext == \E n \in 1 .. max_count : push(n)

ClipSpec == ClipInit /\ [][ClipNext]_clipVars

-----------------------------------------------------------------------------
(* Properties. *)

(* The pointers stay in the array, and slots and sets hold real clones.    *)
ClipTypeOK ==
  /\ objects \in [Slots -> 0 .. clones]
  /\ obj_top \in 0 .. max_count
  /\ clones \in 0 .. MaxClones
  /\ released \subseteq 1 .. clones
  /\ copied \in Seq(1 .. clones)

(* A paste, which reads from the top up to the first empty slot, finds the *)
(* group copied last, all of it and in its order, whatever sizes the       *)
(* groups before it had and however often the ring wrapped.                *)
PasteIsLastCopy ==
  \/ copied = <<>> /\ obj_top = max_count
  \/ /\ obj_top \in Slots
     /\ \A i \in Slots :
          LET k == Gap(obj_top, i)
          IN /\ k < Len(copied) => objects[i] = copied[k + 1]
             /\ k = Len(copied) => objects[i] = Empty

(* No slot holds a clone that was released, and no clone is in two slots,  *)
(* so that none is released twice.                                         *)
HeldOnce ==
  \A i \in Slots : objects[i] # Empty =>
    /\ objects[i] \notin released
    /\ \A j \in Slots \ {i} : objects[j] # objects[i]
=============================================================================
