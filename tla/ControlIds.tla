------------------------------ MODULE ControlIds ------------------------------
(***************************************************************************)
(* The id table of the user-interface editor (UIEditor): every control of  *)
(* an open form has an id, every id a name, and the table keeps with each  *)
(* id the set of controls that carry it, so that renaming or renumbering   *)
(* the id reaches all of them, on whichever form they are.                 *)
(*                                                                         *)
(* A resource object always sits in reses under its own id, so that id     *)
(* stands for the object: named maps a name to the id of the resource it   *)
(* points to.  The sets of controls hold plain pointers: calling setID on  *)
(* a control that was freed is recorded in fault, and so is a resource put *)
(* over another one in reses, which only named still knows; the model ends *)
(* there.                                                                  *)
(*                                                                         *)
(* Of a form's tree and history only what the table sees is kept: whether  *)
(* a control is on its form, off it but kept by an undo command, or gone   *)
(* (the history that decides is UIEdit).  A new id is any free one: the    *)
(* order in which id ranges hand ids out, and their use counts, are not    *)
(* part of this module.                                                    *)
(*                                                                         *)
(* A definition that stands before the one it resembles (takeOverUnlisted  *)
(* before takeOver, and so on) is a slip of the kind a change of this code *)
(* could make; it is substituted to see that a property notices.           *)
(***************************************************************************)
EXTENDS Naturals, FiniteSets, Functions

CONSTANTS
  Control, Form, FormOf,   (* controls and the form each is made for       *)
  Name, Id,                (* names and ids a project may use              *)
  ReservedId,              (* the ids of the predefined names              *)
  Static,                  (* IDC_STATIC, which controls of a form share   *)
  None                     (* no name, no id                               *)

Reserved == DOMAIN ReservedId
ReservedIds == {ReservedId[n] : n \in Reserved}

ASSUME TableAssumption ==
  /\ IsFiniteSet(Control) /\ FormOf \in [Control -> Form]
  /\ Reserved \subseteq Name /\ ReservedIds \subseteq Id
  /\ \A m, n \in Reserved : ReservedId[m] = ReservedId[n] => m = n
  /\ None \notin Name \cup Id

VARIABLES
  reses,    (* id -> [name, insts]: ResEditor::reses with UIResource::insts *)
  named,    (* name -> id: ResEditor::namedRes                              *)
  id,       (* Instance::id of every control                               *)
  stored,   (* Instance::strIDName, the name an undo registers again       *)
  place,    (* "unborn", "on" its form, "off" it, or "gone"                *)
  open,     (* forms that are open                                         *)
  fault,    (* a freed control was written to, or a resource overwritten   *)
  doubled   (* history: names an undo registered although another id has   *)
            (* them                                                        *)

vars == <<reses, named, id, stored, place, open, fault, doubled>>

-----------------------------------------------------------------------------
On == {c \in Control : place[c] = "on"}
Siblings(c) == {d \in On \ {c} : FormOf[d] = FormOf[c]}
Gone == {c \in Control : place[c] = "gone"}

(* The ids newResId can return: nextId starts above the predefined ones.   *)
Fresh == Id \ (ReservedIds \cup DOMAIN reses)

Without(f, x) == Restrict(f, DOMAIN f \ {x})
Put(f, x, y) == [z \in DOMAIN f \cup {x} |-> IF z = x THEN y ELSE f[z]]

(* Whether c is the only control listed under its id, and whether giving   *)
(* it the name n takes a predefined id away from it.                       *)
alone(c) == Cardinality(reses[id[c]].insts) = 1
renumbered(c, n) == n \notin Reserved /\ id[c] \in ReservedIds

(* setID on every control of S; lost: the table forgets a resource. *)
setID(S, i, lost) ==
  /\ id' = [c \in Control |-> IF c \in S THEN i ELSE id[c]]
  /\ fault' = (fault \/ lost \/ S \cap Gone # {})

-----------------------------------------------------------------------------
Init ==
  /\ reses = <<>> /\ named = <<>>
  /\ id = [c \in Control |-> None]
  /\ stored = [c \in Control |-> None]
  /\ place = [c \in Control |-> "unborn"]
  /\ open = Form
  /\ fault = FALSE /\ doubled = {}

(* addResource and createRes for a control that has no id yet, under the   *)
(* unused name n that newName invents; its command stores the name.        *)
create(c, n) ==
  /\ ~fault
  /\ place[c] = "unborn" /\ FormOf[c] \in open
  /\ n \in Name \ (Reserved \cup DOMAIN named)
  /\ \E i \in Fresh :
       /\ reses' = Put(reses, i, [name |-> n, insts |-> {c}])
       /\ named' = Put(named, n, i)
       /\ id' = [id EXCEPT ![c] = i]
  /\ stored' = [stored EXCEPT ![c] = n]
  /\ place' = [place EXCEPT ![c] = "on"]
  /\ UNCHANGED <<open, fault, doubled>>

(* deleteSelectedInstance: the command stores the name, the table keeps    *)
(* the control.                                                            *)
delete(c) ==
  /\ ~fault
  /\ c \in On
  /\ id[c] \in DOMAIN reses
  /\ stored' = [stored EXCEPT ![c] = reses[id[c]].name]
  /\ place' = [place EXCEPT ![c] = "off"]
  /\ UNCHANGED <<reses, named, id, open, fault, doubled>>

(* The undo of a creation, or the redo of a deletion. *)
takeOff(c) ==
  /\ ~fault
  /\ c \in On
  /\ place' = [place EXCEPT ![c] = "off"]
  /\ UNCHANGED <<reses, named, id, stored, open, fault, doubled>>

(* The undo of a deletion, or the redo of a creation: autoRegisterID and   *)
(* createRes, which prefers the id of a predefined name.                   *)
restore(c) ==
  LET n == stored[c]
      i == IF n \in Reserved THEN ReservedId[n] ELSE id[c]
  IN /\ ~fault
     /\ place[c] = "off"
     /\ \/ /\ i \in DOMAIN reses
           /\ reses' = [reses EXCEPT ![i].insts = @ \cup {c}]
           /\ UNCHANGED <<named, doubled>>
        \/ /\ i \notin DOMAIN reses
           /\ reses' = Put(reses, i, [name |-> n, insts |-> {c}])
           /\ named' = Put(named, n, i)
           /\ doubled' = doubled \cup ({n} \cap DOMAIN named)
     /\ id' = [id EXCEPT ![c] = i]
     /\ place' = [place EXCEPT ![c] = "on"]
     /\ UNCHANGED <<stored, open, fault>>

(* A push forgets the last command that kept the control. *)
forget(c) ==
  /\ ~fault
  /\ place[c] = "off"
  /\ place' = [place EXCEPT ![c] = "gone"]
  /\ UNCHANGED <<reses, named, id, stored, open, fault, doubled>>

(* A taking over that changes the controls but forgets to list them. *)
takeOverUnlisted(c, n) ==
  LET i == id[c]
  IN /\ n \in DOMAIN named
     /\ renumbered(c, n) => Fresh # {}
     /\ reses' = Without(reses, i)
     /\ named' = Without(named, reses[i].name)
     /\ setID(reses[i].insts, named[n], FALSE)

(* setResName, the branches: a name that exists takes over every control   *)
(* of c's id (instsCount() is never 0 here, so that the branch for one     *)
(* control is never reached).                                              *)
takeOver(c, n) ==
  LET i == id[c]
      j == named[n]
  IN /\ n \in DOMAIN named
     /\ renumbered(c, n) => Fresh # {}
     /\ reses' = Without([reses EXCEPT ![j].insts = @ \cup reses[i].insts], i)
     /\ named' = Without(named, reses[i].name)
     /\ setID(reses[i].insts, j, FALSE)

(* A new name that leaves the id as it is, predefined or not. *)
renameInPlace(c, n) ==
  LET i == id[c]
  IN /\ n \notin DOMAIN named /\ alone(c)
     /\ \E j \in IF n \in Reserved THEN {ReservedId[n]} ELSE {i} :
          /\ reses' = Put(Without(reses, i), j, [reses[i] EXCEPT !.name = n])
          /\ named' = Put(Without(named, reses[i].name), n, j)
          /\ setID(IF j = i THEN {} ELSE reses[i].insts, j,
                   j \in DOMAIN reses \ {i})

(* A new name renames the id when c alone carries it ... *)
renameId(c, n) ==
  LET i == id[c]
  IN /\ n \notin DOMAIN named /\ alone(c)
     /\ \E j \in IF n \in Reserved THEN {ReservedId[n]}
                 ELSE IF renumbered(c, n) THEN Fresh ELSE {i} :
          /\ reses' = Put(Without(reses, i), j, [reses[i] EXCEPT !.name = n])
          /\ named' = Put(Without(named, reses[i].name), n, j)
          /\ setID(IF j = i THEN {} ELSE reses[i].insts, j,
                   j \in DOMAIN reses \ {i})

(* A new id that the control is never told of. *)
splitOffUntold(c, n) ==
  /\ n \notin DOMAIN named /\ ~alone(c)
  /\ \E j \in Fresh :
       /\ reses' = Put(reses, j, [name |-> n, insts |-> {c}])
       /\ named' = Put(named, n, j)
  /\ UNCHANGED <<id, fault>>

(* ... and else makes a new id for c, which the old id still lists. *)
splitOff(c, n) ==
  /\ n \notin DOMAIN named /\ ~alone(c)
  /\ \E j \in Fresh :
       /\ reses' = Put(reses, j, [name |-> n, insts |-> {c}])
       /\ named' = Put(named, n, j)
       /\ setID({c}, j, FALSE)

setResName(c, n) ==
  /\ id[c] \in DOMAIN reses /\ reses[id[c]].name # n
  /\ takeOver(c, n) \/ renameId(c, n) \/ splitOff(c, n)
  /\ UNCHANGED <<stored, place, open, doubled>>

(* The id property of a control: updatingValue refuses an id that a        *)
(* sibling has, IDC_STATIC excepted.                                       *)
renameInPanel(c, n) ==
  /\ ~fault
  /\ c \in On
  /\ n \in DOMAIN named /\ named[n] # Static =>
       \A d \in Siblings(c) : id[d] # named[n]
  /\ setResName(c, n)

(* The list of ids, where the number of an id is edited for all. *)
setResId(i, j) ==
  /\ ~fault
  /\ i \in DOMAIN reses /\ j \in Id \ (DOMAIN reses \cup ReservedIds)
  /\ reses' = Put(Without(reses, i), j, reses[i])
  /\ named' = [n \in DOMAIN named |-> IF named[n] = i THEN j ELSE named[n]]
  /\ setID(reses[i].insts, j, FALSE)
  /\ UNCHANGED <<stored, place, open, doubled>>

(* removeInstanceId on every control of a form that is closed, in the      *)
(* order of its tree.  removeRes takes a control off the list of its id    *)
(* and deletes a resource that lists one control, whichever it is: the     *)
(* last call for an id does, or any call after one control is left.        *)
Leaving(f, i) == {c \in On : FormOf[c] = f /\ id[c] = i}

removeRes(f, i) ==
  LET insts == reses[i].insts
  IN \/ Leaving(f, i) # {} /\ Cardinality(insts) = 1
     \/ insts # {} /\ insts \subseteq Leaving(f, i)

removeResEarly(f, i) ==
  /\ Cardinality(reses[i].insts \ Leaving(f, i)) = 1
  /\ ~ Leaving(f, i) \subseteq reses[i].insts

close(f) ==
  /\ ~fault
  /\ f \in open
  /\ \E early \in SUBSET {i \in DOMAIN reses : removeResEarly(f, i)} :
       LET removed == early \cup {i \in DOMAIN reses : removeRes(f, i)}
       IN /\ reses' = [i \in DOMAIN reses \ removed |->
                         [reses[i] EXCEPT !.insts = @ \ Leaving(f, i)]]
          /\ named' = Restrict(named, DOMAIN named \
                                        {reses[i].name : i \in removed})
  /\ place' = [c \in Control |-> IF FormOf[c] = f THEN "gone" ELSE place[c]]
  /\ open' = open \ {f}
  /\ UNCHANGED <<id, stored, fault, doubled>>

Next ==
  \/ \E c \in Control, n \in Name : create(c, n) \/ renameInPanel(c, n)
  \/ \E c \in Control : delete(c) \/ takeOff(c) \/ restore(c) \/ forget(c)
  \/ \E i \in DOMAIN reses, j \in Id : setResId(i, j)
  \/ \E f \in Form : close(f)

Spec == Init /\ [][Next]_vars

-----------------------------------------------------------------------------
(* Properties. *)

TypeOK ==
  /\ DOMAIN reses \subseteq Id
  /\ \A i \in DOMAIN reses : reses[i] \in [name : Name, insts : SUBSET Control]
  /\ DOMAIN named \subseteq Name
  /\ \A n \in DOMAIN named : named[n] \in Id
  /\ id \in [Control -> Id \cup {None}]
  /\ stored \in [Control -> Name \cup {None}]
  /\ place \in [Control -> {"unborn", "on", "off", "gone"}]
  /\ open \subseteq Form
  /\ fault \in BOOLEAN /\ doubled \subseteq Name

(* Every control on a form has an id the table knows, and the table knows  *)
(* that the control has it: an undo command finds the name to store, and a *)
(* renumbering reaches every control.  The two indexes agree: a name finds *)
(* an id that has it, and an id is found by its name, so that no two ids   *)
(* have one name; but for a predefined name that an undo registered again, *)
(* under the predefined id, while another id had it.                       *)
OnFormListed ==
  \A c \in On : id[c] \in DOMAIN reses /\ c \in reses[id[c]].insts

IndexesAgree ==
  ~fault =>
    /\ OnFormListed
    /\ \A n \in DOMAIN named :
         named[n] \in DOMAIN reses /\ reses[named[n]].name = n
    /\ \A i \in DOMAIN reses :
         reses[i].name \notin doubled =>
           reses[i].name \in DOMAIN named /\ named[reses[i].name] = i

(* What has a predefined id goes by its predefined name and by no other,   *)
(* however the names are merged, split, renumbered and undone.             *)
PredefinedIdNamed ==
  \A n \in Reserved :
    ReservedId[n] \in DOMAIN reses => reses[ReservedId[n]].name = n

(* A control renamed in the panel has the name it was given, whichever way *)
(* the table was changed for it.                                           *)
NamedAsAsked ==
  [][\A c \in Control, n \in Name :
       renameInPanel(c, n) =>
         id'[c] \in DOMAIN reses' /\ reses'[id'[c]].name = n]_vars

-----------------------------------------------------------------------------
(* What comments and messages of the source say, and the code does not do. *)

(* uieditor.cpp, setResName, on a control that shares its id:              *)
(* "changed only one".                                                     *)
RenameChangesOne ==
  [][\A c \in Control, n \in Name :
       renameInPanel(c, n) => \A d \in On \ {c} : id'[d] = id[d]]_vars

(* uieditor.cpp, setResName: "set As Predefined Name".  The control gets   *)
(* the id that goes with the predefined name.                              *)
PredefinedNameGivesId ==
  [][\A c \in Control, n \in Reserved :
       renameInPanel(c, n) => id'[c] = ReservedId[n]]_vars

(* proppanel.cpp, updatingValue: "This ID is already in the window!"  No   *)
(* two controls of a form have one id, IDC_STATIC excepted.                *)
UniqueInWindow ==
  \A c \in On : \A d \in Siblings(c) : id[c] = id[d] => id[c] = Static
=============================================================================
