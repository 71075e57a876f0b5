------------------------------- MODULE UIEdit -------------------------------
(***************************************************************************)
(* One form of the user-interface editor (EditUIPanel): the tree of        *)
(* component instances, their reference counts, the undo history whose     *)
(* commands point at them, and the use counts the image editor keeps for   *)
(* the images they show.                                                   *)
(*                                                                         *)
(* The program is one event loop: an action is the whole handler of one    *)
(* user gesture, applied to one selected control.  The history is the two  *)
(* sequences of EditHistory (the ring below them is CommandRing); a push,  *)
(* and the end of the panel, destroy commands in the order of the ring.    *)
(*                                                                         *)
(* form.fault records the first use of an instance after its last          *)
(* reference was released; what the program does then is undefined.        *)
(*                                                                         *)
(* Definitions called a slip, each before the one it resembles, are what a *)
(* change of this code could get wrong; a property has to notice each.     *)
(***************************************************************************)
EXTENDS Integers, Sequences, FiniteSets

CONSTANTS
  Control,      (* component instances the session may create or load      *)
  Container,    (* those whose class is a container                        *)
  LoadedForm,   (* the children of the form as read from its file          *)
  Image,        (* ids of image resources                                  *)
  Loc,          (* locations on the form                                   *)
  Default, NoImage, Base,   (* unset field, image id 0, the form itself    *)
  Empty,        (* the clipboard holds nothing                             *)
  Capacity,     (* commands the history keeps: maxcount - 1 of the ring    *)
  MaxPush,      (* bound: commands pushed in one session                   *)
  MaxUse        (* bound: a use count that only grows stops here           *)

ASSUME FormAssumption ==
  /\ IsFiniteSet(Control) /\ Container \subseteq Control /\ Base \notin Control
  /\ LoadedForm \in Seq(Control)
  /\ \A i, j \in DOMAIN LoadedForm : LoadedForm[i] = LoadedForm[j] => i = j
  /\ {Default, NoImage} \cap Image = {} /\ Default # NoImage /\ Loc # {}
  /\ Capacity \in Nat \ {0} /\ MaxPush \in Nat /\ MaxUse \in Nat

VARIABLES
  form,         (* kids: ComponentInstance::children of every container;   *)
                (* loc, img: the fields PropX/PropY and PropBkImage;       *)
                (* ref: Reference::ref of every instance; freed, fault;    *)
                (* use: Resource::use_ref of every image                   *)
  born,         (* instances allocated so far                              *)
  images,       (* images that exist in the image editor                   *)
  curContainer, (* the container the mouse was last pressed in             *)
  clip,         (* the control on top of the clipboard                     *)
  past, future, pushes,
  panel         (* "open" or "closed"                                      *)

history == <<past, future, pushes>>
vars == <<form, born, images, curContainer, clip, history, panel>>

-----------------------------------------------------------------------------
(* The tree of a form f. *)

Owner == Container \cup {Base}
Field == Image \cup {Default, NoImage}
Elements(s) == {s[i] : i \in DOMAIN s}

ChildrenOf(f, S) == UNION {Elements(f.kids[o]) : o \in S \cap Owner}

(* Everything below the instances of S, S included: their children, and    *)
(* those of the containers that are in every set T without a gap.          *)
Below(f, S) ==
  LET NoGap(T) == ChildrenOf(f, S \cup T) \cap Container \subseteq T
      inner == {o \in Container : \A T \in SUBSET Container : NoGap(T) => o \in T}
  IN S \cup ChildrenOf(f, S \cup inner)

Attached(f) == Below(f, {Base}) \ {Base}
AttachedOwner(f) == Owner \cap Below(f, {Base})
ParentOf(f, c) == CHOOSE o \in Owner : c \in Elements(f.kids[o])

insert(f, p, c) == [f EXCEPT !.kids[p] = Append(@, c)]

Unlinked(s, c) ==
  LET k == CHOOSE k \in DOMAIN s : s[k] = c
  IN IF c \in Elements(s) THEN SubSeq(s, 1, k - 1) \o SubSeq(s, k + 1, Len(s))
     ELSE s
remove(f, p, c) == [f EXCEPT !.kids[p] = Unlinked(@, c)]

-----------------------------------------------------------------------------
(* Reference counts. *)

addRef(f, c) == [f EXCEPT !.ref[c] = @ + 1]

(* Every instance of S loses a reference.  The last reference deletes the  *)
(* instance, whose destructor releases its children in turn.               *)
release(f, S) ==
  LET Last(D) == {c \in S \cup ChildrenOf(f, D) : f.ref[c] = 1}
      dead == {c \in Control :
                 \A D \in SUBSET Control : Last(D) \subseteq D => c \in D}
      dropped == S \cup ChildrenOf(f, dead)
  IN [f EXCEPT
        !.ref = [c \in Control |-> @[c] - IF c \in dropped THEN 1 ELSE 0],
        !.freed = @ \cup dead,
        !.fault = @ \/ S \cap f.freed # {}]

(* A slip: move commands release their instance too.                       *)
DestroyEveryKind(f, cmd) == release(f, {cmd.on})

(* The destructors of the commands: an add or delete command releases its  *)
(* instance, a property command asks its instance for its class.           *)
Destroy(f, cmd) ==
  CASE cmd.kind \in {"ADD", "DELETE"} -> release(f, {cmd.on})
    [] cmd.kind = "SET"  -> [f EXCEPT !.fault = @ \/ cmd.on \in f.freed]
    [] cmd.kind = "MOVE" -> f

DestroyAll(f, cmds) ==
  LET after[n \in 0 .. Len(cmds)] ==
        IF n = 0 THEN f ELSE Destroy(after[n - 1], cmds[n])
  IN after[Len(cmds)]

-----------------------------------------------------------------------------
(* Use counts.  ResEditor::use and unuse ignore ids they do not know; the  *)
(* id of no image, and a field that is not set, belong to no editor.       *)

use(f, i) == [f EXCEPT !.use = [j \in Image |->
                IF j = i /\ i \in images THEN @[j] + 1 ELSE @[j]]]
unuse(f, i) == [f EXCEPT !.use = [j \in Image |->
                  IF j = i /\ i \in images /\ @[j] > 0 THEN @[j] - 1 ELSE @[j]]]

Showing(f, S, i) == Cardinality({c \in S : f.img[c] = i})

incUseOfRefReses(f, c) ==
  [f EXCEPT !.use = [i \in Image |->
     IF i \in images THEN @[i] + Showing(f, Below(f, {c}), i) ELSE @[i]]]
decUseOfRefReses(f, c) ==
  LET shown(i) == Showing(f, Below(f, {c}), i)
  IN [f EXCEPT !.use = [i \in Image |->
        IF i \notin images THEN @[i]
        ELSE IF @[i] < shown(i) THEN 0 ELSE @[i] - shown(i)]]

(* Instance::setField(PropBkImage, value, TRUE). *)
setField(f, c, value) ==
  LET old == f.img[c]
      set == [f EXCEPT !.img[c] = value]
  IN IF value = old \/ value \notin Image THEN set ELSE use(unuse(set, old), value)

(* Instance::cleanField.  removeRefList looks the editor up by the id of   *)
(* the field instead of its value, and finds none: no count changes.       *)
cleanField(f, c) == [f EXCEPT !.img[c] = Default]

-----------------------------------------------------------------------------
(* Commands and the history. *)

Command(kind, c, at, val) ==
  [id |-> pushes + 1, kind |-> kind, on |-> c, at |-> at, val |-> val]

(* The commands destroyed by a push: the ones undone, then the oldest.     *)
Forgotten ==
  IF Len(past) = Capacity THEN Append(future, Head(past)) ELSE future

pushUndoRedoCommand(cmd) ==
  /\ pushes' = pushes + 1
  /\ past' = Append(IF Len(past) = Capacity THEN Tail(past) ELSE past, cmd)
  /\ future' = <<>>

(* UndoRedoCommand::execute: the form and the command it leaves.           *)
executeAdd(f, cmd) ==
  [form |-> release(decUseOfRefReses(remove(f, cmd.at, cmd.on), cmd.on), {cmd.on}),
   cmd  |-> [cmd EXCEPT !.kind = "DELETE"]]

(* Slips: the instance put back on the form itself; its images not used    *)
(* again.                                                                  *)
executeDeleteAtBase(f, cmd) ==
  [form |-> insert(addRef(incUseOfRefReses(f, cmd.on), cmd.on), Base, cmd.on),
   cmd  |-> [cmd EXCEPT !.kind = "ADD"]]
executeDeleteUnused(f, cmd) ==
  [form |-> insert(addRef(f, cmd.on), cmd.at, cmd.on),
   cmd  |-> [cmd EXCEPT !.kind = "ADD"]]

executeDelete(f, cmd) ==
  [form |-> insert(addRef(incUseOfRefReses(f, cmd.on), cmd.on), cmd.at, cmd.on),
   cmd  |-> [cmd EXCEPT !.kind = "ADD"]]

executeSet(f, cmd) ==
  [form |-> IF cmd.val = Default THEN cleanField(f, cmd.on)
            ELSE setField(f, cmd.on, cmd.val),
   cmd  |-> [cmd EXCEPT !.val = f.img[cmd.on]]]

(* A slip: the location goes back, the container does not. *)
executeMoveInPlace(f, cmd) ==
  [form |-> [f EXCEPT !.loc[cmd.on] = cmd.val],
   cmd  |-> [cmd EXCEPT !.val = f.loc[cmd.on]]]

executeMove(f, cmd) ==
  LET c == cmd.on
      cur == ParentOf(f, c)
      placed == [f EXCEPT !.loc[c] = cmd.val]
  IN [form |-> IF cur = cmd.at THEN placed
               ELSE insert(remove(placed, cur, c), cmd.at, c),
      cmd  |-> [cmd EXCEPT !.val = f.loc[c], !.at = cur]]

execute(f, cmd) ==
  CASE cmd.kind = "ADD"    -> executeAdd(f, cmd)
    [] cmd.kind = "DELETE" -> executeDelete(f, cmd)
    [] cmd.kind = "SET"    -> executeSet(f, cmd)
    [] cmd.kind = "MOVE"   -> executeMove(f, cmd)

-----------------------------------------------------------------------------
(* Gestures. *)

Working == panel = "open" /\ ~form.fault
CanPush == Working /\ pushes < MaxPush
WithinBound == \A i \in Image : form'.use[i] <= MaxUse

Init ==
  /\ \E shown \in [Elements(LoadedForm) -> Image \cup {Default}] :
       form = [kids  |-> [o \in Owner |-> IF o = Base THEN LoadedForm ELSE <<>>],
               loc   |-> [c \in Control |-> CHOOSE l \in Loc : TRUE],
               img   |-> [c \in Control |-> IF c \in Elements(LoadedForm)
                                            THEN shown[c] ELSE Default],
               ref   |-> [c \in Control |-> IF c \in Elements(LoadedForm)
                                            THEN 1 ELSE 0],
               use   |-> [i \in Image |-> Cardinality(
                            {c \in Elements(LoadedForm) : shown[c] = i})],
               freed |-> {}, fault |-> FALSE]
  /\ born = Elements(LoadedForm)
  /\ images = Image
  /\ curContainer = Base
  /\ clip = Empty
  /\ past = <<>> /\ future = <<>> /\ pushes = 0
  /\ panel = "open"

(* A click on the background of a container, or on a control in it. *)
click(p) ==
  /\ Working
  /\ p \in AttachedOwner(form) \ {curContainer}
  /\ curContainer' = p
  /\ UNCHANGED <<form, born, images, clip, history, panel>>

(* onCreatingUp: draw a new control on the container p. *)
create(c, p, l) ==
  /\ CanPush
  /\ c \in Control \ born
  /\ p \in AttachedOwner(form)
  /\ LET made == [insert(form, p, c) EXCEPT !.ref[c] = 1, !.loc[c] = l]
     IN form' = DestroyAll(addRef(made, c), Forgotten)
  /\ born' = born \cup {c}
  /\ curContainer' = p
  /\ pushUndoRedoCommand(Command("ADD", c, p, Default))
  /\ UNCHANGED <<images, clip, panel>>

(* deleteSelectedInstance: the command takes its reference first. *)
deleteSelectedInstance(c) ==
  /\ CanPush
  /\ c \in Attached(form)
  /\ LET p == ParentOf(form, c)
         pushed == DestroyAll(addRef(form, c), Forgotten)
     IN /\ form' = release(decUseOfRefReses(remove(pushed, p, c), c), {c})
        /\ pushUndoRedoCommand(Command("DELETE", c, p, Default))
  /\ UNCHANGED <<born, images, curContainer, clip, panel>>

(* onMovingUp: drag c to the location l of the container p. *)
move(c, p, l) ==
  /\ CanPush
  /\ c \in Attached(form)
  /\ p \in AttachedOwner(form) \ Below(form, {c})
  /\ LET from == ParentOf(form, c)
         placed == [form EXCEPT !.loc[c] = l]
         moved == IF p = from THEN placed
                  ELSE insert(remove(placed, from, c), p, c)
     IN /\ p # from \/ l # form.loc[c]
        /\ form' = DestroyAll(moved, Forgotten)
        /\ pushUndoRedoCommand(Command("MOVE", c, from, form.loc[c]))
  /\ curContainer' = p
  /\ UNCHANGED <<born, images, clip, panel>>

(* moveSelections: the cursor keys move a control without a command. *)
moveSelections(c, l) ==
  /\ Working
  /\ c \in Attached(form)
  /\ l # form.loc[c]
  /\ form' = [form EXCEPT !.loc[c] = l]
  /\ UNCHANGED <<born, images, curContainer, clip, history, panel>>

(* copy: the clipboard gets a clone.  Only controls without children are   *)
(* copied here.                                                            *)
copy(c) ==
  /\ Working
  /\ c \in Attached(form)
  /\ c \in Container => form.kids[c] = <<>>
  /\ clip' = [container |-> c \in Container, img |-> form.img[c]]
  /\ UNCHANGED <<form, born, images, curContainer, history, panel>>

(* paste: a clone of the clipboard goes into curContainer, which may have  *)
(* been deleted since.  The new control is selected, and its command       *)
(* pushed, only when it got a window, inside one that is on the form.      *)
paste(c, l) ==
  /\ CanPush
  /\ clip # Empty
  /\ c \in Control \ born
  /\ clip.container = (c \in Container)
  /\ born' = born \cup {c}
  /\ LET made == [insert(form, curContainer, c)
                    EXCEPT !.ref[c] = 1, !.loc[c] = l, !.img[c] = clip.img]
         pasted == incUseOfRefReses(made, c)
     IN \/ /\ curContainer \in AttachedOwner(form)
           /\ form' = DestroyAll(addRef(pasted, c), Forgotten)
           /\ pushUndoRedoCommand(Command("ADD", c, curContainer, Default))
        \/ /\ curContainer \notin AttachedOwner(form)
           /\ form' = [pasted EXCEPT !.fault = curContainer \in form.freed]
           /\ UNCHANGED history
  /\ UNCHANGED <<images, curContainer, clip, panel>>

(* PropertyPanel::updateValue, accepted by the preview. *)
setImage(c, i) ==
  /\ CanPush
  /\ c \in Attached(form)
  /\ i \in images \cup {NoImage}
  /\ form' = DestroyAll(setField(form, c, i), Forgotten)
  /\ pushUndoRedoCommand(Command("SET", c, Base, form.img[c]))
  /\ UNCHANGED <<born, images, curContainer, clip, panel>>

(* PropertyPanel::updateValue, refused: the field goes back to what it was *)
(* and no command is pushed.                                               *)
refuseImage(c, i) ==
  /\ Working
  /\ c \in Attached(form)
  /\ i \in images
  /\ form' = LET set == setField(form, c, i)
             IN IF form.img[c] = Default THEN cleanField(set, c)
                ELSE setField(set, c, form.img[c])
  /\ WithinBound
  /\ UNCHANGED <<born, images, curContainer, clip, history, panel>>

(* FieldPanel::setDefValue.  A field that was not set is remembered with   *)
(* the default of its class, as if that had been set.                      *)
setDefValue(c) ==
  /\ CanPush
  /\ c \in Attached(form)
  /\ form' = cleanField(DestroyAll(form, Forgotten), c)
  /\ pushUndoRedoCommand(Command("SET", c, Base,
       IF form.img[c] = Default THEN NoImage ELSE form.img[c]))
  /\ UNCHANGED <<born, images, curContainer, clip, panel>>

(* The image editor removes an image nobody uses, and the form forgets it  *)
(* wherever it still shows it.                                             *)
removeImage(i) ==
  /\ Working
  /\ i \in images
  /\ form.use[i] = 0
  /\ images' = images \ {i}
  /\ form' = [form EXCEPT !.img = [c \in Control |->
                IF c \in Attached(form) /\ @[c] = i THEN Default ELSE @[c]]]
  /\ UNCHANGED <<born, curContainer, clip, history, panel>>

undo ==
  /\ Working
  /\ past # <<>>
  /\ LET cmd == past[Len(past)]
         done == execute(form, cmd)
     IN /\ form' = done.form
        /\ future' = <<done.cmd>> \o future
        /\ curContainer' = (IF cmd.kind = "DELETE" THEN cmd.at ELSE curContainer)
  /\ past' = SubSeq(past, 1, Len(past) - 1)
  /\ WithinBound
  /\ UNCHANGED <<born, images, clip, pushes, panel>>

redo ==
  /\ Working
  /\ future # <<>>
  /\ LET cmd == Head(future)
         done == execute(form, cmd)
     IN /\ form' = done.form
        /\ past' = Append(past, done.cmd)
        /\ curContainer' = (IF cmd.kind = "DELETE" THEN cmd.at ELSE curContainer)
  /\ future' = Tail(future)
  /\ WithinBound
  /\ UNCHANGED <<born, images, clip, pushes, panel>>

(* close, then the destructor of the panel and of its command ring. *)
close ==
  /\ Working
  /\ LET gone == release([form EXCEPT !.kids[Base] = <<>>],
                         Elements(form.kids[Base]))
     IN form' = DestroyAll(gone, past \o future)
  /\ panel' = "closed"
  /\ UNCHANGED <<born, images, curContainer, clip, history>>

Next ==
  \/ \E p \in Owner : click(p)
  \/ \E c \in Control, p \in Owner, l \in Loc : create(c, p, l) \/ move(c, p, l)
  \/ \E c \in Control : deleteSelectedInstance(c) \/ copy(c) \/ setDefValue(c)
  \/ \E c \in Control, l \in Loc : moveSelections(c, l) \/ paste(c, l)
  \/ \E c \in Control, i \in Image \cup {NoImage} : setImage(c, i)
  \/ \E c \in Control, i \in Image : refuseImage(c, i)
  \/ \E i \in Image : removeImage(i)
  \/ undo \/ redo \/ close

Spec == Init /\ [][Next]_vars

-----------------------------------------------------------------------------
(* Properties. *)

Open == panel = "open" /\ ~form.fault

CommandType ==
  [id : 1 .. MaxPush, kind : {"ADD", "DELETE", "MOVE", "SET"}, on : Control,
   at : Owner, val : Field \cup Loc]

(* Every field of the form and of the session has its type. *)
TypeOK ==
  /\ form.kids \in [Owner -> Seq(Control)]
  /\ form.loc \in [Control -> Loc]
  /\ form.img \in [Control -> Field]
  /\ form.ref \in [Control -> Int]
  /\ form.use \in [Image -> Nat]
  /\ form.freed \subseteq born /\ born \subseteq Control
  /\ form.fault \in BOOLEAN
  /\ images \subseteq Image
  /\ curContainer \in Owner
  /\ clip \in {Empty} \cup [container : BOOLEAN, img : Field]
  /\ past \in Seq(CommandType) /\ future \in Seq(CommandType)
  /\ pushes \in 0 .. MaxPush
  /\ panel \in {"open", "closed"}

(* The owners of an instance: the live container that lists it as a child, *)
(* and the commands that took a reference to it.                           *)
Parents(c) == {o \in Owner \ form.freed : c \in Elements(form.kids[o])}
Holders(c) ==
  {cmd \in Elements(past \o future) :
     cmd.on = c /\ cmd.kind \in {"ADD", "DELETE"}}

(* The reference count of an instance is the number of its owners, and it  *)
(* is deleted exactly when it has none: nothing leaks and nothing is       *)
(* deleted that the form or an undoable command still needs.  Closing the  *)
(* form destroys every instance the session created.                       *)
RefsExact ==
  /\ Open => \A c \in born :
       /\ Cardinality(Parents(c)) <= 1
       /\ form.ref[c] = Cardinality(Parents(c)) + Cardinality(Holders(c))
       /\ c \in form.freed <=> form.ref[c] = 0
  /\ panel = "closed" /\ ~form.fault => form.freed = born

(* The next command to undo, and the next to redo, find the form as they   *)
(* left it: an instance to be taken off is a child of the recorded parent, *)
(* one to be put back is not on the form and its parent is.  Move and      *)
(* property commands hold a plain pointer, and so does every add and       *)
(* delete command to the container: none is left that points to an         *)
(* instance that was deleted.                                              *)
Ready(cmd) ==
  CASE cmd.kind = "ADD"    -> cmd.on \in Elements(form.kids[cmd.at])
                              /\ cmd.at \in AttachedOwner(form)
    [] cmd.kind = "DELETE" -> Parents(cmd.on) = {}
                              /\ cmd.at \in AttachedOwner(form)
    [] cmd.kind = "SET"    -> cmd.on \in Attached(form)
    [] cmd.kind = "MOVE"   -> cmd.on \in Attached(form)
                              /\ cmd.at \in AttachedOwner(form) \ Below(form, {cmd.on})

TargetsAlive ==
  \A cmd \in Elements(past \o future) :
    cmd.on \notin form.freed /\ cmd.at \notin form.freed

ReadyToExecute ==
  Open => /\ TargetsAlive
          /\ past # <<>> => Ready(past[Len(past)])
          /\ future # <<>> => Ready(Head(future))

(* The use count of an image is never below the number of controls on the  *)
(* form that show it, so that no image in use can be removed.              *)
NeverUndercounted ==
  Open => \A i \in images : form.use[i] >= Showing(form, Attached(form), i)

(* What the form shows, the order of the children apart. *)
View(f) ==
  [c \in Attached(f) |->
     [at |-> ParentOf(f, c), loc |-> f.loc[c],
      img |-> IF f.img[c] \in Image THEN f.img[c] ELSE NoImage]]

(* Undone at once, the command of a gesture brings back the form as it was *)
(* before the gesture; a redo brings back what the undo changed, and an    *)
(* undo what the redo changed.                                             *)
UndoRestores ==
  [][~form'.fault =>
       /\ Len(future') < Len(future) \/ pushes' > pushes =>
            View(execute(form', past'[Len(past')]).form) = View(form)
       /\ Len(future') > Len(future) =>
            View(execute(form', Head(future')).form) = View(form)]_vars

(* The editor implements the history of EditHistory. *)
Ids(cmds) == [k \in DOMAIN cmds |-> cmds[k].id]

History == INSTANCE EditHistory WITH
  PushLimit <- MaxPush, past <- Ids(past), future <- Ids(future), pushed <- pushes

ImplementsHistory == History!HSpec

-----------------------------------------------------------------------------
(* What comments and assertions of the source say, and the code does not   *)
(* do: TLC finds each violated.                                            *)

(* class-instance.cpp, InstancePropertyUndoRedoCommand::execute:           *)
(* "cleanField auto unuse".  A control whose image field goes back to      *)
(* unset uses that image once less.                                        *)
CleanFieldAutoUnuse ==
  [][\A c \in Control :
       (form.img[c] \in images' /\ form'.img[c] = Default)
         => form'.use[form.img[c]] < form.use[form.img[c]]]_vars

(* defundo-redo-observer.cpp, undo: "auto reverse".  The command of a      *)
(* gesture, undone at once, also brings back the order of the children,    *)
(* which is the tab order of the form.                                     *)
UndoRestoresOrder ==
  [][(pushes' > pushes /\ ~form'.fault) =>
       LET undone == execute(form', past'[Len(past')]).form
       IN \A o \in AttachedOwner(form) : undone.kids[o] = form.kids[o]]_vars

(* edituipanel.cpp, paste: "undo redo support".  A control that was pasted *)
(* can be undone.                                                          *)
PasteUndoable ==
  [][born' # born => Len(past') > 0 /\ past'[Len(past')].on \in born' \ born]_vars

(* class-instance.cpp, the constructor of InstancePropertyUndoRedoCommand: *)
(* the command "cannot accept inst as NULL": until it is destroyed, it has *)
(* an instance.                                                            *)
CommandHasInstance == ~form.fault
=============================================================================
