------------------------------ MODULE Selection ------------------------------
(***************************************************************************)
(* The selection of several controls in the form editor (EditUIPanel), and *)
(* the gestures that work on all of them: presses, the rubber band, the    *)
(* drag from container to container, keys, alignment, the clipboard, and   *)
(* the commands of a group of controls with their undo and redo.           *)
(*                                                                         *)
(* A gesture of the mouse is a press, any number of moves, and a release;  *)
(* the keyboard and its accelerators work in between.  The editor keeps    *)
(* windows, not controls: a window that was destroyed stays in the         *)
(* selection, and has no control.  What the program does once it uses a    *)
(* null pointer, a deleted container or an empty list is undefined, and    *)
(* fault ends the behaviour.                                               *)
(*                                                                         *)
(* Locations are one coordinate, relative to the container, and the snap   *)
(* grid is off.  Reference counts and images are in UIEdit, the ring under *)
(* the clipboard in ClipRing, the ring under the history in CommandRing.   *)
(***************************************************************************)
EXTENDS Integers, Sequences, FiniteSets, SequencesExt

CONSTANTS
  Control,      (* component instances the session may create or load      *)
  Container,    (* those whose class is a container                        *)
  LoadedForm,   (* the children of the form as read from its file          *)
  Base,         (* the form itself                                         *)
  NoContainer,  (* a null pointer to a container                           *)
  ClipMax,      (* controls the clipboard takes at once: max_count - 2     *)
  MaxLoc,       (* bound: locations are 0 .. MaxLoc                        *)
  MaxSelected,  (* bound: windows selected at once, void ones included     *)
  MaxPush,      (* bound: commands pushed in one session                   *)
  MaxKeys       (* bound: cursor keys, and keys during a drag, in one      *)
                (* session                                                 *)

ASSUME SelectionAssumption ==
  /\ IsFiniteSet(Control) /\ Container \subseteq Control
  /\ {Base, NoContainer} \cap Control = {} /\ Base # NoContainer
  /\ LoadedForm \in Seq(Control)
  /\ \A i, j \in DOMAIN LoadedForm : LoadedForm[i] = LoadedForm[j] => i = j
  /\ ClipMax \in Nat /\ MaxLoc \in Nat
  /\ MaxSelected \in Nat /\ MaxPush \in Nat /\ MaxKeys \in Nat

VARIABLES
  form,          (* kids: ComponentInstance::children; loc: PropX          *)
  born,          (* instances allocated so far                             *)
  sel,           (* wnds: selectedWnd; cur: curWnd; moved, kept for the    *)
                 (* properties: a command took a selected control to       *)
                 (* another container                                      *)
  curContainer,
  mouse,         (* state: curState; accept: _accept_container;            *)
                 (* old: _move_old_list.  Kept for the properties: start,  *)
                 (* the form at the press; keyed, a key came since         *)
  clip,          (* how many controls the top group of the clipboard has   *)
  past, future, pushes,
  keys, fault

history == <<past, future, pushes>>
vars == <<form, born, sel, curContainer, mouse, clip, history, keys, fault>>

Loc == 0 .. MaxLoc
Shift == -1 .. 1

-----------------------------------------------------------------------------
(* The tree of a form f. *)

Owner == Container \cup {Base}

ChildrenOf(f, S) == UNION {ToSet(f.kids[o]) : o \in S \cap Owner}

(* Everything below the instances of S, S included: their children, and    *)
(* those of the containers that are in every set T without a gap.          *)
Below(f, S) ==
  LET NoGap(T) == ChildrenOf(f, S \cup T) \cap Container \subseteq T
      inner == {o \in Container : \A T \in SUBSET Container : NoGap(T) => o \in T}
  IN S \cup ChildrenOf(f, S \cup inner)

Placed(f, c) == \E o \in Owner : c \in ToSet(f.kids[o])
Attached(f) == Below(f, {Base}) \ {Base}
AttachedOwner(f) == Owner \cap Below(f, {Base})
ParentOf(f, c) == CHOOSE o \in Owner : c \in ToSet(f.kids[o])

(* The members of s that are in S, in the order of s. *)
Among(s, S) ==
  LET of[n \in 0 .. Len(s)] ==
        IF n = 0 THEN <<>>
        ELSE IF s[n] \in S THEN Append(of[n - 1], s[n]) ELSE of[n - 1]
  IN of[Len(s)]
Unlinked(s, cs) == Among(s, Control \ ToSet(cs))

insert(f, p, cs) == [f EXCEPT !.kids[p] = @ \o cs]
remove(f, p, cs) == [f EXCEPT !.kids[p] = Unlinked(@, cs)]
remove1(f, cs) ==    (* each from the container it is in *)
  [f EXCEPT !.kids = [o \in Owner |-> Unlinked(@[o], cs)]]

(* An instance lives while it is on the form, or below one that an add or  *)
(* delete command holds.                                                   *)
Alive ==
  Below(form, {Base} \cup UNION {ToSet(cmd.on) :
    cmd \in {x \in ToSet(past \o future) : x.kind # "MOVE"}})

-----------------------------------------------------------------------------
(* The selection. *)

Wnd(c) == [of |-> c, live |-> TRUE]     (* the preview window of c now     *)
Void == [of |-> Base, live |-> FALSE]   (* the handle of a destroyed one   *)

cancelSelectAll == [wnds |-> <<>>, cur |-> Wnd(Base), moved |-> FALSE]

(* A window is added once; the form, which is current when nothing else    *)
(* is, never.                                                              *)
insertSelect(s, c) ==
  IF Wnd(c) = s.cur \/ Wnd(c) \in ToSet(s.wnds) THEN s
  ELSE [s EXCEPT !.wnds = Append(@, Wnd(c)), !.cur = Wnd(c)]

Only(c) == insertSelect(cancelSelectAll, c)

(* Several at once, the first of them the current one. *)
Group(cs) ==
  IF cs = <<>> THEN cancelSelectAll
  ELSE [cancelSelectAll EXCEPT !.wnds = [i \in DOMAIN cs |-> Wnd(cs[i])],
                               !.cur = Wnd(cs[1])]

(* FromHandler of the windows that have one. *)
Live(s) == Among(s.wnds, {w \in ToSet(s.wnds) : w.live})
Selected == [i \in DOMAIN Live(sel) |-> Live(sel)[i].of]
SomeDead(s) == Len(Live(s)) < Len(s.wnds)

(* The windows of the controls S are destroyed, and created again where    *)
(* there is a window for them.  A handle is void then, unless the new      *)
(* window got the address of the old one.                                  *)
Renewed(w, S, valid) == IF w.of \in S /\ ~valid THEN Void ELSE w

LocOf(w) == IF w.live THEN form.loc[w.of] ELSE 0   (* 0: never read        *)

Locations(f, cs) == [i \in DOMAIN cs |-> f.loc[cs[i]]]
setLocations(f, cs, locs) ==
  [f EXCEPT !.loc = [c \in Control |->
     IF c \in ToSet(cs) THEN locs[CHOOSE i \in DOMAIN cs : cs[i] = c] ELSE @[c]]]
moveAll(f, cs, d) ==
  [f EXCEPT !.loc = [c \in Control |->
                      IF c \in ToSet(cs) THEN @[c] + d ELSE @[c]]]
Fits(f) == \A c \in Control : f.loc[c] \in Loc

(* Where the client area of the container o begins, borders left out. *)
Origin(f, o) ==
  MapThenSumSet(LAMBDA p : f.loc[p], {p \in Container : o \in Below(f, {p})})

(* What the form shows, the order of the children apart. *)
View(f) == [c \in Attached(f) |-> <<ParentOf(f, c), f.loc[c]>>]

-----------------------------------------------------------------------------
(* Commands of a group. *)

Command(kind, cs, at, val, hole) ==
  [kind |-> kind, on |-> cs, at |-> at, val |-> val, hole |-> hole]

pushUndoRedoCommand(cmd) ==
  /\ pushes' = pushes + 1
  /\ past' = Append(past, cmd)
  /\ future' = <<>>

(* With a plain pointer to every control that was found. *)
pushMoveUndoRedoCommand(s, at, old) ==
  LET found == Among([i \in DOMAIN s.wnds |-> i],
                     {i \in DOMAIN s.wnds : s.wnds[i].live})
  IN /\ pushes < MaxPush
     /\ pushUndoRedoCommand(Command("MOVE",
          [k \in DOMAIN found |-> s.wnds[found[k]].of], at,
          [k \in DOMAIN found |-> old[found[k]]], SomeDead(s)))

(* UndoRedoCommand::execute on the form f, while the instances of alive    *)
(* live: the form and the command it leaves, or bad.  A command with a     *)
(* hole, where a selected window had no control, cannot be executed:       *)
(* undoRedoUpdate asks all of its controls for their windows.              *)
executeAdd(f, cmd, alive) ==
  [form |-> remove(f, cmd.at, cmd.on),
   cmd  |-> [cmd EXCEPT !.kind = "DELETE"],
   bad  |-> \/ cmd.at \notin alive
            \/ \E c \in ToSet(cmd.on) : c \notin ToSet(f.kids[cmd.at])]

executeDelete(f, cmd, alive) ==
  [form |-> insert(f, cmd.at, cmd.on),
   cmd  |-> [cmd EXCEPT !.kind = "ADD"],
   bad  |-> \/ cmd.at \notin alive
            \/ \E c \in ToSet(cmd.on) : Placed(f, c)]

(* Slip: a move goes back to the place and not to the container. *)
StaysInside(f, cmd) == FALSE

(* A move between two containers. *)
Crosses(f, cmd) ==
  cmd.at \notin {NoContainer, ParentOf(f, cmd.on[1])}

executeMove(f, cmd, alive) ==
  LET cur == ParentOf(f, cmd.on[1])
      crosses == Crosses(f, cmd)
      placed == setLocations(f, cmd.on, cmd.val)
  IN [form |-> IF crosses THEN insert(remove(placed, cur, cmd.on), cmd.at, cmd.on)
               ELSE placed,
      cmd  |-> [cmd EXCEPT !.val = Locations(f, cmd.on), !.at = cur],
      bad  |-> /\ crosses
               /\ \/ ~(ToSet(cmd.on) \subseteq ToSet(f.kids[cur]))
                  \/ ~({cur, cmd.at} \subseteq Owner \cap alive)
                  \/ cmd.at \in Below(f, ToSet(cmd.on))]

execute(f, cmd, alive) ==
  IF \/ cmd.hole \/ ~(ToSet(cmd.on) \subseteq alive)
     \/ cmd.kind = "MOVE" /\ ~Placed(f, cmd.on[1])
  THEN [form |-> f, cmd |-> cmd, bad |-> TRUE]
  ELSE CASE cmd.kind = "ADD"    -> executeAdd(f, cmd, alive)
         [] cmd.kind = "DELETE" -> executeDelete(f, cmd, alive)
         [] cmd.kind = "MOVE"   -> executeMove(f, cmd, alive)

-----------------------------------------------------------------------------
(* Gestures. *)

Working == ~fault
CanPush == Working /\ pushes < MaxPush
Up == [state |-> "up", accept |-> NoContainer, old |-> <<>>,
       start |-> <<>>, keyed |-> FALSE]

(* A step that uses freed memory, a null pointer or a missing element.     *)
Undefined ==
  /\ fault' = TRUE
  /\ UNCHANGED <<form, born, sel, curContainer, mouse, clip, history, keys>>

(* A key during a drag. *)
DragKeyed ==
  /\ keys < MaxKeys /\ keys' = keys + 1
  /\ mouse' = [mouse EXCEPT !.keyed = TRUE, !.start = <<>>]

(* A command of the keyboard or of a menu, the latter with the mouse up.   *)
Keyed ==
  IF mouse.state # "moving" THEN UNCHANGED <<mouse, keys>> ELSE DragKeyed

Init ==
  /\ form = [kids |-> [o \in Owner |-> IF o = Base THEN LoadedForm ELSE <<>>],
             loc  |-> [c \in Control |-> 0]]
  /\ born = ToSet(LoadedForm)
  /\ sel = cancelSelectAll
  /\ curContainer = Base
  /\ mouse = Up
  /\ clip = 0
  /\ past = <<>> /\ future = <<>> /\ pushes = 0
  /\ keys = 0 /\ fault = FALSE

press(p, state) ==
  /\ state = "moving" => CanPush
  /\ curContainer' = p
  /\ mouse' = IF state # "moving" THEN [Up EXCEPT !.state = state]
              ELSE [state |-> state, accept |-> p, start |-> form, keyed |-> FALSE,
                    old   |-> [i \in DOMAIN sel'.wnds |-> LocOf(sel'.wnds[i])]]
  /\ UNCHANGED <<form, born, clip, history, keys, fault>>

(* Slip: any two controls may be selected together. *)
BesideAny(c) == sel.cur.live /\ sel.cur # Wnd(Base)

(* The control c lies beside the current one. *)
Beside(c) ==
  sel.cur.live /\ sel.cur # Wnd(Base)
    /\ ParentOf(form, sel.cur.of) = ParentOf(form, c)

(* onLButtonDown on the control c: a selected one becomes current; another *)
(* is added to its selected siblings while the space key is down, and is   *)
(* selected alone otherwise.                                               *)
pressControl(c, select_key_state) ==
  /\ Working /\ mouse.state = "up"
  /\ c \in Attached(form) \ Container
  /\ sel' = IF Wnd(c) \in ToSet(sel.wnds) THEN [sel EXCEPT !.cur = Wnd(c)]
            ELSE IF select_key_state /\ Beside(c) THEN insertSelect(sel, c)
            ELSE Only(c)
  /\ Len(sel'.wnds) <= MaxSelected
  /\ press(ParentOf(form, c), "moving")

(* onLButtonDown on the background of the container p: a selected one is   *)
(* dragged, in another a rubber band begins.                               *)
pressContainer(p) ==
  /\ Working /\ mouse.state = "up"
  /\ p \in AttachedOwner(form)
  /\ IF p # Base /\ Wnd(p) \in ToSet(sel.wnds)
     THEN /\ sel' = [sel EXCEPT !.cur = Wnd(p)]
          /\ press(ParentOf(form, p), "moving")
     ELSE /\ sel' = Only(p)
          /\ press(p, "selecting")

(* onLButtonDown with a class to create chosen: inside the container p, or *)
(* outside of the form.                                                    *)
pressCreate(p) ==
  /\ Working /\ mouse.state = "up"
  /\ p \in AttachedOwner(form) \cup {NoContainer}
  /\ sel' = sel
  /\ IF p # NoContainer THEN CanPush /\ born # Control /\ press(p, "creating")
     ELSE /\ curContainer' = NoContainer
          /\ UNCHANGED <<form, born, mouse, clip, history, keys, fault>>

(* onMovingMove: the selected controls follow the mouse, which is over the *)
(* container q; none of them, nor what is in them, accepts them.           *)
onMovingMove(d, q) ==
  /\ Working /\ mouse.state = "moving"
  /\ IF mouse.accept \notin Owner \cap Alive THEN Undefined
     ELSE /\ q \in {mouse.accept}
                  \cup (AttachedOwner(form) \ Below(form, ToSet(Selected)))
          /\ form' = moveAll(form, Selected, d) /\ Fits(form')
          /\ mouse' = [mouse EXCEPT !.accept = q]
          /\ UNCHANGED <<born, sel, curContainer, clip, history, keys, fault>>

(* onMovingUp in the container of the press.  A move to where it began is  *)
(* no command; where a window that is gone is cannot be known.             *)
dropInPlace ==
  /\ Working /\ mouse.state = "moving"
  /\ mouse.accept = curContainer
  /\ IF sel.wnds = <<>> THEN Undefined
     ELSE \E moved \in IF sel.wnds[1].live
                       THEN {form.loc[sel.wnds[1].of] # mouse.old[1]} ELSE BOOLEAN :
            IF moved /\ Len(sel.wnds) > Len(mouse.old) THEN Undefined
            ELSE /\ mouse' = Up
                 /\ IF moved THEN pushMoveUndoRedoCommand(sel, curContainer, mouse.old)
                    ELSE UNCHANGED history
                 /\ UNCHANGED <<form, born, sel, curContainer, clip, keys, fault>>

(* onMovingUp in another container.  The offset off is between the two, or *)
(* anything when one of them has no window.  What changes its container    *)
(* gets a new window, if the container has one; its handle replaces the    *)
(* old one in selectedWnd, but not in curWnd.                              *)
dropAcross(off, valid) ==
  LET cs == Selected
      from == curContainer
      to == mouse.accept
      coming == Unlinked(cs, form.kids[to])
      renewed == Below(form, ToSet(coming))
      shown == to \in AttachedOwner(form)
      dropped == [wnds  |-> [i \in DOMAIN sel.wnds |-> Renewed(sel.wnds[i], renewed, shown)],
                  cur   |-> Renewed(sel.cur, renewed, shown /\ valid),
                  moved |-> sel.moved \/ ~shown]
  IN /\ Working /\ mouse.state = "moving"
     /\ to # from
     /\ {from, to} \subseteq AttachedOwner(form) =>
          off = Origin(form, from) - Origin(form, to)
     /\ IF \/ SomeDead(sel) \/ Len(sel.wnds) > Len(mouse.old)
           \/ ~({from, to} \subseteq Owner \cap Alive) \/ to \in renewed
           \/ ~(ToSet(coming) \subseteq ToSet(form.kids[from]))
        THEN Undefined
        ELSE /\ form' = insert(remove(moveAll(form, cs, off), from, coming), to, coming)
             /\ Fits(form')
             /\ sel' = dropped
             /\ curContainer' = to
             /\ mouse' = Up
             /\ IF cs = <<>> THEN UNCHANGED history
                ELSE pushMoveUndoRedoCommand(dropped, from, mouse.old)
             /\ UNCHANGED <<born, clip, keys, fault>>

(* onSelectingUp: the band took the controls S of the container, or none,  *)
(* and then the container.  Nothing has a window when it is off the form.  *)
onSelectingUp(S) ==
  /\ Working /\ mouse.state = "selecting"
  /\ IF curContainer \notin Owner \cap Alive THEN S = {} /\ Undefined
     ELSE /\ S \subseteq ToSet(form.kids[curContainer])
          /\ sel' = IF curContainer \notin AttachedOwner(form) THEN cancelSelectAll
                    ELSE IF S = {} THEN Only(curContainer)
                    ELSE Group(Among(form.kids[curContainer], S))
          /\ mouse' = Up
          /\ UNCHANGED <<form, born, curContainer, clip, history, keys, fault>>

(* New controls come into a container that may be off the form by then;    *)
(* only those that get a window are selected and remembered.               *)
added(p, cs, locs) ==
  /\ born' = born \cup ToSet(cs)
  /\ form' = setLocations(insert(form, p, cs), cs, locs)
  /\ Fits(form')
  /\ IF p \in AttachedOwner(form)
     THEN /\ sel' = Group(cs)
          /\ pushUndoRedoCommand(Command("ADD", cs, p, <<>>, FALSE))
     ELSE /\ sel' = cancelSelectAll
          /\ UNCHANGED history

onCreatingUp(c, l) ==
  /\ CanPush /\ mouse.state = "creating"
  /\ c \in Control \ born
  /\ IF curContainer \notin Owner \cap Alive THEN Undefined
     ELSE /\ added(curContainer, <<c>>, <<l>>)
          /\ mouse' = Up
          /\ UNCHANGED <<curContainer, clip, keys, fault>>

(* selectInstance: a click in the tree of the form. *)
selectInstance(c) ==
  /\ Working /\ mouse.state = "up"
  /\ c \in Attached(form) \cup {Base}
  /\ Wnd(c) # sel.cur
  /\ sel' = Only(c)
  /\ UNCHANGED <<form, born, curContainer, mouse, clip, history, keys, fault>>

(* tabToNextSelection: the next sibling, or the first control of the form. *)
tabToNextSelection ==
  LET isCur == sel.cur.live /\ sel.cur # Wnd(Base)
      row == IF isCur THEN form.kids[ParentOf(form, sel.cur.of)] ELSE <<>>
      at == IF isCur THEN CHOOSE i \in DOMAIN row : row[i] = sel.cur.of ELSE 0
      rest == SubSeq(row, at + 1, Len(row)) \o form.kids[Base]
  IN /\ Working
     /\ rest # <<>>
     /\ sel' = Only(rest[1])
     /\ Keyed
     /\ UNCHANGED <<form, born, curContainer, clip, history, fault>>

(* moveSelections: the cursor keys move what is selected, without command. *)
moveSelections(d) ==
  /\ Working /\ keys < MaxKeys
  /\ sel.wnds # <<>>
  /\ form' = moveAll(form, Selected, d) /\ Fits(form')
  /\ IF mouse.state = "moving" THEN DragKeyed ELSE keys' = keys + 1 /\ UNCHANGED mouse
  /\ UNCHANGED <<born, sel, curContainer, clip, history, fault>>

(* align: all to the place of the current one; anywhere, if that is gone.  *)
align(l) ==
  /\ Working
  /\ Len(sel.wnds) > 1
  /\ sel.cur.live => l = form.loc[sel.cur.of]
  /\ form' = [form EXCEPT !.loc = [c \in Control |->
               IF c \in ToSet(Selected) THEN l ELSE @[c]]]
  /\ pushMoveUndoRedoCommand(sel, NoContainer,
       [i \in DOMAIN sel.wnds |-> LocOf(sel.wnds[i])])
  /\ Keyed
  /\ UNCHANGED <<born, sel, curContainer, clip, fault>>

-----------------------------------------------------------------------------
(* Delete and the clipboard. *)

SomeSelected == sel.wnds # <<>> /\ sel.cur # Wnd(Base)

(* The command asks the first window for the container, and there is none  *)
(* without it: the others are deleted all the same.                        *)
deleted ==
  /\ form' = remove1(form, Selected)
  /\ sel' = cancelSelectAll
  /\ IF sel.wnds[1].live
     THEN /\ pushes < MaxPush
          /\ pushUndoRedoCommand(Command("DELETE", Selected,
               ParentOf(form, Selected[1]), <<>>, SomeDead(sel)))
     ELSE UNCHANGED history

deleteSelectedInstance ==
  /\ Working /\ SomeSelected
  /\ deleted
  /\ Keyed
  /\ UNCHANGED <<born, curContainer, clip, fault>>

(* Clones of the selection, when the clipboard takes that many.  Only      *)
(* controls without children are copied here.                              *)
copied ==
  /\ ~SomeDead(sel)
  /\ \A c \in ToSet(Selected) \cap Container : form.kids[c] = <<>>
  /\ clip' = IF Len(Selected) > ClipMax THEN clip ELSE Len(Selected)

copy ==
  /\ Working /\ SomeSelected
  /\ copied
  /\ Keyed
  /\ UNCHANGED <<form, born, sel, curContainer, history, fault>>

(* copy(TRUE), the cut: it deletes, whatever the clipboard answered. *)
cut ==
  /\ Working /\ SomeSelected
  /\ copied /\ deleted
  /\ Keyed
  /\ UNCHANGED <<born, curContainer, fault>>

(* paste: clones of the group go into curContainer; without one to the     *)
(* current control, or into its container.  What they are clones of, and   *)
(* so where they are put, is any cs and locs.                              *)
paste(cs, locs) ==
  LET p == IF curContainer # NoContainer THEN curContainer
           ELSE IF ~sel.cur.live THEN Base
           ELSE IF sel.cur.of \in Owner THEN sel.cur.of
           ELSE ParentOf(form, sel.cur.of)
  IN /\ CanPush
     /\ clip > 0
     /\ Len(cs) = clip /\ Len(locs) = clip /\ IsInjective(cs)
     /\ IF p \notin Alive THEN Undefined
        ELSE /\ added(p, cs, locs)
             /\ Keyed
             /\ UNCHANGED <<curContainer, clip, fault>>

-----------------------------------------------------------------------------
(* Undo and redo. *)

(* undoRedoUpdate: what an executed command leaves selected.  A move to    *)
(* another container gives new windows, and the selection keeps the old.   *)
undoRedoUpdate(cmd, done, valid) ==
  LET renewed == IF cmd.kind = "MOVE" /\ Crosses(form, cmd)
                 THEN Below(form, ToSet(cmd.on)) ELSE {}
      still == valid /\ cmd.at \in AttachedOwner(form)
  IN /\ form' = done.form
     /\ sel' = CASE cmd.kind = "ADD"    -> cancelSelectAll
                 [] cmd.kind = "DELETE" -> Group(cmd.on)
                 [] cmd.kind = "MOVE"   ->
                      [wnds  |-> [i \in DOMAIN sel.wnds |-> Renewed(sel.wnds[i], renewed, still)],
                       cur   |-> Renewed(sel.cur, renewed, still),
                       moved |-> sel.moved \/ ToSet(Selected) \cap renewed # {}]
     /\ curContainer' = IF cmd.kind = "DELETE" THEN cmd.at ELSE curContainer
     /\ Keyed
     /\ UNCHANGED <<born, clip, pushes, fault>>

(* What is restored into a container without a window is not selected, and *)
(* the first selected window is read all the same.                         *)
Broken(cmd, done) ==
  \/ done.bad
  \/ cmd.kind = "DELETE" /\ cmd.at \notin AttachedOwner(form)

undo(valid) ==
  /\ Working /\ past # <<>>
  /\ LET cmd == Last(past)
         done == execute(form, cmd, Alive)
     IN IF Broken(cmd, done) THEN Undefined
        ELSE /\ past' = Front(past)
             /\ future' = <<done.cmd>> \o future
             /\ undoRedoUpdate(cmd, done, valid)

redo(valid) ==
  /\ Working /\ future # <<>>
  /\ LET cmd == Head(future)
         done == execute(form, cmd, Alive)
     IN IF Broken(cmd, done) THEN Undefined
        ELSE /\ past' = Append(past, done.cmd)
             /\ future' = Tail(future)
             /\ undoRedoUpdate(cmd, done, valid)

UpTo(n, S) == UNION {[1 .. m -> S] : m \in 1 .. n}

Next ==
  \/ \E c \in Control, space \in BOOLEAN : pressControl(c, space)
  \/ \E p \in Owner : pressContainer(p)
  \/ \E p \in Owner \cup {NoContainer} : pressCreate(p)
  \/ \E d \in Shift, q \in Owner : onMovingMove(d, q)
  \/ \E off \in Shift, valid \in BOOLEAN : dropAcross(off, valid)
  \/ \E S \in SUBSET Control : onSelectingUp(S)
  \/ \E c \in Control, l \in Loc : onCreatingUp(c, l)
  \/ \E c \in Control \cup {Base} : selectInstance(c)
  \/ \E d \in Shift \ {0} : moveSelections(d)
  \/ \E cs \in UpTo(ClipMax, Control \ born), locs \in UpTo(ClipMax, Loc) :
       paste(cs, locs)
  \/ \E l \in Loc : align(l)
  \/ \E valid \in BOOLEAN : undo(valid) \/ redo(valid)
  \/ dropInPlace \/ tabToNextSelection \/ deleteSelectedInstance \/ copy \/ cut

Spec == Init /\ [][Next]_vars

-----------------------------------------------------------------------------
(* Properties. *)

Window == [of : Control \cup {Base}, live : BOOLEAN]
Form == [kids : [Owner -> Seq(Control)], loc : [Control -> Loc]]
Commands == [kind : {"ADD", "DELETE", "MOVE"}, on : Seq(Control),
             at : Owner \cup {NoContainer}, val : Seq(Loc), hole : BOOLEAN]

(* Types. *)
TypeOK ==
  /\ form \in Form
  /\ born \subseteq Control
  /\ sel \in [wnds : Seq(Window), cur : Window, moved : BOOLEAN]
  /\ curContainer \in Owner \cup {NoContainer}
  /\ mouse \in [state : {"up", "moving", "selecting", "creating"},
                accept : Owner \cup {NoContainer}, old : Seq(Loc),
                start : Form \cup {<<>>}, keyed : BOOLEAN]
  /\ clip \in 0 .. ClipMax
  /\ past \in Seq(Commands) /\ future \in Seq(Commands)
  /\ pushes \in Nat /\ keys \in Nat /\ fault \in BOOLEAN

(* The controls selected are distinct, on the form and in one container,   *)
(* and the current one is among them: deletion and the commands of a group *)
(* take the container of the first for all of them.  Not so when a command *)
(* took one of them to another container, which leaves the selection as it *)
(* is; and after a drag to another container the current window is gone.   *)
SelectionTogether ==
  ~(fault \/ sel.moved) =>
    /\ IsInjective(Selected)
    /\ \E p \in AttachedOwner(form) : ToSet(Selected) \subseteq ToSet(form.kids[p])
    /\ IF sel.wnds = <<>> THEN sel.cur = Wnd(Base)
       ELSE sel.cur.live => sel.cur \in ToSet(sel.wnds)

(* Executed at once, the last command undoes the gesture that pushed it,   *)
(* for all its controls together; an undo undoes a redo and a redo an      *)
(* undo; a gesture that pushes none leaves the form as it was.  A drag     *)
(* counts from its press.  The cursor keys push no command, and a drag     *)
(* that a key came into may remember what the key left; and a selection    *)
(* that a command took apart is deleted or moved in part: these excepted.  *)
Undone(cmd) ==
  LET done == execute(form, cmd, Alive) IN [ok |-> ~done.bad, view |-> View(done.form)]
Shown(f) == [ok |-> TRUE, view |-> View(f)]

Released == mouse.state = "moving" /\ mouse'.state = "up"
Before == IF Released THEN mouse.start ELSE form
Disturbed == Released /\ mouse.keyed

Pushed == pushes' > pushes
Undid == ~Pushed /\ Len(future') > Len(future)
Redid == ~Pushed /\ Len(future') < Len(future)

GestureUndone ==
  [][~(fault' \/ Disturbed \/ sel.moved) =>
       CASE Pushed -> Undone(Last(past))' = Shown(Before)
         [] Undid  -> Undone(Head(future))' = Shown(form)
         [] Redid  -> Undone(Last(past))' = Shown(form)
         [] OTHER  -> \/ form' = Before \/ View(form') = View(Before)
                      \/ \E d \in Shift : moveSelections(d)
                      \/ mouse.state = "moving" /\ mouse'.state = "moving"]_vars
=============================================================================
