----------------------------- MODULE References -----------------------------
(* Images and those who show them.  The image editor keeps the registry      *)
(* (ResEditor::reses) with a listbox and thumbnails of its own; the controls *)
(* of a form and the renderers refer to an image by its id, and the registry *)
(* counts them.  Ids change hands: an image is renumbered in the id editor,  *)
(* removed, imported under a number that was free; commands, the clipboard   *)
(* and the files of the last save remember numbers the while.                *)
(* UIEdit has the commands and the tree in detail; here a form is flat, its  *)
(* history never full.                                                       *)
EXTENDS Naturals, Sequences, SequencesExt, FiniteSets

CONSTANTS
  Control, Renderer,
  Id,            \* ids of images
  Image,         \* picture files
  Default, NoImage,  \* a field that is not set, and the id 0
  None,          \* no picture
  Nothing,       \* the clipboard is empty
  Project,       \* the projects a first start may find, as `disk`
  MaxSteps,      \* bound: steps of the three editors
  MaxUse         \* bound: use counts

Field == Id \cup {Default, NoImage}
Partial(S, T) == UNION {[D -> T] : D \in SUBSET S}

(* image/id.xml, the form's XML with the pictures of that time, and the file *)
(* of the renderers.                                                         *)
Files ==
  [ids : Partial(Id, Image),
   form : Partial(Control, [val : Field, picture : Image \cup {None}]),
   rdr : Partial(Renderer, Field)]

(* The pictures the form was written with are there.                         *)
Agree(d) ==
  \A c \in DOMAIN d.form :
    LET saved == d.form[c] IN
    saved.picture # None =>
      saved.val \in DOMAIN d.ids /\ d.ids[saved.val] = saved.picture

ASSUME ReferencesAssumption ==
  /\ Control \cap Renderer = {}
  /\ IsFiniteSet(Control) /\ IsFiniteSet(Renderer)
  /\ {Default, NoImage, None} \cap (Id \cup Image) = {} /\ Default # NoImage
  /\ Project \subseteq {d \in Files : Agree(d)}
  /\ MaxSteps \in Nat /\ MaxUse \in Nat

VARIABLES
  reses,       \* ResEditor::reses of the image editor: ids with their image
  use,         \* Resource::use_ref
  list,        \* ids in the listbox
  thumb,       \* thumbnails by ResViewItem::id, with what they show
  fld,         \* the image field of the controls and renderers that exist
  on,          \* the controls on the form
  unlisted,    \* renderers whose field is not in their ref_list
  past, future,
  clip,
  formMarked,  \* the next save writes the form's XML
  disk,        \* image/id.xml, the form's XML, renderer/rdr.xml
  renumbered,  \* history: ids an image got by renumbering
  uncounted,   \* history: ids with a reference no use was counted for
  silent,      \* history: the form's XML lacks a change that marked nothing
  steps

registry == <<reses, list, thumb, renumbered>>
counting == <<fld, use, uncounted>>
history == <<past, future>>
vars == <<registry, counting, on, unlisted, history, clip, formMarked, disk,
          silent, steps>>

-----------------------------------------------------------------------------
(* Fields and counts.  ResEditor ignores ids it does not know; NoImage is    *)
(* nobody's id.                                                              *)

Put(f, x, v) == [y \in DOMAIN f \cup {x} |-> IF y = x THEN v ELSE f[y]]
Without(f, S) == [x \in DOMAIN f \ S |-> f[x]]
Counting == [fld |-> fld, use |-> use, uncounted |-> uncounted]

incUse(s, i) ==
  IF i \in DOMAIN reses THEN [s EXCEPT !.use[i] = @ + 1]
  ELSE [s EXCEPT !.uncounted = @ \cup ({i} \cap Id)]

decUse(s, i) ==
  IF i \in DOMAIN reses /\ s.use[i] > 0 THEN [s EXCEPT !.use[i] = @ - 1]
  ELSE s

(* Instance::setField with bAutoUse. *)
setField(s, x, v) ==
  LET set == [s EXCEPT !.fld[x] = v] IN
  IF v = s.fld[x] \/ v \notin Id THEN set
  ELSE incUse(decUse(set, s.fld[x]), v)

(* Instance::cleanField lowers no count. *)
cleanField(s, x) == [s EXCEPT !.fld[x] = Default]

(* An instance is deleted when neither the form nor a command has it. *)
Becomes(s) ==
  LET alive == on' \cup Renderer \cup {cmd.on : cmd \in ToSet(past') \cup ToSet(future')}
  IN  /\ fld' = Without(s.fld, Control \ alive)
      /\ use' = s.use /\ uncounted' = s.uncounted

-----------------------------------------------------------------------------
(* The form. *)

push(kind, c, v) ==
  /\ past' = Append(past, [kind |-> kind, on |-> c, val |-> v])
  /\ future' = << >>

FormMarked ==
  /\ formMarked' = TRUE
  /\ UNCHANGED <<registry, unlisted, disk, silent>>

create(c) ==
  /\ c \in Control \ DOMAIN fld /\ push("ADD", c, Default)
  /\ on' = on \cup {c}
  /\ Becomes([Counting EXCEPT !.fld = Put(@, c, Default)])
  /\ FormMarked /\ UNCHANGED clip

deleteSelectedInstance(c) ==
  /\ c \in on /\ push("DELETE", c, Default)
  /\ on' = on \ {c}
  /\ Becomes(decUse(Counting, fld[c]))
  /\ FormMarked /\ UNCHANGED clip

copy(c) ==
  /\ c \in on /\ clip' = [of |-> "control", val |-> fld[c]]
  /\ UNCHANGED <<registry, counting, on, unlisted, history, formMarked, disk,
                 silent>>

(* paste passes over what is not a control, and marks the form all the same. *)
paste(c) ==
  /\ clip # Nothing /\ FormMarked /\ UNCHANGED clip
  /\ \/ /\ clip.of = "renderer" /\ UNCHANGED <<counting, on, history>>
     \/ /\ clip.of = "control" /\ c \in Control \ DOMAIN fld
        /\ push("ADD", c, Default)
        /\ on' = on \cup {c}
        /\ Becomes(incUse([Counting EXCEPT !.fld = Put(@, c, clip.val)],
                          clip.val))

(* Slip: the mark of the form is not raised. *)
setImageSlip(c, v) ==
  /\ c \in on /\ v # fld[c] /\ push("SET", c, fld[c])
  /\ UNCHANGED on
  /\ Becomes(setField(Counting, c, v))
  /\ UNCHANGED <<registry, unlisted, disk, silent, formMarked, clip>>

(* PropertyPanel::updateValue: any number of the type may be typed. *)
setImage(c, v) ==
  /\ c \in on /\ v # fld[c] /\ push("SET", c, fld[c])
  /\ UNCHANGED on
  /\ Becomes(setField(Counting, c, v))
  /\ FormMarked /\ UNCHANGED clip

(* The same, refused by the preview. *)
refuseImage(c, v) ==
  /\ c \in on /\ v # fld[c]
  /\ UNCHANGED <<registry, on, unlisted, history, clip, formMarked, disk,
                 silent>>
  /\ LET set == setField(Counting, c, v)
     IN  Becomes(IF fld[c] = Default THEN cleanField(set, c)
                 ELSE setField(set, c, fld[c]))

(* FieldPanel::setDefValue: a field that is not set is remembered with the   *)
(* default of its class.                                                     *)
setDefValue(c) ==
  /\ c \in on /\ push("SET", c, IF fld[c] = Default THEN NoImage ELSE fld[c])
  /\ UNCHANGED on
  /\ Becomes(cleanField(Counting, c))
  /\ FormMarked /\ UNCHANGED clip

(* Slip: a control comes back without its uses. *)
executeSlip(cmd) ==
  /\ on' = IF cmd.kind = "ADD" THEN on \ {cmd.on}
           ELSE IF cmd.kind = "DELETE" THEN on \cup {cmd.on} ELSE on
  /\ Becomes(CASE cmd.kind = "ADD" -> decUse(Counting, fld[cmd.on])
               [] cmd.kind = "DELETE" -> Counting
               [] cmd.kind = "SET" /\ cmd.val = Default ->
                    cleanField(Counting, cmd.on)
               [] OTHER -> setField(Counting, cmd.on, cmd.val))

(* UndoRedoCommand::execute. *)
execute(cmd) ==
  /\ on' = IF cmd.kind = "ADD" THEN on \ {cmd.on}
           ELSE IF cmd.kind = "DELETE" THEN on \cup {cmd.on} ELSE on
  /\ Becomes(CASE cmd.kind = "ADD" -> decUse(Counting, fld[cmd.on])
               [] cmd.kind = "DELETE" -> incUse(Counting, fld[cmd.on])
               [] cmd.kind = "SET" /\ cmd.val = Default ->
                    cleanField(Counting, cmd.on)
               [] OTHER -> setField(Counting, cmd.on, cmd.val))

(* What the command turns into. *)
Reversed(cmd) ==
  CASE cmd.kind = "ADD" -> [cmd EXCEPT !.kind = "DELETE"]
    [] cmd.kind = "DELETE" -> [cmd EXCEPT !.kind = "ADD"]
    [] cmd.kind = "SET" -> [cmd EXCEPT !.val = fld[cmd.on]]

(* undoRedoUpdate marks the form for a property.  A control that comes or    *)
(* goes marks it only when its id is new to the table of ids again.          *)
undoRedoUpdate(cmd) ==
  /\ \/ cmd.kind = "SET" /\ formMarked' = TRUE
     \/ cmd.kind # "SET" /\ formMarked' \in {formMarked, TRUE}
  /\ silent' = (silent \/ cmd.kind # "SET")
  /\ UNCHANGED <<registry, unlisted, clip, disk>>

undo ==
  /\ past # << >>
  /\ past' = Front(past) /\ future' = <<Reversed(Last(past))>> \o future
  /\ execute(Last(past)) /\ undoRedoUpdate(Last(past))

redo ==
  /\ future # << >>
  /\ past' = Append(past, Reversed(Head(future))) /\ future' = Tail(future)
  /\ execute(Head(future)) /\ undoRedoUpdate(Head(future))

FormStep ==
  \/ undo \/ redo
  \/ \E c \in Control :
       \/ create(c) \/ deleteSelectedInstance(c) \/ copy(c) \/ paste(c)
       \/ setDefValue(c)
       \/ \E v \in Id \cup {NoImage} : setImage(c, v) \/ refuseImage(c, v)

-----------------------------------------------------------------------------
(* The renderers.  They have no history, and release no use when they go.    *)

RdrStep == UNCHANGED <<registry, on, history, formMarked, disk, silent>>

newRdr(r) ==
  /\ r \notin DOMAIN fld /\ fld' = Put(fld, r, Default)
  /\ RdrStep /\ UNCHANGED <<use, uncounted, unlisted, clip>>

setRdr(r, v) ==
  /\ r \in DOMAIN fld /\ v # fld[r]
  /\ RdrStep /\ Becomes(setField(Counting, r, v))
  /\ unlisted' = unlisted \ {r} /\ UNCHANGED clip

clearRdr(r) ==
  /\ r \in DOMAIN fld
  /\ RdrStep /\ Becomes(cleanField(Counting, r))
  /\ unlisted' = unlisted \ {r} /\ UNCHANGED clip

deleteRdr(r) ==
  /\ r \in DOMAIN fld /\ fld' = Without(fld, {r})
  /\ RdrStep /\ unlisted' = unlisted \ {r} /\ UNCHANGED <<use, uncounted, clip>>

copyRdr(r) ==
  /\ r \in DOMAIN fld /\ clip' = [of |-> "renderer", val |-> fld[r]]
  /\ RdrStep /\ UNCHANGED <<counting, unlisted>>

(* The copy of a renderer has its fields and no ref_list. *)
pasteRdr(r) ==
  /\ clip # Nothing /\ clip.of = "renderer" /\ r \notin DOMAIN fld
  /\ fld' = Put(fld, r, clip.val)
  /\ unlisted' = unlisted \cup {r}
  /\ uncounted' = uncounted \cup ({clip.val} \cap Id)
  /\ RdrStep /\ UNCHANGED <<use, clip>>

RendererStep ==
  \E r \in Renderer :
    \/ newRdr(r) \/ clearRdr(r) \/ deleteRdr(r) \/ copyRdr(r) \/ pasteRdr(r)
    \/ \E v \in Id \cup {NoImage} : setRdr(r, v)

-----------------------------------------------------------------------------
(* The image editor and the id editor. *)

ImageStep == UNCHANGED <<on, history, clip, formMarked, disk>>

(* Slip: a thumbnail with this id is taken for the new one's. *)
AddThumbSlip(i, a) ==
  thumb' = IF i \in DOMAIN thumb THEN thumb ELSE Put(thumb, i, a)

(* ImageView::Insert: a thumbnail with this id is made anew. *)
AddThumb(i, a) == thumb' = Put(thumb, i, a)

import(a, i) ==
  /\ i \in Id \ DOMAIN reses
  /\ \A j \in DOMAIN reses : reses[j] # a
  /\ reses' = Put(reses, i, a) /\ use' = Put(use, i, 0)
  /\ list' = list \cup {i} /\ AddThumb(i, a)
  /\ renumbered' = renumbered \ {i}
  /\ ImageStep /\ UNCHANGED <<fld, uncounted, unlisted, silent>>

(* Over the image that has this file already. *)
importAgain(i) ==
  /\ i \in DOMAIN reses /\ AddThumb(i, reses[i])
  /\ renumbered' = renumbered \ {i}
  /\ ImageStep
  /\ UNCHANGED <<reses, list, counting, unlisted, silent>>

(* Slip: the renderers are not told. *)
ToldSlip == on
(* MainFrame::updateResId tells the forms and the renderer editor, which     *)
(* reach what is on a form and what is in a ref_list.                        *)
Told == on \cup ((Renderer \cap DOMAIN fld) \ unlisted)

(* ImageEditor::setResId; the thumbnails are not told. *)
setResId(i, j) ==
  /\ i \in DOMAIN reses /\ j \in Id \ DOMAIN reses
  /\ reses' = Without(Put(reses, j, reses[i]), {i})
  /\ use' = Without(Put(use, j, use[i]), {i})
  /\ list' = (list \ {i}) \cup {j}
  /\ renumbered' = (renumbered \ {i}) \cup {j}
  /\ fld' = [x \in DOMAIN fld |->
               IF x \in Told /\ fld[x] = i THEN j ELSE fld[x]]
  /\ uncounted' = IF i \in uncounted THEN uncounted \cup {j} ELSE uncounted
  /\ silent' = (silent \/ \E c \in on : fld[c] = i)
  /\ ImageStep /\ UNCHANGED <<thumb, unlisted>>

(* removeSelectedImage of the thumbnail i: deleteRefRes tells the forms.     *)
removeRes(i) ==
  /\ i \in DOMAIN thumb /\ i \in DOMAIN reses /\ use[i] = 0
  /\ reses' = Without(reses, {i}) /\ use' = Without(use, {i})
  /\ list' = list \ {i} /\ thumb' = Without(thumb, {i})
  /\ renumbered' = renumbered \ {i}
  /\ fld' = [x \in DOMAIN fld |->
               IF x \in on /\ fld[x] = i THEN Default ELSE fld[x]]
  /\ silent' = (silent \/ \E c \in on : fld[c] = i)
  /\ ImageStep /\ UNCHANGED <<uncounted, unlisted>>

RegistryStep ==
  \E i \in Id :
    \/ importAgain(i) \/ removeRes(i)
    \/ \E a \in Image : import(a, i)
    \/ \E j \in Id : setResId(i, j)

-----------------------------------------------------------------------------
(* Saving and starting. *)

PictureOf(v) == IF v \in DOMAIN reses THEN reses[v] ELSE None
Picture(x) == PictureOf(fld[x])

(* Without an image the image editor writes nothing. *)
Save ==
  /\ disk' = [ids |-> IF DOMAIN reses = {} THEN disk.ids ELSE reses,
              form |-> IF formMarked
                       THEN [c \in on |-> [val |-> fld[c],
                                           picture |-> Picture(c)]]
                       ELSE disk.form,
              rdr |-> [r \in Renderer \cap DOMAIN fld |-> fld[r]]]
  /\ formMarked' = FALSE
  /\ silent' = (silent /\ ~ formMarked)
  /\ UNCHANGED <<registry, counting, on, unlisted, history, clip>>

(* What the files show, who counts it (the forms) and what is not counted:  *)
(* the fields of the renderers, and ids the registry does not have.          *)
Shown(d) ==
  [x \in DOMAIN d.form \cup DOMAIN d.rdr |->
     IF x \in DOMAIN d.form THEN d.form[x].val ELSE d.rdr[x]]

Counted(d) ==
  [i \in DOMAIN d.ids |->
     Cardinality({c \in DOMAIN d.form : d.form[c].val = i})]

Uncounted(d) ==
  Id \cap ({d.rdr[r] : r \in DOMAIN d.rdr} \cup
            ({d.form[c].val : c \in DOMAIN d.form} \ DOMAIN d.ids))

(* updateRes of the editors, then the forms.  The id of the form makes the   *)
(* first save write everything.                                              *)
Load(d) ==
  /\ reses' = d.ids /\ list' = DOMAIN d.ids /\ thumb' = d.ids
  /\ renumbered' = {} /\ unlisted' = {}
  /\ on' = DOMAIN d.form /\ fld' = Shown(d)
  /\ use' = Counted(d) /\ uncounted' = Uncounted(d)
  /\ past' = << >> /\ future' = << >>
  /\ clip' = Nothing /\ formMarked' = TRUE /\ disk' = d

(* The program ends at any moment, saved or not, and starts again. *)
Restart == Load(disk) /\ UNCHANGED silent

-----------------------------------------------------------------------------
Init ==
  /\ disk \in Project
  /\ reses = disk.ids /\ list = DOMAIN disk.ids /\ thumb = disk.ids
  /\ renumbered = {} /\ unlisted = {}
  /\ on = DOMAIN disk.form /\ fld = Shown(disk)
  /\ use = Counted(disk) /\ uncounted = Uncounted(disk)
  /\ past = << >> /\ future = << >>
  /\ clip = Nothing /\ formMarked = TRUE /\ silent = FALSE /\ steps = 0

WithinBound == \A i \in DOMAIN use' : use'[i] <= MaxUse

Edit ==
  /\ steps < MaxSteps /\ steps' = steps + 1
  /\ FormStep \/ RendererStep \/ RegistryStep
  /\ WithinBound

Next ==
  \/ Edit
  \/ (Save \/ Restart) /\ UNCHANGED steps

Spec == Init /\ [][Next]_vars

-----------------------------------------------------------------------------
(* Properties. *)

CommandType ==
  [kind : {"ADD", "DELETE", "SET"}, on : Control, val : Field]

TypeOK ==
  /\ reses \in Partial(Id, Image) /\ use \in [DOMAIN reses -> Nat]
  /\ list \subseteq Id /\ thumb \in Partial(Id, Image)
  /\ renumbered \subseteq DOMAIN reses
  /\ fld \in Partial(Control \cup Renderer, Field) /\ uncounted \subseteq Id
  /\ on \subseteq Control \cap DOMAIN fld
  /\ unlisted \subseteq Renderer \cap DOMAIN fld
  /\ past \in Seq(CommandType) /\ future \in Seq(CommandType)
  /\ \A cmd \in ToSet(past) \cup ToSet(future) : cmd.on \in DOMAIN fld
  /\ clip \in {Nothing} \cup [of : {"control", "renderer"}, val : Field]
  /\ formMarked \in BOOLEAN /\ silent \in BOOLEAN /\ disk \in Files
  /\ steps \in 0 .. MaxSteps

(* Who shows an image keeps it from being removed: the count of an image is  *)
(* at least the number of controls on the form and renderers that show it,   *)
(* through every undo, renumbering and change of a value, unless one of its  *)
(* references was made, or read from the renderers' file, uncounted.         *)
Showing(i) == {x \in on \cup (Renderer \cap DOMAIN fld) : fld[x] = i}

CountsCover ==
  \A i \in DOMAIN reses \ uncounted : Cardinality(Showing(i)) <= use[i]

(* Whatever becomes of the images, by import, renumbering and removal, what  *)
(* is on the form and what the renderers list goes on showing the picture it *)
(* showed, with the same exception.                                          *)
PicturesKept ==
  [][reses' # reses =>
       \/ Restart
       \/ \A x \in on \cup ((Renderer \cap DOMAIN fld) \ unlisted) :
            Picture(x) = None \/ fld[x] \in uncounted \/ Picture(x)' = Picture(x)
    ]_vars

(* The views follow the registry: the listbox offers exactly the images      *)
(* there are, and every image has the thumbnail that shows and removes it,   *)
(* whatever numbers were free, stale or taken when it came; only an image    *)
(* that was renumbered since it was imported may lack it.                    *)
ViewsFollow ==
  /\ list = DOMAIN reses
  /\ \A i \in DOMAIN reses \ renumbered : i \in DOMAIN thumb /\ thumb[i] = reses[i]

(* The next start finds the pictures the form's XML was written with, saved  *)
(* or killed since, unless the form has changed by an undo of a creation or  *)
(* deletion, or with the images themselves: such changes raise no mark.      *)
StartFindsPictures == ~ silent => Agree(disk)
=============================================================================
