----------------------------- MODULE ProjectSave -----------------------------
(***************************************************************************)
(* What a save writes: the main frame with its auto-save timer, and the    *)
(* dirty marks by which the user-interface, image and renderer editors     *)
(* decide which of their project files to write.                           *)
(*                                                                         *)
(* The content of a file is abstracted to how it differs from the memory   *)
(* of the editor: Current; Due, when a change it lacks raised a dirty mark *)
(* of its editor; Slipped, when the changes it lacks raised none.  A       *)
(* renderer or image mark and a form mark are different variables of the   *)
(* program, set, sent and cleared by different rules, and a save consults  *)
(* nothing else.                                                           *)
(*                                                                         *)
(* An action is one handler of the event loop.  The connect-events dialog  *)
(* runs a loop of its own: while it is open the timer and posted commands  *)
(* are still served, and the user reaches no other panel.                  *)
(*                                                                         *)
(* Definitions called a slip, each before the one it resembles, are what a *)
(* change of this code could get wrong; a property has to notice each.     *)
(***************************************************************************)
EXTENDS Integers, FiniteSets

CONSTANTS
  Window,       (* windows the project may have                            *)
  NoWindow,     (* no dialog is open                                       *)
  MaxInterval,  (* MAX_SAVE_INTERVAL, 150 in the program                   *)
  MaxImages     (* bound: images in the project                            *)

ASSUME SaveAssumption ==
  /\ NoWindow \notin Window
  /\ MaxInterval \in Nat
  /\ MaxImages \in Nat

VARIABLES
  running,      (* the program runs                                        *)
  isModified, save_counter,   (* MainFrame's members                       *)
  posted,       (* a GBC_SAVE command is in the message queue              *)
  risk,         (* ticks of the timer isModified has survived; not in the  *)
                (* program                                                 *)
  editors,      (* windows open in the user-interface editor               *)
  SourceChanged, ProperyChanged,    (* EditUIPanel::flags, by window       *)
  xml, source,  (* the XML and the C source file of each window            *)
  uiIdChanged,  (* UIEditor::bIdChanged                                    *)
  listed,       (* windows the next start of the program will open         *)
  dialog,       (* the window whose connect-events dialog is open          *)
  bChanged,     (* ConnectEventsWnd::bChanged                              *)
  images, imageIdChanged,   (* the image editor: size of reses, bIdChanged *)
  imageXml,     (* image/id.xml                                            *)
  savedImages,  (* images the next start will find there                   *)
  rdrIdChanged, status,     (* the renderer editor: bIdChanged, status     *)
  rdrIdXml, rdrXml          (* renderer/id.xml and the renderer file       *)

frameVars == <<isModified, save_counter, posted, risk>>
formVars == <<SourceChanged, ProperyChanged, xml, source>>
uiVars == <<editors, uiIdChanged, listed, formVars>>
dialogVars == <<dialog, bChanged>>
imageVars == <<images, imageIdChanged, imageXml, savedImages>>
rdrVars == <<rdrIdChanged, status, rdrIdXml, rdrXml>>
projectVars == <<running, frameVars, uiVars, dialogVars, imageVars, rdrVars>>

Freshness == {"Current", "Slipped", "Due"}
RdrMark == {"IDXML_CHANGED", "RDRXML_CHANGED"}

ProjectTypeOK ==
  /\ running \in BOOLEAN /\ isModified \in BOOLEAN /\ posted \in BOOLEAN
  /\ save_counter \in 0 .. MaxInterval /\ risk \in Nat
  /\ editors \subseteq Window /\ listed \subseteq Window
  /\ SourceChanged \subseteq editors /\ ProperyChanged \subseteq editors
  /\ xml \in [Window -> Freshness] /\ source \in [Window -> Freshness]
  /\ uiIdChanged \in BOOLEAN
  /\ dialog \in editors \cup {NoWindow} /\ bChanged \in BOOLEAN
  /\ images \in 0 .. MaxImages /\ savedImages \in 0 .. MaxImages
  /\ imageIdChanged \in BOOLEAN /\ imageXml \in Freshness
  /\ rdrIdChanged \in BOOLEAN /\ status \subseteq RdrMark
  /\ rdrIdXml \in Freshness /\ rdrXml \in Freshness

-----------------------------------------------------------------------------
(* Changes to the memory behind the files of the windows in S: one that a  *)
(* dirty mark announces, one that none announces, and a mark raised for    *)
(* changes made before it.                                                 *)

Change(file, S) == [w \in Window |-> IF w \in S THEN "Due" ELSE file[w]]
Slip(file, S) ==
  [w \in Window |->
     IF w \in S /\ file[w] = "Current" THEN "Slipped" ELSE file[w]]
Announce(file, S) ==
  [w \in Window |-> IF w \in S /\ file[w] = "Slipped" THEN "Due" ELSE file[w]]

-----------------------------------------------------------------------------
(* The main frame. *)

(* Slip: every edit puts the auto-save off. *)
EnableSaveSlip ==
  isModified' = TRUE /\ save_counter' = 0 /\ UNCHANGED <<posted, risk>>

(* enableMenuItem(GBC_SAVE) arms the auto-save. *)
EnableSave == isModified' = TRUE /\ UNCHANGED <<save_counter, posted, risk>>

(* setPropertyChanged and setSourceChanged tell the main frame only when   *)
(* they raise a mark that was down.                                        *)
RaiseMarks(property, src) ==
  /\ ProperyChanged' = ProperyChanged \cup property
  /\ SourceChanged' = SourceChanged \cup src
  /\ isModified' = (isModified \/ ~ (property \subseteq ProperyChanged)
                               \/ ~ (src \subseteq SourceChanged))
  /\ UNCHANGED <<save_counter, posted, risk>>

(* Slip: the counter runs on after the save is posted. *)
TickSlip ==
  /\ running /\ ~ posted
  /\ posted' = (isModified /\ save_counter + 1 > MaxInterval)
  /\ save_counter' = IF isModified THEN save_counter + 1 ELSE save_counter
  /\ risk' = IF isModified THEN risk + 1 ELSE 0
  /\ UNCHANGED <<running, isModified, uiVars, dialogVars, imageVars, rdrVars>>

(* auto_save_timer.  The message queue serves a posted command before it   *)
(* looks at the timer.                                                     *)
Tick ==
  /\ running /\ ~ posted
  /\ posted' = (isModified /\ save_counter + 1 > MaxInterval)
  /\ save_counter' = IF ~ isModified THEN save_counter
                     ELSE IF posted' THEN 0 ELSE save_counter + 1
  /\ risk' = IF isModified THEN risk + 1 ELSE 0
  /\ UNCHANGED <<running, isModified, uiVars, dialogVars, imageVars, rdrVars>>

(* ImageEditor::save and RendererEditor::saveXML, saveBin. *)
SaveImages ==
  /\ IF images > 0 /\ imageIdChanged
     THEN imageIdChanged' = FALSE /\ imageXml' = "Current" /\ savedImages' = images
     ELSE UNCHANGED <<imageIdChanged, imageXml, savedImages>>
  /\ UNCHANGED images

(* Slip: the mark that is asked about is the one the first step cleared. *)
SaveRenderersSlip ==
  /\ IF "IDXML_CHANGED" \in status /\ rdrIdChanged
     THEN rdrIdChanged' = FALSE /\ rdrIdXml' = "Current" /\ rdrXml' = "Current"
     ELSE UNCHANGED <<rdrIdChanged, rdrIdXml, rdrXml>>
  /\ status' = {}

SaveRenderers ==
  /\ IF "IDXML_CHANGED" \in status /\ rdrIdChanged
     THEN rdrIdChanged' = FALSE /\ rdrIdXml' = "Current"
     ELSE UNCHANGED <<rdrIdChanged, rdrIdXml>>
  /\ rdrXml' = IF "RDRXML_CHANGED" \in status THEN "Current" ELSE rdrXml
  /\ status' = {}

(* UIEditor::save for the marks the forms carry when it runs: a change of  *)
(* an id forces the XML of every window, not its source.                   *)
SaveForms(property, src) ==
  /\ xml' = [w \in Window |->
               IF w \in editors /\ (uiIdChanged \/ w \in property \cup src)
               THEN "Current" ELSE xml[w]]
  /\ source' = [w \in Window |-> IF w \in src THEN "Current" ELSE source[w]]
  /\ ProperyChanged' = {} /\ SourceChanged' = {}
  /\ uiIdChanged' = FALSE
  /\ listed' = IF uiIdChanged THEN editors ELSE listed
  /\ UNCHANGED editors

onSave(property, src) ==
  /\ isModified' = FALSE /\ save_counter' = 0 /\ risk' = 0
  /\ SaveImages /\ SaveRenderers /\ SaveForms(property, src)

(* The user is served by the main window. *)
Idle == running /\ dialog = NoWindow

Save ==
  /\ Idle /\ onSave(ProperyChanged, SourceChanged)
  /\ UNCHANGED <<running, posted, dialogVars>>

(* Slip: a command that arrives during a dialog is dropped. *)
DispatchSlip ==
  /\ running /\ posted /\ posted' = FALSE
  /\ IF dialog = NoWindow THEN onSave(ProperyChanged, SourceChanged)
     ELSE risk' = 0 /\
          UNCHANGED <<isModified, save_counter, uiVars, imageVars, rdrVars>>
  /\ UNCHANGED <<running, dialogVars>>

(* The posted command, in the main loop or in a dialog's. *)
Dispatch ==
  /\ running /\ posted /\ posted' = FALSE
  /\ onSave(ProperyChanged, SourceChanged)
  /\ UNCHANGED <<running, dialogVars>>

(* onExit saves, then the loop ends. *)
Exit ==
  /\ Idle /\ running' = FALSE
  /\ onSave(ProperyChanged, SourceChanged)
  /\ UNCHANGED <<posted, dialogVars>>

-----------------------------------------------------------------------------
(* Loading a project: what is in memory is what the files held.  createRes *)
(* raises bIdChanged for every image and window it loads; the renderer     *)
(* editor's does not (a first use may raise its bIdChanged; without the    *)
(* IDXML mark that writes nothing).  The first window opened becomes the   *)
(* start window, which marks the project modified before the form's mark   *)
(* is taken back.                                                          *)
Load(opened, found) ==
  /\ isModified' = (opened # {})
  /\ save_counter' = 0 /\ posted' = FALSE /\ risk' = 0
  /\ editors' = opened
  /\ ProperyChanged' = {} /\ SourceChanged' = {}
  /\ xml' = [w \in Window |-> "Current"]
  /\ source' = [w \in Window |-> "Current"]
  /\ uiIdChanged' = (opened # {}) /\ listed' = opened
  /\ dialog' = NoWindow /\ bChanged' = FALSE
  /\ images' = found /\ savedImages' = found
  /\ imageIdChanged' = (found > 0) /\ imageXml' = "Current"
  /\ rdrIdChanged' = FALSE /\ status' = {}
  /\ rdrIdXml' = "Current" /\ rdrXml' = "Current"

Start == ~ running /\ running' = TRUE /\ Load(listed, savedImages)

(* Killed at any moment, and started again: memory is what the files hold. *)
Crash == running /\ UNCHANGED running /\ Load(listed, savedImages)

-----------------------------------------------------------------------------
(* The user-interface editor, one user gesture each.                       *)

OtherThanForms == <<running, dialogVars, imageVars, rdrVars>>
OtherUI == <<editors, listed>>

(* A property, a text, a drag: updateInstanceField and the mouse handlers, *)
(* and the undo of a property or a text.                                   *)
EditProperty(w) ==
  /\ RaiseMarks({w}, {})
  /\ xml' = Change(xml, {w})
  /\ UNCHANGED <<source, uiIdChanged, OtherUI>>

(* The handler of an event. *)
EditEvent(w) ==
  /\ RaiseMarks({}, {w})
  /\ xml' = Change(xml, {w}) /\ source' = Change(source, {w})
  /\ UNCHANGED <<uiIdChanged, OtherUI>>

(* The control's id may be new to the table of ids. *)
CreateControl(w) ==
  /\ RaiseMarks({w}, {})
  /\ xml' = Change(xml, {w})
  /\ \E fresh \in BOOLEAN : uiIdChanged' = (uiIdChanged \/ fresh)
  /\ UNCHANGED <<source, OtherUI>>

DeleteControl(w) ==
  /\ RaiseMarks({}, {w})
  /\ xml' = Change(xml, {w}) /\ source' = Change(source, {w})
  /\ UNCHANGED <<uiIdChanged, OtherUI>>

PasteControl(w) ==
  /\ RaiseMarks({}, {w})
  /\ xml' = Change(xml, {w}) /\ source' = Change(source, {w})
  /\ \E fresh \in BOOLEAN : uiIdChanged' = (uiIdChanged \/ fresh)
  /\ UNCHANGED OtherUI

(* Slip: the id table is not marked. *)
RenameControlSlip(w, S) ==
  /\ RaiseMarks({w}, {w})
  /\ xml' = Change(xml, {w} \cup S)
  /\ source' = Slip(Change(source, {w}), S)
  /\ UNCHANGED <<uiIdChanged, OtherUI>>

(* A new name or value of an id that controls of the windows in S share:   *)
(* setResName tells every control, but the marks raised are those of w.    *)
RenameControl(w, S) ==
  /\ RaiseMarks({w}, {w})
  /\ uiIdChanged' = TRUE
  /\ xml' = Change(xml, {w} \cup S)
  /\ source' = Slip(Change(source, {w}), S)
  /\ UNCHANGED OtherUI

(* Cursor keys, an exchange of two siblings in the structure panel, and    *)
(* the undo of a move or a resize.                                         *)
NudgeControl(w) ==
  /\ EnableSave
  /\ xml' = Slip(xml, {w})
  /\ UNCHANGED <<ProperyChanged, SourceChanged, source, uiIdChanged, OtherUI>>

(* align, spreedOut, sameSize, and the reset of all properties. *)
AlignControls(w) ==
  /\ xml' = Slip(xml, {w})
  /\ UNCHANGED <<frameVars, ProperyChanged, SourceChanged, source,
                 uiIdChanged, OtherUI>>

(* The undo or redo of a creation or deletion. *)
UndoCreateDelete(w) ==
  /\ xml' = Slip(xml, {w}) /\ source' = Slip(source, {w})
  /\ \E fresh \in BOOLEAN : uiIdChanged' = (uiIdChanged \/ fresh)
  /\ UNCHANGED <<frameVars, ProperyChanged, SourceChanged, OtherUI>>

(* setStartWindow from the menu: startWndId is not kept; the windows that  *)
(* stop or begin to be the start window are two, one or none.              *)
SetStartWindow(changed) ==
  /\ SourceChanged' = SourceChanged \cup changed
  /\ source' = Change(source, changed)
  /\ EnableSave
  /\ UNCHANGED <<ProperyChanged, xml, uiIdChanged, OtherUI>>

(* A window from a template, or (template FALSE) from a file of its own.   *)
NewWindow(w, template) ==
  /\ editors' = editors \cup {w}
  /\ ProperyChanged' = IF template THEN ProperyChanged \cup {w} ELSE ProperyChanged
  /\ SourceChanged' = SourceChanged \cup {w}
  /\ xml' = Change(xml, {w}) /\ source' = Change(source, {w})
  /\ uiIdChanged' = TRUE
  /\ EnableSave
  /\ UNCHANGED listed

(* Slip: the id of the window stays in the table. *)
RemoveWindowSlip(w, fromDisk, heir) ==
  /\ editors' = editors \ {w}
  /\ ProperyChanged' = ProperyChanged \ {w}
  /\ SourceChanged' = (SourceChanged \ {w}) \cup heir
  /\ xml' = [xml EXCEPT ![w] = "Current"]
  /\ source' = Change([source EXCEPT ![w] = "Current"], heir)
  /\ listed' = IF fromDisk THEN listed \ {w} ELSE listed
  /\ UNCHANGED uiIdChanged
  /\ EnableSave

(* close: the window shown afterwards takes over as the start window, if   *)
(* the closed one was that.                                                *)
RemoveWindow(w, fromDisk, heir) ==
  /\ editors' = editors \ {w}
  /\ ProperyChanged' = ProperyChanged \ {w}
  /\ SourceChanged' = (SourceChanged \ {w}) \cup heir
  /\ xml' = [xml EXCEPT ![w] = "Current"]
  /\ source' = Change([source EXCEPT ![w] = "Current"], heir)
  /\ uiIdChanged' = TRUE
  /\ listed' = IF fromDisk THEN listed \ {w} ELSE listed
  /\ EnableSave

(* No other window, or one. *)
AtMostOne(S) == {{}} \cup {{x} : x \in S}

EditForm(w) ==
  \/ EditProperty(w) \/ EditEvent(w) \/ CreateControl(w)
  \/ DeleteControl(w) \/ PasteControl(w)
  \/ \E S \in SUBSET (editors \ {w}) : RenameControl(w, S)
  \/ NudgeControl(w) \/ AlignControls(w) \/ UndoCreateDelete(w)
  \/ \E fromDisk \in BOOLEAN, heir \in AtMostOne(editors \ {w}) :
       RemoveWindow(w, fromDisk, heir)

UIAction ==
  /\ Idle
  /\ \/ \E w \in editors : EditForm(w)
     \/ \E changed \in SUBSET editors :
          Cardinality(changed) <= 2 /\ SetStartWindow(changed)
     \/ \E w \in Window \ editors, template \in BOOLEAN : NewWindow(w, template)
  /\ UNCHANGED OtherThanForms

(* connectEvents: the dialog changes the instances while it is open; the   *)
(* marks are raised when it has closed, OK or Cancel, the second silently. *)
(* toSource jumps to the code, which saves first.                          *)
OpenDialog(w) ==
  /\ Idle /\ dialog' = w /\ bChanged' = FALSE
  /\ UNCHANGED <<running, frameVars, uiVars, imageVars, rdrVars>>

ConnectEvent ==
  /\ running /\ dialog # NoWindow /\ bChanged' = TRUE
  /\ xml' = Slip(xml, {dialog}) /\ source' = Slip(source, {dialog})
  /\ UNCHANGED <<running, frameVars, editors, uiIdChanged, listed,
                 ProperyChanged, SourceChanged, dialog, imageVars, rdrVars>>

(* Slip: both marks are raised silently. *)
CloseDialogSlip ==
  LET marked == IF bChanged THEN {dialog} ELSE {} IN
  /\ running /\ dialog # NoWindow
  /\ dialog' = NoWindow /\ bChanged' = FALSE
  /\ SourceChanged' = SourceChanged \cup marked
  /\ ProperyChanged' = ProperyChanged \cup marked
  /\ xml' = Announce(xml, marked) /\ source' = Announce(source, marked)
  /\ UNCHANGED <<running, frameVars, editors, uiIdChanged, listed,
                 imageVars, rdrVars>>

CloseDialog ==
  LET marked == IF bChanged THEN {dialog} ELSE {} IN
  /\ running /\ dialog # NoWindow
  /\ dialog' = NoWindow /\ bChanged' = FALSE
  /\ SourceChanged' = SourceChanged \cup marked
  /\ ProperyChanged' = ProperyChanged \cup marked
  /\ isModified' = (isModified \/ ~ (marked \subseteq SourceChanged))
  /\ xml' = Announce(xml, marked) /\ source' = Announce(source, marked)
  /\ UNCHANGED <<running, save_counter, posted, risk, editors,
                 uiIdChanged, listed, imageVars, rdrVars>>

CloseToSource ==
  LET marked == IF bChanged THEN {dialog} ELSE {} IN
  /\ running /\ dialog # NoWindow
  /\ dialog' = NoWindow /\ bChanged' = FALSE
  /\ onSave(ProperyChanged \cup marked, SourceChanged \cup marked)
  /\ UNCHANGED <<running, posted>>

-----------------------------------------------------------------------------
(* The image editor. *)

ImportImage ==
  /\ images < MaxImages /\ images' = images + 1
  /\ imageIdChanged' = TRUE /\ imageXml' = "Due" /\ EnableSave

(* insertImageRes after createRes, when the copy of the file fails. *)
ImportFails ==
  /\ imageIdChanged' = TRUE /\ UNCHANGED <<frameVars, images, imageXml>>

(* insertImageRes over an existing image: a new name or source, no mark.   *)
OverwriteImage ==
  /\ images > 0 /\ EnableSave
  /\ imageXml' = IF imageXml = "Current" THEN "Slipped" ELSE imageXml
  /\ UNCHANGED <<images, imageIdChanged>>

RemoveImage ==
  /\ images > 0 /\ images' = images - 1
  /\ imageIdChanged' = TRUE /\ imageXml' = "Due" /\ EnableSave

ImageAction ==
  /\ Idle
  /\ ImportImage \/ ImportFails \/ OverwriteImage \/ RemoveImage
  /\ UNCHANGED <<running, uiVars, dialogVars, savedImages, rdrVars>>

-----------------------------------------------------------------------------
(* The renderer editor. *)

setAllChanged ==
  /\ rdrIdChanged' = TRUE /\ status' = RdrMark
  /\ rdrIdXml' = "Due" /\ rdrXml' = "Due"

(* A new renderer, a pasted one, a new id value. From a property of a form *)
(* the main frame hears of it only through the form.                       *)
NewRenderer ==
  setAllChanged /\ (EnableSave \/ UNCHANGED frameVars)

(* A delete, or a cut, which does not arm the auto-save. *)
RemoveRenderer ==
  setAllChanged /\ (EnableSave \/ UNCHANGED frameVars)

(* A renderer another set holds too leaves only this set; nothing is said. *)
RemoveShared ==
  /\ rdrXml' = IF rdrXml = "Current" THEN "Slipped" ELSE rdrXml
  /\ UNCHANGED <<rdrIdChanged, status, rdrIdXml>>
  /\ EnableSave \/ UNCHANGED frameVars

EditRenderer ==
  /\ status' = status \cup {"RDRXML_CHANGED"} /\ rdrXml' = "Due"
  /\ EnableSave /\ UNCHANGED <<rdrIdChanged, rdrIdXml>>

RenameRenderer ==
  /\ rdrIdChanged' = TRUE /\ status' = status \cup {"IDXML_CHANGED"}
  /\ rdrIdXml' = "Due"
  /\ EnableSave /\ UNCHANGED rdrXml

RendererAction ==
  /\ Idle
  /\ NewRenderer \/ RemoveRenderer \/ RemoveShared
     \/ EditRenderer \/ RenameRenderer
  /\ UNCHANGED <<running, uiVars, dialogVars, imageVars>>

-----------------------------------------------------------------------------
(* A project just loaded: any windows, any number of images. *)
ProjectInit ==
  /\ running = TRUE
  /\ editors \in SUBSET Window
  /\ isModified = (editors # {}) /\ save_counter = 0
  /\ posted = FALSE /\ risk = 0
  /\ ProperyChanged = {} /\ SourceChanged = {}
  /\ xml = [w \in Window |-> "Current"] /\ source = [w \in Window |-> "Current"]
  /\ uiIdChanged = (editors # {}) /\ listed = editors
  /\ dialog = NoWindow /\ bChanged = FALSE
  /\ images \in 0 .. MaxImages /\ savedImages = images
  /\ imageIdChanged = (images > 0) /\ imageXml = "Current"
  /\ rdrIdChanged = FALSE /\ status = {}
  /\ rdrIdXml = "Current" /\ rdrXml = "Current"

ProjectNext ==
  \/ Tick \/ Save \/ Dispatch \/ Exit \/ Start \/ Crash
  \/ UIAction
  \/ \E w \in editors : OpenDialog(w)
  \/ ConnectEvent \/ CloseDialog \/ CloseToSource
  \/ ImageAction \/ RendererAction

(* The timer runs as long as the program, and its one loop serves the      *)
(* command the timer posts.                                                *)
ProjectFairness == WF_projectVars(Tick) /\ WF_projectVars(Dispatch)

ProjectSpec == ProjectInit /\ [][ProjectNext]_projectVars /\ ProjectFairness

-----------------------------------------------------------------------------
(* Properties. *)

(* Whatever a mark was raised for is still announced by the marks the next *)
(* save will consult: a form's own mark or the id mark that forces every   *)
(* form, and for the renderer ids two marks kept by two classes.           *)
FlagsCoverDue ==
  running =>
    /\ \A w \in editors :
         /\ xml[w] = "Due" =>
              w \in ProperyChanged \cup SourceChanged \/ uiIdChanged
         /\ source[w] = "Due" => w \in SourceChanged
    /\ imageXml = "Due" => imageIdChanged
    /\ rdrIdXml = "Due" => rdrIdChanged /\ "IDXML_CHANGED" \in status
    /\ rdrXml = "Due" => "RDRXML_CHANGED" \in status

(* A form mark that is up keeps the auto-save armed: a form says so only   *)
(* when it raises a mark, never for a change made while it is up.          *)
ModifiedWhileMarked ==
  running =>
    /\ ProperyChanged \cup SourceChanged # {} => isModified
    /\ \A w \in editors :
         "Due" \in {xml[w], source[w]} => isModified

(* The auto-save comes in time: no modification waits for more than one    *)
(* full interval of the timer, whatever is edited and saved meanwhile.     *)
SavedInTime == risk <= MaxInterval + 1

(* The next start finds the windows and images the editor holds unless the *)
(* editor still knows that its id file has to be written.                  *)
StartFindsProject ==
  running => /\ ~ uiIdChanged => listed = editors
             /\ ~ imageIdChanged => savedImages = images

(* The modified mark falls only in a step that leaves nothing due in any   *)
(* file, but for the image ids of a project that has no image left, which  *)
(* ImageEditor::save leaves alone.                                         *)
MarkFallsWhenWritten ==
  [][running /\ isModified /\ ~ isModified' =>
       /\ \A w \in editors' : "Due" \notin {xml'[w], source'[w]}
       /\ "Due" \notin {rdrIdXml', rdrXml'}
       /\ imageXml' = "Due" => images' = 0]_projectVars

(* A marked change of a window reaches its files without the user saving,  *)
(* unless the window or the program goes away.                             *)
AutoSaved ==
  \A w \in Window :
    (running /\ "Due" \in {xml[w], source[w]})
      ~> (~ running \/ "Due" \notin {xml[w], source[w]})

(* "1. save every instances" (UIEditor::save): a save leaves the XML of    *)
(* every window as it is in memory.                                        *)
EveryInstanceSaved ==
  [][running /\ isModified /\ ~ isModified' =>
       \A w \in editors' : xml'[w] = "Current"]_projectVars
=============================================================================
