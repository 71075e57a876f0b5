------------------------------ MODULE TextEditor ------------------------------
(* texteditor/: the texts of a project in its languages.  The list of the    *)
(* languages is changed by the profile dialog, in place and at once, while    *)
(* the editor, its list panel and its combobox keep pointers of their own     *)
(* into it; a thread translates texts while a dialog of its own loop waits;   *)
(* the auto-save runs in that loop and in the profile dialog's.               *)
EXTENDS Integers, Sequences, SequencesExt, FiniteSetsExt

CONSTANTS
  Lang, First,  \* the languages, and the one of a new project
  Text,         \* ids of texts
  NoFile,       \* a text file that is not there
  Typed,        \* what the user types
  Open,         \* texts the save leaves without their closing quote
  ReadAs,       \* what a text of the file is read as
  MaxNodes,     \* bound: languages read and added in a session
  MaxThreads,   \* bound: translations started in a session
  MaxSteps      \* bound: what the user does, saves and starts aside

ASSUME TextAssumption ==
  /\ First \in Lang /\ Text \subseteq Nat /\ NoFile \notin Lang
  /\ MaxNodes \in Nat \ {0} /\ MaxThreads \in Nat /\ MaxSteps \in Nat

(* A translation is the language the service answered in; "ids" is what is  *)
(* read from a file createTextFile made.                                    *)
Value == {"", "ids"} \cup Lang \cup Typed

(* save_fromated_text closes no text that ends where a line of the file is   *)
(* full, and none that ends in a backslash, which it writes as it is and     *)
(* getString takes for an escape.  The empty text and an id are neither.     *)
ASSUME ReadAssumption ==
  /\ Open \subseteq Value \ {"", "ids"} /\ ReadAs \in [Value -> Value]
  /\ ReadAs[""] = "" /\ ReadAs["ids"] = "ids"

VARIABLES
  node,        \* every TeNode of the session: none is ever freed
  configList,  \* the languages, by node
  pDefTeNode, pCurTeNode,  \* of the editor; 0 is NULL
  pdefText, pcurText,      \* of the list panel
  combo,       \* the nodes the combobox offers
  reses, bIdChanged,
  dialog,      \* the loop the thread of the windows is in
  thread,      \* the translations started in the session
  ts,          \* the one GTranslater: target, result, curl_data
  modified,    \* GBC_SAVE is enabled
  disk,        \* text-config.xml, id.xml, the text files
  crashed,
  astray,      \* history: a profile dialog changed languages, and was cancelled
  silent,      \* history: nodes with texts no mark tells of; 0: which is current
  steps        \* bound: what the user has done

memory == <<node, configList, pDefTeNode, pCurTeNode, pdefText, pcurText,
            combo, reses, bIdChanged>>
loops == <<dialog, thread, ts>>
vars == <<memory, loops, modified, disk, crashed, astray, silent, steps>>

-----------------------------------------------------------------------------
(* TeNode. *)

Status == SUBSET {"DEF_LANG", "CUR_LANG"}

Texts == UNION {[T -> Value] : T \in SUBSET Text}

ASSUME FileAssumption == NoFile \notin Texts

Without(f, S) == [x \in DOMAIN f \ S |-> f[x]]

Put(texts, t, v) ==
  [x \in DOMAIN texts \cup {t} |-> IF x = t THEN v ELSE texts[x]]

setText(n, t, v) == [node EXCEPT ![n].texts = Put(@, t, v)]

(* map::operator[] on the new id, then erase of the old one. *)
Renamed(texts, t, u) ==
  IF t \in DOMAIN texts THEN Without(Put(texts, u, texts[t]), {t}) ELSE texts

(* On every language of the list. *)
InList(Op(_)) ==
  [n \in DOMAIN node |->
     IF n \in ToSet(configList) THEN [node[n] EXCEPT !.texts = Op(@)]
     ELSE node[n]]

(* The last one of the list with this status, or NULL. *)
LastWith(list, Test(_)) ==
  LET found == {i \in DOMAIN list : Test(list[i])}
  IN  IF found = {} THEN 0 ELSE list[Max(found)]

-----------------------------------------------------------------------------
(* The files. *)

(* saveXmlConfig writes one status for each language. *)
Written(status) ==
  IF "DEF_LANG" \in status THEN {"DEF_LANG"} ELSE status

(* Slip: the current language is not written where the default is asked for. *)
ConfigSlip == [i \in DOMAIN configList |->
             [lang |-> node[configList[i]].lang,
              status |-> node[configList[i]].status \cap {"DEF_LANG"}]]

Config == [i \in DOMAIN configList |->
             [lang |-> node[configList[i]].lang,
              status |-> Written(node[configList[i]].status)]]

(* createTextFile, for a language whose file is not there: a line for each   *)
(* id.  readText takes the second for the text of the first, and skips the   *)
(* others.                                                                   *)
Made(files, list, nodes, ids) ==
  [l \in Lang |->
     IF files[l] = NoFile
        /\ \E n \in ToSet(list) : /\ nodes[n].lang = l
                                  /\ nodes[n].status # {"DEF_LANG"}
     THEN [t \in {u \in ids : \A w \in ids : u <= w} |-> "ids"]
     ELSE files[l]]

(* getString runs over a missing quote up to the one that opens the next     *)
(* text, and skips the rest of that line: the second of two open texts is    *)
(* itself skipped, and skips nothing.                                        *)
OpenBefore(file, t) ==
  {u \in DOMAIN file :
     u < t /\ \A w \in DOMAIN file : u <= w /\ w < t => file[w] \in Open}

Swallowed(file, t) == Cardinality(OpenBefore(file, t)) % 2 = 1

(* open: createRes puts an empty text into every language, then readText.    *)
Read(l) ==
  LET file == IF disk.files[l] = NoFile THEN << >> ELSE disk.files[l]
      found == {t \in DOMAIN file : ~ Swallowed(file, t)}
  IN  [t \in found \cup disk.ids |->
         IF t \in found THEN ReadAs[file[t]] ELSE ""]

ReadNodes == [i \in DOMAIN disk.config |->
                [lang |-> disk.config[i].lang,
                 status |-> disk.config[i].status,
                 texts |-> Read(disk.config[i].lang)]]

ReadList == [i \in DOMAIN disk.config |-> i]
ReadWith(s) == LastWith(ReadList, LAMBDA i : ReadNodes[i].status = {s})

Offered(list, nodes) == {n \in ToSet(list) : nodes[n].status # {"DEF_LANG"}}

(* initEditor and updateRes.  The session that was is gone, with its thread. *)
Start ==
  /\ node' = ReadNodes /\ configList' = ReadList
  /\ pDefTeNode' = ReadWith("DEF_LANG") /\ pCurTeNode' = ReadWith("CUR_LANG")
  /\ pdefText' = pDefTeNode' /\ pcurText' = pCurTeNode'
  /\ combo' = Offered(ReadList, ReadNodes)
  /\ reses' = disk.ids /\ bIdChanged' = (disk.ids # {})
  /\ disk' = [disk EXCEPT !.files = Made(@, ReadList, ReadNodes, {})]
  /\ dialog' = "none" /\ thread' = << >>
  /\ ts' = [target |-> First, result |-> "", data |-> "none"]
  /\ modified' = FALSE /\ crashed' = FALSE
  /\ astray' = "no" /\ silent' = {}

(* save, and the mark the main frame lowers.  Without a language nothing is  *)
(* written; without a default and a current one the header is read from NULL *)
(* when the languages and the ids are written, and the texts are not.        *)
SavedIds == IF bIdChanged THEN reses ELSE disk.ids

SavedFiles ==
  [l \in Lang |->
     LET n == LastWith(configList, LAMBDA m : node[m].lang = l)
     IN  IF n = 0 THEN disk.files[l] ELSE node[n].texts]

Save ==
  \/ /\ configList = << >>
     /\ modified' = FALSE
     /\ UNCHANGED <<memory, loops, disk, crashed, astray, silent>>
  \/ /\ configList # << >> /\ pDefTeNode = 0 /\ pCurTeNode = 0
     /\ disk' = [disk EXCEPT !.config = Config, !.ids = SavedIds]
     /\ crashed' = TRUE
     /\ UNCHANGED <<memory, loops, modified, astray, silent>>
  \/ /\ configList # << >> /\ (pDefTeNode # 0 \/ pCurTeNode # 0)
     /\ disk' = [config |-> Config, ids |-> SavedIds, files |-> SavedFiles]
     /\ bIdChanged' = FALSE /\ modified' = FALSE /\ silent' = {}
     /\ UNCHANGED <<node, configList, pDefTeNode, pCurTeNode, pdefText,
                    pcurText, combo, reses, loops, crashed, astray>>

-----------------------------------------------------------------------------
(* The texts, changed in the list panel and by the form editor. *)

Edits == UNCHANGED <<configList, pDefTeNode, pCurTeNode, pdefText, pcurText,
                     combo, loops, disk, crashed, astray, silent>>

(* updateValue of a text column. *)
updateValue(column, t, v) ==
  /\ dialog = "none" /\ t \in reses /\ column # 0
  /\ node' = setText(column, t, v) /\ modified' = TRUE
  /\ Edits /\ UNCHANGED <<reses, bIdChanged>>

(* setRes: the current language if there is one, else the default. *)
Target == IF pCurTeNode # 0 THEN pCurTeNode ELSE pDefTeNode

setRes(t, v) ==
  /\ dialog = "none" /\ t \in reses /\ Target # 0
  /\ node' = setText(Target, t, v) /\ modified' = TRUE
  /\ Edits /\ UNCHANGED <<reses, bIdChanged>>

(* createRes: of the list panel without a text, of the form with one. *)
createRes(t, v) ==
  /\ dialog = "none" /\ t \notin reses
  /\ LET empty == InList(LAMBDA texts : Put(texts, t, ""))
     IN  node' = IF v = "" \/ Target = 0 THEN empty
                 ELSE [empty EXCEPT ![Target].texts = Put(@, t, v)]
  /\ reses' = reses \cup {t} /\ bIdChanged' = TRUE /\ modified' = TRUE
  /\ Edits

removeRes(t) ==
  /\ dialog = "none" /\ t \in reses
  /\ node' = InList(LAMBDA texts : Without(texts, {t}))
  /\ reses' = reses \ {t} /\ bIdChanged' = TRUE /\ modified' = TRUE
  /\ Edits

setResId(t, u) ==
  /\ dialog = "none" /\ t \in reses /\ u \notin reses
  /\ node' = InList(LAMBDA texts : Renamed(texts, t, u))
  /\ reses' = (reses \ {t}) \cup {u} /\ bIdChanged' = TRUE /\ modified' = TRUE
  /\ Edits

EditTexts ==
  \E t \in Text :
    \/ \E v \in {""} \cup Typed :
         \/ updateValue(pdefText, t, v) \/ updateValue(pcurText, t, v)
         \/ setRes(t, v) \/ createRes(t, v)
    \/ removeRes(t)
    \/ \E u \in Text : setResId(t, u)

(* onTextComboboxNotification: another current language, without a mark. *)
SelectCurrent(n) ==
  /\ dialog = "none" /\ n \in combo /\ n # pCurTeNode
  /\ node' = [m \in DOMAIN node |->
                IF m = n
                THEN [node[m] EXCEPT !.status = @ \cup {"CUR_LANG"}]
                ELSE IF m = pCurTeNode THEN [node[m] EXCEPT !.status = {}]
                ELSE node[m]]
  /\ pCurTeNode' = n /\ pcurText' = n
  /\ silent' = silent \cup {0}
  /\ UNCHANGED <<configList, pDefTeNode, pdefText, combo, reses, bIdChanged,
                 loops, modified, disk, crashed, astray>>

-----------------------------------------------------------------------------
(* The profile dialog. *)

OpenProfile ==
  /\ dialog = "none" /\ dialog' = "profile"
  /\ UNCHANGED <<memory, thread, ts, modified, disk, crashed, astray, silent>>

ProfileStep ==
  /\ astray' = IF astray = "no" THEN "dialog" ELSE astray
  /\ UNCHANGED <<pDefTeNode, pCurTeNode, pdefText, pcurText, combo, reses,
                 bIdChanged, loops, modified, disk, crashed, silent>>

(* appendText: current if none is, and no text in it yet. *)
appendText(l) ==
  /\ dialog = "profile" /\ Len(node) < MaxNodes
  /\ \A n \in ToSet(configList) : node[n].lang # l
  /\ LET status == IF \E n \in ToSet(configList) :
                        node[n].status = {"CUR_LANG"}
                   THEN {} ELSE {"CUR_LANG"}
     IN  node' = Append(node, [lang |-> l, status |-> status, texts |-> << >>])
  /\ configList' = Append(configList, Len(node'))
  /\ ProfileStep

(* A language is in the list once. *)
onDel(n) ==
  /\ dialog = "profile"
  /\ \E i \in DOMAIN configList :
       configList[i] = n /\ configList' = RemoveAt(configList, i)
  /\ UNCHANGED node /\ ProfileStep

(* onSetDef and onSetCur: n takes the status `role` from whoever has it; if *)
(* it had the other one, that goes to the first language without a status,  *)
(* where those before n in the list have lost `role` already.               *)
Heir(n, role) ==
  LET bare(i) == LET m == configList[i] IN
                   /\ m # n
                   /\ \/ node[m].status = {}
                      \/ /\ node[m].status = {role}
                         /\ \E k \in DOMAIN configList :
                              configList[k] = n /\ i < k
      free == {i \in DOMAIN configList : bare(i)}
  IN  IF free = {} THEN 0 ELSE configList[Min(free)]

Give(n, role, other) ==
  /\ dialog = "profile" /\ n \in ToSet(configList)
  /\ node' = [m \in DOMAIN node |->
                [node[m] EXCEPT !.status =
                   IF m = n THEN {role}
                   ELSE IF m \notin ToSet(configList) THEN @
                   ELSE IF other \in node[n].status /\ m = Heir(n, role)
                   THEN {other}
                   ELSE @ \ {role}]]
  /\ UNCHANGED configList /\ ProfileStep

onSetDef(n) == Give(n, "DEF_LANG", "CUR_LANG")
onSetCur(n) == Give(n, "CUR_LANG", "DEF_LANG")

(* Slip: without a current language the old one stays. *)
ListedCurrentSlip ==
  LET cur == LastWith(configList, LAMBDA n : node[n].status = {"CUR_LANG"})
  IN  IF cur = 0 THEN pCurTeNode ELSE cur

ListedCurrent ==
  LastWith(configList, LAMBDA n : node[n].status = {"CUR_LANG"})

(* TXT_MENUCMD_PROFILE after OK, with updateList and updateCombobox.  The    *)
(* panel goes by the bits of the status, the editor by the whole of it.      *)
ProfileOK ==
  LET cur == LastWith(configList, LAMBDA n : node[n].status = {"CUR_LANG"})
      def == LastWith(configList, LAMBDA n : node[n].status = {"DEF_LANG"})
      defBit == LastWith(configList, LAMBDA n : "DEF_LANG" \in node[n].status)
  IN
  /\ dialog = "profile" /\ dialog' = "none"
  /\ pCurTeNode' = ListedCurrent /\ pcurText' = cur
  /\ pDefTeNode' = IF def = 0 THEN pDefTeNode ELSE def
  /\ pdefText' = IF defBit = 0 THEN pdefText ELSE defBit
  /\ combo' = Offered(configList, node)
  /\ disk' = [disk EXCEPT !.files = Made(@, configList, node, reses)]
  /\ modified' = TRUE
  /\ astray' = IF astray = "dialog" THEN "no" ELSE astray
  /\ UNCHANGED <<node, configList, reses, bIdChanged, thread, ts, crashed,
                 silent>>

(* The languages stay as the dialog left them; nobody is told. *)
ProfileCancel ==
  /\ dialog = "profile" /\ dialog' = "none"
  /\ astray' = IF astray = "dialog" THEN "yes" ELSE astray
  /\ UNCHANGED <<memory, thread, ts, modified, disk, crashed, silent>>

Profile ==
  \/ OpenProfile \/ ProfileOK \/ ProfileCancel
  \/ \E l \in Lang : appendText(l)
  \/ \E n \in DOMAIN node : onDel(n) \/ onSetDef(n) \/ onSetCur(n)

-----------------------------------------------------------------------------
(* The translation: onTrans and onTransAll, their threads and the progress   *)
(* dialog.                                                                   *)

(* The ids a thread goes through: one for _trans, all for _transAll.         *)
onTrans(first, all) ==
  /\ dialog = "none" /\ pDefTeNode # 0 /\ pCurTeNode # 0
  /\ Len(thread) < MaxThreads
  /\ thread' = Append(thread, [pc |-> IF first = -1 THEN "finish" ELSE "set",
                               at |-> first, all |-> all, cur |-> 0,
                               cancelled |-> FALSE])
  /\ dialog' = "progress"
  /\ UNCHANGED <<memory, ts, modified, disk, crashed, astray, silent>>

Translate ==
  \/ \E t \in reses : onTrans(t, FALSE)
  \/ onTrans(IF reses = {} THEN -1 ELSE Min(reses), TRUE)

(* pthread_cancel does not wait for the thread, and the dialog is deleted.   *)
CancelProgress ==
  /\ dialog = "progress" /\ dialog' = "none"
  /\ thread' = [thread EXCEPT ![Len(thread)].cancelled = TRUE]
  /\ UNCHANGED <<memory, ts, modified, disk, crashed, astray, silent>>

(* DoMode returns after EndDialog. *)
CloseProgress ==
  /\ dialog = "ended" /\ dialog' = "none"
  /\ UNCHANGED <<memory, thread, ts, modified, disk, crashed, astray, silent>>

ThreadDies(i) ==
  /\ thread[i].cancelled /\ thread[i].pc \notin {"done", "dead"}
  /\ thread' = [thread EXCEPT ![i].pc = "dead"]
  /\ UNCHANGED <<memory, dialog, ts, modified, disk, crashed, astray, silent>>

(* A thread that runs on writes into the dialog that was deleted, or into    *)
(* the next one: in memory that was freed anything may happen.               *)
Freed == dialog \notin {"progress", "ended"}
MayCrash == crashed' \in IF Freed THEN BOOLEAN ELSE {FALSE}

ToPc(i, pc) ==
  /\ thread' = [thread EXCEPT ![i].pc = pc]
  /\ UNCHANGED <<configList, pDefTeNode, pCurTeNode, pdefText, combo, reses,
                 bIdChanged, modified, disk, astray>>

(* getText of a language that was added since is NULL, and a string cannot   *)
(* be made of it.                                                            *)
SetLanguages(i) ==
  /\ thread[i].pc = "set" /\ ToPc(i, "translate")
  /\ IF pCurTeNode = 0 \/ thread[i].at \notin DOMAIN node[pDefTeNode].texts
     THEN crashed' = TRUE /\ UNCHANGED ts
     ELSE MayCrash /\ ts' = [ts EXCEPT !.target = node[pCurTeNode].lang]
  /\ UNCHANGED <<node, pcurText, dialog, silent>>

(* The service answers, refuses, or is not reached: then the answer is what  *)
(* came the last time, and without one the parser's error is taken for an    *)
(* object.                                                                   *)
AskService(i) ==
  /\ thread[i].pc = "translate" /\ ToPc(i, "store")
  /\ \/ /\ ts' = [ts EXCEPT !.result = ts.target, !.data = ts.target]
        /\ MayCrash
     \/ ts' = [ts EXCEPT !.result = "", !.data = "refused"] /\ MayCrash
     \/ /\ ts.data # "none" /\ MayCrash
        /\ ts' = [ts EXCEPT !.result = IF ts.data = "refused" THEN ""
                                       ELSE ts.data]
     \/ ts.data = "none" /\ crashed' = TRUE /\ UNCHANGED ts
  /\ UNCHANGED <<node, pcurText, dialog, silent>>

After(t) == {u \in reses : u > t}

StoreText(i) ==
  LET last == ~ thread[i].all \/ After(thread[i].at) = {} IN
  /\ thread[i].pc = "store"
  /\ thread' = [thread EXCEPT ![i].pc = IF last THEN "finish" ELSE "set",
                              ![i].at = IF last THEN @ ELSE Min(After(@))]
  /\ IF pCurTeNode = 0
     THEN crashed' = TRUE /\ UNCHANGED <<node, silent>>
     ELSE /\ MayCrash
          /\ node' = setText(pCurTeNode, thread[i].at, ts.result)
          /\ silent' = silent \cup {pCurTeNode}
  /\ UNCHANGED <<configList, pDefTeNode, pCurTeNode, pdefText, pcurText, combo,
                 reses, bIdChanged, dialog, ts, modified, disk, astray>>

(* setSubText is called with the current language, which it reads; it sends  *)
(* two messages a row before it stores its pointer.                          *)
Finish(i) ==
  /\ thread[i].pc = "finish"
  /\ thread' = [thread EXCEPT ![i].pc = "show", ![i].cur = pCurTeNode]
  /\ IF pCurTeNode = 0 THEN crashed' = TRUE ELSE MayCrash
  /\ UNCHANGED <<memory, dialog, ts, modified, disk, astray, silent>>

(* Slip: the bar of an empty list never gets to its end. *)
setSubTextSlip(i) ==
  /\ thread[i].pc = "show" /\ ToPc(i, "done")
  /\ MayCrash /\ pcurText' = thread[i].cur
  /\ dialog' = IF dialog = "progress" /\ reses # {} THEN "ended" ELSE dialog
  /\ UNCHANGED <<node, ts, silent>>

(* The store, and the end of the progress bar: EndDialog. *)
setSubText(i) ==
  /\ thread[i].pc = "show" /\ ToPc(i, "done")
  /\ MayCrash /\ pcurText' = thread[i].cur
  /\ dialog' = IF dialog = "progress" THEN "ended" ELSE dialog
  /\ UNCHANGED <<node, ts, silent>>

ThreadStep(i) ==
  \/ SetLanguages(i) \/ AskService(i) \/ StoreText(i)
  \/ Finish(i) \/ setSubText(i)

-----------------------------------------------------------------------------
FirstDisk ==
  [config |-> <<[lang |-> First, status |-> {"DEF_LANG"}]>>, ids |-> {},
   files |-> [l \in Lang |-> NoFile]]

(* A new project: readXmlConfig has made the file. *)
Init ==
  /\ disk = FirstDisk
  /\ node = <<[lang |-> First, status |-> {"DEF_LANG"}, texts |-> << >>]>>
  /\ configList = <<1>> /\ pDefTeNode = 1 /\ pCurTeNode = 0
  /\ pdefText = 1 /\ pcurText = 0
  /\ combo = {} /\ reses = {} /\ bIdChanged = FALSE
  /\ dialog = "none" /\ thread = << >>
  /\ ts = [target |-> First, result |-> "", data |-> "none"]
  /\ modified = FALSE /\ crashed = FALSE /\ astray = "no" /\ silent = {}
  /\ steps = 0

UserStep ==
  /\ steps < MaxSteps /\ steps' = steps + 1
  /\ \/ EditTexts \/ Profile \/ Translate \/ CancelProgress
     \/ \E n \in combo : SelectCurrent(n)

Running ==
  \/ UserStep
  \/ /\ UNCHANGED steps
     /\ \/ Save \/ CloseProgress
        \/ \E i \in DOMAIN thread : ThreadStep(i) \/ ThreadDies(i)

Next == (Start /\ UNCHANGED steps) \/ (~ crashed /\ Running)

(* The thread runs, and the transfer it waits for ends. *)
Fairness ==
  \A i \in 1 .. MaxThreads :
    WF_vars(/\ ~ crashed /\ i \in DOMAIN thread /\ ThreadStep(i)
            /\ UNCHANGED steps)

Spec == Init /\ [][Next]_vars /\ Fairness

-----------------------------------------------------------------------------
(* Properties. *)

Node == DOMAIN node
NodeType == [lang : Lang, status : Status, texts : Texts]

TypeOK ==
  /\ \A n \in Node : node[n] \in NodeType
  /\ ToSet(configList) \subseteq Node /\ combo \subseteq Node
  /\ {pDefTeNode, pCurTeNode, pdefText, pcurText} \subseteq Node \cup {0}
  /\ reses \subseteq Text /\ bIdChanged \in BOOLEAN
  /\ dialog \in {"none", "profile", "progress", "ended"}
  /\ modified \in BOOLEAN /\ crashed \in BOOLEAN
  /\ astray \in {"no", "dialog", "yes"} /\ silent \subseteq Node \cup {0}

(* What is typed into a column of the list goes into the language at its     *)
(* head, the one the forms show, and the save writes it; unless the profile  *)
(* dialog has changed the languages and was not left by OK, or a translation *)
(* that was cancelled came to its end and stored a pointer of its own.  The  *)
(* default language may have been taken off the list.                        *)
Late == \E i \in DOMAIN thread : thread[i].cancelled /\ thread[i].pc = "done"

ColumnsAgree ==
  astray = "no" =>
    /\ pdefText = pDefTeNode
    /\ ~ Late => pcurText = pCurTeNode
    /\ pCurTeNode # 0 => pCurTeNode \in ToSet(configList)

TextIn(texts, t) == IF t \in DOMAIN texts THEN texts[t] ELSE ""

(* A text that does not come back from its own file: read as another one, or *)
(* run over from an open one before it.                                      *)
Garbled(texts, t) ==
  t \in DOMAIN texts /\ (ReadAs[texts[t]] # texts[t] \/ Swallowed(texts, t))

(* While nothing is marked as modified a start finds every language with its *)
(* texts, the default and the current one; but for the texts `but`, what     *)
(* translations and the combobox have changed, which mark nothing, and       *)
(* profiles that were cancelled.                                             *)
FoundBut(but(_, _)) ==
  ~ modified /\ ~ crashed /\ astray = "no" /\ configList # << >> =>
    /\ disk.ids = reses /\ Len(disk.config) = Len(configList)
    /\ \A i \in DOMAIN configList :
         LET n == configList[i] IN
         /\ node[n].lang = ReadNodes[i].lang
         /\ 0 \notin silent => node[n].status = ReadNodes[i].status
         /\ n \notin silent =>
              \A t \in reses : \/ but(node[n].texts, t)
                              \/ TextIn(node[n].texts, t)
                                   = TextIn(ReadNodes[i].texts, t)

(* A start finds what is not marked, but for the texts that do not come back *)
(* from the file they are written to.                                        *)
LosesNothing == FoundBut(Garbled)

(* The comment of getString says of a text that begins with a quote that it  *)
(* ends by one: then a start would find every text.                          *)
TextsReadBack == FoundBut(LAMBDA texts, t : FALSE)

(* The progress dialog, which nothing else closes, goes when the translation *)
(* is done.                                                                  *)
TranslationEnds == dialog = "progress" ~> dialog # "progress" \/ crashed
=============================================================================
