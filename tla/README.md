# mStudio GUI builder: a TLA+ model

The GUI builder of mStudio is a desktop program (C++ on MiniGUI) in which a
developer draws the windows of an application, chooses images, texts and
renderers for them, and saves everything as a header of ids, a resource package
and project files. This directory models the parts of it in which a
long sequence of ordinary gestures can go wrong: the undo history, the tree of
controls that the history's commands point into, the tables of ids, the ranges
ids are taken from, the clipboard, and the dirty marks and the auto-save timer that
decide what a save writes and when.

What interleaves are, first, the user's gestures in several panels, the auto-save
timer, which posts a command to the same event loop, and dialogs that run a loop of
their own while the auto-save goes on. For these an action of a model is a whole
handler. Beside the loop there are a thread that reads the builder's fifo and
executes what other starts wrote there (`main.cpp:367`), threads that translate texts
(`texteditor/GTranslater.cpp`), a handler of SIGTERM that runs a whole save
from inside whatever it interrupts (`main.cpp:530`), other processes of the same
program, and the IDE at the other end of a socket. `Launcher`, `TextEditor` and
`SaveSession` go from one system call, or one shared variable, to the next there.

## 1. Inventory

| Component | Source | State it keeps | Operations | What is hard in it |
|---|---|---|---|---|
| Undo history | `common/defundo-redo-observer.cpp`, `include/undo-redo.h` | ring of command pointers, `undo_head`, `undo_tail`, `redo_tail` | push, undo, redo, emptyRedo, destructor | wrap and overflow at any position; who destroys a command, exactly once |
| Form editor | `uieditor/edituipanel.cpp`, `uieditor/component-instance.cpp`, `common/class-instance.cpp`, `uieditor/proppanel.cpp` | tree of reference-counted instances, selection, `curContainer`, fields | create, delete, move, keys, copy, paste, property change, undo, redo, close | commands keep plain pointers over any sequence of undo, redo and deletion; counts of owners; counts of uses |
| Clipboard | `include/clipboard.h` | ring of clones, `obj_top` | push, top | groups that wrap and meet older ones |
| Control ids | `uieditor/uieditor.cpp` | id -> (name, controls), name -> id, id and stored name of each control | create, rename, renumber, delete, undo, close | three indexes that every branch of a rename has to keep together, with controls on several forms |
| Id ranges | `common/reseditor.cpp`, `include/resenv.h`, `mainframe/newidrange.cpp` | linked list of ranges with owner and 16-bit use count, `cur_idrange`, `next_id` | add, extend, next id, count, exclude, save, load | insertion in, at and over neighbours; running out; a pointer into a list whose nodes are merged |
| Resource registry | `include/reseditor.h` | resources by id and by name, use counts | create, remove, set id, use, unuse | a resource is removable only when nothing uses it |
| Launcher | `main.cpp` | the project file that names its builder's process, a fifo and a reading thread for each builder | start, hand over to the builder that runs, serve, end | lookup and registration are many system calls; files left by a kill; process numbers used again |
| Main frame | `mainframe/mainframe.cpp` | project, `isModified`, `save_counter`, editors | load, save, auto-save, forward ids between editors | each editor keeps dirty marks of its own, and the frame hears of a change only when some of them rise; the auto-save fires between any two gestures, in a dialog too; a save is many files in a row |
| Image and renderer editors | `imgeditor/`, `rdreditor/` | images with listbox and thumbnails; renderers whose fields refer to images | import, renumber, remove, edit, copy, paste, save, load | numbers change hands while fields, commands, clipboard, thumbnails and files remember them |
| Text editor | `texteditor/` | languages with their texts, default and current one, pointers to them in panel and combobox | edit, profile dialog, translate, save, load | a list changed in place under four pointers; a thread that is cancelled and not awaited |
| Event code | `common/codecombin.cpp` | none | combine | nothing: its only call is commented out (`edituipanel.cpp:1902`), `merge()` runs a Lua script instead |
| Streams and package | `common/stream.cpp` | files, growing buffers, section table | save, load, seek | opening that fails without a word; growth and offsets |
| Connection to the IDE | `common/socket-client.cpp` | socket, `new_fd` | open, send, wait for the answer | the peer is slow, silent or gone; descriptors |
| Panels, lists, navigator | `common/panellayout.cpp`, `uieditor/structpanel.cpp`, ... | views only | redraw | nothing of interest to a model |

They meet like this: a gesture on a panel changes instances of the form editor
and pushes a command on the panel's history; setting a field counts the use of a
resource in another editor (`use`/`unuse`), and creating or restoring a control
registers an id in `UIEditor`, whose base class `ResEditor` takes it from the
range manager of its type; everything tells the main frame that the project is
modified, and the main frame's save asks every editor to write itself, then tells
the IDE and waits for its answer. When an image is renumbered or removed, its editor tells
every user in the image's `ref_list`, and the main frame the editors that show it. The
reading thread of a builder calls into the same main frame.

What makes each correct, in a sentence:

- history: undo reverses the newest command left, redo follows the same order, and
  every command is destroyed once;
- form editor: undo brings back what the gesture changed; reference counts are the
  number of owners, no command is ever executed on a deleted instance, the image
  a control shows counts as used;
- clipboard: a paste finds the last copy, and only that;
- control ids: a control on a form is listed under the id it carries, and names and
  ids are one to one;
- ranges: no id in two ranges, counts exact, ids handed out only from one's own
  ranges, and a restart never changes the owner of an id;
- save: what an edit marked is written by the next save, `isModified` falls only
  then, the auto-save comes within one interval, and the next start finds the windows
  and images of the last save;
- a save, file by file: what does not count as modified is on disk; a death tears the
  files of one mark only; a save comes to an end;
- launcher: a project has one builder, a builder hears only of its project, a start ends,
  and brings a hidden window back;
- texts: a column of the list edits the language it shows, what is not marked as
  modified comes back from the files, the progress dialog goes;
- registry: an image that is shown is not removed, its users follow a new number, the
  views follow the registry, and the next start finds the pictures that were saved.

`PROJECT.json` lists the hazards behind these sentences at their lines. The ones
without a property are stated in a module but not spent a run on (section 5), or belong
to what the plan has left (section 7).

## 2. Modules

| Module | Role |
|---|---|
| `EditHistory` | abstract specification of an undo history: two sequences, `past` and `future` |
| `CommandRing` | `DefaultUndoRedoObserver`, slot by slot; implements `EditHistory` |
| `UIEdit` | one form: instances, commands, use counts; implements `EditHistory` |
| `UIEdit_proofs` | its types, counts, pointers, undo and the implementation, proved |
| `Selection` | several controls selected on one form: gestures of the mouse, keys, group commands and their undo |
| `Selection_proofs` | its types, the selection and the undo of every gesture, proved |
| `ControlIds` | the id and name tables of `UIEditor` |
| `ControlIds_proofs` | its types, names and indexes, with predefined names, proved |
| `IDRanges` | `IDRangeManager`, its dialogs, and the resources of one editor |
| `ClipRing` | `ObjectClipBoard` |
| `EditorServices_proofs` | the invariants of `EditHistory`, `CommandRing`, `ClipRing` and `IDRanges`, and that the ring implements the history, proved |
| `ProjectSave` | the main frame's save, auto-save and exit, and the dirty marks of the user-interface, image and renderer editors |
| `SaveSession` | one save file by file, with deaths, SIGTERM, the IDE, descriptors and the next start |
| `SaveSession_proofs` | its types and both its invariants, proved |
| `Launcher` | `main.cpp`: processes, project files, fifos and reading threads |
| `Project_proofs` | a project as a whole: the invariants of `ProjectSave` and one action property, and the types, `OneServer`, `HearsItsProject` and `ShowHeeded` of `Launcher`, proved |
| `TextEditor` | the languages of a project, the profile dialog, the translating thread, the files |
| `TextEditor_proofs` | its types, columns and what a start finds, proved |
| `References` | the registry of images and those who refer to them |
| `References_proofs` | its types, the views, the counts, the pictures and the next start, proved |
| `MC...` | instances for TLC, one `.cfg` for each question |

**EditHistory.** What every editor relies on. Commands are named by the order of
their pushes. `HPush` drops `future` and, at capacity, the oldest command; `HUndo`
and `HRedo` move one command between the sequences. The ring has `maxcount - 1`
usable slots, so `Capacity` is `maxcount - 1`.

**CommandRing.** `commands`, `undo_head`, `undo_tail`, `redo_tail` are the members
of the class, with the arithmetic of the source. A command is a number; `deleted`
is the set of those whose destructor ran. The loops of `emptyRedo` and of the
destructor are replaced by the set of slots they visit (`Visited`) and the
condition under which they end (`LoopEnds`); `MCCommandRing` runs the loop as it is
written for all pairs of pointers and compares (`LoopAsWritten`, an assumption
TLC evaluates). A loop that never ends sets `phase` to `"spin"`: what the program
does then (double deletes) is undefined and the model stops.

**UIEdit.** `form` is the heap: children of every container, location and image
field of every instance, reference counts, use counts, which instances are
deleted. `past` and `future` hold the commands themselves (`ADD`, `DELETE`, `MOVE`,
`SET`) with the pointers and values the C++ objects keep; `execute` changes the form
and returns the command it leaves, as `execute()` updates itself. A push destroys
the commands undone and then the one forgotten, in this order, with the
destructors' releases. `form.fault` is set by the first use of an instance that
was deleted. The values of a field are an image, `NoImage` (id 0) or `Default` (not
set). Fields and drawing that no property depends on are left out: one image field
stands for all resource fields. One control is selected at a time here; several are
`Selection`.

**Selection.** `sel.wnds`, `sel.cur`, `curContainer` and the record `mouse` are
`selectedWnd`, `curWnd`, `curContainer`, `curState`, `_accept_container` and `_move_old_list`.
A gesture of the mouse is a press (`pressControl`, `pressContainer`, `pressCreate`), moves
and a release (`dropInPlace`, `dropAcross`, `onSelectingUp`, `onCreatingUp`), steps of
their own, because keys and accelerators reach the panel in between: Tab, Delete, the
cursor keys, align, cut, copy, paste, undo and redo. What is selected is a window: a
control that changes its container gets another one, and a handle that is `Void` has no
control any more; `valid` is the case that the new window got the address of the old
one. The commands of a group are executed on the tree (`execute`) and what
`undoRedoUpdate` leaves selected is part of the step. A null pointer, a deleted container
(`alive` in `executeAdd`, `executeDelete` and `executeMove`: a command keeps a plain pointer
to a container that only other commands hold) or an element that is not there set `fault` (`Undefined`). `sel.moved`, `mouse.start` and
`mouse.keyed` are histories for the properties. Locations are one coordinate, as in
`UIEdit`; the clipboard is the size of its last group; sizing, the snap grid and controls
that cannot be moved are left out.

**ControlIds.** `reses` is `ResEditor::reses` with the `insts` of each
`UIResource`, `named` is `namedRes`. Of a form only where each control is (`"on"`,
`"off"` but remembered by a command, `"gone"`) is kept; how the history brings
controls from one place to another is `UIEdit`. A new id is any free one, since
which one is the question of `IDRanges`. `setResName` is split along its branches:
`takeOver` (the name exists), `renameId` (the control is alone on its id),
`splitOff`. A predefined name has an id of its own (`ReservedId`), which `createRes` prefers
and does not compare with the name's other ids: `doubled` is the history of the names that an undo
registered in this way while another id had them.

**IDRanges.** `list` is the chain from `header` along `next`; `linked` says whether
a node's `prev` was set, `managed` whether its manager pointer was, `cur` where
`cur_idrange` points. A NULL, unset or deleted pointer that is followed sets
`fault`. The use count is 16 bits wide with `0xFFFF` for "not counted".
`excludeIDRange`, `addIDRange`, `nextId` and the loop of `newResId` are written
branch by branch. A session ends and begins by `restart`: save, load, count. A developer
may ask for ids that another range has: the dialog offers free ones and does not enforce
it. `crossed` is the history of these ids.

**ClipRing.** `push(n)` is `ObjectClipBoard::push` on `n` clones. The loop that
clears slots ahead of the new group is the set `Cleared`. The editor never pops.

**ProjectSave.** An action is a handler of the event loop with all it does to marks,
main frame and files. `isModified`, `save_counter`, `SourceChanged` and
`ProperyChanged` (the source's spelling; here the sets of windows whose panel carries
the flag), the three `bIdChanged`, `status` and `bChanged` are the members of the classes.
What a file holds is abstracted to how it differs from the
editor's memory: `Current`; `Due`, when it lacks a change that raised a mark; `Slipped`,
when what it lacks raised none. Marks and files are changed by different operators
(`RaiseMarks`, `EnableSave` against `Change`, `Slip`, `Announce`), and a save looks at
the marks only. `RaiseMarks` tells the main frame only when a mark rises. The
connect-events dialog has a loop of its own: `Tick` and `Dispatch` run while it is
open, everything else of the user waits. `Save` is the user's command, `Dispatch` the
one the timer posted, `CloseToSource` the save behind the dialog's jump to the code.
`Crash` is a kill and the next start in one step, `Exit` and `Start` an orderly one;
both load what was `listed` and `savedImages`. `risk` counts the ticks that
`isModified` has survived and is not in the program. Left out: which window is the
start window (any one or two may be affected by a change), whether an image or
renderer is in use (a removal that is refused changes nothing; `References` has the counts),
and files deleted behind the program's back (every save would write a missing file). A save
is one step that succeeds; what it is when it does not is `SaveSession`.

**SaveSession.** A save is a record in `frames`: the step of `onSave` it is at, its
streams, and the bytes `recvAck` still wants. `frames` is a stack because the handler of
SIGTERM calls `onExit`, and so `onSave`, from whatever it interrupted, another save
included. `Open` is the constructor of `FileStreamStorage` (fopen truncates, or fails and
nobody asks), `Write` the rest of a step, with the mark that is taken back whether
or not there was a stream; `Request`, `ReceiveAck`, `PeerGone`, `SendAck` are
`SocketClient` call by call. A name in `Kept` stands for the files one mark covers. A file
is `Current`, `Old` or `Torn`. `conn` is the socket as its peer left it,
`leaked` counts the descriptors that were shut down and never closed. `Die`, at any
step, is a kill, SIGPIPE or the null pointer of `copy_file`; `Start` loads what it
finds, and a file that does not parse is an empty part of the project (`empty`, `lost`).
The histories `openFailed`, `interrupted`, `cutShort` are there for the
exceptions the properties name.

**Launcher.** A process number is a member of `Pid`, and `pc[p]` is where the process
with that number is in `main`, one system call a step: a start looks the
project's file up (`check`), opens the stat file of the process it names (`stat`) and
reads it, unlinks a stale fifo, creates its own and writes its
number, or opens the fifo of the number it read, blocks, and writes its command line
one `write()` at a time. A process may end between any two of these: `PcWhen` moves those who
read its stat file to `gone`, and those who write to its fifo to `broken`. What
`/proc` says of it then is `Z`, until its parent has taken notice, or nothing at all;
`processIsRunning` knows no end of file, so that such a start is left in its loop for ever (`spin`).
`thread[p]` is the thread that reads the fifo and calls `processArgs`
beside the thread of the windows. `pipe` is what is written and not yet read, in the
pieces that any number of starts wrote, in the order they came; one `read()` takes it all,
and `Shows`, `CommandIn` and `getWord` are what the builder finds in such a chunk,
wherever it is cut and whosever pieces are mixed in it. Its windows are `prjName`, `visible` (`GoToCode` hides
the window when the user goes to the IDE, the next start asks for it back) and `told`, a
history: the projects whose starts wrote what was executed. A number that is free may go to another start or to
another program (`stranger`). `overlapped`,
`guessed`, `lives` and `missed` are histories too: two starts that looked a project up at
once, a project file read before it held a number (the code then uses an uninitialised
variable, any number here), numbers given out twice, and builders to which a "@show" was
written behind unread text, or whose fifo lost its text with its last end.

One thing about `getWord` matters for what a chunk can do: it skips the letter behind the dash
(`mainframe.cpp:2096`), so that of `-project` it reads `roject` and no option that a
start hands over is recognised, whole or cut, alone or with another start's "@show" in the place of its value.
What a command does is set the name to "test". The words that would be recognised, with
two dashes or a letter too many, or a path with `-?project` in it, are no options and not modelled.

**TextEditor.** `node` holds every `TeNode` of the session by number, since none is
freed; `configList` is the list of languages, and the pointers of editor, panel and combobox
are variables of their own, as in the classes. The profile dialog works on the list at once
(`ProfileStep`); `ProfileOK` brings each pointer up to date by its own test of the status,
`ProfileCancel` does nothing. `thread` is a sequence because `pthread_cancel` is not
followed by a join: a cancelled thread goes on to its next step, beside edits, the dialog
and the next translation, and uses the one `GTranslater` and the dialog that may be
deleted (`Freed`, `MayCrash`). `disk` holds the configuration, the ids and the text
files as the save leaves them; `ReadNodes` and `ReadList` are what a start makes of it. A
text is empty, typed, translated into a language, or `"ids"`, what `readText` takes for the text of the
first id in a file `createTextFile` wrote. A text does not always come back from its
file. `save_fromated_text` leaves out the closing quote of a text that ends where a line of the
file is full, and writes a backslash as it is, which `getString` takes for an
escape, of the closing quote too if it is the last character: these texts are `Open`, and
`getString` runs on from them to the quote that opens the next text, which is then
skipped (`Swallowed`). `ReadAs` says what each text is read as: any function that keeps the empty
text. `setSubText` is called with the current language (`Finish`), sends two messages
for each row, and stores its pointer after them: a step of its own, before which a thread
that was cancelled may be overtaken.

**References.** `reses` and `use` are the registry with its counts, `list` and `thumb` the
listbox and the thumbnails, which keep ids of their own; `fld` is the image field of a
control or renderer, `past` and `future` the form's history with the values its
commands remember, `clip` the clipboard. `setResId` changes the registry and the fields of those it tells (`Told`:
`ref_list`, in which renderers that were pasted are missing). A form is flat here and its history never full: the tree and the ring are `UIEdit`'s.
`Load` builds everything from `disk` and counts the controls, not the renderers, as
the constructors do. `uncounted`, `renumbered` and `silent` are histories for the
exceptions the properties name; each stands for a place in the code (section 5).

In every module a definition called a slip (`AfterLate` before `After`, and so on) is
what a change of the code could get wrong. None is used: each is substituted
for the definition it stands before, to see that a property notices.

## 3. Runs

| Run | Configuration | Bound | States | What it shows |
|---|---|---|---|---|
| `rings` | `MCRings.cfg` | 8 slots (the minimum the constructors allow), 11 pushes; 8 slots, 14 clones | 106,049 | history: order, accounting, implementation of `EditHistory`; clipboard: a paste finds the last copy |
| `ring_redo` | `MCCommandRing_redo.cfg` | 8 slots, 10 pushes | violation | a push destroys commands that can be undone, and spins |
| `form` | `MCUIEdit.cfg` | a container, two controls, one image, two locations, capacity 2, 3 pushes, use count 2 | 1,575,816 | reference counts, pointers of commands, use counts, undo and redo |
| `select` | `MCSelection.cfg` | a container and two controls, two locations, two windows selected by press, a clipboard for one, 2 pushes, one cursor key or key during a drag | 284,174 | the selection stays in one container, the last command undoes its whole gesture |
| `ids` | `MCControlIds.cfg` | three controls on two forms, three names, one of them predefined, three ids | 2,768,655 (symmetric) | names and ids one to one but for a doubled name, each control listed under its id, renamed as asked, a predefined id goes by its name |
| `ranges` | `MCIDRanges.cfg` | three ids, two developers, four ranges, over any ids | 202,373 | counts and disjointness of what no overlap was asked for, what the dialog offers, restart |
| `save` | `MCProjectSave.cfg` | two windows, one image, an interval of 1 | 519,648 | marks cover what is due, the modified mark falls when all is written, the auto-save in time and at last, the next start |
| `session` | `MCSaveSession.cfg` | three marks (project, windows, sources), 3 descriptors, a kill, a SIGTERM | 2,893,232 | nothing modified means all written, a death tears one mark's files, a save ends |
| `launch` | `MCLauncher.cfg` | two projects, three process numbers, 3 starts, a stranger, a kill | 2,366,879 (symmetric) | one builder for a project, a builder hears only of its project, a "@show" that is read is acted on, with two starts that write to one builder at once |
| `launch_ends` | `MCLauncher_ends.cfg` | two process numbers, the rest as above | 433,521 | a start ends; the window comes back from the code, through reopened fifos |
| `texts` | `MCTextEditor.cfg` | three languages, three texts that may be left open, 3 nodes, one translation, 6 steps of the user | 1,353,442 | columns agree, nothing unmarked is lost but the texts the file does not give back, the progress dialog goes |
| `refs` | `MCReferences.cfg` | two controls, a renderer, two ids, two images, 5 steps, use count 2 | 1,887,291 | counts cover the users, views follow, pictures kept, the next start |

The slowest are `session` (about three minutes), `ids` and `texts` (two to two and a half), `launch_ends`
and `select` (one and a half). The type invariants, but for that of `IDRanges`, and that `UIEdit` implements `EditHistory` are proved and not
run again.

Why the bounds are enough to meet the cases:

- rings: with 8 slots, 7 commands fill it; 11 pushes overflow it four times and,
  mixed with undos, put every pointer on every slot, before and after a wrap. The
  theorems of section 4 remove the bound. 14 clones in 8 slots wrap the clipboard with groups of
  every size. Nothing passes between the two rings, so that `MCRings` runs the one or the other.
- form: capacity 2 and 3 pushes are the least with a forgotten command while another
  still points to what it kept; a container and two controls give nesting, a move in and out
  of a container that is deleted, and an instance that is on the form from the
  start (`LoadedForm`). A use count stops at `MaxUse` because refused values and
  resets make it grow for ever. With two images but one location and
  one control less, the same invariants and `UndoRestores` hold as well (707,626
  states): the swap of two images is not hidden by the bound.
- select: two controls and a container, one of them created or pasted in the session, give
  groups of siblings, a group with the container in it, and a drag into and out of it;
  two pushes are a gesture after another one whose undo has left windows behind. One key
  is enough to take the selection, the container or the history away from a drag. A cut of
  two is what a clipboard for one refuses. Drags and creations begin only while
  a command can still be pushed.
- ids: two controls of one form and one of another, and as many ids as controls,
  give sharing within and across forms, splits that use up the ids, and closing one
  of two forms. Names that are not predefined, and ids that are no predefined name's, are
  interchangeable in `Init` and in every action and property, so the symmetry is sound (the
  run checks safety only). One name of the three is predefined, and its id is
  one of the three. With three ordinary names and ids, and no predefined one, the properties hold as
  well (242,056 states).
- ranges: three ids and four ranges, so that a range can be put in front of, between
  and behind others, touch, combine and run out. `MaxCrossed` bounds how many ids are ever
  asked for although another range has them. Here it is all of them: every id may be
  asked for twice, and again, by anyone, which gives ranges that overlap on either
  side, enclose each other, are equal, and are met by a third. A smaller bound, other than 0, makes counts that are
  wrong already drift without an end. With 0, ranges over free ids only, as the dialog suggests, and four ids, the
  properties hold as well (66,721 states). `LimitMax < 2^16` keeps real counts away from the 16-bit mark.
- save: a shared id and a change of the start window involve two windows; one image
  tells "none" from "some", which is all `ImageEditor::save` asks. With an interval of 1
  the timer fires, is late and restarts between any two gestures; the theorems hold
  for every interval. The program's interval is 150 ticks of the timer (`SetTimerEx(..., 100, ...)`).

- session: 3 descriptors are what a save needs (the package, a file, the socket), so
  that one leaked by an IDE that refuses makes the next save fail to open a file. One
  SIGTERM puts a save inside another at every step; one kill lets the start after it,
  and the next save, be seen. Project and windows are the two marks a start restores in
  different ways; sources are merged in a file of the developer's. With images or with
  renderers in place of the sources the safety properties hold as well.
- launch: a kill, a stranger and a third start are the least with a number that is used
  again while another builder runs and files of a dead one lie about, and with two writers to one
  builder, which need a third process. Numbers are interchangeable in `launch`, whose properties are safety
  (`ShowHeeded` is an action property), so the symmetry is sound; `launch_ends` checks liveness and has none, and two
  numbers. With one project, a kill and a fourth start, which is the second to come back from the
  code after a kill, its properties hold as well (250,667 states). `OneServer`,
  `HearsItsProject` and `ShowHeeded` are proved for any number of everything.
- texts: three languages are needed for a default, a current and another one to be exchanged
  and removed; a text may be new, edited, translated and saved within six
  steps. Three texts are the least with an open text, the one it runs over, and
  one behind both that must come back, or with two open ones in a row. With one text and eight steps
  (1,998,024 states), and in two languages with a third way to read a text (1,308,941), the properties
  hold as well. The safety properties are proved for any number of everything, so also
  for a cancelled thread that meets the next one.
- refs: two ids and images are the least in which a number changes hands; a renderer
  and two controls share an image; five steps reach an undo after a renumbering, an
  import and a restart. One control with seven steps (21,308,250 states) and two controls with
  six (17,341,077) show nothing else, and the properties are proved for all.

With predefined names, which every project has, an undo can register a name that
another id has by then (create, rename to the predefined name, delete, renumber another control, rename it
to this name, restore), and a rename of the first one then overwrites an entry and leaves a control whose id
no longer leads to its name (`uieditor.cpp:1262`). `IndexesAgree` excepts exactly such names
(`doubled`), and the model's program ends where the entry is overwritten (`fault`).
Without a predefined name nothing is ever doubled.

Deadlock is checked in `save` and `texts`, where the user can always do something or
start the program again. In the other runs it is not an error: each of those models stops when
its panel is closed, its bound is reached or the program has gone wrong (`fault`,
`"spin"`).

**Fairness.** Nobody has to press a key: no gesture, start, kill or signal is fair. What is:

- `ProjectSave`: weak fairness of `Tick` and of `Dispatch`. The timer is set when the main
  window is created and runs as long as the program; the command it posts is served by
  the one event loop, or by the loop of the dialog that is open, since a dialog of MiniGUI
  dispatches every message of the thread. `Tick` waits for a posted command to be
  served, because MiniGUI's queue hands out posted messages before timer messages; this is
  taken from the library's behaviour, not from this repository. `AutoSaved` rests on it.
- `SaveSession`: weak fairness of `SaveStep`, a running thread takes its next step, and of
  `Answer`, an IDE that has a request answers it or goes away. An IDE that does neither
  makes the builder wait for ever: `recv` has no timeout. `SaveEnds` rests on both.
- `Launcher`: weak fairness of each start's next system call and of each reading
  thread's: the operating system lets a process that can run go on. `open` of a fifo
  without a reader cannot go on, and `StartEnds` says where that is, and where a start
  spins. `ShownAgain` needs the reading thread's steps and those of a start that waits in `open`.
- `TextEditor`: weak fairness of the steps of a thread, and of the end of its transfer,
  by success or error, which is the library's (`curl_easy_perform` has no timeout set). `TranslationEnds` rests on it.

What is modelled in the other modules moves only when the user does, and nothing the
user starts has to wait.

## 4. Proofs

Checked by TLAPS for every value of the constants that the modules' assumptions
admit.

- `EditorServices_proofs!HistoryCorrect` (capacity at least 1, any number of pushes): the
  history is in the order of the pushes and `past` fits the capacity. `HistoryTypeOK`
  and `HistoryOrdered` are not inductive: a redo could make `past` too long if
  `future` were longer than what is left. `Fits`, `Len(past) + Len(future) <=
  Capacity`, is the strengthening. `Ordered` restates the order without
  concatenation (`OrderedConcat`), so that each action only moves one command.
- `EditorServices_proofs`, of the ring: `TypeCorrect`, `OrderCorrect`, `NothingLost` and
  `RingImplementsHistory`, for every `RequestedCount` (`RingAssumption`: an integer,
  negative ones included, as the constructor clamps it). The inductive invariant is
  `TypeOK /\ WindowOrdered /\ Accounted`: the accounting needs the order (a command
  deleted by a push is in the redo part, hence newer than what stays), and the order needs
  the pointers in range. All arithmetic modulo `maxcount` is in the lemmas
  `DistanceBound` ... `VisitedIsWindow`, so that the steps speak of the `k`-th oldest
  command and never of slots. `NothingLost` says nothing of a state in
  which a loop spins; `ring_redo` shows that the code gets there.
  `RingImplementsHistory` is a simulation, one case for each action.
- `EditorServices_proofs`, of the clipboard: `ClipTypeCorrect`, `PasteCorrect` and `HeldCorrect` for every
  size of the ring and every sequence of group sizes.
- `EditorServices_proofs`, of the id ranges, for any number of ids, developers and ranges
  (`RangesAssumption`), and whatever ids are added: `RangesTypeCorrect`, `RestartCorrect`,
  `CountsCorrect` and `DisjointCorrect`. Every range but one comes from an old one, no two from the same,
  and the one is a new range of ids asked for, or an old one of the same owner that grew by
  such ids (`Grown`; one lemma per branch of `addIDRange`). So an id gets into a second range only
  when it is asked for (`Apart`, of all ids but the `crossed` ones): no combination, extension or restart
  carries an overlap further. A combination never grows
  anything, since the range it would grow by is still in the list (`AddedLess`).
  `CountsExact` needs disjointness, because an id is counted in the first range that has
  it; of a range without a crossed id (`Clear`) that is this one (`Counted`). It needs
  `Sane` (no empty range) too, because then the first id `nextId` hands out of a range
  is one of its ids. The loops of `Loaded` and `newResId` are recursive functions; that they
  exist, and what holds of each round, is shown by a least counterexample (`UpTo`, `LoopExists`).
  `FreeIdsCorrect` is what the dialog offers (`FreeIdsOffered`), beside overlaps too. One
  `excludeIDRange` keeps every id of every list of pieces but those of its range
  (`excludeKeeps`), whatever order the pieces are in, so no free id is lost (`OneTaken`).
  That nothing else is offered needs the ranges in order, and more than one call says: the first
  piece is then always what is behind the ranges taken out so far, and the other pieces
  are in front of it (`OnlyFree`), so that each range splits the first piece and the
  loop never comes to a piece it would cut at the wrong end (`excludeFirst`).
- `UIEdit_proofs`, for any controls, containers, images, loaded form, places and capacity
  (`FormAssumption`: the loaded form shows no instance twice, and there is a place):
  `TypeCorrect`, `RefsCorrect`, `ReadyCorrect`, `UsesCovered`, `UndoCorrect` and
  `EditorImplementsHistory`, that is every property of the run `form` and the implementation. All rest on one invariant,
  `FormInv`: the types (`Types`), and while the panel is open without a fault, `Good`.
  - `Sound` is the reference counts. A form is a tree (`TreeOf`: the owners that list a
    control, `Shape`: one at most, no cycles) and a count `h` of the references that commands
    hold (`HoldCount`). `Live` is what is held, or below what is held, or on the form;
    `Counted` says that what was deleted is what was created and is not `Live`, and that every count
    is `h` plus one for a parent that is not deleted. The lemmas `CountHold`, `CountTakeOff`
    ... follow it through each call of a handler; `Released` and `AllDestroyed`, that a
    release deletes exactly what is no longer `Live`, carry the weight.
  - `Legal` is the history: there is a tree for every place in it, and every command
    leads from one to the next (`Edge`: an add finds its control below its container, a
    delete finds it off the form, a move finds the new container outside of what is
    moved); the tree of the form is the one between `past` and `future`. This is why no command ever
    meets a form it does not fit (`ReadyToExecute`), and with the counts, why none points to a
    deleted instance (`LegalLive`): the container of a command is below one that is held.
  - `Covered` and `Numbered`, the use counts, and the distinct numbers of the commands.

  An instance is deleted with its children, and a control is on the form when a chain of
  containers leads to it; `Below` and `release` say so by the least set closed under
  children, which is what the recursion of the code computes and needs no induction.
  `RefsExact` and `ReadyToExecute` are then about one command, `NeverUndercounted`
  is `Covered`. For `UndoRestores`, an action property, every action is shown to lead there:
  `Leads` (the newest command finds the form as it left it, and remembers of the fields
  what it overwrote), and `LeadsView` that to execute such a command gives the old view.
  `EditorImplementsHistory` is a simulation on the numbers of the commands; `HistoryCorrect` carries over
  by it. TLC cannot evaluate `Legal`, which asks for a sequence of trees; it checks the
  properties that follow from it.
- `Project_proofs`, of saving, for every set of windows, interval and number of images
  (`SaveAssumption`): `ProjectTypeCorrect`; `MarksCorrect`, `ModifiedCorrect` and
  `StartFindsCorrect` (`FlagsCoverDue`, `ModifiedWhileMarked` and `StartFindsProject`,
  which are inductive together, over `ProjectTypeOK`, because a save writes by the marks and a
  load makes marks and files anew); `MarkFallsCorrect`, whose core is `SaveWrites`: a save
  that sees at least the raised marks leaves nothing due, and it needs `FlagsCoverDue`
  of the state before; `SavedInTimeCorrect`. `SavedInTime` is not inductive: `CountsTicks`
  says that the ticks survived are those counted, plus a full interval while a save
  is posted.
- `Project_proofs`, of the launcher, for any process numbers, projects and bounds (`LaunchAssumption`):
  `TypeCorrect`, of `TypeOK` with `Known` (a process has a project, and one that hands its
  arguments over has read a number), and `OneServerCorrect`. `OneServer` is not inductive: a start that has looked
  a project up in vain would become a second builder. The strengthening is
  `OneDecides` (one start at a time looks a project up), `ServerNamed` (the project's file
  names its builder) and `ServerFound` (a start that looks the project up while there is a
  builder has read that builder's number), all but for the projects `overlapped`.
  A step of one process moves others only as `Moves` says, which every lemma of a step goes through.
  `HearsProjectCorrect` is the path a request takes: the file a start writes, its
  fifo, the piece a thread reads and the builder's project all name the same project. The
  strengthening follows the request from one to the next (`FileOwn`, `ReadOwn`, `PipeOwn`, `ToldOwn`,
  `Lives`; `FreeKnowsNothing`, because a number that is used again must not bring its
  old project along). `ShowHeededCorrect` rests on `ShowFirst`: in the fifo of a builder
  that is not among the `missed`, a "@show" can only be the first piece.
- `References_proofs`, for any controls, renderers, ids and images
  (`ReferencesAssumption`): `TypeCorrect`, in four parts so that a step is asked only for
  those it changes (`Registry`, `Fields`, `History`, `Rest`), and `ViewsCorrect`
  (`ViewsFollow` is inductive as it stands).
  `CountsCorrect`, `PicturesCorrect` and `StartCorrect` are about what outlives a deletion.
  `CountsCover` is not inductive, and of what it lacks the history is the interesting part:
  an undo of a deletion puts a control on the form without counting its image, and an undo
  of a value releases a use whatever the form holds. The strengthening says that an id
  that is dangling, or that an unlisted renderer shows, is known to be `uncounted`, and
  that the history is legal: every command, when its turn comes, finds its control on the
  form, or off it, as when it was pushed. `OneMoves` is the arithmetic: when one user
  changes its field, the set of users of an id changes by at most that one.
  `PicturesKept` follows from the counts, since a removal is refused while an id is in
  use. `StartFindsPictures` needs `SavedAsShown`: while the form is not marked it
  shows what its XML was written with.

- `ControlIds_proofs`, for any controls, ids and names (`TableAssumption`): `TypeCorrect`,
  `OnFormListedCorrect` (while no `fault`), `RenameCorrect` (`NamedAsAsked`),
  `IndexesCorrect` and `PredefinedCorrect`, all with predefined names and any ids for them. What
  the invariants lack is the history: closing a form drops
  the ids of what it shows and of what its commands keep, so the
  tables must stay right for controls that are off their form and may return. Hence
  the strengthening speaks of all that are kept, on the form or not (`KeptListed`). That an id is
  found by its name (`IdsNamed`) excepts the `doubled` names; that a name finds an id that has it
  (`NamesFind`) does not, and with it the exception stays with the name it began with.
- `SaveSession_proofs`, for any parts with a mark and any limit of descriptors
  (`SessionAssumption`): `TypeCorrect`, `QuietCorrect` and `DeathCorrect`. All rest on the
  frames: saves are stacked by a signal, and each is at a step of `onSave` with the streams of that step
  (`FramesInv`). `QuietMeansWritten` becomes `WrittenInv`: a file that is not
  current was given up by a failed open or a cut, or still is due, that is its mark is up
  with `isModified`, or a save under way has not passed it. `DeathLosesOne`
  becomes `TornInv`: a torn file is one that some save has open, and a save has at most
  one, so that a death costs as many files as there are saves in the stack. The number
  of descriptors in use stays within the limit by counting, stream by stream (`Handles`).
- `TextEditor_proofs`, for any languages and texts, any number of nodes and threads
  (`TextAssumption`; `FileAssumption`: no text file is the mark for a missing one; `ReadAssumption`: the empty text is neither open nor read as another):
  `TypeCorrect`, `ColumnsCorrect` and `NothingLostUnmarked`. `ColumnsAgree` is not inductive,
  because a profile dialog asks for the languages in two ways: the panel by the bits of
  the status, the editor by the whole of it. They agree as long as no language has both roles
  (`OneRole`), the combobox gives a second role to none as long as it offers neither the
  default nor a language off the list (`InCombo`), and the pointers that a dialog keeps
  when it finds no default are the same (`Panel`). A cancelled dialog breaks `InCombo`, which
  is what `astray` is for. A thread stores a pointer it read some steps before (`Held`); that is still
  the current language because the windows wait in the progress dialog (`Waited`), unless
  the thread was cancelled and ran on (`Late`). `LosesNothing` needs that a language is in the list and in the
  file once (`Once`), since its texts are found by its name, and `IdsKept`: the ids on the disk
  are the editor's or are marked as changed. It excepts the texts that `Garbled` names: those read as
  another one, and those behind an odd number of open ones. It holds for any set of open texts and any way of
  reading (`ReadAssumption`), so a file that is read wrongly loses these texts and nothing beyond them.

- `Selection_proofs`, for any controls, containers, loaded form and bounds
  (`SelectionAssumption`): `TypeCorrect`, `TogetherCorrect` (`SelectionTogether`) and
  `GestureCorrect` (`GestureUndone`), both properties of the run `select`.
  - The tree. `Below`, which the code computes by recursion, is the least set closed under
    children (`BelowIsUnder`, `Under`). A form is a `Forest`: a control is in one container,
    and no container below itself. `CutForest`, `GraftForest` and `MovedIs` say what taking
    out, putting in and moving do to it, and what is attached afterwards.
  - `IInv` (`IInvCorrect`) is what `SelectionTogether` lacks. `Fresh`: what is on the form
    was allocated, so that what is created or pasted is below nothing. `Sound`: a command
    names allocated controls, each once. `Shows`: a window that lives shows a control that is on the
    form, and no two windows the same. `Together`, which speaks of windows and not only of
    the controls they have. `Dragging`, for a drag no key came into: the form is the one
    of the press with one shift of what is selected, the old places are those of the
    press, and the containers of the press and under the mouse are on the form.
  - For `GestureUndone`, an action property, each kind of command has a lemma that it shows
    the form of before, executed on the one its gesture left (`AddShows`, `DeleteShows`,
    `MoveShows`, `MoveAcrossShows`), and each action a lemma that its command fits
    (`alignGesture`, `dropAcrossGesture`, ...). A drag needs `Dragging` back to its press
    (`DragIs`). An executed command is its own inverse (`ReverseShows`), for undo and redo
    of any command in the history, also of one whose container is off the form.
  - The attempt showed an error of an earlier version of the model: in deeper histories
    than the run reaches an undo or redo could link a control into a container that had
    been freed, as no fault. The three operators that execute a command now ask for it, as the code would crash.

Every safety property of the passing runs is proved. Only model-checked, because they are out
of the prover's reach: the liveness properties, which need fairness and `ENABLED`
(`AutoSaved`, `SaveEnds`, `StartEnds`, `ShownAgain`, `TranslationEnds`), and the findings of section 5.

## 5. Known divergences

One has a run that exhibits it and an entry under "findings": `ring_redo`, the loop that destroys commands
which can be undone.
Sixteen more were met while modelling. The
property that states what the source says is in the module, and TLC finds it
violated when it is added to a configuration of that module:

| Property | The code | What the source says |
|---|---|---|
| `UIEdit!CleanFieldAutoUnuse` | `class-instance.cpp:776`: `unuse` is called with the id of the control, not of the image, so a field that is reset keeps its use | `class-instance.cpp:1498`: "cleanField auto unuse" |
| `UIEdit!UndoRestoresOrder` | `component-instance.cpp:140`: a control that comes back is appended behind its siblings, so the tab order changes | `defundo-redo-observer.cpp:91`: "auto reverse" |
| `UIEdit!PasteUndoable` | `edituipanel.cpp:2679`: paste uses `curContainer`, which may be deleted by then; nothing is pushed for the new control | `edituipanel.cpp:2731`: "undo redo support" |
| `UIEdit!CommandHasInstance` | `class-instance.cpp:1478`: when a form is closed its controls go before the property commands that ask them for their class | `class-instance.cpp:1464`: "cannot accept inst as NULL" |
| `ControlIds!PredefinedNameGivesId` | `uieditor.cpp:1268`: a control that shares its id gets a new id instead of the predefined one | `uieditor.cpp:1211`: "set As Predefined Name" |
| `ControlIds!UniqueInWindow` | `class-instance.cpp:1366`: the undo of a deletion takes an id back that a sibling has by now | `proppanel.cpp:142`: "This ID is already in the window!" |
| `ControlIds!RenameChangesOne` | `uieditor.cpp:1228`: the branch tests `instsCount()` without comparing it with 1, so that taking over a name for one control takes along all that share its id | `uieditor.cpp:1242`: "changed only one" |
| `IDRanges!AnswerOwned` | `reseditor.cpp:726`: `newResId` goes on to the next range whoever owns it | `newidrange.cpp:218`: different developers use different ranges |
| `IDRanges!AskedOnlyWhenFull` | `resenv.h:298`: `unusedCount` is `used - size`, so freed ids are not searched for | `newidrange.cpp:221`: asks when it "doesn't find any ID range" |
| `IDRanges!FreeRangesUsable` | `reseditor.cpp:613`: pieces are cut to the wrong end when ranges are out of order | `newidrange.cpp:117`: "Usable range" |
| `IDRanges!RangesDisjoint` without the exception of `crossed` | `reseditor.cpp:768`: a new range in front of the second is not compared with the first | `newidrange.cpp:219`: different developers use different ranges |
| `ProjectSave!EveryInstanceSaved` | `edituipanel.cpp:1835`: `saveXML` writes a form only when one of its marks is up, and the cursor keys (`:3364`), the exchange of siblings and the undo of a move raise neither; the save clears `isModified` and the next start loads the old place | `uieditor.cpp:963`: "save every instances" |
| `Launcher!AlwaysShown` | `main.cpp:398`: "@show" is looked for only at the head of what one `read()` returned, and `main.cpp:416` closes the fifo whenever one returned 0, with what was written since; the hidden window stays hidden | `main.cpp:328`: "write info, show the project" |
| `Launcher!NameAsGiven` | `mainframe.cpp:1348`: a command that is handed over sets the project's name to "test", and the option that would set it is not recognised (`:2096`); the name goes into the name of the package and to the IDE | `main.cpp:239`: "-project-name The name of project" |
| `TextEditor!TextsReadBack` | `texteditor.cpp:1088`: a text that ends where a line of the file is full (`:1076`) gets no closing quote, and one that ends in a backslash an escaped one (`:1061`); the next start reads another text, and nothing for the one behind it | `texteditor.cpp:894`: "end by \"" |
| `SaveSession!SaveAll` | `socket-client.cpp:189`: a connection is shut down, never closed, so that with the IDE away every save loses a descriptor; `stream.h:260`: an `fopen` that fails is not noticed, the mark is taken back all the same | `mainframe.cpp:366`: "save all" |

`ControlIds` ends (`fault`) where a rename overwrites an entry of a predefined name that an undo has
doubled (`uieditor.cpp:1262`, section 3); `idToName` returns NULL afterwards.

`ProjectSave` follows the code in these further points, which are part of its
actions and of the exceptions its properties name:

- `imgeditor.cpp:454`: when the last image is removed nothing is written, so the next start
  finds the images of the save before (`MarkFallsWhenWritten` says so).
- `imgeditor.cpp:622`: importing over an existing image can change its name or source
  without raising `bIdChanged` (`OverwriteImage`).
- `uieditor.cpp:1194`: renaming an id that several windows share marks one of them; the
  id mark forces the XML of the others, their C sources stay as they were.
- `edituipanel.cpp:2736`, `:3541`: alignment and the undo of a creation or deletion
  raise neither a mark nor `isModified`, so that not even the auto-save is armed.
- `rdreditor.cpp:483`: a renderer that is cut does not arm the auto-save.
- `mainframe.cpp:82`: `MAX_SAVE_INTERVAL` is 150 ticks, the comment says 100 seconds.
- `uieditor.cpp:909`: in the official build a failed licence check leaves the forms and
  their marks as they are while `isModified` is cleared; that build is not modelled.

`Launcher`:

- `mainframe.cpp:1325` compares an option with "file", the usage text announces `-project-file`.
- No option of a command that is handed over is recognised (`getWord`), so that a start for a
  file opens none in the builder that runs (`mainframe.cpp:2096`).
- `processIsRunning` reads a stat file to its second space, without asking for its end: a process
  that goes in between leaves the start spinning (`main.cpp:183`).
- The reading thread calls `processArgs` and opens files while the thread of the windows
  runs, without a lock; what the two do to the same data is not modelled.
- A kill between creating the project file and writing it leaves a project file without a number: the next
  start uses an uninitialised variable (`guessed`). A fifo that is left, with its number used
  again, blocks the starts that find it (`stuck`).
- `setProjectPath` compares only as many characters as the new path has
  (`mainframe.cpp:1477`): a project whose path is a prefix of the current one's is taken for it.

`SaveSession`:

- SIGTERM during `recv` makes it return -1, which `recvAck` adds to its total: the loop
  waits for a byte that does not come, and the save does not end (`interrupted`).
- A send on a connection that was reset raises SIGPIPE, which nobody handles (`BrokenPipe`).
- `copy_file` writes through a null pointer when its source cannot be opened (`CopyCrashes`).

`TextEditor`:

- A translation of one or of all texts, and a choice in the combobox, never mark the
  project: what they change is lost at the end (`silent`).
- A profile dialog that is cancelled leaves the languages changed and no pointer brought up
  to date (`astray`); deleting all languages is never saved; with no language at all
  `texteditor.cpp:265` follows NULL.
- A language that is both default and current is written as default only (`Written`).
- A language that was just added has no texts, and translating it builds a string from NULL;
  the first answer that does not parse is used all the same, later ones are
  taken for the one before (`ts`).
- `pthread_cancel` is not followed by a join before the dialog is deleted (`:472`).
- In a file made by `createTextFile` `readText` takes the second id for the text of the first.
- A text that ends where a line of 80 characters is full is saved without its closing quote
  (`texteditor.cpp:1076`, `:1088`; `getString` says "end by \"", `:894`), and a backslash is escaped on Windows
  only (`:1061`). Such a text is read as another one, and the next one not at all; `LosesNothing` excepts
  these texts by name (`Garbled`).
- A thread that was cancelled while it filled the list stores the language that was current
  before (`textlistpanel.cpp:301`), so that the column edits another one than its head says (`Late`).

`References`:

- The fields of renderers are not counted when they are loaded (`rdr-instance.cpp`), so that
  a change of one lowers the count of an image a control shows
  (`class-instance.cpp:704`), which can then be removed, although `imgeditor.cpp` says that
  what is "used by other resource" cannot (`uncounted`).
- `uieditor.cpp:1464` renumbers the fields of a form and marks nothing: a save writes
  the new numbers of the images and leaves the form's XML with the old ones (`silent`).
- Commands and the clipboard keep the old number, and an undo or paste brings it back.
- Pasted renderers are in no `ref_list` (`rdr-instance.cpp:114` copies fields only), and
  a renderer that is cut or deleted never releases its uses.
- A thumbnail is not told of a new number (`imgeditor.cpp:477`): removing by it removes
  another image, and importing over a renumbered image adds a second thumbnail.
- `RendererEditor::onResIdChanged` follows NULL for a renderer that is gone, and there is no
  `onRefResDeleted` of it.

`Selection`:

- A drag to another container gives its controls new windows. `selectedWnd` gets them,
  `curWnd` keeps the destroyed one (`edituipanel.cpp:806`). The undo and redo of such a drag
  (`component-instance.cpp:928`) tell neither: what was selected is selected no more, or,
  when an address is used again, selected in two containers at once (`sel.moved`).
- With a first window that is gone `pushCreateDeleteUndoRedoCommand` leaves early
  (`edituipanel.cpp:3504`), and `deleteSelectedInstance` deletes the others all the same, with
  no command to bring them back. With another one gone the command has a hole, and
  `undoRedoUpdate` follows it (`fault`).
- Delete during a drag empties `selectedWnd`; the release reads its first element
  (`edituipanel.cpp:760`). Tab during a drag makes the move command remember the place another
  control had (`mouse.keyed`), and a drop across containers links a control that is
  not a child of the first into the second without unlinking it.
- A cut that the clipboard refuses deletes all the same (`edituipanel.cpp:2647`); a paste
  then inserts the group before.

## 6. What is not modelled

- Form editor: size, text and all-defaults commands (each repeats the pattern of the
  commands that are modelled); renderer fields other than images; templates and preview.
- The content of header, package and configuration; byte order, memory streams and the
  section table; `ValueType` conversions. They are text and bytes, without a state that
  outlives a call, and a model would repeat them character by character.
- `CodeCombin`: nothing calls it (section 1). The Lua script that took its place is a
  program of its own.
- Import and export of files, thumbnails loaded by a thread, drawing and layout: no
  property of the editors' state depends on them.
- `dlgtmpls.c`, `mgcfg-trans/lex.yy.c`, the headers of `mgfc`: tables, generated code and
  a wrapper; the dongle; the translation of messages; what is vendored or built.
- The Windows branches of `main.cpp` and `socket-client.cpp`.

These make up most of the lines of the repository, which is why the map of `PROJECT.json`
covers about an eighth of them.

## 7. Plan

Done: the history, the form with one control and with several selected, ids, ranges, the clipboard, the
marks and the auto-save (`ProjectSave`), the save with its failures and the IDE
(`SaveSession`), the registry of images (`References`), the launcher, the text
editor. In order, what is left and what each is for:

1. `Selection` with the ring of `ClipRing` under copy, cut and paste, and with the size
   command, whose places are remembered by one call for one control and by another for a group.
2. **Package** - the section table and memory streams, as operators checked against a
   reference definition.
3. Window ids and templates in `ControlIds`; renderer sets, if they hold more than tables.

Where a question can be asked of one composed model it is not asked twice.
