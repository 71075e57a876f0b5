----------------------------- MODULE SaveSession -----------------------------
(* MainFrame::onSave step by step: every file is truncated, written and     *)
(* closed in turn, then the IDE is told over a socket and its answer        *)
(* awaited.  Around the save: a kill at any step and the next start, SIGTERM *)
(* whose handler saves from inside whatever it interrupts, an IDE that      *)
(* refuses, answers, or goes away, and descriptors that run out.            *)
(* ProjectSave looks at the same save from above: there it is one step, and *)
(* what is asked is which files it has to write.                            *)
EXTENDS Naturals, Sequences, FiniteSets

CONSTANTS
  Kept,        \* the marks whose files are looked at
  MaxFds,      \* descriptors left to files and the socket
  MaxKills,    \* bound: kills
  MaxTerms     \* bound: SIGTERMs

(* Each name stands for the files one mark covers, written one after the    *)
(* other: what only the project keeps, and what is derived from it.         *)
AllKept == {"project", "ui", "source", "rdr", "image"}
Derived == {"header", "package"}
File == Kept \cup Derived
Content == {"Current", "Old", "Torn"}

ASSUME SessionAssumption ==
  /\ Kept \subseteq AllKept /\ {"project", "ui"} \subseteq Kept
  /\ MaxFds \in Nat /\ MaxKills \in Nat /\ MaxTerms \in Nat

VARIABLES
  phase,        \* "running", "closing" (onDestroy) or "down"
  frames,       \* the saves under way, one inside the other
  quit,         \* PostQuitMessage was called
  isModified,
  dirty,        \* the editors' own marks
  empty,        \* what the start could not load and nobody made anew
  file,         \* a file, compared with what memory holds
  conn,         \* the socket: "none" is new_fd = -1, "fin" and "reset" are
                \* an open descriptor whose peer is gone
  pending,      \* requests the IDE has not answered
  acks,         \* answers sent and not yet received
  leaked,       \* descriptors shut down and never closed
  openFailed,   \* history: an fopen failed since the start
  interrupted,  \* history: SIGTERM came while an answer was awaited
  lost,         \* history: what a start could not load
  cutShort,     \* history: saves that were under way at a death
  kills, terms

filesVars == <<dirty, empty, file>>
peerVars == <<conn, pending, acks, leaked>>
historyVars == <<openFailed, interrupted, lost, cutShort, kills, terms>>
vars == <<phase, frames, quit, isModified, filesVars, peerVars, historyVars>>

-----------------------------------------------------------------------------
(* A save under way: the step it is at, the stream of that step, the stream *)
(* of the package, the bytes recvAck still wants (its total, counted down), *)
(* and what comes after.                                                    *)
AllSteps == AllKept \cup Derived
              \cup {"strings", "sync", "request", "answer", "ack", "done"}
Step == AllSteps \ (AllKept \ Kept)
Stream == {"none", "open", "failed"}
After == {"return", "quit", "goToCode"}

Frame == [at : Step, out : Stream, pkg : Stream,
          owed : 1 .. MaxTerms + 1, then : After]

NewFrame(then) ==
  [at |-> "project", out |-> "none", pkg |-> "none", owed |-> 1,
   then |-> then]

(* The order of onSave, past the files that are not looked at. *)
fromImage == IF "image" \in Kept THEN "image" ELSE "strings"
fromRdr == IF "rdr" \in Kept THEN "rdr" ELSE fromImage
fromSource == IF "source" \in Kept THEN "source" ELSE fromRdr

Following(step) ==
  CASE step = "project" -> "header"
    [] step = "header" -> "package"
    [] step = "package" -> "ui"
    [] step = "ui" -> fromSource
    [] step = "source" -> fromRdr
    [] step = "rdr" -> fromImage
    [] step = "image" -> "strings"
    [] step = "strings" -> "sync"

Top == frames[Len(frames)]
SetTop(f) == [frames EXCEPT ![Len(frames)] = f]
At(step) == frames # <<>> /\ Top.at = step
GoTo(step) == SetTop([Top EXCEPT !.at = step, !.out = "none"])
Advance == GoTo(Following(Top.at))

Handles ==
  Cardinality({i \in DOMAIN frames : frames[i].out = "open"})
    + Cardinality({i \in DOMAIN frames : frames[i].pkg = "open"})
Used == Handles + leaked + (IF conn = "none" THEN 0 ELSE 1)
Free == IF Used < MaxFds THEN MaxFds - Used ELSE 0

-----------------------------------------------------------------------------
(* Which files a step writes at all. *)

(* saveXML of every form, forced when an id has changed. *)
uiNeeded == "ui" \in dirty
(* saveSource merges into the developer's file. *)
sourceNeeded == "source" \in dirty
(* RendererEditor::saveXML. *)
rdrNeeded == "rdr" \in dirty
(* ImageEditor::save leaves before saveXMLIDs when there is no image. *)
imageNeeded == "image" \in dirty /\ "image" \notin empty

Needed(f) ==
  /\ f = "ui" => uiNeeded
  /\ f = "source" => sourceNeeded
  /\ f = "rdr" => rdrNeeded
  /\ f = "image" => imageNeeded

OneStream == Kept \cup {"header"}

Skip ==
  /\ frames # <<>> /\ Top.at \in OneStream /\ Top.out = "none"
  /\ ~ Needed(Top.at)
  /\ frames' = Advance
  /\ UNCHANGED <<phase, quit, isModified, filesVars, peerVars, historyVars>>

(* The constructor of FileStreamStorage: fopen truncates, or fails silently *)
(* and leaves the file as it was.                                           *)
Fopen(f, ok) ==
  /\ file' = IF ok THEN [file EXCEPT ![f] = "Torn"] ELSE file
  /\ openFailed' = (openFailed \/ ~ ok)
  /\ UNCHANGED <<phase, quit, isModified, dirty, empty, peerVars,
                 interrupted, lost, cutShort, kills, terms>>

Open ==
  /\ frames # <<>> /\ Top.at \in OneStream /\ Top.out = "none"
  /\ Needed(Top.at)
  /\ Fopen(Top.at, Free > 0)
  /\ frames' = SetTop([Top EXCEPT !.out = IF Free > 0 THEN "open"
                                         ELSE "failed"])

(* Slip: the stream is never closed, and what it buffers never written. *)
WriteSlip ==
  /\ frames # <<>> /\ Top.at \in OneStream /\ Top.out # "none"
  /\ dirty' = dirty \ {Top.at}
  /\ frames' = Advance
  /\ UNCHANGED <<phase, quit, isModified, empty, file, peerVars, historyVars>>

(* The stream is written and closed; the mark is taken back whether or not  *)
(* there was a stream.                                                      *)
Write ==
  /\ frames # <<>> /\ Top.at \in OneStream /\ Top.out # "none"
  /\ file' = IF Top.out = "open" THEN [file EXCEPT ![Top.at] = "Current"]
             ELSE file
  /\ dirty' = dirty \ {Top.at}
  /\ frames' = Advance
  /\ UNCHANGED <<phase, quit, isModified, empty, peerVars, historyVars>>

(* The package is open while the editors write. *)
OpenPackage ==
  /\ At("package")
  /\ Fopen("package", Free > 0)
  /\ frames' = SetTop([Top EXCEPT !.at = Following("package"),
                                  !.pkg = IF Free > 0 THEN "open"
                                          ELSE "failed"])

(* writeStringResource, res_package.close. *)
ClosePackage ==
  /\ At("strings")
  /\ file' = IF Top.pkg = "open" THEN [file EXCEPT !["package"] = "Current"]
             ELSE file
  /\ frames' = SetTop([Top EXCEPT !.at = Following("strings"),
                                  !.pkg = "none"])
  /\ UNCHANGED <<phase, quit, isModified, dirty, empty, peerVars, historyVars>>

-----------------------------------------------------------------------------
(* SocketClient. *)

(* sendString: the request; recvAck starts to count. *)
Sync ==
  /\ At("sync")
  /\ \/ (* already open *)
        /\ conn # "none" /\ frames' = GoTo("request")
        /\ UNCHANGED <<conn, leaked>>
     \/ (* connected *)
        /\ conn = "none" /\ Free > 0
        /\ conn' = "open" /\ frames' = GoTo("request")
        /\ UNCHANGED leaked
     \/ (* refused: closeSocket shuts the descriptor down and forgets it *)
        /\ conn = "none" /\ Free > 0
        /\ leaked' = leaked + 1 /\ frames' = GoTo("done")
        /\ UNCHANGED conn
     \/ (* no address to resolve, or socket() finds no descriptor *)
        /\ conn = "none" /\ frames' = GoTo("done")
        /\ UNCHANGED <<conn, leaked>>
  /\ UNCHANGED <<phase, quit, isModified, filesVars, pending, acks,
                 historyVars>>

(* send: to no socket at all (a save inside this one closed it) it fails;   *)
(* a peer that has left without reset does not hear it.                     *)
Request ==
  /\ At("request") /\ conn # "reset"
  /\ frames' = IF conn = "none" THEN GoTo("done")
               ELSE SetTop([Top EXCEPT !.at = "answer", !.owed = 1])
  /\ pending' = IF conn = "open" THEN pending + 1 ELSE pending
  /\ UNCHANGED <<phase, quit, isModified, filesVars, conn, acks, leaked,
                 historyVars>>

(* recvAck reads one byte. *)
ReceiveAck ==
  /\ At("answer") /\ acks > 0
  /\ acks' = acks - 1
  /\ frames' = IF Top.owed = 1 THEN GoTo("ack")
               ELSE SetTop([Top EXCEPT !.owed = @ - 1])
  /\ UNCHANGED <<phase, quit, isModified, filesVars, conn, pending, leaked,
                 historyVars>>

(* closeSocket: shutdown, and the descriptor is forgotten, not closed. *)
closeSocket == conn' = "none" /\ leaked' = leaked + 1 /\ pending' = 0

(* Slip: nothing read is no answer yet. *)
PeerGoneSlip ==
  /\ At("answer") /\ acks = 0 /\ conn \in {"fin", "reset"}
  /\ UNCHANGED vars

(* recv returns 0: closeSocket, and sendAck goes nowhere. *)
PeerGone ==
  /\ At("answer") /\ acks = 0 /\ conn \in {"fin", "reset"}
  /\ closeSocket
  /\ frames' = GoTo("done")
  /\ UNCHANGED <<phase, quit, isModified, filesVars, acks, historyVars>>

(* sendAck: a peer that left in the meantime answers with a reset, which    *)
(* the next save will meet.                                                 *)
SendAck ==
  /\ At("ack") /\ conn # "reset"
  /\ conn' = IF conn = "fin" THEN "reset" ELSE conn
  /\ frames' = GoTo("done")
  /\ UNCHANGED <<phase, quit, isModified, filesVars, pending, acks, leaked,
                 historyVars>>

-----------------------------------------------------------------------------
(* Beginning and end of a save, and of the program. *)

Begin(then) ==
  /\ isModified' = FALSE
  /\ frames' = Append(frames, NewFrame(then))

Idle == phase = "running" /\ frames = <<>> /\ ~ quit

(* The user's save, the auto-save, and gotoCode's and connectEvents' save.  *)
Save ==
  /\ Idle /\ \E then \in {"return", "quit", "goToCode"} : Begin(then)
  /\ UNCHANGED <<phase, quit, filesVars, peerVars, historyVars>>

(* The handler of SIGTERM calls onExit from whatever it interrupted.  A     *)
(* blocked recv returns -1 when the handler has returned, and recvAck adds  *)
(* that to its total.                                                       *)
Terminate ==
  /\ phase = "running" \/ frames # <<>>
  /\ phase # "down" /\ terms < MaxTerms /\ terms' = terms + 1
  /\ isModified' = FALSE
  /\ \E blocked \in IF At("answer") /\ acks = 0 /\ conn = "open"
                     THEN BOOLEAN ELSE {FALSE} :
       frames' = Append(IF blocked THEN SetTop([Top EXCEPT !.owed = @ + 1])
                        ELSE frames, NewFrame("quit"))
  /\ interrupted' = (interrupted \/ At("answer"))
  /\ UNCHANGED <<phase, quit, filesVars, peerVars, openFailed, lost, cutShort,
                 kills>>

(* onSave returns; goToCode connects and sends in the same way. *)
Finish ==
  /\ At("done")
  /\ IF Top.then = "goToCode"
     THEN frames' = SetTop([NewFrame("return") EXCEPT !.at = "sync"])
     ELSE frames' = SubSeq(frames, 1, Len(frames) - 1)
  /\ quit' = (quit \/ Top.then = "quit")
  /\ UNCHANGED <<phase, isModified, filesVars, peerVars, historyVars>>

(* The loop ends, or the window is closed; onDestroy saves once more. *)
Destroy ==
  /\ phase = "running" /\ frames = <<>>
  /\ phase' = "closing" /\ Begin("return")
  /\ UNCHANGED <<quit, filesVars, peerVars, historyVars>>

(* A process that is gone leaves no socket and no descriptor. *)
Gone ==
  /\ phase' = "down" /\ frames' = <<>> /\ quit' = FALSE
  /\ conn' = "none" /\ pending' = 0 /\ acks' = 0 /\ leaked' = 0

Exit ==
  /\ phase = "closing" /\ frames = <<>>
  /\ Gone
  /\ UNCHANGED <<isModified, filesVars, historyVars>>

Die ==
  /\ Gone
  /\ cutShort' = IF cutShort + Len(frames) < Cardinality(Kept)
                 THEN cutShort + Len(frames) ELSE Cardinality(Kept)
  /\ UNCHANGED <<isModified, filesVars, openFailed, interrupted,
                 lost, terms>>

Kill ==
  /\ phase # "down" /\ kills < MaxKills /\ kills' = kills + 1
  /\ Die

(* SIGPIPE: a send after the reset. *)
BrokenPipe ==
  /\ At("request") \/ At("ack")
  /\ conn = "reset"
  /\ Die /\ UNCHANGED kills

(* copy_file, with the template open and no descriptor left for the source, *)
(* writes through a null pointer.                                           *)
CopyCrashes ==
  /\ At("source") /\ Top.out = "none" /\ sourceNeeded /\ Free = 1
  /\ Die /\ UNCHANGED kills

-----------------------------------------------------------------------------
(* The next start.  A file that does not parse is nothing: no window, no    *)
(* image, no renderer.                                                      *)

(* newGUIBuilderConfig replaces the project by defaults and writes them. *)
newGUIBuilderConfig == {"project"}

(* Slip: what is loaded marks nothing. *)
loadXMLIDsSlip(nothing) == dirty' = {} /\ isModified' = FALSE

(* loadXMLIDs makes every resource with createRes, which marks the editor,  *)
(* and the first window opened marks the project.                           *)
loadXMLIDs(nothing) ==
  /\ dirty' = ({"ui", "image"} \cap Kept) \ nothing
  /\ isModified' = ("ui" \notin nothing)

Start ==
  LET torn == {f \in Kept : file[f] = "Torn"}
      older == \E f \in Kept : file[f] # "Current"
  IN
  /\ phase = "down" /\ phase' = "running"
  /\ empty' = torn \cup empty
  /\ lost' = lost \cup torn
  /\ file' = [f \in File |->
                IF f \in Derived
                THEN IF file[f] = "Current" /\ older THEN "Old" ELSE file[f]
                ELSE IF f \in torn \ newGUIBuilderConfig THEN "Torn"
                ELSE "Current"]
  /\ loadXMLIDs(empty')
  /\ openFailed' = FALSE /\ interrupted' = FALSE
  /\ UNCHANGED <<frames, quit, peerVars, cutShort, kills, terms>>

-----------------------------------------------------------------------------
(* The user and the IDE. *)

(* A change of what f keeps, with the mark it raises; what is derived from  *)
(* the project is then out of date.                                         *)
Edit(f) ==
  /\ Idle
  /\ isModified' = TRUE
  /\ dirty' = dirty \cup ({f} \cap {"ui", "source", "rdr", "image"})
  /\ empty' = empty \ {f}
  /\ file' = [g \in File |-> IF g \in {f} \cup Derived /\ file[g] = "Current"
                             THEN "Old" ELSE file[g]]
  /\ UNCHANGED <<phase, frames, quit, peerVars, historyVars>>

Answer ==
  /\ conn = "open" /\ pending > 0
  /\ pending' = pending - 1 /\ acks' = acks + 1
  /\ UNCHANGED <<phase, frames, quit, isModified, filesVars, conn, leaked,
                 historyVars>>

(* A peer that goes with a request unread resets the connection. *)
IdeLeaves ==
  /\ conn = "open" /\ conn' = IF pending > 0 THEN "reset" ELSE "fin"
  /\ UNCHANGED <<phase, frames, quit, isModified, filesVars, pending, acks,
                 leaked, historyVars>>

-----------------------------------------------------------------------------
Init ==
  /\ phase = "running" /\ frames = <<>> /\ quit = FALSE
  /\ isModified = TRUE /\ dirty = {"ui", "image"} \cap Kept /\ empty = {}
  /\ file = [f \in File |-> "Current"]
  /\ conn = "none" /\ pending = 0 /\ acks = 0 /\ leaked = 0
  /\ openFailed = FALSE /\ interrupted = FALSE /\ lost = {}
  /\ cutShort = 0 /\ kills = 0 /\ terms = 0

(* What the program does by itself once a save has begun. *)
SaveStep ==
  \/ Skip \/ Open \/ Write \/ OpenPackage \/ ClosePackage
  \/ Sync \/ Request \/ ReceiveAck \/ PeerGone \/ SendAck \/ BrokenPipe
  \/ Finish

Next ==
  \/ SaveStep \/ CopyCrashes
  \/ Save \/ Terminate \/ Destroy \/ Exit \/ Kill \/ Start
  \/ \E f \in Kept : Edit(f)
  \/ Answer \/ IdeLeaves

(* The thread runs, and the IDE answers a request it has received, or goes. *)
Fairness == WF_vars(SaveStep) /\ WF_vars(Answer)

Spec == Init /\ [][Next]_vars /\ Fairness

-----------------------------------------------------------------------------
(* Properties. *)

TypeOK ==
  /\ phase \in {"running", "closing", "down"}
  /\ frames \in Seq(Frame) /\ quit \in BOOLEAN /\ isModified \in BOOLEAN
  /\ dirty \subseteq Kept /\ empty \subseteq Kept /\ lost \subseteq Kept
  /\ file \in [File -> Content]
  /\ conn \in {"none", "open", "fin", "reset"}
  /\ pending \in Nat /\ acks \in Nat /\ leaked \in 0 .. MaxFds
  /\ openFailed \in BOOLEAN /\ interrupted \in BOOLEAN
  /\ cutShort \in 0 .. Cardinality(Kept)
  /\ kills \in 0 .. MaxKills /\ terms \in 0 .. MaxTerms
  /\ Used <= MaxFds

(* Nothing modified means everything written: between saves, a project that *)
(* does not count as modified is whole on disk, header and package with it, *)
(* whatever was killed or interrupted before, unless an fopen failed.  (A   *)
(* project that lost its windows does not know that its header is stale.)   *)
QuietMeansWritten ==
  frames = <<>> /\ phase # "down" /\ ~ isModified /\ ~ openFailed =>
    /\ \A f \in Kept : file[f] = "Current" \/ f \in empty
    /\ "ui" \notin empty => \A f \in Derived : file[f] = "Current"

(* A death at any moment destroys the files of at most one mark for every   *)
(* save under way, two when SIGTERM's save runs inside another: the streams *)
(* of a save are open one at a time.                                        *)
DeathLosesOne == Cardinality(lost) <= cutShort

(* A save ends, so that the builder answers its user again: when the IDE    *)
(* answers or goes, and SIGTERM did not interrupt the wait.                 *)
SaveEnds == frames # <<>> ~> (frames = <<>> \/ interrupted)

(* "save all": a save leaves nothing of the project unwritten.              *)
SaveAll ==
  frames = <<>> /\ phase # "down" /\ ~ isModified =>
    \A f \in Kept : file[f] = "Current" \/ f \in empty
=============================================================================
