------------------------------- MODULE Launcher -------------------------------
(* main.cpp: one builder for each project.  A start reads the project's      *)
(* .guibuilder-prj; if the process named there runs, the command line goes   *)
(* to it over its fifo, otherwise the start becomes the project's builder.   *)
(* Between any two system calls other starts, ends, kills and reuses of      *)
(* process numbers may happen.  In a builder the fifo is read by a second    *)
(* thread, which executes what it reads beside the thread of the windows.    *)
EXTENDS Naturals, Sequences, FiniteSets

CONSTANTS
  Pid, Project,
  NoPid,         \* a number that is no process
  MaxLaunches,   \* bound: starts
  MaxStrangers,  \* bound: other programs that get one of the numbers
  MaxKills       \* bound: kills

ASSUME LaunchAssumption ==
  /\ NoPid \notin Pid
  /\ {"absent", "empty"} \cap Pid = {}
  /\ MaxLaunches \in Nat /\ MaxStrangers \in Nat /\ MaxKills \in Nat

VARIABLES
  pc,          \* what the process with this number does
  project,     \* the project it was started for
  pid,         \* the number it read
  prjFile,     \* <project>/.guibuilder-prj
  fifo,        \* is there a file /var/tmp/gui-builder-<pid>
  thread,      \* the thread that reads the fifo
  pipe,        \* what is written and not yet read
  prjName,     \* MainFrame::strPrjName: "given" or "test"
  visible,     \* is the main window shown
  overlapped,  \* history: projects two starts looked up at once
  guessed,     \* history: projects whose file was read without a number
  lives,       \* history: how often a number was given to a start
  told,        \* history: the projects whose commands a process executed
  missed,      \* history: processes to which a "@show" was written behind
               \* other text, or whose unread text was thrown away
  launches, strangers, kills

fifoVars == <<fifo, thread, pipe>>
windowVars == <<prjName, visible, told>>
historyVars == <<overlapped, guessed, lives>>
boundVars == <<launches, strangers, kills>>
vars == <<pc, project, pid, prjFile, fifoVars, windowVars, historyVars, missed,
          boundVars>>

-----------------------------------------------------------------------------
(* What a process does. *)

(* It has looked the project up and not yet written its own number. *)
Deciding == {"check", "stat", "gone", "unlink", "clear", "create", "write pid"}
Writing == {"show", "option", "space", "value", "trail", "end"}
Handing == {"open", "blocked", "stuck", "broken"} \cup Writing
Opening == {"mkfifo", "listen"}
WithThread == {"init", "running", "closing", "leaving"}
PC == {"free", "stranger", "spin"} \cup Deciding \cup Handing \cup Opening
        \cup WithThread

(* The states of the reading thread: "fresh" before a writer came, "ended"  *)
(* when read() has returned 0, "closed" between close and open.             *)
Thread == {"none", "fresh", "reading", "ended", "closed"}

(* One write() of a start for project "of"; one option with its value       *)
(* stands for all of them.  "show" and "end" end in a newline.              *)
Text == {"show", "option", "space", "value", "end"}
Piece == [text : Text, of : Project]

(* The project is this process's. *)
Serving(p, j) ==
  /\ project[p] = j
  /\ pc[p] \in Opening \cup {"init", "running", "closing"}

HasReader(q) == thread[q] \notin {"none", "closed"}
Writers(q) == {p \in Pid : pid[p] = q /\ pc[p] \in Writing}
Attached(q) == {p \in Pid : pid[p] = q /\ pc[p] \in Writing \cup {"blocked"}}

(* Slip: a builder counts once its fifo is read. *)
processIsRunningSlip(q) == q \in Pid /\ pc[q] \in WithThread

processIsRunning(q) == q \in Pid /\ pc[q] # "free"

-----------------------------------------------------------------------------
(* processArgs of a start. *)

(* Slip: an empty file is a number too. *)
NumberReadFromSlip(j) == {prjFile[j]}

(* Between fopen and fclose of the one who writes the file there is nothing *)
(* to read, and the number is whatever the stack holds.                     *)
NumberReadFrom(j) ==
  IF prjFile[j] = "empty" THEN Pid \cup {NoPid} ELSE {prjFile[j]}

(* A start, up to the reading of the project file. *)
Launch(p, j) ==
  /\ pc[p] = "free" /\ launches < MaxLaunches /\ launches' = launches + 1
  /\ project' = [project EXCEPT ![p] = j]
  /\ \/ /\ prjFile[j] = "absent"
        /\ pc' = [pc EXCEPT ![p] = "clear"] /\ UNCHANGED pid
     \/ /\ prjFile[j] # "absent"
        /\ pc' = [pc EXCEPT ![p] = "check"]
        /\ \E q \in NumberReadFrom(j) : pid' = [pid EXCEPT ![p] = q]
  /\ overlapped' =
       IF \E q \in Pid : project[q] = j /\ pc[q] \in Deciding
       THEN overlapped \cup {j} ELSE overlapped
  /\ guessed' = IF prjFile[j] = "empty" THEN guessed \cup {j} ELSE guessed
  /\ lives' = [lives EXCEPT ![p] = @ + 1]
  /\ UNCHANGED <<prjFile, fifoVars, windowVars, missed, strangers, kills>>

(* A process that ends takes its variables with it. *)
Ends(p) ==
  /\ project' = [project EXCEPT ![p] = NoPid]
  /\ pid' = [pid EXCEPT ![p] = NoPid]
  /\ prjName' = [prjName EXCEPT ![p] = "none"]
  /\ visible' = [visible EXCEPT ![p] = FALSE]
  /\ told' = [told EXCEPT ![p] = {}]

(* When p ends, a start that holds its stat file open has nothing to read,  *)
(* and one that writes to its fifo nobody who reads.                        *)
PcWhen(p, at) ==
  [r \in Pid |->
     IF r = p THEN at
     ELSE IF at = "free" /\ pid[r] = p /\ pc[r] = "stat" THEN "gone"
     ELSE IF at = "free" /\ pid[r] = p /\ pc[r] \in Writing THEN "broken"
     ELSE pc[r]]

Goto(p, at) ==
  /\ pc' = PcWhen(p, at)
  /\ IF at = "free" THEN Ends(p) ELSE UNCHANGED <<project, pid, windowVars>>
  /\ UNCHANGED <<historyVars, boundVars>>

(* fopen of /proc/<pid>/stat: there for a process, and for one that has     *)
(* ended until its parent takes notice.                                     *)
OpenStat(p) ==
  /\ pc[p] = "check"
  /\ \/ processIsRunning(pid[p]) /\ Goto(p, "stat")
     \/ ~ processIsRunning(pid[p]) /\ Goto(p, "unlink")
     \/ ~ processIsRunning(pid[p]) /\ pid[p] \in Pid /\ Goto(p, "gone")
  /\ UNCHANGED <<prjFile, fifoVars, missed>>

(* The file of a process that has ended says 'Z', or nothing any more: then *)
(* the loop for the second space, which knows no end of file, never ends.   *)
ReadStat(p) ==
  /\ \/ pc[p] = "stat" /\ Goto(p, "open")
     \/ pc[p] = "gone" /\ pc[pid[p]] = "free" /\ Goto(p, "unlink")
     \/ pc[p] = "gone" /\ Goto(p, "spin")
  /\ UNCHANGED <<prjFile, fifoVars, missed>>

(* A file that is removed keeps those who wait for its other end. *)
Unlink(p, q, at) ==
  /\ fifo' = [r \in Pid |-> fifo[r] /\ r # q]
  /\ pc' = [r \in Pid |-> IF r # p /\ pc[r] = "blocked" /\ pid[r] = q
                          THEN "stuck" ELSE PcWhen(p, at)[r]]
  /\ UNCHANGED <<historyVars, boundVars>>

(* The fifo of a process that is gone. *)
UnlinkOther(p) ==
  /\ pc[p] = "unlink" /\ Unlink(p, pid[p], "clear")
  /\ pid' = [pid EXCEPT ![p] = NoPid]
  /\ UNCHANGED <<project, prjFile, thread, pipe, windowVars, missed>>

(* open(O_WRONLY) waits for a reader; without the file the start ends. *)
Open(p) ==
  /\ pc[p] = "open"
  /\ Goto(p, IF pid[p] \notin Pid \/ ~ fifo[pid[p]] THEN "free"
             ELSE IF HasReader(pid[p]) THEN "show" ELSE "blocked")
  /\ thread' = [q \in Pid |->
                  IF q = pid[p] /\ fifo[q] /\ thread[q] = "fresh"
                  THEN "reading" ELSE thread[q]]
  /\ UNCHANGED <<prjFile, fifo, pipe, missed>>

Unblock(p) ==
  /\ pc[p] = "blocked" /\ HasReader(pid[p])
  /\ Goto(p, "show")
  /\ thread' = [thread EXCEPT ![pid[p]] = IF @ = "fresh" THEN "reading" ELSE @]
  /\ UNCHANGED <<prjFile, fifo, pipe, missed>>

(* The fifos that have nobody at either end without p: what they hold is lost. *)
Left(p) == {q \in Pid : thread[q] = "closed" /\ Attached(q) = {p}}

Leave(p, gone) ==
  /\ pipe' = [q \in Pid |-> IF q \in Left(p) \cup gone THEN <<>> ELSE pipe[q]]
  /\ missed' = (missed \cup {q \in Left(p) : pipe[q] # <<>>}) \ gone

(* One write(); without a reader SIGPIPE ends the start. *)
WritePiece(p, at, text, next) ==
  /\ pc[p] = at
  /\ \/ /\ HasReader(pid[p]) /\ Goto(p, next)
        /\ pipe' = [pipe EXCEPT ![pid[p]] =
                      Append(@, [text |-> text, of |-> project[p]])]
        /\ missed' = IF text = "show" /\ pipe[pid[p]] # <<>>
                     THEN missed \cup {pid[p]} ELSE missed
     \/ ~ HasReader(pid[p]) /\ Goto(p, "free") /\ Leave(p, {})
  /\ UNCHANGED <<prjFile, fifo, thread>>

Write(p) ==
  \/ WritePiece(p, "show", "show", "option")
  \/ WritePiece(p, "option", "option", "space")
  \/ WritePiece(p, "space", "space", "value")
  \/ WritePiece(p, "value", "value", "trail")
  \/ WritePiece(p, "trail", "space", "end")
  \/ WritePiece(p, "end", "end", "free")
  \/ /\ pc[p] = "broken" /\ Goto(p, "free")
     /\ UNCHANGED <<prjFile, fifoVars, missed>>

-----------------------------------------------------------------------------
(* start_project. *)

ClearFifo(p) ==
  /\ pc[p] = "clear" /\ Unlink(p, p, "create")
  /\ UNCHANGED <<project, pid, prjFile, thread, pipe, windowVars, missed>>

CreatePrjFile(p) ==
  /\ pc[p] = "create" /\ Goto(p, "write pid")
  /\ prjFile' = [prjFile EXCEPT ![project[p]] = "empty"]
  /\ UNCHANGED <<fifoVars, missed>>

(* Slip: the file lies where all projects look. *)
WritePidSlip(p) ==
  /\ pc[p] = "write pid" /\ Goto(p, "mkfifo")
  /\ prjFile' = [j \in Project |-> p]
  /\ UNCHANGED <<fifoVars, missed>>

WritePid(p) ==
  /\ pc[p] = "write pid" /\ Goto(p, "mkfifo")
  /\ prjFile' = [prjFile EXCEPT ![project[p]] = p]
  /\ UNCHANGED <<fifoVars, missed>>

MkFifo(p) ==
  /\ pc[p] = "mkfifo" /\ Goto(p, "listen")
  /\ fifo' = [fifo EXCEPT ![p] = TRUE]
  /\ UNCHANGED <<prjFile, thread, pipe, missed>>

(* The thread starts once the fifo is open; somebody may have removed it. *)
Listen(p) ==
  /\ pc[p] = "listen"
  /\ Goto(p, IF fifo[p] THEN "init" ELSE "free")
  /\ thread' = [thread EXCEPT ![p] = IF fifo[p] THEN "fresh" ELSE "none"]
  /\ UNCHANGED <<prjFile, fifo, pipe, missed>>

-----------------------------------------------------------------------------
(* The windows: ShowMainWindow, onDestroy, the end of MiniGUIAppMain, exit. *)

ShowMainWindow(p) ==
  /\ pc[p] = "init" /\ pc' = [pc EXCEPT ![p] = "running"]
  /\ prjName' = [prjName EXCEPT ![p] = "given"]
  /\ visible' = [visible EXCEPT ![p] = TRUE]
  /\ UNCHANGED <<project, pid, prjFile, fifoVars, told, historyVars, missed,
                 boundVars>>

(* The user goes to the code of an event: the IDE shows it, and starts the  *)
(* builder again to come back.                                              *)
GoToCode(p) ==
  /\ pc[p] = "running" /\ visible[p]
  /\ visible' = [visible EXCEPT ![p] = FALSE]
  /\ UNCHANGED <<pc, project, pid, prjFile, fifoVars, prjName, told,
                 historyVars, missed, boundVars>>

OnDestroy(p) ==
  /\ pc[p] = "running" /\ Goto(p, "closing")
  /\ UNCHANGED <<prjFile, fifoVars, missed>>

(* The project file goes, whoever it names by now. *)
RemovePrjFile(p) ==
  /\ pc[p] = "closing" /\ Goto(p, "leaving")
  /\ prjFile' = [prjFile EXCEPT ![project[p]] = "absent"]
  /\ UNCHANGED <<fifoVars, missed>>

OnTerminate(p) ==
  /\ pc[p] = "leaving" /\ Unlink(p, p, "free") /\ Ends(p)
  /\ thread' = [thread EXCEPT ![p] = "none"]
  /\ pipe' = [pipe EXCEPT ![p] = <<>>] /\ missed' = missed \ {p}
  /\ UNCHANGED prjFile

Die(p) ==
  /\ pc' = PcWhen(p, "free") /\ Ends(p)
  /\ thread' = [thread EXCEPT ![p] = "none"]
  /\ Leave(p, {p})
  /\ UNCHANGED <<prjFile, fifo, historyVars>>

Kill(p) ==
  /\ pc[p] # "free" /\ kills < MaxKills /\ kills' = kills + 1
  /\ Die(p) /\ UNCHANGED <<launches, strangers>>

-----------------------------------------------------------------------------
(* wait_for_other_args: the thread of builder p. *)

(* Slip: the whole chunk is compared with "@show". *)
ShowsSlip(chunk) == chunk[1].text = "show" /\ Len(chunk) = 1

(* What stands before the first newline is "@show". *)
Shows(chunk) == chunk[1].text = "show"

(* What processArgs goes through: up to the next newline, if a leading      *)
(* "@show" was cut off, and else up to the first.                           *)
CommandIn(chunk) ==
  LET first == IF Shows(chunk) THEN 2 ELSE 1
      newline == {i \in DOMAIN chunk :
                    i >= first /\ chunk[i].text \in {"show", "end"}}
  IN  {i \in DOMAIN chunk : i >= first /\ \A n \in newline : i < n}

(* getWord drops the first letter of a word: it reads "roject-name". *)
getWord(text) == IF text = "option" THEN "ption" ELSE text

(* -project-name is among the options; so are -project and -file. *)
HasOption(chunk) ==
  \E i \in CommandIn(chunk) : getWord(chunk[i].text) = "option"

ThreadTo(p, state) ==
  /\ thread' = [thread EXCEPT ![p] = state]
  /\ UNCHANGED <<pc, project, pid, prjFile, fifo, historyVars, boundVars>>

(* read() takes all there is; without a main frame the command is dropped.  *)
ReadChunk(p) ==
  LET chunk == pipe[p] IN
  /\ thread[p] = "reading" /\ chunk # <<>>
  /\ pipe' = [pipe EXCEPT ![p] = <<>>]
  /\ IF pc[p] = "running"
     THEN /\ prjName' = [prjName EXCEPT ![p] = IF HasOption(chunk) THEN "given"
                                               ELSE "test"]
          /\ visible' = [visible EXCEPT ![p] = @ \/ Shows(chunk)]
          /\ told' = [told EXCEPT ![p] =
                        @ \cup {chunk[i].of : i \in DOMAIN chunk}]
     ELSE UNCHANGED windowVars
  /\ ThreadTo(p, "reading") /\ UNCHANGED missed

(* read() returns 0 when the writers are gone. *)
ReadEnd(p) ==
  /\ thread[p] = "reading" /\ pipe[p] = <<>> /\ Writers(p) = {}
  /\ ThreadTo(p, "ended") /\ UNCHANGED <<pipe, windowVars, missed>>

(* What was written since then is gone with the last end of the fifo. *)
CloseFifo(p) ==
  /\ thread[p] = "ended" /\ ThreadTo(p, "closed")
  /\ IF Attached(p) = {} /\ pipe[p] # <<>>
     THEN pipe' = [pipe EXCEPT ![p] = <<>>] /\ missed' = missed \cup {p}
     ELSE UNCHANGED <<pipe, missed>>
  /\ UNCHANGED windowVars

(* Slip: the fifo is opened again when somebody writes. *)
ReopenFifoSlip(p) ==
  /\ thread[p] = "closed" /\ fifo[p] /\ Writers(p) # {}
  /\ ThreadTo(p, "reading") /\ UNCHANGED <<pipe, windowVars, missed>>

(* open() again and again until the file is there. *)
ReopenFifo(p) ==
  /\ thread[p] = "closed" /\ fifo[p]
  /\ ThreadTo(p, IF Writers(p) = {} THEN "fresh" ELSE "reading")
  /\ UNCHANGED <<pipe, windowVars, missed>>

ReaderStep(p) == ReadChunk(p) \/ ReadEnd(p) \/ CloseFifo(p) \/ ReopenFifo(p)

-----------------------------------------------------------------------------
(* Other programs. *)

Stranger(p) ==
  /\ pc[p] = "free" /\ strangers < MaxStrangers
  /\ strangers' = strangers + 1
  /\ pc' = [pc EXCEPT ![p] = "stranger"]
  /\ UNCHANGED <<project, pid, prjFile, fifoVars, windowVars, historyVars,
                 missed, launches, kills>>

StrangerEnds(p) ==
  /\ pc[p] = "stranger" /\ Goto(p, "free")
  /\ UNCHANGED <<prjFile, fifoVars, missed>>

-----------------------------------------------------------------------------
Init ==
  /\ pc = [p \in Pid |-> "free"]
  /\ project = [p \in Pid |-> NoPid] /\ pid = [p \in Pid |-> NoPid]
  /\ prjFile = [j \in Project |-> "absent"]
  /\ fifo = [p \in Pid |-> FALSE] /\ thread = [p \in Pid |-> "none"]
  /\ pipe = [p \in Pid |-> <<>>]
  /\ prjName = [p \in Pid |-> "none"] /\ visible = [p \in Pid |-> FALSE]
  /\ told = [p \in Pid |-> {}] /\ missed = {}
  /\ overlapped = {} /\ guessed = {} /\ lives = [p \in Pid |-> 0]
  /\ launches = 0 /\ strangers = 0 /\ kills = 0

StartStep(p) ==
  \/ OpenStat(p) \/ ReadStat(p) \/ UnlinkOther(p) \/ Open(p) \/ Unblock(p) \/ Write(p)
  \/ ClearFifo(p) \/ CreatePrjFile(p) \/ WritePid(p) \/ MkFifo(p)
  \/ Listen(p) \/ ShowMainWindow(p)

Next ==
  \E p \in Pid :
    \/ \E j \in Project : Launch(p, j)
    \/ StartStep(p) \/ ReaderStep(p)
    \/ GoToCode(p) \/ OnDestroy(p) \/ RemovePrjFile(p) \/ OnTerminate(p)
    \/ Kill(p) \/ Stranger(p) \/ StrangerEnds(p)

(* Every process and its thread get their turn; nobody has to quit. *)
Fairness == \A p \in Pid : WF_vars(StartStep(p)) /\ WF_vars(ReaderStep(p))

Spec == Init /\ [][Next]_vars /\ Fairness

-----------------------------------------------------------------------------
(* Properties. *)

TypeOK ==
  /\ pc \in [Pid -> PC]
  /\ project \in [Pid -> Project \cup {NoPid}]
  /\ pid \in [Pid -> Pid \cup {NoPid}]
  /\ prjFile \in [Project -> Pid \cup {"absent", "empty"}]
  /\ fifo \in [Pid -> BOOLEAN] /\ thread \in [Pid -> Thread]
  /\ pipe \in [Pid -> Seq(Piece)]
  /\ prjName \in [Pid -> {"none", "given", "test"}]
  /\ visible \in [Pid -> BOOLEAN] /\ told \in [Pid -> SUBSET Project]
  /\ missed \subseteq Pid
  /\ overlapped \subseteq Project /\ guessed \subseteq Project
  /\ lives \in [Pid -> Nat]
  /\ launches \in 0 .. MaxLaunches /\ strangers \in 0 .. MaxStrangers
  /\ kills \in 0 .. MaxKills

(* A project has one builder: whatever was killed, left files behind or got *)
(* a number that was used before, unless two starts looked the project up   *)
(* at once.                                                                 *)
OneServer ==
  \A j \in Project \ overlapped : \A p, q \in Pid :
    Serving(p, j) /\ Serving(q, j) => p = q

(* What a running builder reads comes from starts for its own project,      *)
(* whatever was killed and whatever files it left, unless its number was    *)
(* used before, or the other project's file was read while it held none.    *)
HearsItsProject ==
  \A p \in Pid :
    pc[p] = "running" =>
      lives[p] > 1 \/ told[p] \subseteq guessed \cup {project[p]}

(* A start comes to an end, as the project's builder, having handed its     *)
(* arguments over, or with an error; unless it waits for a reader where no  *)
(* builder with that fifo is left, or the process it looked up ended while  *)
(* it read its stat file.                                                   *)
Starting(p) ==
  pc[p] \in Deciding \cup Handing \cup Opening \cup {"init", "spin"}
Stranded(p) ==
  \/ pc[p] \in {"stuck", "spin"}
  \/ pc[p] = "blocked" /\ (pc[pid[p]] \notin WithThread \cup Opening)

StartEnds == \A p \in Pid : Starting(p) ~> ~ Starting(p) \/ Stranded(p)

(* The "@show" of a start brings the builder's window back, however its     *)
(* text is cut into chunks and whoever else writes, unless it was written   *)
(* behind other text that was still unread, or thrown away with the fifo.   *)
Asked(p) ==
  pc[p] = "running" /\ \E i \in DOMAIN pipe[p] : pipe[p][i].text = "show"

ShowHeeded ==
  [][\A p \in Pid :
       Asked(p) /\ pipe'[p] = <<>> /\ pc'[p] = "running" =>
         visible'[p] \/ p \in missed']_vars

(* And it is acted on in the end, while the builder runs and its fifo is    *)
(* there.                                                                   *)
ShownAgain ==
  \A p \in Pid :
    Asked(p) ~> visible[p] \/ pc[p] # "running" \/ p \in missed \/ ~ fifo[p]

(* main.cpp:328, on the "@show" of a start: "write info, show the project". *)
AlwaysShown == \A p \in Pid : Asked(p) ~> visible[p] \/ pc[p] # "running"

(* main.cpp:239: "-project-name The name of project". *)
NameAsGiven == \A p \in Pid : pc[p] = "running" => prjName[p] = "given"
=============================================================================
