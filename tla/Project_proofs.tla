---------------------------- MODULE Project_proofs ----------------------------
(***************************************************************************)
(* Proofs about a project as a whole: how a builder starts for it, and how *)
(* it is saved.  The launcher: types, and one builder for a project, for   *)
(* every set of process numbers and projects and every bound.  Saving, for *)
(* every set of windows and images and every interval of the timer: the    *)
(* marks cover every change they were raised for, a save leaves nothing of *)
(* it behind, and the timer is in time.  The two share no state.           *)
(***************************************************************************)
EXTENDS Launcher, ProjectSave, TLAPS

-----------------------------------------------------------------------------
(* The launcher.                                                           *)

(* What a process needs to have found out to be where it is. *)
Known ==
  \A p \in Pid :
    /\ pc[p] \notin {"free", "stranger"} => project[p] \in Project
    /\ pc[p] \in Handing \ {"open"} => pid[p] \in Pid

TypeInv == TypeOK /\ Known

Decides(p, j) == project[p] = j /\ pc[p] \in Deciding

(* One start at a time looks a project up. *)
OneDecides ==
  \A j \in Project \ overlapped : \A p, q \in Pid :
    Decides(p, j) /\ Decides(q, j) => p = q

(* The project file names its builder. *)
ServerNamed ==
  \A j \in Project \ overlapped : \A p \in Pid :
    Serving(p, j) => prjFile[j] = p

(* While there is a builder, a start that looks the project up has found it. *)
ServerFound ==
  \A j \in Project \ overlapped : \A p, q \in Pid :
    Serving(p, j) /\ Decides(q, j) =>
      pc[q] \in {"check", "stat"} /\ pid[q] = p

ServerInv == OneDecides /\ ServerNamed /\ ServerFound

-----------------------------------------------------------------------------
(* Types. *)

LEMMA InitTypeInv == Init => TypeInv
  BY LaunchAssumption
  DEF Init, TypeInv, TypeOK, Known, PC, Thread, Handing, Writing, Piece

(* What a step of one process does to where the others are: a builder that  *)
(* ends, or a fifo that goes, leaves those behind who had to do with it.    *)
Moves(p, at) ==
  /\ pc' \in [Pid -> PC] /\ pc'[p] = at
  /\ \A r \in Pid \ {p} :
       \/ pc'[r] = pc[r]
       \/ pc[r] = "stat" /\ pc'[r] = "gone" /\ pid[r] = p /\ at = "free"
       \/ pc[r] \in Writing /\ pc'[r] = "broken"
       \/ pc[r] = "blocked" /\ pc'[r] = "stuck"

LEMMA PcWhenMoves ==
  ASSUME TypeInv, NEW p \in Pid, NEW at \in PC, pc' = PcWhen(p, at)
  PROVE  Moves(p, at)
  BY DEF TypeInv, TypeOK, PcWhen, Moves, PC, Deciding, Handing

LEMMA UnlinkMoves ==
  ASSUME TypeInv, NEW p \in Pid, NEW q, NEW at \in PC, Unlink(p, q, at)
  PROVE  Moves(p, at)
<1>1. pc' = [r \in Pid |-> IF r # p /\ pc[r] = "blocked" /\ pid[r] = q
                          THEN "stuck" ELSE PcWhen(p, at)[r]]
  BY DEF Unlink
<1>2. \A r \in Pid :
        pc'[r] = IF r # p /\ pc[r] = "blocked" /\ pid[r] = q THEN "stuck"
                 ELSE PcWhen(p, at)[r]
  BY <1>1
<1>3. \A r \in Pid :
        /\ PcWhen(p, at)[r] \in PC
        /\ PcWhen(p, at)[p] = at
        /\ \/ r = p \/ PcWhen(p, at)[r] = pc[r]
           \/ /\ pc[r] = "stat" /\ PcWhen(p, at)[r] = "gone" /\ pid[r] = p
              /\ at = "free"
           \/ pc[r] \in Writing /\ PcWhen(p, at)[r] = "broken"
  BY DEF TypeInv, TypeOK, PcWhen, PC, Deciding, Handing
<1>4. "stuck" \in PC
  BY DEF PC, Handing
<1>5. QED
  BY <1>1, <1>2, <1>3, <1>4 DEF Moves

(* Who is moved by another's step knows what it knew. *)
LEMMA MovesKnown ==
  ASSUME TypeInv, NEW p \in Pid, NEW at, Moves(p, at),
         \A r \in Pid \ {p} : project'[r] = project[r] /\ pid'[r] = pid[r],
         at \notin {"free", "stranger"} => project'[p] \in Project,
         at \in Handing \ {"open"} => pid'[p] \in Pid
  PROVE  Known'
  BY DEF TypeInv, Known, Moves, Handing, Writing

LEMMA LaunchType ==
  ASSUME TypeInv, NEW p \in Pid, NEW j \in Project, Launch(p, j)
  PROVE  TypeInv'
<1>1. /\ pc' \in [Pid -> PC] /\ pid' \in [Pid -> Pid \cup {NoPid}]
      /\ pc'[p] \in {"clear", "check"}
      /\ \A q \in Pid \ {p} : pc'[q] = pc[q] /\ pid'[q] = pid[q]
  <2>1. CASE prjFile[j] = "absent"
    <3>1. pc' = [pc EXCEPT ![p] = "clear"] /\ pid' = pid
      BY <2>1 DEF Launch
    <3>2. QED
      BY <3>1 DEF TypeInv, TypeOK, PC, Deciding
  <2>2. CASE prjFile[j] # "absent"
    <3>1. NumberReadFrom(j) \subseteq Pid \cup {NoPid}
      BY <2>2 DEF NumberReadFrom, TypeInv, TypeOK
    <3>2. PICK n \in Pid \cup {NoPid} : pid' = [pid EXCEPT ![p] = n]
      BY <2>2, <3>1 DEF Launch
    <3>3. pc' = [pc EXCEPT ![p] = "check"]
      BY <2>2 DEF Launch
    <3>4. QED
      BY <3>2, <3>3 DEF TypeInv, TypeOK, PC, Deciding
  <2>3. QED
    BY <2>1, <2>2
<1>2. project' \in [Pid -> Project \cup {NoPid}] /\ project'[p] = j
      /\ \A q \in Pid \ {p} : project'[q] = project[q]
  BY DEF Launch, TypeInv, TypeOK
<1>3. Known'
  <2>1. ASSUME NEW q \in Pid \ {p}
        PROVE  /\ pc'[q] \notin {"free", "stranger"} => project'[q] \in Project
               /\ pc'[q] \in Handing \ {"open"} => pid'[q] \in Pid
    BY <1>1, <1>2 DEF Known, TypeInv
  <2>2. project'[p] \in Project /\ pc'[p] \notin Handing
    BY <1>1, <1>2 DEF Handing, Writing
  <2>3. QED
    BY <2>1, <2>2 DEF Known
<1>4. /\ overlapped' \subseteq Project /\ guessed' \subseteq Project
      /\ missed' \subseteq Pid
  BY DEF Launch, TypeInv, TypeOK
<1>5. launches' \in 0 .. MaxLaunches /\ lives' \in [Pid -> Nat]
  BY LaunchAssumption DEF LaunchAssumption, Launch, TypeInv, TypeOK
<1>6. UNCHANGED <<prjFile, fifoVars, windowVars, strangers, kills>>
  BY DEF Launch
<1>7. QED
  BY <1>1, <1>2, <1>3, <1>4, <1>5, <1>6
  DEF TypeInv, TypeOK, fifoVars, windowVars

WindowType ==
  /\ prjName \in [Pid -> {"none", "given", "test"}]
  /\ visible \in [Pid -> BOOLEAN]
  /\ told \in [Pid -> SUBSET Project]

LEMMA EndsType ==
  ASSUME TypeInv, NEW p \in Pid, Ends(p)
  PROVE  /\ project' \in [Pid -> Project \cup {NoPid}]
         /\ pid' \in [Pid -> Pid \cup {NoPid}]
         /\ \A q \in Pid \ {p} : /\ pid'[q] = pid[q] /\ told'[q] = told[q]
                                 /\ project'[q] = project[q]
         /\ pid'[p] = NoPid /\ project'[p] = NoPid
         /\ WindowType'
  BY DEF Ends, TypeInv, TypeOK, WindowType

(* A process that goes on, or ends. *)
LEMMA GotoType ==
  ASSUME TypeInv, NEW p \in Pid, NEW at \in PC \ {"stranger"}, Goto(p, at),
         at # "free" => pc[p] \notin {"free", "stranger"},
         at \in Handing \ {"open"} => pid[p] \in Pid
  PROVE  /\ Known' /\ WindowType'
         /\ pc' \in [Pid -> PC]
         /\ project' \in [Pid -> Project \cup {NoPid}]
         /\ pid' \in [Pid -> Pid \cup {NoPid}]
<1>1. Moves(p, at)
  BY PcWhenMoves DEF Goto
<1>2. pc' \in [Pid -> PC]
  BY <1>1 DEF Moves
<1>3. CASE at = "free"
  <2>1. Ends(p)
    BY <1>3 DEF Goto
  <2>2. Known'
    BY <1>1, <1>3, <2>1, EndsType, MovesKnown DEF Handing, Writing
  <2>3. QED
    BY <1>2, <2>1, <2>2, EndsType
<1>4. CASE at # "free"
  <2>1. UNCHANGED <<project, pid, windowVars>>
    BY <1>4 DEF Goto
  <2>2. Known'
    BY <1>1, <1>4, <2>1, MovesKnown DEF TypeInv, Known
  <2>3. QED
    BY <1>2, <2>1, <2>2 DEF TypeInv, TypeOK, WindowType, windowVars
<1>5. QED
  BY <1>3, <1>4

(* The type invariant of a step that goes on and changes the rest in type. *)
LEMMA GotoTypeInv ==
  ASSUME TypeInv, NEW p \in Pid, NEW at \in PC \ {"stranger"}, Goto(p, at),
         at # "free" => pc[p] \notin {"free", "stranger"},
         at \in Handing \ {"open"} => pid[p] \in Pid,
         prjFile' \in [Project -> Pid \cup {"absent", "empty"}],
         fifo' \in [Pid -> BOOLEAN], thread' \in [Pid -> Thread],
         pipe' \in [Pid -> Seq(Piece)], missed' \subseteq Pid
  PROVE  TypeInv'
<1>1. UNCHANGED <<historyVars, boundVars>>
  BY DEF Goto
<1>2. QED
  BY <1>1, GotoType DEF TypeInv, TypeOK, WindowType, historyVars, boundVars

(* Steps whose target depends on what they find. *)
LEMMA OpenType ==
  ASSUME TypeInv, NEW p \in Pid, Open(p)
  PROVE  TypeInv'
<1>1. thread' \in [Pid -> Thread]
  BY DEF Open, Thread, TypeInv, TypeOK
<1>2. /\ pc[p] = "open" /\ UNCHANGED <<prjFile, fifo, pipe, missed>>
  BY DEF Open
<1>3. /\ prjFile \in [Project -> Pid \cup {"absent", "empty"}]
      /\ fifo \in [Pid -> BOOLEAN] /\ pipe \in [Pid -> Seq(Piece)]
      /\ missed \subseteq Pid
  BY DEF TypeInv, TypeOK
<1>4. CASE pid[p] \notin Pid \/ ~ fifo[pid[p]]
  <2>1. Goto(p, "free")
    BY <1>4 DEF Open
  <2>2. QED
    BY <1>1, <1>2, <1>3, <2>1, GotoTypeInv DEF PC, Handing, Writing
<1>5. CASE pid[p] \in Pid /\ fifo[pid[p]] /\ HasReader(pid[p])
  <2>1. Goto(p, "show")
    BY <1>5 DEF Open
  <2>2. QED
    BY <1>1, <1>2, <1>3, <1>5, <2>1, GotoTypeInv DEF PC, Handing, Writing
<1>6. CASE pid[p] \in Pid /\ fifo[pid[p]] /\ ~ HasReader(pid[p])
  <2>1. Goto(p, "blocked")
    BY <1>6 DEF Open
  <2>2. QED
    BY <1>1, <1>2, <1>3, <1>6, <2>1, GotoTypeInv DEF PC, Handing, Writing
<1>7. QED
  BY <1>4, <1>5, <1>6

(* What a step of Write does: it adds its piece, or ends. *)
LEMMA WriteCases ==
  ASSUME TypeInv, NEW p \in Pid, Write(p)
  PROVE  \/ \E at \in Writing, text \in Text, next \in Writing \cup {"free"} :
              pc[p] = at /\ WritePiece(p, at, text, next)
         \/ /\ pc[p] = "broken" /\ Goto(p, "free")
            /\ UNCHANGED <<prjFile, fifoVars, missed>>
  BY DEF Write, WritePiece, Writing, Text

LEMMA LeaveType ==
  ASSUME TypeInv, NEW p, NEW gone, Leave(p, gone)
  PROVE  pipe' \in [Pid -> Seq(Piece)] /\ missed' \subseteq Pid
<1>1. pipe \in [Pid -> Seq(Piece)] /\ <<>> \in Seq(Piece) /\ missed \subseteq Pid
  BY DEF TypeInv, TypeOK
<1>2. QED
  BY <1>1 DEF Leave, Left

LEMMA WriteType ==
  ASSUME TypeInv, NEW p \in Pid, Write(p)
  PROVE  TypeInv'
<1>1. /\ prjFile \in [Project -> Pid \cup {"absent", "empty"}]
      /\ fifo \in [Pid -> BOOLEAN] /\ pipe \in [Pid -> Seq(Piece)]
      /\ thread \in [Pid -> Thread] /\ missed \subseteq Pid
  BY DEF TypeInv, TypeOK
<1>2. ASSUME NEW at \in Writing, NEW text \in Text,
             NEW next \in Writing \cup {"free"},
             pc[p] = at, WritePiece(p, at, text, next)
      PROVE  TypeInv'
  <2>1. pid[p] \in Pid /\ project[p] \in Project /\ pc[p] \notin {"free", "stranger"}
    BY <1>2 DEF TypeInv, Known, Handing, Writing
  <2>2. UNCHANGED <<prjFile, fifo, thread>>
    BY <1>2 DEF WritePiece
  <2>3. CASE HasReader(pid[p])
    <3> DEFINE piece == [text |-> text, of |-> project[p]]
    <3>1. /\ Goto(p, next)
          /\ pipe' = [pipe EXCEPT ![pid[p]] = Append(@, piece)]
          /\ missed' \subseteq Pid
      BY <1>1, <1>2, <2>1, <2>3 DEF WritePiece
    <3>2. piece \in Piece
      BY <2>1 DEF Piece
    <3>3. pipe' \in [Pid -> Seq(Piece)]
      BY <1>1, <2>1, <3>1, <3>2
    <3>4. next \in PC \ {"stranger"}
      BY DEF PC, Handing, Writing
    <3>5. QED
      BY <1>1, <2>1, <2>2, <3>1, <3>3, <3>4, GotoTypeInv
  <2>4. CASE ~ HasReader(pid[p])
    <3>1. Goto(p, "free") /\ Leave(p, {})
      BY <1>2, <2>4 DEF WritePiece
    <3>2. "free" \in PC \ {"stranger"} /\ "free" \notin Handing
      BY DEF PC, Handing, Writing
    <3>3. QED
      BY <1>1, <2>2, <3>1, <3>2, LeaveType, GotoTypeInv
  <2>5. QED
    BY <2>3, <2>4
<1>3. ASSUME pc[p] = "broken", Goto(p, "free"),
             UNCHANGED <<prjFile, fifoVars, missed>>
      PROVE  TypeInv'
  <2>1. "free" \in PC \ {"stranger"} /\ "free" \notin Handing
    BY DEF PC, Handing, Writing
  <2>2. QED
    BY <1>1, <1>3, <2>1, GotoTypeInv DEF fifoVars
<1>4. QED
  BY <1>2, <1>3, WriteCases

(* Those who wait for a fifo that is removed stay where they know what they *)
(* knew.                                                                    *)
LEMMA UnlinkType ==
  ASSUME TypeInv, NEW p \in Pid, NEW q, NEW at \in {"clear", "create"},
         Unlink(p, q, at), pc[p] \in {"unlink", "clear"},
         UNCHANGED <<project, prjFile, thread, pipe, windowVars, missed>>,
         pid' = [pid EXCEPT ![p] = NoPid] \/ UNCHANGED pid
  PROVE  TypeInv'
<1>1. /\ fifo' = [r \in Pid |-> fifo[r] /\ r # q]
      /\ UNCHANGED <<historyVars, boundVars>>
  BY DEF Unlink
<1>2. fifo' \in [Pid -> BOOLEAN]
  BY <1>1 DEF TypeInv, TypeOK
<1>3. /\ pid' \in [Pid -> Pid \cup {NoPid}]
      /\ \A r \in Pid \ {p} : pid'[r] = pid[r]
  BY DEF TypeInv, TypeOK
<1>4. Moves(p, at)
  BY UnlinkMoves DEF PC, Deciding
<1>5. project[p] \in Project
  BY DEF TypeInv, Known
<1>6. Known'
  BY <1>3, <1>4, <1>5, MovesKnown DEF Handing, Writing
<1>7. QED
  BY <1>1, <1>2, <1>3, <1>4, <1>6
  DEF TypeInv, TypeOK, Moves, historyVars, boundVars, windowVars

(* Each step of a start; the guard names the place it leaves. *)
LEMMA StartStepType ==
  ASSUME TypeInv, NEW p \in Pid, StartStep(p)
  PROVE  TypeInv'
<1> USE DEF Deciding, Handing, Writing, Opening, WithThread
<1>1. /\ pc \in [Pid -> PC] /\ pid \in [Pid -> Pid \cup {NoPid}]
      /\ project \in [Pid -> Project \cup {NoPid}]
      /\ prjFile \in [Project -> Pid \cup {"absent", "empty"}]
      /\ fifo \in [Pid -> BOOLEAN] /\ thread \in [Pid -> Thread]
      /\ pipe \in [Pid -> Seq(Piece)] /\ Known /\ missed \subseteq Pid
  BY DEF TypeInv, TypeOK
<1>2. CASE OpenStat(p)
  <2>1. PICK at \in {"stat", "unlink", "gone"} : Goto(p, at)
    BY <1>2 DEF OpenStat
  <2>2. UNCHANGED <<prjFile, fifo, thread, pipe, missed>> /\ pc[p] = "check"
    BY <1>2 DEF OpenStat, fifoVars
  <2>3. at \in PC \ {"stranger"} /\ at \notin Handing
    BY DEF PC
  <2>4. QED
    BY <1>1, <2>1, <2>2, <2>3, GotoTypeInv
<1>14. CASE ReadStat(p)
  <2>1. PICK at \in {"open", "unlink", "spin"} : Goto(p, at)
    BY <1>14 DEF ReadStat
  <2>2. /\ UNCHANGED <<prjFile, fifo, thread, pipe, missed>>
        /\ pc[p] \in {"stat", "gone"}
    BY <1>14 DEF ReadStat, fifoVars
  <2>3. at \in PC \ {"stranger"} /\ at \notin Handing \ {"open"}
    BY DEF PC
  <2>4. QED
    BY <1>1, <2>1, <2>2, <2>3, GotoTypeInv
<1>3. CASE UnlinkOther(p)
  BY <1>1, <1>3, UnlinkType DEF UnlinkOther, PC
<1>4. CASE Open(p)
  BY <1>4, OpenType
<1>5. CASE Unblock(p)
  <2>1. pid[p] \in Pid /\ pc[p] = "blocked"
    BY <1>1, <1>5 DEF Unblock, Known
  <2>2. thread' \in [Pid -> Thread]
    BY <1>1, <1>5, <2>1 DEF Unblock, Thread
  <2>3. Goto(p, "show") /\ UNCHANGED <<prjFile, fifo, pipe, missed>>
    BY <1>5 DEF Unblock
  <2>4. QED
    BY <1>1, <2>1, <2>2, <2>3, GotoTypeInv DEF PC
<1>6. CASE Write(p)
  BY <1>6, WriteType
<1>7. CASE ClearFifo(p)
  BY <1>1, <1>7, UnlinkType DEF ClearFifo, PC
<1>8. CASE CreatePrjFile(p)
  <2>1. prjFile' \in [Project -> Pid \cup {"absent", "empty"}]
    BY <1>1, <1>8 DEF CreatePrjFile
  <2>2. QED
    BY <1>1, <1>8, <2>1, GotoTypeInv DEF CreatePrjFile, PC, fifoVars
<1>9. CASE WritePid(p)
  <2>1. prjFile' \in [Project -> Pid \cup {"absent", "empty"}]
    BY <1>1, <1>9 DEF WritePid
  <2>2. QED
    BY <1>1, <1>9, <2>1, GotoTypeInv DEF WritePid, PC, fifoVars
<1>10. CASE MkFifo(p)
  <2>1. fifo' \in [Pid -> BOOLEAN]
    BY <1>1, <1>10 DEF MkFifo
  <2>2. QED
    BY <1>1, <1>10, <2>1, GotoTypeInv DEF MkFifo, PC
<1>11. CASE Listen(p)
  <2>1. thread' \in [Pid -> Thread]
    BY <1>1, <1>11 DEF Listen, Thread
  <2>2. UNCHANGED <<prjFile, fifo, pipe, missed>>
    BY <1>11 DEF Listen
  <2>3. CASE fifo[p]
    <3>1. Goto(p, "init") /\ pc[p] = "listen"
      BY <1>11, <2>3 DEF Listen
    <3>2. QED
      BY <1>1, <2>1, <2>2, <3>1, GotoTypeInv DEF PC
  <2>4. CASE ~ fifo[p]
    <3>1. Goto(p, "free")
      BY <1>11, <2>4 DEF Listen
    <3>2. QED
      BY <1>1, <2>1, <2>2, <3>1, GotoTypeInv DEF PC
  <2>5. QED
    BY <2>3, <2>4
<1>12. CASE ShowMainWindow(p)
  <2>1. pc' \in [Pid -> PC] /\ Known' /\ WindowType'
    BY <1>1, <1>12
    DEF ShowMainWindow, TypeInv, TypeOK, Known, PC, WindowType
  <2>2. QED
    BY <1>12, <2>1 DEF ShowMainWindow, TypeInv, TypeOK, WindowType, fifoVars,
                       historyVars, boundVars
<1>13. QED
  BY <1>2, <1>3, <1>4, <1>5, <1>6, <1>7, <1>8, <1>9, <1>10, <1>11, <1>12, <1>14
  DEF StartStep

(* What the windows, the signals and other programs do. *)
LEMMA QuitType ==
  ASSUME TypeInv, NEW p \in Pid,
         \/ GoToCode(p) \/ OnDestroy(p) \/ RemovePrjFile(p) \/ OnTerminate(p)
         \/ Kill(p) \/ Stranger(p) \/ StrangerEnds(p)
  PROVE  TypeInv'
<1> USE DEF Deciding, Handing, Writing, Opening, WithThread
<1>1. /\ pc \in [Pid -> PC] /\ pid \in [Pid -> Pid \cup {NoPid}]
      /\ project \in [Pid -> Project \cup {NoPid}] /\ WindowType
      /\ prjFile \in [Project -> Pid \cup {"absent", "empty"}]
      /\ fifo \in [Pid -> BOOLEAN] /\ thread \in [Pid -> Thread]
      /\ pipe \in [Pid -> Seq(Piece)] /\ Known /\ missed \subseteq Pid
  BY DEF TypeInv, TypeOK, WindowType
<1>2. CASE OnDestroy(p)
  BY <1>1, <1>2, GotoTypeInv DEF OnDestroy, PC, fifoVars
<1>3. CASE RemovePrjFile(p)
  <2>1. prjFile' \in [Project -> Pid \cup {"absent", "empty"}]
    BY <1>1, <1>3 DEF RemovePrjFile
  <2>2. QED
    BY <1>1, <1>3, <2>1, GotoTypeInv DEF RemovePrjFile, PC, fifoVars
<1>4. CASE OnTerminate(p)
  <2>1. /\ thread' \in [Pid -> Thread] /\ pipe' \in [Pid -> Seq(Piece)]
        /\ UNCHANGED <<prjFile, historyVars, boundVars>> /\ missed' \subseteq Pid
    BY <1>1, <1>4 DEF OnTerminate, Unlink, Thread
  <2>2. Moves(p, "free")
    BY <1>4, UnlinkMoves DEF OnTerminate, PC
  <2>3. pc' \in [Pid -> PC] /\ fifo' \in [Pid -> BOOLEAN]
    BY <1>1, <1>4, <2>2 DEF OnTerminate, Unlink, Moves
  <2>4. Ends(p)
    BY <1>4 DEF OnTerminate
  <2>5. Known'
    BY <2>2, <2>4, EndsType, MovesKnown
  <2>6. QED
    BY <2>1, <2>3, <2>4, <2>5, EndsType
    DEF TypeInv, TypeOK, WindowType, historyVars, boundVars
<1>5. CASE Kill(p)
  <2>1. /\ thread' \in [Pid -> Thread]
        /\ UNCHANGED <<prjFile, fifo, historyVars, launches, strangers>>
        /\ kills' \in 0 .. MaxKills
    BY <1>1, <1>5, LaunchAssumption
    DEF Kill, Die, Thread, LaunchAssumption, TypeInv, TypeOK
  <2>2. Moves(p, "free")
    BY <1>5, PcWhenMoves DEF Kill, Die, PC
  <2>3. pc' \in [Pid -> PC]
    BY <2>2 DEF Moves
  <2>4. Ends(p) /\ Leave(p, {p})
    BY <1>5 DEF Kill, Die
  <2>5. Known'
    BY <2>2, <2>4, EndsType, MovesKnown
  <2>6. QED
    BY <2>1, <2>3, <2>4, <2>5, EndsType, LeaveType
    DEF TypeInv, TypeOK, WindowType, historyVars
<1>6. CASE Stranger(p)
  <2>1. strangers' \in 0 .. MaxStrangers
    BY <1>6, LaunchAssumption DEF Stranger, LaunchAssumption, TypeInv, TypeOK
  <2>2. pc' \in [Pid -> PC] /\ Known'
    BY <1>1, <1>6 DEF Stranger, PC, Known
  <2>3. QED
    BY <1>6, <2>1, <2>2
    DEF Stranger, TypeInv, TypeOK, fifoVars, windowVars, historyVars
<1>7. CASE StrangerEnds(p)
  BY <1>1, <1>7, GotoTypeInv DEF StrangerEnds, PC, fifoVars
<1>8. CASE GoToCode(p)
  <2>1. visible' \in [Pid -> BOOLEAN]
    BY <1>8 DEF GoToCode, TypeInv, TypeOK
  <2>2. QED
    BY <1>8, <2>1
    DEF GoToCode, TypeInv, TypeOK, Known, fifoVars, historyVars, boundVars
<1>9. QED
  BY <1>2, <1>3, <1>4, <1>5, <1>6, <1>7, <1>8

LEMMA ReaderType ==
  ASSUME TypeInv, NEW p \in Pid, ReaderStep(p)
  PROVE  TypeInv'
<1>1. /\ UNCHANGED <<pc, project, pid, prjFile, fifo, historyVars, boundVars>>
      /\ \E state \in Thread : thread' = [thread EXCEPT ![p] = state]
  BY DEF ReaderStep, ReadChunk, ReadEnd, CloseFifo, ReopenFifo, ThreadTo, Thread
<1>2. thread' \in [Pid -> Thread]
  BY <1>1 DEF TypeInv, TypeOK
<1>3. pipe' \in [Pid -> Seq(Piece)]
  <2>1. pipe \in [Pid -> Seq(Piece)] /\ <<>> \in Seq(Piece)
    BY DEF TypeInv, TypeOK
  <2>2. CASE ReadChunk(p)
    BY <2>1, <2>2 DEF ReadChunk
  <2>3. CASE CloseFifo(p)
    <3>1. pipe' = pipe \/ pipe' = [pipe EXCEPT ![p] = <<>>]
      BY <2>3 DEF CloseFifo
    <3>2. QED
      BY <2>1, <3>1
  <2>4. CASE ReadEnd(p) \/ ReopenFifo(p)
    BY <2>1, <2>4 DEF ReadEnd, ReopenFifo
  <2>5. QED
    BY <2>2, <2>3, <2>4 DEF ReaderStep
<1>4. WindowType' /\ missed' \subseteq Pid
  <2>1. CASE ReadChunk(p)
    <3> DEFINE chunk == pipe[p]
    <3>1. chunk \in Seq(Piece)
      BY DEF TypeInv, TypeOK
    <3>2. {chunk[i].of : i \in DOMAIN chunk} \subseteq Project
      <4>1. \A i \in DOMAIN chunk : chunk[i] \in Piece
        BY <3>1
      <4>2. \A x \in Piece : x.of \in Project
        BY DEF Piece
      <4> HIDE DEF chunk
      <4>3. QED
        BY <4>1, <4>2
    <3>3. CASE pc[p] = "running"
      <4> HIDE DEF chunk
      <4>1. /\ \E name \in {"given", "test"} :
                prjName' = [prjName EXCEPT ![p] = name]
            /\ visible' = [visible EXCEPT ![p] = @ \/ Shows(chunk)]
            /\ told' = [told EXCEPT ![p] =
                          @ \cup {chunk[i].of : i \in DOMAIN chunk}]
        BY <2>1, <3>3 DEF ReadChunk, chunk
      <4>2. prjName' \in [Pid -> {"none", "given", "test"}]
        BY <4>1 DEF TypeInv, TypeOK
      <4>3. visible' \in [Pid -> BOOLEAN]
        BY <4>1 DEF TypeInv, TypeOK
      <4>4. told' \in [Pid -> SUBSET Project]
        BY <3>2, <4>1 DEF TypeInv, TypeOK
      <4>5. missed' \subseteq Pid
        BY <2>1 DEF ReadChunk, TypeInv, TypeOK
      <4>6. QED
        BY <4>2, <4>3, <4>4, <4>5 DEF WindowType
    <3>4. CASE pc[p] # "running"
      BY <2>1, <3>4 DEF ReadChunk, TypeInv, TypeOK, WindowType, windowVars
    <3>5. QED
      BY <3>3, <3>4
  <2>2. CASE ReadEnd(p) \/ CloseFifo(p) \/ ReopenFifo(p)
    BY <2>2 DEF ReadEnd, CloseFifo, ReopenFifo, TypeInv, TypeOK, WindowType,
                windowVars
  <2>3. QED
    BY <2>1, <2>2 DEF ReaderStep
<1>5. QED
  BY <1>1, <1>2, <1>3, <1>4
  DEF TypeInv, TypeOK, Known, WindowType, historyVars, boundVars

LEMMA NextTypeInv == TypeInv /\ [Next]_vars => TypeInv'
<1> SUFFICES ASSUME TypeInv, [Next]_vars PROVE TypeInv'
  OBVIOUS
<1>1. CASE UNCHANGED vars
  BY <1>1 DEF vars, fifoVars, windowVars, historyVars, boundVars, TypeInv,
              TypeOK, Known
<1>2. CASE Next
  BY <1>2, LaunchType, StartStepType, ReaderType, QuitType DEF Next
<1>3. QED
  BY <1>1, <1>2

(* Every variable keeps its type: no step reads a number that is none where *)
(* it uses one (main.cpp: processArgs, start_project, wait_for_other_args). *)
THEOREM TypeCorrect == Spec => []TypeOK
<1>1. TypeInv => TypeOK
  BY DEF TypeInv
<1>2. QED
  BY <1>1, InitTypeInv, NextTypeInv, PTL DEF Spec

-----------------------------------------------------------------------------
(* One builder. *)

LEMMA InitServerInv == Init => ServerInv
  BY DEF Init, ServerInv, OneDecides, ServerNamed, ServerFound, Decides, Serving,
         Deciding, Opening

LEMMA ServerNamedAlone == ServerNamed => OneServer
  BY DEF ServerNamed, OneServer

(* A step after which nobody decides or serves who did not, and which leaves *)
(* alone what a start with a builder knows and what the file says of one.    *)
LEMMA CalmStep ==
  ASSUME ServerInv, UNCHANGED overlapped,
         \A j \in Project, q \in Pid : Decides(q, j)' => Decides(q, j),
         \A j \in Project, q \in Pid : Serving(q, j)' => Serving(q, j),
         \A j \in Project \ overlapped : \A p, q \in Pid :
           Serving(p, j)' /\ Decides(q, j)' =>
             pc'[q] \in {pc[q], "stat"} /\ pid'[q] = pid[q],
         \A j \in Project \ overlapped : \A p \in Pid :
           Serving(p, j)' => prjFile'[j] = prjFile[j]
  PROVE  ServerInv'
<1>1. OneDecides'
  BY DEF ServerInv, OneDecides
<1>2. ServerNamed'
  BY DEF ServerInv, ServerNamed
<1>3. ServerFound'
  <2>1. SUFFICES ASSUME NEW j \in Project \ overlapped, NEW p \in Pid,
                        NEW q \in Pid, Serving(p, j)', Decides(q, j)'
                 PROVE  pc'[q] \in {"check", "stat"} /\ pid'[q] = p
    BY DEF ServerFound
  <2>2. Serving(p, j) /\ Decides(q, j)
    BY <2>1
  <2>3. pc[q] \in {"check", "stat"} /\ pid[q] = p
    BY <2>2 DEF ServerInv, ServerFound
  <2>4. QED
    BY <2>1, <2>3
<1>4. QED
  BY <1>1, <1>2, <1>3 DEF ServerInv

(* A start that reads the file of a project with a builder finds its number. *)
LEMMA LaunchServer ==
  ASSUME TypeInv, ServerInv, NEW p \in Pid, NEW j \in Project, Launch(p, j)
  PROVE  ServerInv'
<1>1. /\ pc[p] = "free" /\ project' = [project EXCEPT ![p] = j]
      /\ overlapped \subseteq overlapped' /\ UNCHANGED prjFile
      /\ (\E q \in Pid : Decides(q, j)) => j \in overlapped'
      /\ project \in [Pid -> Project \cup {NoPid}] /\ pc \in [Pid -> PC]
      /\ pid \in [Pid -> Pid \cup {NoPid}]
  BY DEF Launch, Decides, TypeInv, TypeOK
<1>2. /\ pc'[p] \in {"clear", "check"} /\ project'[p] = j
      /\ \A q \in Pid \ {p} : /\ pc'[q] = pc[q] /\ pid'[q] = pid[q]
                             /\ project'[q] = project[q]
  <2>1. CASE prjFile[j] = "absent"
    BY <1>1, <2>1 DEF Launch
  <2>2. CASE prjFile[j] # "absent"
    BY <1>1, <2>2 DEF Launch
  <2>3. QED
    BY <2>1, <2>2
<1>3. \A i \in Project, q \in Pid :
        /\ Serving(q, i)' => q # p /\ Serving(q, i)
        /\ q # p /\ Decides(q, i)' => Decides(q, i)
        /\ Decides(p, i)' => i = j
  BY <1>2 DEF Serving, Decides, Opening
<1>4. OneDecides'
  BY <1>1, <1>3 DEF ServerInv, OneDecides
<1>5. ServerNamed'
  BY <1>1, <1>3 DEF ServerInv, ServerNamed
<1>6. ServerFound'
  <2>1. SUFFICES ASSUME NEW i \in Project \ overlapped', NEW s \in Pid,
                        NEW q \in Pid, Serving(s, i)', Decides(q, i)'
                 PROVE  pc'[q] \in {"check", "stat"} /\ pid'[q] = s
    BY DEF ServerFound
  <2>2. Serving(s, i) /\ i \in Project \ overlapped
    BY <1>1, <1>3, <2>1
  <2>3. CASE q # p
    BY <1>2, <1>3, <2>1, <2>2, <2>3 DEF ServerInv, ServerFound
  <2>4. CASE q = p
    <3>1. i = j /\ prjFile[j] = s
      BY <1>3, <2>1, <2>2, <2>4 DEF ServerInv, ServerNamed
    <3>2. NumberReadFrom(j) = {s} /\ prjFile[j] # "absent"
      BY <3>1, LaunchAssumption DEF NumberReadFrom, LaunchAssumption
    <3>3. pc' = [pc EXCEPT ![p] = "check"] /\ pid' = [pid EXCEPT ![p] = s]
      BY <3>2 DEF Launch
    <3>4. QED
      BY <1>1, <2>4, <3>3
  <2>5. QED
    BY <2>3, <2>4
<1>7. QED
  BY <1>4, <1>5, <1>6 DEF ServerInv

(* Past the check there is no builder. *)
LEMMA NoServerYet ==
  ASSUME ServerInv, NEW j \in Project \ overlapped, NEW p \in Pid,
         Decides(p, j), pc[p] \notin {"check", "stat"}
  PROVE  \A s \in Pid : ~ Serving(s, j)
  BY DEF ServerInv, ServerFound

(* A process that goes on where it is not the builder, or ends. *)
LEMMA MovesServer ==
  ASSUME TypeInv, ServerInv, NEW p \in Pid, NEW at, Moves(p, at),
         UNCHANGED overlapped,
         \A r \in Pid \ {p} : project'[r] = project[r] /\ pid'[r] = pid[r],
         at # "free" => project'[p] = project[p],
         at \in Deciding => pc[p] \in Deciding \ {"check", "stat"},
         at \in Opening \cup {"init", "running", "closing"} =>
           pc[p] \in Opening \cup {"init", "running", "closing"},
         \A j \in Project \ overlapped, s \in Pid \ {p} :
           Serving(s, j) => prjFile'[j] = prjFile[j],
         at \in Opening \cup {"init", "running", "closing"} =>
           prjFile' = prjFile
  PROVE  ServerInv'
<1> USE DEF Deciding, Opening
<1>1. \A j \in Project, q \in Pid : Decides(q, j)' => Decides(q, j)
  BY DEF Decides, Moves
<1>2. \A j \in Project, q \in Pid : Serving(q, j)' => Serving(q, j)
  BY DEF Serving, Moves
<1>3. ASSUME NEW j \in Project \ overlapped, NEW s \in Pid, NEW q \in Pid,
             Serving(s, j)', Decides(q, j)'
      PROVE  pc'[q] \in {pc[q], "stat"} /\ pid'[q] = pid[q]
  <2>1. Serving(s, j) /\ Decides(q, j)
    BY <1>1, <1>2, <1>3
  <2>2. CASE q = p
    <3>1. pc[p] \in Deciding \ {"check", "stat"}
      BY <1>3, <2>2 DEF Decides, Moves
    <3>2. QED
      BY <2>1, <2>2, <3>1, NoServerYet
  <2>3. CASE q # p
    <3>1. pid[q] = s
      BY <2>1 DEF ServerInv, ServerFound
    <3>2. s = p => at # "free"
      BY <1>3 DEF Serving, Moves
    <3>3. QED
      BY <1>3, <2>3, <3>1, <3>2 DEF Decides, Moves
  <2>4. QED
    BY <2>2, <2>3
<1>4. ASSUME NEW j \in Project \ overlapped, NEW s \in Pid, Serving(s, j)'
      PROVE  prjFile'[j] = prjFile[j]
  <2>1. CASE s # p
    BY <1>2, <1>4, <2>1
  <2>2. CASE s = p
    BY <1>4, <2>2 DEF Serving, Moves
  <2>3. QED
    BY <2>1, <2>2
<1>5. QED
  BY <1>1, <1>2, <1>3, <1>4, CalmStep

LEMMA GotoServer ==
  ASSUME TypeInv, ServerInv, NEW p \in Pid, NEW at \in PC, Goto(p, at),
         at \in Deciding => pc[p] \in Deciding \ {"check", "stat"},
         at \in Opening \cup {"init", "running", "closing"} =>
           pc[p] \in Opening \cup {"init", "running", "closing"},
         \A j \in Project \ overlapped, s \in Pid \ {p} :
           Serving(s, j) => prjFile'[j] = prjFile[j],
         at \in Opening \cup {"init", "running", "closing"} =>
           prjFile' = prjFile
  PROVE  ServerInv'
<1>1. Moves(p, at) /\ UNCHANGED overlapped
  BY PcWhenMoves DEF Goto, historyVars
<1>2. CASE at = "free"
  <2>1. \A r \in Pid \ {p} : project'[r] = project[r] /\ pid'[r] = pid[r]
    BY <1>2, EndsType DEF Goto
  <2>2. QED
    BY <1>1, <1>2, <2>1, MovesServer
<1>3. CASE at # "free"
  <2>1. project' = project /\ pid' = pid
    BY <1>3 DEF Goto
  <2>2. QED
    BY <1>1, <1>3, <2>1, MovesServer
<1>4. QED
  BY <1>2, <1>3

(* A file that is removed changes only those who wait for it. *)
LEMMA UnlinkServer ==
  ASSUME TypeInv, ServerInv, NEW p \in Pid, NEW q, NEW at \in PC,
         Unlink(p, q, at),
         at = "free" \/ (at \in Deciding /\ pc[p] \in Deciding \ {"check", "stat"}),
         UNCHANGED prjFile,
         \A r \in Pid \ {p} : project'[r] = project[r] /\ pid'[r] = pid[r],
         at # "free" => project'[p] = project[p]
  PROVE  ServerInv'
<1>1. Moves(p, at) /\ UNCHANGED overlapped
  <2>1. UNCHANGED overlapped
    BY DEF Unlink, historyVars
  <2>2. QED
    BY <2>1, UnlinkMoves
<1>2. at \notin Opening \cup {"init", "running", "closing"}
  BY DEF Deciding, Opening
<1>3. QED
  BY <1>1, <1>2, MovesServer DEF Deciding

(* The look at its process finds the builder that runs. *)
LEMMA StatServer ==
  ASSUME TypeInv, ServerInv, NEW p \in Pid, OpenStat(p) \/ ReadStat(p)
  PROVE  ServerInv'
<1> USE DEF Deciding, Opening
<1>1. PICK at \in {"stat", "gone", "unlink", "open", "spin"} :
        /\ Goto(p, at)
        /\ pc[p] = "check" /\ processIsRunning(pid[p]) => at = "stat"
        /\ pc[p] = "stat" => at = "open"
  BY DEF OpenStat, ReadStat
<1>2. /\ pc[p] \in {"check", "stat", "gone"}
      /\ UNCHANGED <<prjFile, overlapped, project, pid>>
  BY <1>1 DEF OpenStat, ReadStat, Goto, historyVars
<1>3. Moves(p, at)
  BY <1>1, PcWhenMoves DEF Goto, PC, Handing
<1>4. \A j \in Project, q \in Pid : Decides(q, j)' => Decides(q, j)
  BY <1>2, <1>3 DEF Decides, Moves
<1>5. \A j \in Project, q \in Pid : Serving(q, j)' => Serving(q, j)
  BY <1>2, <1>3 DEF Serving, Moves
<1>6. ASSUME NEW j \in Project \ overlapped, NEW s \in Pid, NEW q \in Pid,
             Serving(s, j)', Decides(q, j)'
      PROVE  pc'[q] \in {pc[q], "stat"} /\ pid'[q] = pid[q]
  <2>1. CASE q # p
    BY <1>2, <1>3, <1>6, <2>1 DEF Decides, Moves
  <2>2. CASE q = p
    <3>1. Decides(p, j) /\ Serving(s, j)
      BY <1>4, <1>5, <1>6, <2>2
    <3>2. pc[p] \in {"check", "stat"} /\ pid[p] = s /\ processIsRunning(s)
      BY <3>1 DEF ServerInv, ServerFound, processIsRunning, Serving
    <3>3. at \in {"stat", "open"}
      BY <1>1, <3>2
    <3>4. QED
      BY <1>2, <1>3, <1>6, <2>2, <3>3 DEF Decides, Moves
  <2>3. QED
    BY <2>1, <2>2
<1>7. QED
  BY <1>2, <1>4, <1>5, <1>6, CalmStep

(* The one who decides becomes the builder and writes its number. *)
LEMMA WritePidServer ==
  ASSUME TypeInv, ServerInv, NEW p \in Pid, WritePid(p)
  PROVE  ServerInv'
<1> USE DEF Deciding, Opening
<1>1. /\ pc[p] = "write pid" /\ Moves(p, "mkfifo")
      /\ UNCHANGED <<project, pid, overlapped>>
      /\ prjFile' = [prjFile EXCEPT ![project[p]] = p]
      /\ project[p] \in Project
      /\ prjFile \in [Project -> Pid \cup {"absent", "empty"}]
  BY PcWhenMoves DEF WritePid, Goto, historyVars, TypeInv, TypeOK, Known, PC
<1>2. \A j \in Project, q \in Pid :
        Decides(q, j)' => q # p /\ Decides(q, j) /\ pc'[q] = pc[q]
  BY <1>1 DEF Decides, Moves
<1>3. \A j \in Project, q \in Pid :
        Serving(q, j)' => (q = p /\ j = project[p]) \/ Serving(q, j)
  BY <1>1 DEF Serving, Moves
<1>4. Decides(p, project[p])
  BY <1>1 DEF Decides
<1>5. project[p] \notin overlapped => \A s \in Pid : ~ Serving(s, project[p])
  BY <1>1, <1>4, NoServerYet
<1>6. OneDecides'
  BY <1>1, <1>2 DEF ServerInv, OneDecides
<1>7. ServerNamed'
  <2>1. SUFFICES ASSUME NEW j \in Project \ overlapped, NEW q \in Pid,
                        Serving(q, j)'
                 PROVE  prjFile'[j] = q
    BY <1>1 DEF ServerNamed
  <2>2. CASE q = p /\ j = project[p]
    BY <1>1, <2>2
  <2>3. CASE Serving(q, j)
    <3>1. j # project[p]
      BY <1>5, <2>3
    <3>2. QED
      BY <1>1, <2>3, <3>1 DEF ServerInv, ServerNamed
  <2>4. QED
    BY <1>3, <2>1, <2>2, <2>3
<1>8. ServerFound'
  <2>1. SUFFICES ASSUME NEW j \in Project \ overlapped, NEW s \in Pid,
                        NEW q \in Pid, Serving(s, j)', Decides(q, j)'
                 PROVE  pc'[q] \in {"check", "stat"} /\ pid'[q] = s
    <3>1. overlapped' = overlapped
      BY <1>1
    <3>2. QED
      BY <3>1 DEF ServerFound
  <2>2. j # project[p]
    BY <1>2, <1>4, <2>1 DEF ServerInv, OneDecides
  <2>3. Serving(s, j) /\ Decides(q, j) /\ pc'[q] = pc[q]
    BY <1>2, <1>3, <2>1, <2>2
  <2>4. pc[q] \in {"check", "stat"} /\ pid[q] = s
    BY <2>1, <2>3 DEF ServerInv, ServerFound
  <2>5. QED
    BY <1>1, <2>3, <2>4
<1>9. QED
  BY <1>6, <1>7, <1>8 DEF ServerInv

LEMMA StartStepServer ==
  ASSUME TypeInv, ServerInv, NEW p \in Pid, StartStep(p)
  PROVE  ServerInv'
<1> USE DEF Deciding, Opening
<1>1. CASE OpenStat(p) \/ ReadStat(p)
  BY <1>1, StatServer
<1>2. CASE UnlinkOther(p)
  BY <1>2, UnlinkServer DEF UnlinkOther, TypeInv, TypeOK, PC
<1>3. CASE Open(p)
  <2>1. PICK at \in {"free", "show", "blocked"} : Goto(p, at)
    BY <1>3 DEF Open
  <2>2. UNCHANGED prjFile /\ at \in PC
    BY <1>3 DEF Open, PC, Handing, Writing
  <2>3. QED
    BY <2>1, <2>2, GotoServer
<1>4. CASE Unblock(p)
  BY <1>4, GotoServer DEF Unblock, PC, Handing, Writing
<1>5. CASE Write(p)
  <2>1. PICK at \in Writing \cup {"free"} : Goto(p, at)
    BY <1>5, WriteCases DEF WritePiece
  <2>2. UNCHANGED prjFile /\ at \in PC /\ at \notin {"init", "running", "closing"}
    BY <1>5, WriteCases DEF WritePiece, PC, Handing, Writing
  <2>3. at \notin Deciding \cup Opening
    BY DEF Writing
  <2>4. QED
    BY <2>1, <2>2, <2>3, GotoServer
<1>6. CASE ClearFifo(p)
  BY <1>6, UnlinkServer DEF ClearFifo, PC
<1>7. CASE CreatePrjFile(p)
  <2>1. Goto(p, "write pid") /\ pc[p] = "create"
    BY <1>7 DEF CreatePrjFile
  <2>2. \A j \in Project \ overlapped, s \in Pid \ {p} :
          Serving(s, j) => prjFile'[j] = prjFile[j]
    <3>1. SUFFICES ASSUME NEW j \in Project \ overlapped, NEW s \in Pid,
                          Serving(s, j)
                   PROVE  j # project[p]
      BY <1>7 DEF CreatePrjFile, TypeInv, TypeOK
    <3>2. QED
      BY <2>1, <3>1, NoServerYet DEF Decides
  <2>3. QED
    BY <2>1, <2>2, GotoServer DEF PC
<1>8. CASE WritePid(p)
  BY <1>8, WritePidServer
<1>9. CASE MkFifo(p)
  BY <1>9, GotoServer DEF MkFifo, PC
<1>10. CASE Listen(p)
  <2>1. PICK at \in {"init", "free"} : Goto(p, at)
    BY <1>10 DEF Listen
  <2>2. UNCHANGED prjFile /\ pc[p] = "listen" /\ at \in PC
    BY <1>10 DEF Listen, PC, WithThread
  <2>3. QED
    BY <2>1, <2>2, GotoServer
<1>11. CASE ShowMainWindow(p)
  <2>1. /\ pc[p] = "init" /\ Moves(p, "running")
        /\ UNCHANGED <<project, pid, prjFile, overlapped>>
    BY <1>11 DEF ShowMainWindow, historyVars, TypeInv, TypeOK, Moves, PC,
                 WithThread
  <2>2. QED
    BY <2>1, MovesServer
<1>12. QED
  BY <1>1, <1>2, <1>3, <1>4, <1>5, <1>6, <1>7, <1>8, <1>9, <1>10, <1>11
  DEF StartStep

LEMMA QuitServer ==
  ASSUME TypeInv, ServerInv, NEW p \in Pid,
         \/ GoToCode(p) \/ OnDestroy(p) \/ RemovePrjFile(p) \/ OnTerminate(p)
         \/ Kill(p) \/ Stranger(p) \/ StrangerEnds(p)
  PROVE  ServerInv'
<1> USE DEF Deciding, Opening
<1>1. CASE OnDestroy(p)
  BY <1>1, GotoServer DEF OnDestroy, PC, WithThread
<1>2. CASE RemovePrjFile(p)
  <2>1. Goto(p, "leaving") /\ pc[p] = "closing"
    BY <1>2 DEF RemovePrjFile
  <2>2. \A j \in Project \ overlapped, s \in Pid \ {p} :
          Serving(s, j) => prjFile'[j] = prjFile[j]
    <3>1. SUFFICES ASSUME NEW j \in Project \ overlapped,
                          NEW s \in Pid \ {p}, Serving(s, j)
                   PROVE  j # project[p]
      BY <1>2 DEF RemovePrjFile, TypeInv, TypeOK
    <3>2. project[p] = j => Serving(p, j)
      BY <2>1 DEF Serving
    <3>3. OneServer
      BY ServerNamedAlone DEF ServerInv
    <3>4. QED
      BY <3>1, <3>2, <3>3 DEF OneServer
  <2>3. QED
    BY <2>1, <2>2, GotoServer DEF PC, WithThread
<1>3. CASE OnTerminate(p)
  <2>1. Unlink(p, p, "free") /\ Ends(p) /\ UNCHANGED prjFile
    BY <1>3 DEF OnTerminate
  <2>2. QED
    BY <2>1, EndsType, UnlinkServer DEF PC
<1>4. CASE Kill(p)
  <2>1. /\ Moves(p, "free") /\ Ends(p)
        /\ UNCHANGED <<prjFile, overlapped>>
    BY <1>4, PcWhenMoves DEF Kill, Die, historyVars, PC
  <2>2. QED
    BY <2>1, EndsType, MovesServer
<1>5. CASE Stranger(p)
  <2>1. /\ pc[p] = "free" /\ Moves(p, "stranger")
        /\ UNCHANGED <<project, pid, prjFile, overlapped>>
    BY <1>5 DEF Stranger, historyVars, TypeInv, TypeOK, Moves, PC
  <2>2. QED
    BY <2>1, MovesServer
<1>6. CASE StrangerEnds(p)
  BY <1>6, GotoServer DEF StrangerEnds, PC
<1>7. CASE GoToCode(p)
  <2>1. UNCHANGED <<pc, project, pid, prjFile, overlapped>>
    BY <1>7 DEF GoToCode, historyVars
  <2>2. \A r \in Pid, j \in Project :
          /\ Serving(r, j)' <=> Serving(r, j)
          /\ Decides(r, j)' <=> Decides(r, j)
    BY <2>1 DEF Decides, Serving
  <2>3. QED
    BY <2>1, <2>2 DEF ServerInv, OneDecides, ServerNamed, ServerFound
<1>8. QED
  BY <1>1, <1>2, <1>3, <1>4, <1>5, <1>6, <1>7

LEMMA NextServerInv == TypeInv /\ ServerInv /\ [Next]_vars => ServerInv'
<1> SUFFICES ASSUME TypeInv, ServerInv, [Next]_vars PROVE ServerInv'
  OBVIOUS
<1>1. CASE UNCHANGED vars
  BY <1>1 DEF vars, historyVars, ServerInv, OneDecides, ServerNamed,
              ServerFound, Decides, Serving
<1>2. ASSUME NEW p \in Pid, ReaderStep(p) PROVE ServerInv'
  <2>1. UNCHANGED <<pc, project, pid, prjFile, overlapped>>
    BY <1>2 DEF ReaderStep, ReadChunk, ReadEnd, CloseFifo, ReopenFifo, ThreadTo,
                historyVars
  <2>2. QED
    BY <2>1 DEF ServerInv, OneDecides, ServerNamed, ServerFound, Decides, Serving
<1>3. CASE Next
  BY <1>2, <1>3, LaunchServer, StartStepServer, QuitServer DEF Next
<1>4. QED
  BY <1>1, <1>3

(* A project has one builder, whatever was killed, left files behind or got  *)
(* a used number, unless two starts looked the project up at once (main.cpp: *)
(* the project file is read, and written, without a lock).                   *)
THEOREM OneServerCorrect == Spec => []OneServer
<1>1. Init => TypeInv /\ ServerInv
  BY InitTypeInv, InitServerInv
<1>2. TypeInv /\ ServerInv /\ [Next]_vars => TypeInv' /\ ServerInv'
  BY NextTypeInv, NextServerInv
<1>3. ServerInv => OneServer
  BY ServerNamedAlone DEF ServerInv
<1>4. QED
  BY <1>1, <1>2, <1>3, PTL DEF Spec

-----------------------------------------------------------------------------
(* What a running builder hears. *)

Free(p) == pc[p] \in {"free", "stranger"}

(* A number found with project j was this project's, unless it was used      *)
(* again or the file of j was read without one.                              *)
Own(p, j) ==
  \/ lives[p] > 1 \/ j \in guessed
  \/ lives[p] = 1 /\ (Free(p) \/ project[p] = j)

(* So is the number in a file, one that was read there, the number of the    *)
(* builder to whose fifo something was written, and of one that read it.     *)
FreeKnowsNothing == \A p \in Pid : Free(p) => pid[p] = NoPid
Lives == \A p \in Pid : ~ Free(p) => lives[p] > 0
FileOwn == \A j \in Project, p \in Pid : prjFile[j] = p => Own(p, j)
ReadOwn == \A q, p \in Pid : ~ Free(q) /\ pid[q] = p => Own(p, project[q])
PipeOwn ==
  \A p \in Pid : \A k \in DOMAIN pipe[p] : Own(p, pipe[p][k].of)
ToldOwn == \A p \in Pid : \A j \in told[p] : Own(p, j)

PathInv == FreeKnowsNothing /\ Lives /\ FileOwn /\ ReadOwn /\ PipeOwn /\ ToldOwn

LEMMA InitPathInv == Init => PathInv
  BY LaunchAssumption
  DEF Init, PathInv, FreeKnowsNothing, Lives, FileOwn, ReadOwn, PipeOwn,
      ToldOwn, Free

LEMMA OwnHears == PathInv => HearsItsProject
  BY DEF PathInv, ToldOwn, HearsItsProject, Own, Free

(* What every step but a launch does to a process: it goes on with its       *)
(* project and its number, or it ends.                                       *)
Steady ==
  /\ UNCHANGED <<lives, guessed>>
  /\ \A q \in Pid :
       \/ /\ project'[q] = project[q] /\ pid'[q] \in {pid[q], NoPid}
          /\ Free(q)' <=> Free(q)
       \/ Free(q)' /\ pid'[q] = NoPid

(* No builder is told more, and no fifo holds more. *)
NothingTold == \A q \in Pid : told'[q] \subseteq told[q]
NothingPiped ==
  \A q \in Pid : \A k \in DOMAIN pipe'[q] :
    k \in DOMAIN pipe[q] /\ pipe'[q][k] = pipe[q][k]

LEMMA OwnStable ==
  ASSUME Steady, NEW p \in Pid, NEW j, Own(p, j)
  PROVE  Own(p, j)'
  BY DEF Steady, Own

LEMMA SteadyStep ==
  ASSUME TypeInv, PathInv, Steady,
         \A p \in Pid : \A j \in told'[p] : Own(p, j),
         \A j \in Project, p \in Pid :
           prjFile'[j] = p => prjFile[j] = p \/ Own(p, j),
         \A p \in Pid : \A k \in DOMAIN pipe'[p] : Own(p, pipe'[p][k].of)
  PROVE  PathInv'
<1>1. FreeKnowsNothing' /\ Lives'
  BY DEF PathInv, FreeKnowsNothing, Lives, Steady
<1>2. FileOwn'
  BY OwnStable DEF PathInv, FileOwn
<1>3. ReadOwn'
  <2> SUFFICES ASSUME NEW q \in Pid, NEW p \in Pid, ~ Free(q)', pid'[q] = p
               PROVE  Own(p, project[q])'
    BY DEF ReadOwn
  <2>1. ~ Free(q) /\ pid[q] = p /\ project'[q] = project[q]
    BY LaunchAssumption DEF Steady
  <2>2. Own(p, project[q])
    BY <2>1 DEF PathInv, ReadOwn
  <2>3. QED
    BY <2>1, <2>2 DEF Own, Steady
<1>4. PipeOwn' /\ ToldOwn'
  BY OwnStable DEF PipeOwn, ToldOwn
<1>5. QED
  BY <1>1, <1>2, <1>3, <1>4 DEF PathInv

(* A step that adds to no fifo and tells nobody anything. *)
LEMMA QuietStep ==
  ASSUME TypeInv, PathInv, Steady, NothingTold, NothingPiped,
         \A j \in Project, p \in Pid :
           prjFile'[j] = p => prjFile[j] = p \/ Own(p, j)
  PROVE  PathInv'
<1>1. \A p \in Pid : \A j \in told'[p] : Own(p, j)
  BY DEF PathInv, ToldOwn, NothingTold
<1>2. \A p \in Pid : \A k \in DOMAIN pipe'[p] : Own(p, pipe'[p][k].of)
  BY DEF PathInv, PipeOwn, NothingPiped
<1>3. QED
  BY <1>1, <1>2, SteadyStep

LEMMA MovesSteady ==
  ASSUME TypeInv, NEW p \in Pid, NEW at, Moves(p, at),
         UNCHANGED <<lives, guessed>>,
         \A r \in Pid \ {p} : project'[r] = project[r] /\ pid'[r] = pid[r],
         \/ at = "free" /\ pid'[p] = NoPid
         \/ /\ project'[p] = project[p] /\ pid'[p] \in {pid[p], NoPid}
            /\ Free(p) <=> at \in {"free", "stranger"}
  PROVE  Steady
  BY DEF Steady, Moves, Free, Writing

LEMMA EndsTold ==
  ASSUME TypeInv, NEW p \in Pid, Ends(p)
  PROVE  NothingTold
  BY DEF Ends, TypeInv, TypeOK, NothingTold

LEMMA GotoSteady ==
  ASSUME TypeInv, NEW p \in Pid, NEW at \in PC \ {"stranger"},
         Goto(p, at), at # "free" => ~ Free(p)
  PROVE  Steady /\ NothingTold
<1>1. Moves(p, at) /\ UNCHANGED <<lives, guessed>>
  BY PcWhenMoves DEF Goto, historyVars
<1>2. CASE at = "free"
  <2>1. Ends(p)
    BY <1>2 DEF Goto
  <2>2. QED
    BY <1>1, <1>2, <2>1, EndsType, EndsTold, MovesSteady
<1>3. CASE at # "free"
  <2>1. UNCHANGED <<project, pid, told>>
    BY <1>3 DEF Goto, windowVars
  <2>2. QED
    BY <1>1, <1>3, <2>1, MovesSteady DEF NothingTold
<1>4. QED
  BY <1>2, <1>3

LEMMA LeavePiped ==
  ASSUME TypeInv, NEW p, NEW gone, Leave(p, gone)
  PROVE  NothingPiped
  BY DEF Leave, TypeInv, TypeOK, NothingPiped

(* A step that goes on and leaves project files and pipes alone. *)
LEMMA GotoPath ==
  ASSUME TypeInv, PathInv, NEW p \in Pid, NEW at \in PC \ {"stranger"},
         Goto(p, at), at # "free" => ~ Free(p), UNCHANGED <<prjFile, pipe>>
  PROVE  PathInv'
<1>1. Steady /\ NothingTold
  BY GotoSteady
<1>2. QED
  BY <1>1, QuietStep DEF NothingPiped

LEMMA LaunchPath ==
  ASSUME TypeInv, PathInv, NEW p \in Pid, NEW j \in Project, Launch(p, j)
  PROVE  PathInv'
<1>1. /\ pc[p] = "free" /\ UNCHANGED <<prjFile, pipe, told>>
      /\ project' = [project EXCEPT ![p] = j] /\ lives' = [lives EXCEPT ![p] = @ + 1]
      /\ guessed \subseteq guessed' /\ (prjFile[j] = "empty" => j \in guessed')
      /\ lives \in [Pid -> Nat]
  BY DEF Launch, fifoVars, windowVars, TypeInv, TypeOK
<1>2. /\ pc'[p] \in {"clear", "check"} /\ project'[p] = j
      /\ lives'[p] = lives[p] + 1 /\ lives[p] \in Nat
      /\ \A q \in Pid \ {p} :
           /\ pc'[q] = pc[q] /\ pid'[q] = pid[q]
           /\ project'[q] = project[q] /\ lives'[q] = lives[q]
      /\ pid'[p] = NoPid \/ prjFile[j] = "empty" \/ pid'[p] = prjFile[j]
  <2>1. CASE prjFile[j] = "absent"
    BY <1>1, <2>1
    DEF Launch, TypeInv, TypeOK, PathInv, FreeKnowsNothing, Free
  <2>2. CASE prjFile[j] # "absent"
    <3>1. PICK q \in NumberReadFrom(j) : pid' = [pid EXCEPT ![p] = q]
      BY <2>2 DEF Launch
    <3>2. pc' = [pc EXCEPT ![p] = "check"]
      BY <2>2 DEF Launch
    <3>3. QED
      BY <1>1, <3>1, <3>2 DEF TypeInv, TypeOK, NumberReadFrom
  <2>3. QED
    BY <2>1, <2>2
<1>3. ASSUME NEW q \in Pid, NEW k, Own(q, k)
      PROVE  Own(q, k)'
  <2>1. CASE q = p
    BY <1>1, <1>2, <1>3, <2>1 DEF Own
  <2>2. CASE q # p
    BY <1>1, <1>2, <1>3, <2>2 DEF Own, Free
  <2>3. QED
    BY <2>1, <2>2
<1>4. FreeKnowsNothing' /\ Lives'
  BY <1>2 DEF PathInv, FreeKnowsNothing, Lives, Free
<1>5. FileOwn' /\ PipeOwn' /\ ToldOwn'
  BY <1>1, <1>3 DEF PathInv, FileOwn, PipeOwn, ToldOwn
<1>6. ReadOwn'
  <2> SUFFICES ASSUME NEW r \in Pid, NEW q \in Pid, ~ Free(r)', pid'[r] = q
               PROVE  Own(q, project[r])'
    BY DEF ReadOwn
  <2>1. CASE r = p
    <3>1. CASE prjFile[j] = "empty"
      BY <1>1, <1>2, <2>1, <3>1 DEF Own
    <3>2. CASE prjFile[j] # "empty"
      <4>1. prjFile[j] = q
        BY <1>2, <2>1, <3>2, LaunchAssumption
      <4>2. Own(q, j)
        BY <4>1 DEF PathInv, FileOwn
      <4>3. Own(q, j)'
        BY <1>3, <4>2
      <4>4. QED
        BY <1>2, <2>1, <4>3 DEF Own
    <3>3. QED
      BY <3>1, <3>2
  <2>2. CASE r # p
    <3>1. Own(q, project[r])
      BY <1>2, <2>2 DEF PathInv, ReadOwn, Free
    <3>2. CASE q = p
      BY <1>1, <1>2, <2>2, <3>1, <3>2 DEF Own, Free
    <3>3. CASE q # p
      BY <1>1, <1>2, <2>2, <3>1, <3>3 DEF Own, Free
    <3>4. QED
      BY <3>2, <3>3
  <2>3. QED
    BY <2>1, <2>2
<1>7. QED
  BY <1>4, <1>5, <1>6 DEF PathInv

(* What a start writes bears its project. *)
LEMMA WritePath ==
  ASSUME TypeInv, PathInv, NEW p \in Pid, Write(p)
  PROVE  PathInv'
<1>1. ASSUME NEW at \in Writing, NEW text \in Text,
             NEW next \in Writing \cup {"free"},
             pc[p] = at, WritePiece(p, at, text, next)
      PROVE  PathInv'
  <2>1. ~ Free(p) /\ pid[p] \in Pid /\ next \in PC \ {"stranger"}
    BY <1>1 DEF Free, TypeInv, Known, Handing, Writing, PC
  <2>2. UNCHANGED prjFile
    BY <1>1 DEF WritePiece
  <2>3. CASE HasReader(pid[p])
    <3> DEFINE q == pid[p]
               piece == [text |-> text, of |-> project[p]]
    <3>1. Goto(p, next) /\ pipe' = [pipe EXCEPT ![q] = Append(@, piece)]
      BY <1>1, <2>3 DEF WritePiece
    <3>2. Steady /\ NothingTold
      BY <2>1, <3>1, GotoSteady
    <3>3. \A r \in Pid : \A j \in told'[r] : Own(r, j)
      BY <3>2 DEF PathInv, ToldOwn, NothingTold
    <3>4. ASSUME NEW r \in Pid, NEW k \in DOMAIN pipe'[r]
          PROVE  Own(r, pipe'[r][k].of)
      <4>1. pipe[r] \in Seq(Piece) /\ pipe \in [Pid -> Seq(Piece)]
        BY DEF TypeInv, TypeOK
      <4>2. CASE r # q
        BY <3>1, <3>4, <4>1, <4>2 DEF PathInv, PipeOwn
      <4>3. CASE r = q
        <5>1. pipe'[r] = Append(pipe[r], piece)
          BY <3>1, <4>1, <4>3
        <5>2. CASE k \in DOMAIN pipe[r]
          <6>1. pipe'[r][k] = pipe[r][k]
            BY <4>1, <5>1, <5>2
          <6>2. QED
            BY <5>2, <6>1 DEF PathInv, PipeOwn
        <5>3. CASE k \notin DOMAIN pipe[r]
          <6>1. pipe'[r][k] = piece
            BY <3>4, <4>1, <5>1, <5>3
          <6>2. Own(q, project[p])
            BY <2>1 DEF PathInv, ReadOwn
          <6>3. QED
            BY <4>3, <6>1, <6>2
        <5>4. QED
          BY <5>2, <5>3
      <4>4. QED
        BY <4>2, <4>3
    <3>5. QED
      BY <2>2, <3>2, <3>3, <3>4, SteadyStep
  <2>4. CASE ~ HasReader(pid[p])
    <3>1. Goto(p, "free") /\ Leave(p, {})
      BY <1>1, <2>4 DEF WritePiece
    <3>2. Steady /\ NothingTold /\ NothingPiped
      BY <3>1, GotoSteady, LeavePiped DEF PC
    <3>3. QED
      BY <2>2, <3>2, QuietStep
  <2>5. QED
    BY <2>3, <2>4
<1>2. ASSUME Goto(p, "free"), UNCHANGED <<prjFile, fifoVars, missed>>
      PROVE  PathInv'
  BY <1>2, GotoPath DEF fifoVars, PC
<1>3. QED
  BY <1>1, <1>2, WriteCases

(* The steps that remove a fifo, and the ends of a process. *)
LEMMA UnlinkPath ==
  ASSUME TypeInv, PathInv, NEW p \in Pid, NEW q, NEW at \in {"clear", "create"},
         Unlink(p, q, at), ~ Free(p), UNCHANGED <<project, prjFile, pipe, told>>,
         pid' = [pid EXCEPT ![p] = NoPid] \/ UNCHANGED pid
  PROVE  PathInv'
<1>1. Moves(p, at) /\ UNCHANGED <<lives, guessed>>
  BY UnlinkMoves DEF Unlink, historyVars, PC, Deciding
<1>2. /\ pid'[p] \in {pid[p], NoPid}
      /\ \A r \in Pid \ {p} : pid'[r] = pid[r]
  BY DEF TypeInv, TypeOK
<1>3. Steady
  BY <1>1, <1>2, MovesSteady
<1>4. QED
  BY <1>3, QuietStep DEF NothingTold, NothingPiped

LEMMA EndPath ==
  ASSUME TypeInv, PathInv, NEW p \in Pid, OnTerminate(p) \/ Kill(p)
  PROVE  PathInv'
<1>1. UNCHANGED <<lives, guessed, prjFile>> /\ Ends(p)
  BY DEF OnTerminate, Kill, Die, Unlink, historyVars
<1>2. Moves(p, "free")
  BY UnlinkMoves, PcWhenMoves DEF OnTerminate, Kill, Die, PC
<1>3. Steady /\ NothingTold
  BY <1>1, <1>2, EndsType, EndsTold, MovesSteady
<1>4. NothingPiped
  <2>1. CASE OnTerminate(p)
    BY <2>1 DEF OnTerminate, TypeInv, TypeOK, NothingPiped
  <2>2. CASE Kill(p)
    BY <2>2, LeavePiped DEF Kill, Die
  <2>3. QED
    BY <2>1, <2>2
<1>5. QED
  BY <1>1, <1>3, <1>4, QuietStep

(* The reading thread: what it reads came with a number of this process. *)
LEMMA ReaderPath ==
  ASSUME TypeInv, PathInv, NEW p \in Pid, ReaderStep(p)
  PROVE  PathInv'
<1>1. /\ UNCHANGED <<pc, project, pid, prjFile, lives, guessed>>
      /\ pipe' = pipe \/ pipe' = [pipe EXCEPT ![p] = <<>>]
  BY DEF ReaderStep, ReadChunk, ReadEnd, CloseFifo, ReopenFifo, ThreadTo,
         historyVars
<1>2. Steady
  BY <1>1 DEF Steady, Free
<1>3. NothingPiped
  <2>1. pipe \in [Pid -> Seq(Piece)] /\ DOMAIN <<>> = {}
    BY DEF TypeInv, TypeOK
  <2>2. \A q \in Pid : pipe'[q] = pipe[q] \/ pipe'[q] = <<>>
    BY <1>1, <2>1
  <2>3. QED
    BY ONLY <2>1, <2>2 DEF NothingPiped
<1>4. \A r \in Pid : \A k \in DOMAIN pipe'[r] : Own(r, pipe'[r][k].of)
  BY <1>3 DEF PathInv, PipeOwn, NothingPiped
<1>5. ASSUME NEW r \in Pid, NEW j \in told'[r]
      PROVE  Own(r, j)
  <2>1. CASE told' = told
    BY <1>5, <2>1 DEF PathInv, ToldOwn
  <2>2. CASE told' # told
    <3> DEFINE chunk == pipe[p]
    <3>1. told' = [told EXCEPT ![p] = @ \cup {chunk[i].of : i \in DOMAIN chunk}]
      BY <2>2 DEF ReaderStep, ReadChunk, ReadEnd, CloseFifo, ReopenFifo,
                  windowVars
    <3>2. \A i \in DOMAIN chunk : Own(p, chunk[i].of)
      BY DEF PathInv, PipeOwn
    <3> HIDE DEF chunk
    <3>3. told \in [Pid -> SUBSET Project]
      BY DEF TypeInv, TypeOK
    <3>4. CASE r # p
      BY <1>5, <3>1, <3>3, <3>4 DEF PathInv, ToldOwn
    <3>5. CASE r = p
      <4>1. j \in told[p] \/ \E i \in DOMAIN chunk : j = chunk[i].of
        BY <1>5, <3>1, <3>3, <3>5
      <4>2. QED
        BY <3>2, <3>5, <4>1 DEF PathInv, ToldOwn
    <3>6. QED
      BY <3>4, <3>5
  <2>3. QED
    BY <2>1, <2>2
<1>6. QED
  BY <1>1, <1>2, <1>4, <1>5, SteadyStep

LEMMA StartStepPath ==
  ASSUME TypeInv, PathInv, NEW p \in Pid, StartStep(p)
  PROVE  PathInv'
<1>1. CASE OpenStat(p)
  <2>1. PICK at \in {"stat", "unlink", "gone"} : Goto(p, at)
    BY <1>1 DEF OpenStat
  <2>2. UNCHANGED <<prjFile, pipe>> /\ ~ Free(p) /\ at \in PC \ {"stranger"}
    BY <1>1 DEF OpenStat, fifoVars, Free, PC, Deciding
  <2>3. QED
    BY <2>1, <2>2, GotoPath
<1>13. CASE ReadStat(p)
  <2>1. PICK at \in {"open", "unlink", "spin"} : Goto(p, at)
    BY <1>13 DEF ReadStat
  <2>2. UNCHANGED <<prjFile, pipe>> /\ ~ Free(p) /\ at \in PC \ {"stranger"}
    BY <1>13 DEF ReadStat, fifoVars, Free, PC, Deciding, Handing
  <2>3. QED
    BY <2>1, <2>2, GotoPath
<1>2. CASE UnlinkOther(p)
  BY <1>2, UnlinkPath DEF UnlinkOther, Free, windowVars
<1>3. CASE Open(p)
  <2>1. PICK at \in {"free", "show", "blocked"} : Goto(p, at)
    BY <1>3 DEF Open
  <2>2. UNCHANGED <<prjFile, pipe>> /\ ~ Free(p) /\ at \in PC \ {"stranger"}
    BY <1>3 DEF Open, Free, PC, Handing, Writing
  <2>3. QED
    BY <2>1, <2>2, GotoPath
<1>4. CASE Unblock(p)
  BY <1>4, GotoPath DEF Unblock, PC, Handing, Writing, Free
<1>5. CASE Write(p)
  BY <1>5, WritePath
<1>6. CASE ClearFifo(p)
  BY <1>6, UnlinkPath DEF ClearFifo, Free, windowVars
<1>7. CASE CreatePrjFile(p)
  <2>1. /\ Goto(p, "write pid") /\ ~ Free(p) /\ UNCHANGED pipe
        /\ prjFile' = [prjFile EXCEPT ![project[p]] = "empty"]
    BY <1>7 DEF CreatePrjFile, fifoVars, Free
  <2>2. Steady /\ NothingTold /\ NothingPiped
    BY <2>1, GotoSteady DEF PC, Deciding, NothingPiped
  <2>3. \A j \in Project, q \in Pid : prjFile'[j] = q => prjFile[j] = q
    BY <2>1, LaunchAssumption DEF TypeInv, TypeOK
  <2>4. QED
    BY <2>2, <2>3, QuietStep
<1>8. CASE WritePid(p)
  <2>1. /\ Goto(p, "mkfifo") /\ ~ Free(p) /\ UNCHANGED pipe
        /\ prjFile' = [prjFile EXCEPT ![project[p]] = p]
    BY <1>8 DEF WritePid, fifoVars, Free
  <2>2. Steady /\ NothingTold /\ NothingPiped
    BY <2>1, GotoSteady DEF PC, Opening, NothingPiped
  <2>3. Own(p, project[p])
    BY <2>1 DEF PathInv, Lives, Own, TypeInv, TypeOK
  <2>4. \A j \in Project, q \in Pid :
          prjFile'[j] = q => prjFile[j] = q \/ Own(q, j)
    BY <2>1, <2>3 DEF TypeInv, TypeOK
  <2>5. QED
    BY <2>2, <2>4, QuietStep
<1>9. CASE MkFifo(p)
  BY <1>9, GotoPath DEF MkFifo, PC, Opening, Free
<1>10. CASE Listen(p)
  <2>1. PICK at \in {"init", "free"} : Goto(p, at)
    BY <1>10 DEF Listen
  <2>2. UNCHANGED <<prjFile, pipe>> /\ ~ Free(p) /\ at \in PC \ {"stranger"}
    BY <1>10 DEF Listen, Free, PC, WithThread
  <2>3. QED
    BY <2>1, <2>2, GotoPath
<1>11. CASE ShowMainWindow(p)
  <2>1. /\ pc' = [pc EXCEPT ![p] = "running"] /\ ~ Free(p)
        /\ UNCHANGED <<project, pid, prjFile, pipe, told, lives, guessed>>
    BY <1>11 DEF ShowMainWindow, Free, fifoVars, historyVars
  <2>2. Steady
    BY <2>1 DEF Steady, Free, TypeInv, TypeOK
  <2>3. QED
    BY <2>1, <2>2, QuietStep DEF NothingTold, NothingPiped
<1>12. QED
  BY <1>1, <1>2, <1>3, <1>4, <1>5, <1>6, <1>7, <1>8, <1>9, <1>10, <1>11, <1>13
  DEF StartStep

LEMMA NextPathInv == TypeInv /\ PathInv /\ [Next]_vars => PathInv'
<1> SUFFICES ASSUME TypeInv, PathInv, [Next]_vars PROVE PathInv'
  OBVIOUS
<1>1. CASE UNCHANGED <<pc, project, pid, prjFile, pipe, told, lives, guessed>>
  BY <1>1 DEF PathInv, FreeKnowsNothing, Lives, FileOwn, ReadOwn, PipeOwn,
              ToldOwn, Free, Own
<1>2. CASE UNCHANGED vars
  BY <1>1, <1>2 DEF vars, fifoVars, windowVars, historyVars
<1>3. ASSUME NEW p \in Pid, GoToCode(p) PROVE PathInv'
  BY <1>1, <1>3 DEF GoToCode, fifoVars, historyVars
<1>4. ASSUME NEW p \in Pid, OnDestroy(p) PROVE PathInv'
  BY <1>4, GotoPath DEF OnDestroy, fifoVars, PC, WithThread, Free
<1>5. ASSUME NEW p \in Pid, RemovePrjFile(p) PROVE PathInv'
  <2>1. /\ Goto(p, "leaving") /\ ~ Free(p) /\ UNCHANGED pipe
        /\ prjFile' = [prjFile EXCEPT ![project[p]] = "absent"]
    BY <1>5 DEF RemovePrjFile, fifoVars, Free
  <2>2. Steady /\ NothingTold /\ NothingPiped
    BY <2>1, GotoSteady DEF PC, WithThread, NothingPiped
  <2>3. \A j \in Project, q \in Pid : prjFile'[j] = q => prjFile[j] = q
    BY <2>1, LaunchAssumption DEF TypeInv, TypeOK
  <2>4. QED
    BY <2>2, <2>3, QuietStep
<1>6. ASSUME NEW p \in Pid, Stranger(p) PROVE PathInv'
  <2>1. /\ pc[p] = "free" /\ pc' = [pc EXCEPT ![p] = "stranger"]
        /\ UNCHANGED <<project, pid, prjFile, pipe, told, lives, guessed>>
    BY <1>6 DEF Stranger, fifoVars, windowVars, historyVars
  <2>2. Steady
    BY <2>1 DEF Steady, Free, TypeInv, TypeOK
  <2>3. QED
    BY <2>1, <2>2, QuietStep DEF NothingTold, NothingPiped
<1>7. ASSUME NEW p \in Pid, StrangerEnds(p) PROVE PathInv'
  BY <1>7, GotoPath DEF StrangerEnds, fifoVars, PC
<1>8. CASE Next
  BY <1>3, <1>4, <1>5, <1>6, <1>7, <1>8, LaunchPath, StartStepPath, ReaderPath,
     EndPath
  DEF Next
<1>9. QED
  BY <1>2, <1>8

(* What a running builder reads from its fifo was written for its project,   *)
(* unless its number was used before or the other project's file was read    *)
(* while it was empty (main.cpp: processArgs reads the number and writes to  *)
(* that number's fifo; wait_for_other_args executes what it reads).          *)
THEOREM HearsProjectCorrect == Spec => []HearsItsProject
<1>1. PathInv => HearsItsProject
  BY OwnHears
<1>2. QED
  BY <1>1, InitTypeInv, NextTypeInv, InitPathInv, NextPathInv, PTL DEF Spec

-----------------------------------------------------------------------------
(* The window of a running builder. *)

(* A "@show" that stands behind other text is known to be missed. *)
ShowFirst ==
  \A p \in Pid \ missed : \A k \in DOMAIN pipe[p] :
    pipe[p][k].text = "show" => k = 1

ShowStep ==
  \A p \in Pid :
    Asked(p) /\ pipe'[p] = <<>> /\ pc'[p] = "running" =>
      visible'[p] \/ p \in missed'

LEMMA InitShowFirst == Init => ShowFirst
  BY DEF Init, ShowFirst

(* A step that adds to no fifo, and empties those of processes that do not   *)
(* run on, or counts them among the missed ones.                             *)
LEMMA QuietShow ==
  ASSUME ShowFirst,
         \A q \in Pid :
           \/ pipe'[q] = pipe[q] /\ (q \in missed => q \in missed')
           \/ pipe'[q] = <<>> /\ (pc'[q] # "running" \/ q \in missed')
  PROVE  ShowFirst' /\ ShowStep
<1>1. DOMAIN <<>> = {}
  OBVIOUS
<1>2. QED
  BY <1>1 DEF ShowFirst, ShowStep, Asked

(* What a start writes behind other text is missed. *)
LEMMA WriteShow ==
  ASSUME TypeInv, ShowFirst, NEW p \in Pid, Write(p)
  PROVE  ShowFirst' /\ ShowStep
<1>1. pipe \in [Pid -> Seq(Piece)] /\ missed \subseteq Pid
  BY DEF TypeInv, TypeOK
<1>2. ASSUME NEW at \in Writing, NEW text \in Text,
             NEW next \in Writing \cup {"free"},
             pc[p] = at, WritePiece(p, at, text, next)
      PROVE  ShowFirst' /\ ShowStep
  <2>1. pid[p] \in Pid
    BY <1>2 DEF TypeInv, Known, Handing, Writing
  <2>2. CASE HasReader(pid[p])
    <3> DEFINE q == pid[p]
               piece == [text |-> text, of |-> project[p]]
    <3>1. /\ pipe' = [pipe EXCEPT ![q] = Append(@, piece)]
          /\ missed' = IF text = "show" /\ pipe[q] # <<>>
                       THEN missed \cup {q} ELSE missed
      BY <1>2, <2>2 DEF WritePiece
    <3>2. /\ pipe'[q] = Append(pipe[q], piece) /\ pipe[q] \in Seq(Piece)
          /\ \A r \in Pid \ {q} : pipe'[r] = pipe[r]
      BY <1>1, <2>1, <3>1
    <3>3. piece.text = text
      OBVIOUS
    <3> HIDE DEF q, piece
    <3>4. /\ Append(pipe[q], piece) # <<>>
          /\ \A k \in DOMAIN Append(pipe[q], piece) :
               \/ k \in DOMAIN pipe[q] /\ Append(pipe[q], piece)[k] = pipe[q][k]
               \/ k = Len(pipe[q]) + 1 /\ Append(pipe[q], piece)[k] = piece
      BY <3>2
    <3>5. Len(<<>>) + 1 = 1
      OBVIOUS
    <3>6. ShowFirst'
      BY <3>1, <3>2, <3>3, <3>4, <3>5 DEF ShowFirst
    <3>7. ShowStep
      <4>1. DOMAIN <<>> = {}
        OBVIOUS
      <4>2. QED
        BY <3>2, <3>4, <4>1 DEF ShowStep, Asked
    <3>8. QED
      BY <3>6, <3>7
  <2>3. CASE ~ HasReader(pid[p])
    <3>1. Leave(p, {})
      BY <1>2, <2>3 DEF WritePiece
    <3>2. QED
      BY <1>1, <3>1, QuietShow DEF Leave
  <2>4. QED
    BY <2>2, <2>3
<1>3. ASSUME UNCHANGED <<prjFile, fifoVars, missed>>
      PROVE  ShowFirst' /\ ShowStep
  BY <1>3, QuietShow DEF fifoVars
<1>4. QED
  BY <1>2, <1>3, WriteCases

(* The reading thread finds a "@show" that is not missed at the head of what *)
(* it reads; what it closes the fifo on is missed.                           *)
LEMMA ReaderShow ==
  ASSUME TypeInv, ShowFirst, NEW p \in Pid, ReaderStep(p)
  PROVE  ShowFirst' /\ ShowStep
<1>1. pipe \in [Pid -> Seq(Piece)] /\ visible \in [Pid -> BOOLEAN]
  BY DEF TypeInv, TypeOK
<1>2. CASE ReadChunk(p)
  <2>1. /\ pipe' = [pipe EXCEPT ![p] = <<>>] /\ UNCHANGED <<missed, pc>>
        /\ pc[p] = "running" => visible'[p] = (visible[p] \/ Shows(pipe[p]))
    BY <1>1, <1>2 DEF ReadChunk, ThreadTo
  <2>2. ShowFirst'
    <3>1. DOMAIN <<>> = {}
      OBVIOUS
    <3>2. QED
      BY <1>1, <2>1, <3>1 DEF ShowFirst
  <2>3. ASSUME NEW r \in Pid, Asked(r), pipe'[r] = <<>>
        PROVE  visible'[r] \/ r \in missed'
    <3>1. r = p
      <4>1. DOMAIN <<>> = {}
        OBVIOUS
      <4>2. QED
        BY <1>1, <2>1, <2>3, <4>1 DEF Asked
    <3>2. CASE r \notin missed
      <4>1. pipe[r][1].text = "show"
        BY <2>3, <3>2 DEF Asked, ShowFirst
      <4>2. QED
        BY <2>1, <2>3, <3>1, <4>1 DEF Shows, Asked
    <3>3. QED
      BY <2>1, <3>2
  <2>4. QED
    BY <2>2, <2>3 DEF ShowStep
<1>3. CASE ReadEnd(p) \/ ReopenFifo(p)
  BY <1>3, QuietShow DEF ReadEnd, ReopenFifo
<1>4. CASE CloseFifo(p)
  BY <1>1, <1>4, QuietShow DEF CloseFifo
<1>5. QED
  BY <1>2, <1>3, <1>4 DEF ReaderStep

LEMMA NextShow ==
  TypeInv /\ ShowFirst /\ [Next]_vars => ShowFirst' /\ [ShowStep]_vars
<1> SUFFICES ASSUME TypeInv, ShowFirst, [Next]_vars
             PROVE  ShowFirst' /\ ShowStep
  OBVIOUS
<1>1. pipe \in [Pid -> Seq(Piece)] /\ missed \subseteq Pid
  BY DEF TypeInv, TypeOK
<1>2. CASE UNCHANGED <<pipe, missed>>
  BY <1>2, QuietShow
<1>3. ASSUME NEW p \in Pid,
             \/ \E j \in Project : Launch(p, j)
             \/ GoToCode(p) \/ OnDestroy(p) \/ RemovePrjFile(p)
             \/ Stranger(p) \/ StrangerEnds(p)
      PROVE  UNCHANGED <<pipe, missed>>
  BY <1>3 DEF Launch, GoToCode, OnDestroy, RemovePrjFile, Stranger,
              StrangerEnds, fifoVars
<1>4. ASSUME NEW p \in Pid, StartStep(p), ~ Write(p)
      PROVE  UNCHANGED <<pipe, missed>>
  BY <1>4 DEF StartStep, OpenStat, ReadStat, UnlinkOther, Open, Unblock,
              ClearFifo, CreatePrjFile, WritePid, MkFifo, Listen,
              ShowMainWindow, fifoVars
<1>5. ASSUME NEW p \in Pid, OnTerminate(p) PROVE ShowFirst' /\ ShowStep
  <2>1. /\ pipe' = [pipe EXCEPT ![p] = <<>>] /\ missed' = missed \ {p}
        /\ pc'[p] = "free"
    BY <1>5, UnlinkMoves DEF OnTerminate, Moves, PC
  <2>2. QED
    BY <1>1, <2>1, QuietShow
<1>6. ASSUME NEW p \in Pid, Kill(p) PROVE ShowFirst' /\ ShowStep
  <2>1. Leave(p, {p}) /\ pc'[p] = "free"
    BY <1>6, PcWhenMoves DEF Kill, Die, Moves, PC
  <2>2. QED
    BY <1>1, <2>1, QuietShow DEF Leave
<1>7. CASE Next
  BY <1>2, <1>3, <1>4, <1>5, <1>6, <1>7, WriteShow, ReaderShow DEF Next
<1>8. CASE UNCHANGED vars
  BY <1>2, <1>8 DEF vars, fifoVars
<1>9. QED
  BY <1>7, <1>8

(* When a running builder's fifo is emptied while a "@show" is in it, the    *)
(* window is shown, unless that text was written behind other text or the    *)
(* fifo lost its last end (main.cpp: wait_for_other_args).                   *)
THEOREM ShowHeededCorrect == Spec => ShowHeeded
<1>1. TypeInv /\ ShowFirst /\ [Next]_vars =>
        /\ ShowFirst'
        /\ [\A p \in Pid :
              Asked(p) /\ pipe'[p] = <<>> /\ pc'[p] = "running" =>
                visible'[p] \/ p \in missed']_vars
  BY NextShow DEF ShowStep
<1>2. QED
  BY <1>1, InitTypeInv, NextTypeInv, InitShowFirst, PTL DEF Spec, ShowHeeded

-----------------------------------------------------------------------------
(* Saving.                                                                 *)

(* The tables of files stay tables of files. *)
LEMMA FileTables ==
  ASSUME NEW file \in [Window -> Freshness], NEW S
  PROVE  /\ Change(file, S) \in [Window -> Freshness]
         /\ Slip(file, S) \in [Window -> Freshness]
         /\ Announce(file, S) \in [Window -> Freshness]
BY DEF Change, Slip, Announce, Freshness

(* One save keeps every variable it writes in its type. *)
LEMMA SaveType ==
  ASSUME ProjectTypeOK, NEW P, NEW S, onSave(P, S)
  PROVE  /\ isModified' \in BOOLEAN /\ save_counter' \in 0 .. MaxInterval
         /\ risk' \in Nat
         /\ editors' \subseteq Window /\ listed' \subseteq Window
         /\ SourceChanged' \subseteq editors' /\ ProperyChanged' \subseteq editors'
         /\ xml' \in [Window -> Freshness] /\ source' \in [Window -> Freshness]
         /\ uiIdChanged' \in BOOLEAN
         /\ images' \in 0 .. MaxImages /\ savedImages' \in 0 .. MaxImages
         /\ imageIdChanged' \in BOOLEAN /\ imageXml' \in Freshness
         /\ rdrIdChanged' \in BOOLEAN /\ status' \subseteq RdrMark
         /\ rdrIdXml' \in Freshness /\ rdrXml' \in Freshness
         /\ editors' = editors
<1>1. SaveImages /\ SaveRenderers /\ SaveForms(P, S)
  BY DEF onSave
<1>2. /\ images' \in 0 .. MaxImages /\ savedImages' \in 0 .. MaxImages
      /\ imageIdChanged' \in BOOLEAN /\ imageXml' \in Freshness
  BY <1>1 DEF SaveImages, ProjectTypeOK, Freshness
<1>3. /\ rdrIdChanged' \in BOOLEAN /\ status' \subseteq RdrMark
      /\ rdrIdXml' \in Freshness /\ rdrXml' \in Freshness
  BY <1>1 DEF SaveRenderers, ProjectTypeOK, Freshness
<1>4. /\ xml' \in [Window -> Freshness] /\ source' \in [Window -> Freshness]
  BY <1>1 DEF SaveForms, ProjectTypeOK, Freshness
<1>5. /\ editors' \subseteq Window /\ listed' \subseteq Window /\ editors' = editors
      /\ SourceChanged' \subseteq editors' /\ ProperyChanged' \subseteq editors'
      /\ uiIdChanged' \in BOOLEAN
  BY <1>1 DEF SaveForms, ProjectTypeOK
<1>6. isModified' \in BOOLEAN
  BY Zenon DEF onSave
<1>7. save_counter' \in 0 .. MaxInterval /\ risk' \in Nat
  BY SaveAssumption DEF SaveAssumption, onSave
<1>8. QED
  BY <1>2, <1>3, <1>4, <1>5, <1>6, <1>7

(* A loaded project has the type of every variable. *)
LEMMA LoadType ==
  ASSUME ProjectTypeOK, running' \in BOOLEAN, Load(listed, savedImages)
  PROVE  ProjectTypeOK'
<1>1. /\ isModified' \in BOOLEAN /\ posted' \in BOOLEAN
      /\ uiIdChanged' \in BOOLEAN /\ bChanged' \in BOOLEAN
      /\ rdrIdChanged' \in BOOLEAN
  BY Zenon DEF Load
<1>2. imageIdChanged' \in BOOLEAN
  <2> (savedImages > 0) \in BOOLEAN
    BY SMT DEF ProjectTypeOK
  <2> QED
    BY Zenon DEF Load
<1>3. /\ xml' \in [Window -> Freshness] /\ source' \in [Window -> Freshness]
      /\ imageXml' \in Freshness /\ rdrIdXml' \in Freshness /\ rdrXml' \in Freshness
  BY DEF Load, Freshness
<1>4. /\ save_counter' \in 0 .. MaxInterval /\ risk' \in Nat
      /\ images' \in 0 .. MaxImages /\ savedImages' \in 0 .. MaxImages
  BY SaveAssumption DEF SaveAssumption, ProjectTypeOK, Load
<1>5. /\ editors' \subseteq Window /\ listed' \subseteq Window
      /\ SourceChanged' \subseteq editors' /\ ProperyChanged' \subseteq editors'
      /\ dialog' \in editors' \cup {NoWindow} /\ status' \subseteq RdrMark
  BY DEF ProjectTypeOK, Load
<1>6. QED
  BY <1>1, <1>2, <1>3, <1>4, <1>5 DEF ProjectTypeOK

(* One gesture on the forms keeps the variables of the user-interface      *)
(* editor and the frame in their types.                                    *)
LEMMA UIType ==
  ASSUME ProjectTypeOK, UIAction
  PROVE  ProjectTypeOK'
<1>1. running' = running /\ dialog' = dialog /\ bChanged' = bChanged
      /\ dialog = NoWindow /\ UNCHANGED <<imageVars, rdrVars>>
  BY DEF UIAction, OtherThanForms, dialogVars, Idle
<1>2. /\ UNCHANGED <<save_counter, posted, risk>>
      /\ editors' \subseteq Window /\ listed' \subseteq Window
      /\ SourceChanged' \subseteq editors' /\ ProperyChanged' \subseteq editors'
      /\ xml' \in [Window -> Freshness] /\ source' \in [Window -> Freshness]
  <2> USE FileTables DEF ProjectTypeOK, OtherUI, RaiseMarks, EnableSave
  <2>1. ASSUME NEW w \in editors, EditProperty(w) \/ EditEvent(w) \/ CreateControl(w)
        PROVE  <1>2
    BY <2>1 DEF EditProperty, EditEvent, CreateControl
  <2>2. ASSUME NEW w \in editors, DeleteControl(w) \/ PasteControl(w)
        PROVE  <1>2
    BY <2>2 DEF DeleteControl, PasteControl
  <2>3. ASSUME NEW w \in editors, NEW S \in SUBSET (editors \ {w}), RenameControl(w, S)
        PROVE  <1>2
    BY <2>3 DEF RenameControl
  <2>4. ASSUME NEW w \in editors,
               NudgeControl(w) \/ AlignControls(w) \/ UndoCreateDelete(w)
        PROVE  <1>2
    BY <2>4 DEF NudgeControl, AlignControls, UndoCreateDelete, frameVars
  <2>5. ASSUME NEW w \in editors, NEW fromDisk \in BOOLEAN,
               NEW heir \in AtMostOne(editors \ {w}), RemoveWindow(w, fromDisk, heir)
        PROVE  <1>2
    <3>1. heir \subseteq editors \ {w}
      BY DEF AtMostOne
    <3>2. [source EXCEPT ![w] = "Current"] \in [Window -> Freshness]
          /\ [xml EXCEPT ![w] = "Current"] \in [Window -> Freshness]
      BY DEF Freshness
    <3> QED
      BY <2>5, <3>1, <3>2 DEF RemoveWindow
  <2>6. ASSUME NEW changed \in SUBSET editors, SetStartWindow(changed)
        PROVE  <1>2
    BY <2>6 DEF SetStartWindow
  <2>7. ASSUME NEW w \in Window \ editors, NEW template \in BOOLEAN,
               NewWindow(w, template)
        PROVE  <1>2
    BY <2>7 DEF NewWindow
  <2> QED
    BY <2>1, <2>2, <2>3, <2>4, <2>5, <2>6, <2>7 DEF UIAction, EditForm
<1>3. isModified' \in BOOLEAN /\ uiIdChanged' \in BOOLEAN
  <2> USE DEF ProjectTypeOK, OtherUI, RaiseMarks, EnableSave, frameVars
  <2>1. ASSUME NEW w \in editors, EditForm(w)
        PROVE  isModified' \in BOOLEAN /\ uiIdChanged' \in BOOLEAN
    BY <2>1, Zenon DEF EditForm, EditProperty, EditEvent, CreateControl,
       DeleteControl, PasteControl, RenameControl, NudgeControl, AlignControls,
       UndoCreateDelete, RemoveWindow
  <2> QED
    BY <2>1, Zenon DEF UIAction, SetStartWindow, NewWindow
<1>4. QED
  BY <1>1, <1>2, <1>3 DEF ProjectTypeOK, imageVars, rdrVars

(* The two resource editors and the dialog. *)
LEMMA ResourceType ==
  ASSUME ProjectTypeOK, ImageAction \/ RendererAction
  PROVE  ProjectTypeOK'
<1>1. CASE ImageAction
  <2>1. isModified' \in BOOLEAN /\ imageIdChanged' \in BOOLEAN
    BY <1>1, Zenon DEF ImageAction, ImportImage, ImportFails, OverwriteImage,
       RemoveImage, EnableSave, frameVars, ProjectTypeOK
  <2>2. /\ images' \in 0 .. MaxImages /\ imageXml' \in Freshness
        /\ UNCHANGED <<save_counter, posted, risk>>
    BY <1>1, SaveAssumption DEF SaveAssumption, ImageAction, ImportImage,
       ImportFails, OverwriteImage, RemoveImage, EnableSave, frameVars, ProjectTypeOK,
       Freshness
  <2> QED
    BY <1>1, <2>1, <2>2
    DEF ImageAction, ProjectTypeOK, uiVars, formVars, dialogVars, rdrVars
<1>2. CASE RendererAction
  <2>1. isModified' \in BOOLEAN /\ rdrIdChanged' \in BOOLEAN
    BY <1>2, Zenon DEF RendererAction, NewRenderer, RemoveRenderer, RemoveShared,
       EditRenderer, RenameRenderer, setAllChanged, EnableSave, frameVars, ProjectTypeOK
  <2>2. /\ status' \subseteq RdrMark
        /\ rdrIdXml' \in Freshness /\ rdrXml' \in Freshness
        /\ UNCHANGED <<save_counter, posted, risk>>
    BY <1>2 DEF RendererAction, NewRenderer, RemoveRenderer, RemoveShared,
       EditRenderer, RenameRenderer, setAllChanged, EnableSave, frameVars, ProjectTypeOK,
       Freshness, RdrMark
  <2> QED
    BY <1>2, <2>1, <2>2
    DEF RendererAction, ProjectTypeOK, uiVars, formVars, dialogVars, imageVars
<1>3. QED
  BY <1>1, <1>2

LEMMA DialogType ==
  ASSUME ProjectTypeOK,
         \/ \E w \in editors : OpenDialog(w)
         \/ ConnectEvent \/ CloseDialog
  PROVE  ProjectTypeOK'
<1>1. ASSUME NEW w \in editors, OpenDialog(w)
      PROVE  ProjectTypeOK'
  BY <1>1
  DEF OpenDialog, ProjectTypeOK, frameVars, uiVars, formVars, imageVars, rdrVars
<1>2. CASE ConnectEvent
  BY <1>2, FileTables
  DEF ConnectEvent, ProjectTypeOK, frameVars, imageVars, rdrVars
<1>3. CASE CloseDialog
  <2>1. isModified' \in BOOLEAN /\ bChanged' \in BOOLEAN
    BY <1>3, Zenon DEF CloseDialog, ProjectTypeOK
  <2>2. /\ SourceChanged' \subseteq editors' /\ ProperyChanged' \subseteq editors'
        /\ xml' \in [Window -> Freshness] /\ source' \in [Window -> Freshness]
        /\ dialog' = NoWindow
    BY <1>3, FileTables DEF CloseDialog, ProjectTypeOK
  <2> QED
    BY <1>3, <2>1, <2>2 DEF CloseDialog, ProjectTypeOK, imageVars, rdrVars
<1>4. QED
  BY <1>1, <1>2, <1>3

LEMMA TypeStep ==
  ASSUME ProjectTypeOK, [ProjectNext]_projectVars
  PROVE  ProjectTypeOK'
<1>1. CASE Tick
  <2>1. posted' \in BOOLEAN /\ posted' = (isModified /\ save_counter + 1 > MaxInterval)
    <3> (save_counter + 1 > MaxInterval) \in BOOLEAN
      BY SMT DEF ProjectTypeOK
    <3> QED
      BY <1>1, Zenon DEF Tick, ProjectTypeOK
  <2>2. save_counter' \in 0 .. MaxInterval /\ risk' \in Nat
    BY <1>1, <2>1, SaveAssumption DEF SaveAssumption, Tick, ProjectTypeOK
  <2> QED
    BY <1>1, <2>1, <2>2
    DEF Tick, ProjectTypeOK, uiVars, formVars, dialogVars, imageVars, rdrVars
<1>2. CASE Save \/ Dispatch \/ Exit \/ CloseToSource
  <2>1. PICK P, S : onSave(P, S)
    BY <1>2 DEF Save, Dispatch, Exit, CloseToSource
  <2>2. /\ running' \in BOOLEAN /\ posted' \in BOOLEAN /\ bChanged' \in BOOLEAN
    BY <1>2, Zenon DEF Save, Dispatch, Exit, CloseToSource, ProjectTypeOK, dialogVars
  <2>3. dialog' \in editors' \cup {NoWindow}
    BY <1>2, <2>1, SaveType DEF Save, Dispatch, Exit, CloseToSource, ProjectTypeOK, dialogVars
  <2> QED
    BY <2>1, <2>2, <2>3, SaveType DEF ProjectTypeOK
<1>3. CASE Start \/ Crash
  <2>1. running' \in BOOLEAN /\ Load(listed, savedImages)
    BY <1>3, Zenon DEF Start, Crash, ProjectTypeOK
  <2> QED
    BY <2>1, LoadType
<1>4. CASE UNCHANGED projectVars
  BY <1>4
  DEF ProjectTypeOK, projectVars, frameVars, uiVars, formVars, dialogVars, imageVars, rdrVars
<1>5. QED
  BY <1>1, <1>2, <1>3, <1>4, UIType, ResourceType, DialogType DEF ProjectNext

(* Every variable keeps its type. *)
THEOREM ProjectTypeCorrect == ProjectSpec => []ProjectTypeOK
<1>1. ProjectInit => ProjectTypeOK
  <2> SUFFICES ASSUME ProjectInit
               PROVE  ProjectTypeOK
    OBVIOUS
  <2>1. /\ isModified \in BOOLEAN /\ uiIdChanged \in BOOLEAN
        /\ posted \in BOOLEAN /\ bChanged \in BOOLEAN /\ rdrIdChanged \in BOOLEAN
        /\ running \in BOOLEAN
    BY Zenon DEF ProjectInit
  <2>2. imageIdChanged \in BOOLEAN
    <3> (images > 0) \in BOOLEAN
      BY SMT DEF ProjectInit
    <3> QED
      BY Zenon DEF ProjectInit
  <2> QED
    BY <2>1, <2>2, SaveAssumption DEF SaveAssumption, ProjectInit, ProjectTypeOK, Freshness
<1>2. ProjectTypeOK /\ [ProjectNext]_projectVars => ProjectTypeOK'
  BY TypeStep
<1>3. QED
  BY <1>1, <1>2, PTL DEF ProjectSpec

-----------------------------------------------------------------------------
(* The inductive invariant: the properties, and a bound on the ticks by    *)
(* the counter and the posted command.                                     *)

CountsTicks ==
  /\ posted => save_counter = 0
  /\ risk <= save_counter + (IF posted THEN MaxInterval + 1 ELSE 0)

Marks == FlagsCoverDue /\ ModifiedWhileMarked /\ StartFindsProject

(* A save that sees the raised marks, and perhaps more, writes whatever is *)
(* due, but for the image ids of a project that has no image left.         *)
LEMMA SaveWrites ==
  ASSUME ProjectTypeOK, Marks, running, NEW P, NEW S,
         ProperyChanged \subseteq P, SourceChanged \subseteq S, onSave(P, S)
  PROVE  /\ \A w \in editors' : "Due" \notin {xml'[w], source'[w]}
         /\ "Due" \notin {rdrIdXml', rdrXml'}
         /\ imageXml' = "Due" => images' = 0
         /\ Marks'
<1>1. \A w \in editors : xml'[w] # "Due" /\ source'[w] # "Due"
  BY DEF onSave, SaveForms, Marks, FlagsCoverDue, ProjectTypeOK
<1>2. /\ editors' = editors /\ SourceChanged' = {} /\ ProperyChanged' = {}
      /\ listed' = editors
  BY DEF onSave, SaveForms, Marks, StartFindsProject
<1>3. rdrIdXml' # "Due" /\ rdrXml' # "Due"
  BY DEF onSave, SaveRenderers, Marks, FlagsCoverDue
<1>4. /\ imageXml' = "Due" => images' = 0 /\ imageIdChanged'
      /\ ~ imageIdChanged' => savedImages' = images'
  BY DEF onSave, SaveImages, Marks, FlagsCoverDue, StartFindsProject, ProjectTypeOK
<1>5. QED
  BY <1>1, <1>2, <1>3, <1>4
  DEF Marks, FlagsCoverDue, ModifiedWhileMarked, StartFindsProject

(* What a project holds when it has just been loaded needs no mark.        *)
LEMMA LoadMarks ==
  ASSUME ProjectTypeOK, Load(listed, savedImages)
  PROVE  Marks' /\ CountsTicks'
<1>1. CountsTicks'
  BY SaveAssumption DEF SaveAssumption, Load, CountsTicks
<1>2. /\ \A w \in editors' : xml'[w] = "Current" /\ source'[w] = "Current"
      /\ ProperyChanged' \cup SourceChanged' = {}
      /\ imageXml' = "Current" /\ rdrIdXml' = "Current" /\ rdrXml' = "Current"
      /\ listed' = editors' /\ savedImages' = images'
  BY DEF Load, ProjectTypeOK
<1>3. QED
  BY <1>1, <1>2
  DEF Marks, FlagsCoverDue, ModifiedWhileMarked, StartFindsProject

(* What each gesture on a form leaves in the marks.                        *)
LEMMA UIMarks ==
  ASSUME ProjectTypeOK, Marks, UIAction
  PROVE  Marks'
<1>1. running /\ running' /\ UNCHANGED <<imageVars, rdrVars>>
  BY DEF UIAction, OtherThanForms, Idle
<1> DEFINE Covered ==
      /\ \A w \in editors' :
           /\ xml'[w] = "Due" =>
                w \in ProperyChanged' \cup SourceChanged' \/ uiIdChanged'
           /\ source'[w] = "Due" => w \in SourceChanged'
      /\ ProperyChanged' \cup SourceChanged' # {} => isModified'
      /\ \A w \in editors' : "Due" \in {xml'[w], source'[w]} => isModified'
      /\ ~ uiIdChanged' => listed' = editors'
<1>2. Covered
  <2> USE <1>1 DEF ProjectTypeOK, OtherUI, RaiseMarks, EnableSave, Change, Slip, Marks,
          FlagsCoverDue, ModifiedWhileMarked, StartFindsProject
  <2>1. ASSUME NEW w \in editors, EditProperty(w) \/ EditEvent(w) \/ CreateControl(w)
        PROVE  Covered
    BY <2>1 DEF EditProperty, EditEvent, CreateControl
  <2>2. ASSUME NEW w \in editors, DeleteControl(w) \/ PasteControl(w)
        PROVE  Covered
    BY <2>2 DEF DeleteControl, PasteControl
  <2>3. ASSUME NEW w \in editors, NEW S \in SUBSET (editors \ {w}), RenameControl(w, S)
        PROVE  Covered
    BY <2>3 DEF RenameControl
  <2>4. ASSUME NEW w \in editors,
               NudgeControl(w) \/ AlignControls(w) \/ UndoCreateDelete(w)
        PROVE  Covered
    BY <2>4 DEF NudgeControl, AlignControls, UndoCreateDelete, frameVars
  <2>5. ASSUME NEW w \in editors, NEW fromDisk \in BOOLEAN,
               NEW heir \in AtMostOne(editors \ {w}), RemoveWindow(w, fromDisk, heir)
        PROVE  Covered
    BY <2>5 DEF RemoveWindow
  <2>6. ASSUME NEW changed \in SUBSET editors, SetStartWindow(changed)
        PROVE  Covered
    BY <2>6 DEF SetStartWindow
  <2>7. ASSUME NEW w \in Window \ editors, NEW template \in BOOLEAN,
               NewWindow(w, template)
        PROVE  Covered
    BY <2>7 DEF NewWindow
  <2> HIDE DEF Covered
  <2> QED
    BY <2>1, <2>2, <2>3, <2>4, <2>5, <2>6, <2>7 DEF UIAction, EditForm
<1>3. QED
  BY <1>1, <1>2 DEF Marks, FlagsCoverDue, ModifiedWhileMarked, StartFindsProject,
     imageVars, rdrVars

(* The resource editors and the dialog touch only their own marks.         *)
LEMMA OtherMarks ==
  ASSUME ProjectTypeOK, Marks,
         \/ ImageAction \/ RendererAction
         \/ \E w \in editors : OpenDialog(w)
         \/ ConnectEvent \/ CloseDialog
  PROVE  Marks'
<1> USE DEF Marks, FlagsCoverDue, ModifiedWhileMarked, StartFindsProject
<1>1. CASE ImageAction
  BY <1>1 DEF ImageAction, ImportImage, ImportFails, OverwriteImage, RemoveImage,
     EnableSave, uiVars, formVars, rdrVars, frameVars
<1>2. CASE RendererAction
  BY <1>2 DEF RendererAction, NewRenderer, RemoveRenderer, RemoveShared,
     EditRenderer, RenameRenderer, setAllChanged, RdrMark, EnableSave, uiVars,
     formVars, imageVars, frameVars
<1>3. ASSUME NEW w \in editors, OpenDialog(w)
      PROVE  Marks'
  BY <1>3 DEF OpenDialog, frameVars, uiVars, formVars, imageVars, rdrVars
<1>4. CASE ConnectEvent
  BY <1>4 DEF ConnectEvent, Slip, ProjectTypeOK, frameVars, imageVars, rdrVars
<1>5. CASE CloseDialog
  BY <1>5 DEF CloseDialog, Announce, ProjectTypeOK, imageVars, rdrVars
<1>6. QED
  BY <1>1, <1>2, <1>3, <1>4, <1>5

LEMMA MarksStep ==
  ASSUME ProjectTypeOK, Marks, [ProjectNext]_projectVars
  PROVE  Marks'
<1>1. CASE Tick
  BY <1>1 DEF Tick, Marks, FlagsCoverDue, ModifiedWhileMarked, StartFindsProject,
     uiVars, formVars, imageVars, rdrVars
<1>2. CASE Save \/ Dispatch \/ CloseToSource
  <2>1. running /\ \E P, S : /\ ProperyChanged \subseteq P /\ SourceChanged \subseteq S
                             /\ onSave(P, S)
    BY <1>2 DEF Save, Dispatch, CloseToSource, Idle
  <2> QED
    BY <2>1, SaveWrites
<1>3. CASE Exit
  BY <1>3 DEF Exit, Marks, FlagsCoverDue, ModifiedWhileMarked, StartFindsProject
<1>4. CASE Start \/ Crash
  BY <1>4, LoadMarks DEF Start, Crash
<1>5. CASE UNCHANGED projectVars
  BY <1>5 DEF Marks, FlagsCoverDue, ModifiedWhileMarked, StartFindsProject,
     projectVars, frameVars, uiVars, formVars, imageVars, rdrVars
<1>6. QED
  BY <1>1, <1>2, <1>3, <1>4, <1>5, UIMarks, OtherMarks DEF ProjectNext

(* The counter and the posted command bound the ticks of every step.       *)
LEMMA TicksStep ==
  ASSUME ProjectTypeOK, CountsTicks, [ProjectNext]_projectVars
  PROVE  CountsTicks'
<1> USE SaveAssumption DEF SaveAssumption, CountsTicks
<1>1. CASE Tick
  BY <1>1 DEF Tick, ProjectTypeOK
<1>2. CASE Save \/ Dispatch \/ Exit \/ CloseToSource
  BY <1>2 DEF Save, Dispatch, Exit, CloseToSource, onSave
<1>3. CASE Start \/ Crash
  BY <1>3 DEF Start, Crash, Load
<1>4. CASE UIAction
  <2>1. UNCHANGED <<save_counter, posted, risk>>
    BY <1>4 DEF UIAction, EditForm, EditProperty, EditEvent, CreateControl,
       DeleteControl, PasteControl, RenameControl, NudgeControl, AlignControls,
       UndoCreateDelete, RemoveWindow, SetStartWindow, NewWindow, RaiseMarks,
       EnableSave, frameVars
  <2> QED
    BY <2>1
<1>5. CASE ImageAction \/ RendererAction
  <2>1. UNCHANGED <<save_counter, posted, risk>>
    BY <1>5 DEF ImageAction, ImportImage, ImportFails, OverwriteImage, RemoveImage,
       RendererAction, NewRenderer, RemoveRenderer, RemoveShared, EditRenderer,
       RenameRenderer, EnableSave, frameVars
  <2> QED
    BY <2>1
<1>6. CASE (\E w \in editors : OpenDialog(w)) \/ ConnectEvent \/ CloseDialog
  BY <1>6 DEF OpenDialog, ConnectEvent, CloseDialog, frameVars
<1>7. CASE UNCHANGED projectVars
  BY <1>7 DEF projectVars, frameVars
<1>8. QED
  BY <1>1, <1>2, <1>3, <1>4, <1>5, <1>6, <1>7 DEF ProjectNext

(* What a mark was raised for is covered by marks, a form mark keeps the   *)
(* auto-save armed, and the next start finds what the id marks do not      *)
(* cover, for any windows and images.                                      *)
THEOREM MarksCorrect ==
  ProjectSpec => [](FlagsCoverDue /\ ModifiedWhileMarked /\ StartFindsProject)
<1>1. ProjectInit => Marks
  BY DEF ProjectInit, Marks, FlagsCoverDue, ModifiedWhileMarked, StartFindsProject
<1>2. ProjectTypeOK /\ Marks /\ [ProjectNext]_projectVars => Marks'
  BY MarksStep
<1>3. Marks => FlagsCoverDue /\ ModifiedWhileMarked /\ StartFindsProject
  BY DEF Marks
<1>4. QED
  BY <1>1, <1>2, <1>3, ProjectTypeCorrect, PTL DEF ProjectSpec

(* While a form is marked the project is marked, so that the auto-save     *)
(* stays armed.                                                            *)
THEOREM ModifiedCorrect == ProjectSpec => []ModifiedWhileMarked
  BY MarksCorrect, PTL

(* What a start does not find in the files the id marks cover.             *)
THEOREM StartFindsCorrect == ProjectSpec => []StartFindsProject
  BY MarksCorrect, PTL

(* The auto-save comes within one interval and a tick, for any interval.   *)
THEOREM SavedInTimeCorrect == ProjectSpec => []SavedInTime
<1>1. ProjectInit => CountsTicks
  BY SaveAssumption DEF SaveAssumption, ProjectInit, CountsTicks
<1>2. ProjectTypeOK /\ CountsTicks /\ [ProjectNext]_projectVars => CountsTicks'
  BY TicksStep
<1>3. ProjectTypeOK /\ CountsTicks => SavedInTime
  BY SaveAssumption DEF SaveAssumption, ProjectTypeOK, CountsTicks, SavedInTime
<1>4. QED
  BY <1>1, <1>2, <1>3, ProjectTypeCorrect, PTL DEF ProjectSpec

(* The modified mark falls only in a step that leaves nothing due.         *)
THEOREM MarkFallsCorrect == ProjectSpec => MarkFallsWhenWritten
<1>1. ProjectTypeOK /\ Marks /\ [ProjectNext]_projectVars
        => [running /\ isModified /\ ~ isModified' =>
              /\ \A w \in editors' : "Due" \notin {xml'[w], source'[w]}
              /\ "Due" \notin {rdrIdXml', rdrXml'}
              /\ imageXml' = "Due" => images' = 0]_projectVars
  <2> SUFFICES ASSUME ProjectTypeOK, Marks, [ProjectNext]_projectVars,
                      running, isModified, ~ isModified'
               PROVE  /\ \A w \in editors' : "Due" \notin {xml'[w], source'[w]}
                      /\ "Due" \notin {rdrIdXml', rdrXml'}
                      /\ imageXml' = "Due" => images' = 0
    OBVIOUS
  <2>1. CASE Save \/ Dispatch \/ Exit \/ CloseToSource
    <3>1. \E P, S : /\ ProperyChanged \subseteq P /\ SourceChanged \subseteq S
                   /\ onSave(P, S)
      BY <2>1 DEF Save, Dispatch, Exit, CloseToSource
    <3> QED
      BY <3>1, SaveWrites
  <2>2. CASE Start \/ Crash
    BY <2>2 DEF Start, Crash, Load, ProjectTypeOK
  <2>3. CASE UIAction
    BY <2>3 DEF UIAction, EditForm, EditProperty, EditEvent, CreateControl,
       DeleteControl, PasteControl, RenameControl, NudgeControl, AlignControls,
       UndoCreateDelete, RemoveWindow, SetStartWindow, NewWindow, RaiseMarks,
       EnableSave, frameVars
  <2>4. CASE ImageAction \/ RendererAction
    BY <2>4 DEF ImageAction, ImportImage, ImportFails, OverwriteImage, RemoveImage,
       RendererAction, NewRenderer, RemoveRenderer, RemoveShared, EditRenderer,
       RenameRenderer, EnableSave, frameVars
  <2>5. CASE Tick \/ (\E w \in editors : OpenDialog(w)) \/ ConnectEvent
             \/ CloseDialog \/ UNCHANGED projectVars
    BY <2>5 DEF Tick, OpenDialog, ConnectEvent, CloseDialog, projectVars, frameVars
  <2> QED
    BY <2>1, <2>2, <2>3, <2>4, <2>5 DEF ProjectNext
<1>2. ProjectInit => Marks
  BY DEF ProjectInit, Marks, FlagsCoverDue, ModifiedWhileMarked, StartFindsProject
<1>3. ProjectTypeOK /\ Marks /\ [ProjectNext]_projectVars => Marks'
  BY MarksStep
<1>4. QED
  BY <1>1, <1>2, <1>3, ProjectTypeCorrect, PTL DEF ProjectSpec, MarkFallsWhenWritten
=============================================================================
