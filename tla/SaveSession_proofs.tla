-------------------------- MODULE SaveSession_proofs --------------------------
(* Theorems about SaveSession, for every choice of the files looked at and   *)
(* for any number of descriptors, kills and SIGTERMs: its types, that what   *)
(* does not count as modified has been written, and that a death tears the   *)
(* files of one mark for every save it cuts short.                           *)
EXTENDS SaveSession, FiniteSetTheorems, SequenceTheorems, TLAPS

-----------------------------------------------------------------------------
(* The inductive invariant. *)

Marks == {"ui", "source", "rdr", "image"}
Editing == Marks \cup {"strings"}
Talking == {"sync", "request", "answer", "ack", "done"}

(* A save under way knows of every stream it asked for; it was begun no     *)
(* later than all the SIGTERMs that interrupt it; a process that is gone    *)
(* has none under way.                                                      *)
FramesInv ==
  /\ \A i \in DOMAIN frames :
       /\ frames[i].out = "failed" \/ frames[i].pkg = "failed" => openFailed
       /\ frames[i].at \in Editing => frames[i].pkg # "none"
       /\ frames[i].owed <= terms + 1
  /\ phase = "down" => frames = <<>>

TypeInv == TypeOK /\ FramesInv

(* The steps at which a save will still write f. *)
UpTo(f) ==
  CASE f = "project" -> {"project"}
    [] f = "header" -> {"project", "header"}
    [] f = "ui" -> {"project", "header", "package", "ui"}
    [] f = "source" -> {"project", "header", "package", "ui", "source"}
    [] f = "rdr" -> {"project", "header", "package", "ui", "source", "rdr"}
    [] f = "image" -> {"project", "header", "package", "ui", "source", "rdr",
                       "image"}
    [] f = "package" -> {"project", "header", "package", "ui", "source", "rdr",
                         "image", "strings"}

Passing(f) == \E i \in DOMAIN frames : frames[i].at \in UpTo(f)

(* Nobody has made f again since a start found it torn; what is derived is  *)
(* not missed while the windows are not there.                              *)
Forgotten(f) == IF f \in Derived THEN "ui" \in empty ELSE f \in empty

(* A save will come, or has not yet got to f, and f's mark, if it has one,  *)
(* is up.                                                                   *)
StillDue(f) == (f \in Marks => f \in dirty) /\ (isModified \/ Passing(f))

(* A file that is not what memory holds is still due. *)
Accounted(f) == file[f] = "Current" \/ Forgotten(f) \/ StillDue(f)

WrittenInv ==
  phase # "down" /\ ~ openFailed => \A f \in File : Accounted(f)

(* Every torn file that was not lost before is one that a save under way    *)
(* has open; after a death each of those saves has been counted.            *)
Torn == {f \in Kept : file[f] = "Torn"}

HasOpen(f) ==
  \E i \in DOMAIN frames : frames[i].out = "open" /\ frames[i].at = f

TornInv ==
  /\ phase # "down" =>
       /\ Cardinality(lost) <= cutShort
       /\ \A f \in Torn \ lost : HasOpen(f)
  /\ phase = "down" => Cardinality(lost \cup Torn) <= cutShort

-----------------------------------------------------------------------------
(* The files and the order of onSave. *)

LEMMA KeptFinite == IsFiniteSet(Kept) /\ Cardinality(Kept) \in Nat
<1>1. IsFiniteSet(AllKept)
  <2>1. IsFiniteSet({"project"})
    BY FS_Singleton
  <2>2. IsFiniteSet({"project"} \cup {"ui"})
    BY <2>1, FS_AddElement
  <2>3. IsFiniteSet({"project"} \cup {"ui"} \cup {"source"})
    BY <2>2, FS_AddElement
  <2>4. IsFiniteSet({"project"} \cup {"ui"} \cup {"source"} \cup {"rdr"})
    BY <2>3, FS_AddElement
  <2>5. IsFiniteSet({"project"} \cup {"ui"} \cup {"source"} \cup {"rdr"}
                      \cup {"image"})
    BY <2>4, FS_AddElement
  <2>6. AllKept = {"project"} \cup {"ui"} \cup {"source"} \cup {"rdr"}
                    \cup {"image"}
    BY DEF AllKept
  <2> QED
    BY <2>5, <2>6
<1>2. Kept \in SUBSET AllKept
  BY SessionAssumption
<1> QED
  BY <1>1, <1>2, FS_Subset, FS_CardinalityType

(* Each step of onSave that writes is followed by a step of onSave. *)
LEMMA FollowingStep ==
  ASSUME NEW s \in OneStream \cup {"package", "strings"}
  PROVE  /\ Following(s) \in Step
         /\ Following(s) \in Editing => s \in Editing \cup {"package"}
BY SessionAssumption
   DEF OneStream, Following, fromSource, fromRdr, fromImage, Step, AllSteps,
       AllKept, Derived, Editing, Marks

(* onSave does not leave out a file that it has still to write. *)
LEMMA FollowingOrder ==
  ASSUME NEW s \in OneStream \cup {"package"}, NEW f \in File,
         s \in UpTo(f), s # f \/ f = "package"
  PROVE  Following(s) \in UpTo(f)
<1>1. f \in {"project", "header", "package", "ui", "source", "rdr", "image"}
  BY SessionAssumption DEF File, AllKept, Derived
<1>2. CASE f \in {"project", "header", "ui", "source"}
  BY <1>2, SessionAssumption
     DEF File, UpTo, OneStream, Following, fromSource, fromRdr, fromImage,
         Derived
<1>3. CASE f = "rdr"
  BY <1>3, SessionAssumption
     DEF File, UpTo, OneStream, Following, fromSource, fromRdr, fromImage,
         Derived, AllKept
<1>4. CASE f = "image"
  BY <1>4, SessionAssumption
     DEF File, UpTo, OneStream, Following, fromSource, fromRdr, fromImage,
         Derived, AllKept
<1>5. CASE f = "package"
  BY <1>5, SessionAssumption
     DEF File, UpTo, OneStream, Following, fromSource, fromRdr, fromImage,
         Derived, AllKept
<1> QED
  BY <1>1, <1>2, <1>3, <1>4, <1>5

(* What a save at one of these steps has behind it. *)
LEMMA UpToEnds ==
  ASSUME NEW f \in File
  PROVE  /\ "project" \in UpTo(f) /\ f \in UpTo(f)
         /\ "strings" \in UpTo(f) => f = "package"
         /\ \A s \in Talking : s \notin UpTo(f)
BY SessionAssumption DEF File, UpTo, AllKept, Derived, Talking

-----------------------------------------------------------------------------
(* The saves under way, when the innermost takes a step. *)

Moved(at, out, pkg) ==
  /\ frames' \in Seq(Frame) /\ DOMAIN frames' = DOMAIN frames
  /\ Len(frames) \in DOMAIN frames
  /\ \A i \in DOMAIN frames : i # Len(frames) => frames'[i] = frames[i]
  /\ frames'[Len(frames)].at = at
  /\ frames'[Len(frames)].out = out
  /\ frames'[Len(frames)].pkg = pkg
  /\ frames'[Len(frames)].owed <= Top.owed \/ frames'[Len(frames)].owed = 1

LEMMA TopTyped ==
  ASSUME TypeOK, frames # <<>>
  PROVE  /\ Top \in Frame /\ Len(frames) \in Nat \ {0}
         /\ DOMAIN frames = 1 .. Len(frames) /\ Len(frames) \in DOMAIN frames
<1>1. frames \in Seq(Frame)
  BY DEF TypeOK
<1> QED
  BY <1>1 DEF Top

LEMMA TopSet ==
  ASSUME TypeOK, frames # <<>>, NEW g \in Frame, frames' = SetTop(g),
         g.owed <= Top.owed \/ g.owed = 1
  PROVE  Moved(g.at, g.out, g.pkg)
<1>1. frames \in Seq(Frame)
  BY DEF TypeOK
<1>2. Len(frames) \in 1 .. Len(frames) /\ DOMAIN frames = 1 .. Len(frames)
  BY <1>1
<1>3. /\ frames' \in Seq(Frame) /\ Len(frames') = Len(frames)
      /\ \A j \in 1 .. Len(frames) :
           frames'[j] = IF j = Len(frames) THEN g ELSE frames[j]
  BY <1>1, <1>2, ExceptSeq DEF SetTop
<1>4. DOMAIN frames' = 1 .. Len(frames)
  BY <1>3
<1> QED
  BY <1>2, <1>3, <1>4 DEF Moved

LEMMA GoToMoves ==
  ASSUME TypeOK, frames # <<>>, NEW s \in Step, frames' = GoTo(s)
  PROVE  Moved(s, "none", Top.pkg)
<1> DEFINE g == [Top EXCEPT !.at = s, !.out = "none"]
<1>1. g \in Frame /\ g.at = s /\ g.out = "none" /\ g.pkg = Top.pkg
      /\ g.owed = Top.owed /\ Top.owed \in Nat
  <2>1. Top \in Frame /\ Top.owed \in 1 .. MaxTerms + 1
    BY TopTyped DEF Frame
  <2>2. "none" \in Stream
    BY DEF Stream
  <2>3. g \in Frame
    BY <2>1, <2>2 DEF Frame
  <2>4. g.at = s /\ g.out = "none" /\ g.pkg = Top.pkg /\ g.owed = Top.owed
    BY <2>1 DEF Frame
  <2>5. Top.owed \in Nat
    BY <2>1, SessionAssumption
  <2> QED
    BY <2>3, <2>4, <2>5
<1>2. frames' = SetTop(g)
  BY DEF GoTo
<1> HIDE DEF g
<1>3. Moved(g.at, g.out, g.pkg)
  BY <1>1, <1>2, TopSet
<1> QED
  BY <1>1, <1>3
(* Appending a save. *)
LEMMA BeginAppends ==
  ASSUME NEW fs \in Seq(Frame), NEW then \in After,
         frames' = Append(fs, NewFrame(then))
  PROVE  /\ frames' \in Seq(Frame) /\ frames' # <<>>
         /\ Len(fs) \in Nat /\ DOMAIN fs = 1 .. Len(fs)
         /\ DOMAIN frames' = 1 .. Len(fs) + 1
         /\ \A i \in DOMAIN fs : frames'[i] = fs[i]
         /\ frames'[Len(fs) + 1] = NewFrame(then)
<1>1. NewFrame(then) \in Frame
  BY SessionAssumption DEF NewFrame, Frame, Step, AllSteps, AllKept, Stream
<1> QED
  BY <1>1, AppendProperties

(* What each step of a save does to the saves under way. *)
LEMMA Moves ==
  ASSUME TypeOK
  PROVE  /\ Skip \/ Write => Moved(Following(Top.at), "none", Top.pkg)
         /\ Open => Moved(Top.at, IF Free > 0 THEN "open" ELSE "failed",
                          Top.pkg)
         /\ OpenPackage => Moved(Following("package"), Top.out,
                                 IF Free > 0 THEN "open" ELSE "failed")
         /\ ClosePackage => Moved(Following("strings"), Top.out, "none")
<1>1. ASSUME Skip \/ Write PROVE Moved(Following(Top.at), "none", Top.pkg)
  BY <1>1, FollowingStep, GoToMoves DEF Skip, Write, Advance
<1>2. ASSUME frames # <<>>
      PROVE  /\ Top \in Frame /\ Top.owed <= Top.owed
             /\ {"none", "open", "failed"} = Stream
  BY <1>2, TopTyped, SessionAssumption DEF Frame, Stream
<1>3. ASSUME Open
      PROVE  Moved(Top.at, IF Free > 0 THEN "open" ELSE "failed", Top.pkg)
  <2> DEFINE out == IF Free > 0 THEN "open" ELSE "failed"
  <2> DEFINE g == [Top EXCEPT !.out = out]
  <2>1. frames # <<>> /\ frames' = SetTop(g)
    BY <1>3 DEF Open
  <2>2. out \in Stream
    BY <1>2, <2>1
  <2>3. g \in Frame /\ g.at = Top.at /\ g.out = out /\ g.pkg = Top.pkg
        /\ g.owed = Top.owed
    BY <1>2, <2>1, <2>2 DEF Frame
  <2> HIDE DEF g, out
  <2>4. Moved(g.at, g.out, g.pkg)
    BY <1>2, <2>1, <2>3, TopSet
  <2> QED
    BY <2>3, <2>4 DEF out
<1>4. ASSUME OpenPackage
      PROVE  Moved(Following("package"), Top.out,
                   IF Free > 0 THEN "open" ELSE "failed")
  <2> DEFINE pkg == IF Free > 0 THEN "open" ELSE "failed"
  <2> DEFINE at == Following("package")
  <2> DEFINE g == [Top EXCEPT !.at = at, !.pkg = pkg]
  <2>1. frames # <<>> /\ frames' = SetTop(g)
    BY <1>4 DEF OpenPackage, At
  <2>2. pkg \in Stream /\ at \in Step
    BY <1>2, <2>1, FollowingStep
  <2> HIDE DEF at, pkg
  <2>3. g \in Frame /\ g.at = at /\ g.out = Top.out /\ g.pkg = pkg
        /\ g.owed = Top.owed
    BY <1>2, <2>1, <2>2 DEF Frame
  <2> HIDE DEF g
  <2>4. Moved(g.at, g.out, g.pkg)
    BY <1>2, <2>1, <2>3, TopSet
  <2> QED
    BY <2>3, <2>4 DEF at, pkg
<1>5. ASSUME ClosePackage
      PROVE  Moved(Following("strings"), Top.out, "none")
  <2> DEFINE at == Following("strings")
  <2> DEFINE g == [Top EXCEPT !.at = at, !.pkg = "none"]
  <2>1. frames # <<>> /\ frames' = SetTop(g)
    BY <1>5 DEF ClosePackage, At
  <2>2. at \in Step /\ "none" \in Stream
    BY <1>2, <2>1, FollowingStep
  <2> HIDE DEF at
  <2>3. g \in Frame /\ g.at = at /\ g.out = Top.out /\ g.pkg = "none"
        /\ g.owed = Top.owed
    BY <1>2, <2>1, <2>2 DEF Frame
  <2> HIDE DEF g
  <2>4. Moved(g.at, g.out, g.pkg)
    BY <1>2, <2>1, <2>3, TopSet
  <2> QED
    BY <2>3, <2>4 DEF at
<1> QED
  BY <1>1, <1>3, <1>4, <1>5

(* SocketClient, and what comes after it, looks at no file: its steps leave *)
(* the streams of a save as they are, or closed.                            *)
LEMMA Talks ==
  ASSUME TypeOK,
         \/ Sync \/ Request \/ ReceiveAck \/ PeerGone \/ SendAck
         \/ Finish /\ Top.then = "goToCode"
  PROVE  /\ frames # <<>> /\ Top.at \in Talking
         /\ \E at \in Talking, out, pkg \in Stream :
              /\ Moved(at, out, pkg)
              /\ out \in {"none", Top.out} /\ pkg \in {"none", Top.pkg}
<1>1. frames # <<>> /\ Top.at \in Talking
  BY DEF Sync, Request, ReceiveAck, PeerGone, SendAck, Finish, At, Talking
<1>2. Top \in Frame /\ Top.owed \in 1 .. MaxTerms + 1 /\ Talking \subseteq Step
      /\ Top.out \in Stream /\ Top.pkg \in Stream /\ "none" \in Stream
  BY <1>1, TopTyped, SessionAssumption
     DEF Frame, Talking, Step, AllSteps, AllKept, Derived, Stream
<1>3. ASSUME NEW s \in Talking, frames' = GoTo(s)
      PROVE  Moved(s, "none", Top.pkg)
  BY <1>1, <1>2, <1>3, GoToMoves
<1>4. ASSUME NEW n \in 1 .. MaxTerms + 1, NEW s \in Talking,
             n <= Top.owed \/ n = 1,
             frames' = SetTop([Top EXCEPT !.at = s, !.owed = n])
      PROVE  Moved(s, Top.out, Top.pkg)
  <2> DEFINE g == [Top EXCEPT !.at = s, !.owed = n]
  <2>1. g \in Frame /\ g.at = s /\ g.out = Top.out /\ g.pkg = Top.pkg
        /\ g.owed = n
    BY <1>2 DEF Frame
  <2> HIDE DEF g
  <2>2. Moved(g.at, g.out, g.pkg)
    BY <1>1, <1>4, <2>1, TopSet DEF g
  <2> QED
    BY <2>1, <2>2
<1> DEFINE Talk == \E at \in Talking, out, pkg \in Stream :
                     /\ Moved(at, out, pkg)
                     /\ out \in {"none", Top.out} /\ pkg \in {"none", Top.pkg}
<1>5. ASSUME NEW s \in Talking, frames' = GoTo(s) PROVE Talk
  BY <1>2, <1>3, <1>5
<1>6. ASSUME NEW s \in Talking, Moved(s, Top.out, Top.pkg) PROVE Talk
  BY <1>2, <1>6
<1> HIDE DEF Talk
<1> SUFFICES Talk
  BY <1>1 DEF Talk
<1>7. CASE Sync \/ PeerGone \/ SendAck
  BY <1>5, <1>7 DEF Sync, PeerGone, SendAck, Talking
<1>8. CASE Request
  <2>1. CASE conn = "none"
    BY <1>5, <1>8, <2>1 DEF Request, Talking
  <2>2. CASE conn # "none"
    <3>1. frames' = SetTop([Top EXCEPT !.at = "answer", !.owed = 1])
      BY <1>8, <2>2 DEF Request
    <3>2. "answer" \in Talking /\ 1 \in 1 .. MaxTerms + 1
      BY SessionAssumption DEF Talking
    <3>3. Moved("answer", Top.out, Top.pkg)
      BY <1>4, <3>1, <3>2
    <3> QED
      BY <1>6, <3>3 DEF Talking
  <2> QED
    BY <2>1, <2>2
<1>9. CASE ReceiveAck
  <2>1. CASE Top.owed = 1
    BY <1>5, <1>9, <2>1 DEF ReceiveAck, Talking
  <2>2. CASE Top.owed # 1
    <3> DEFINE n == Top.owed - 1
    <3> DEFINE g == [Top EXCEPT !.owed = n]
    <3>1. frames' = SetTop(g) /\ Top.at = "answer"
      BY <1>9, <2>2 DEF ReceiveAck, At
    <3> HIDE DEF n
    <3>2. g = [Top EXCEPT !.at = "answer", !.owed = n]
      BY <1>2, <3>1 DEF Frame
    <3> HIDE DEF g
    <3> USE DEF n
    <3>3. Top.owed - 1 \in 1 .. MaxTerms + 1 /\ Top.owed - 1 <= Top.owed
      BY <1>2, <2>2, SessionAssumption
    <3>4. Moved("answer", Top.out, Top.pkg)
      BY <1>4, <3>1, <3>2, <3>3 DEF Talking
    <3> QED
      BY <1>6, <3>4 DEF Talking
  <2> QED
    BY <2>1, <2>2
<1>10. CASE Finish /\ Top.then = "goToCode"
  <2> DEFINE new == NewFrame("return")
  <2> DEFINE g == [new EXCEPT !.at = "sync"]
  <2>1. frames' = SetTop(g)
    BY <1>10 DEF Finish
  <2>2. new \in Frame /\ new.out = "none" /\ new.pkg = "none" /\ new.owed = 1
    BY SessionAssumption
       DEF NewFrame, Frame, Step, AllSteps, AllKept, Stream, After
  <2> HIDE DEF new
  <2>4. g \in Frame /\ g.at = "sync" /\ g.out = "none" /\ g.pkg = "none"
        /\ g.owed = 1
    BY <1>2, <2>2 DEF Frame, Talking
  <2> HIDE DEF g
  <2>3. Moved(g.at, g.out, g.pkg)
    BY <1>1, <2>1, <2>4, TopSet
  <2> QED
    BY <1>2, <2>3, <2>4 DEF Talking, Talk
<1> QED
  BY <1>7, <1>8, <1>9, <1>10
-----------------------------------------------------------------------------
(* Descriptors. *)

Outs == {i \in DOMAIN frames : frames[i].out = "open"}
Pkgs == {i \in DOMAIN frames : frames[i].pkg = "open"}

LEMMA HandlesFinite ==
  ASSUME frames \in Seq(Frame)
  PROVE  /\ IsFiniteSet(Outs) /\ Cardinality(Outs) \in Nat
         /\ IsFiniteSet(Pkgs) /\ Cardinality(Pkgs) \in Nat
         /\ Handles = Cardinality(Outs) + Cardinality(Pkgs)
<1>1. DOMAIN frames = 1 .. Len(frames) /\ Len(frames) \in Nat
  OBVIOUS
<1>2. IsFiniteSet(DOMAIN frames)
  BY <1>1, FS_Interval
<1>3. Outs \in SUBSET DOMAIN frames /\ Pkgs \in SUBSET DOMAIN frames
  BY DEF Outs, Pkgs
<1>4. IsFiniteSet(Outs) /\ IsFiniteSet(Pkgs)
  BY <1>2, <1>3, FS_Subset
<1> QED
  BY <1>4, FS_CardinalityType DEF Handles, Outs, Pkgs

(* The same after a step. *)
LEMMA HandlesFinite_next ==
  ASSUME frames' \in Seq(Frame)
  PROVE  /\ IsFiniteSet(Outs') /\ Cardinality(Outs') \in Nat
         /\ IsFiniteSet(Pkgs') /\ Cardinality(Pkgs') \in Nat
         /\ Handles' = Cardinality(Outs') + Cardinality(Pkgs')
<1>1. DOMAIN frames' = 1 .. Len(frames') /\ Len(frames') \in Nat
  OBVIOUS
<1>2. IsFiniteSet(DOMAIN frames')
  BY <1>1, FS_Interval
<1>3. Outs' \in SUBSET DOMAIN frames' /\ Pkgs' \in SUBSET DOMAIN frames'
  BY DEF Outs, Pkgs
<1>4. IsFiniteSet(Outs') /\ IsFiniteSet(Pkgs')
  BY <1>2, <1>3, FS_Subset
<1> QED
  BY <1>4, FS_CardinalityType DEF Handles, Outs, Pkgs

(* Where no stream is opened no descriptor is taken. *)
LEMMA NoMoreHandles ==
  ASSUME frames \in Seq(Frame), frames' \in Seq(Frame),
         Outs' \subseteq Outs, Pkgs' \subseteq Pkgs
  PROVE  Handles' <= Handles
<1>1. /\ Cardinality(Outs') <= Cardinality(Outs)
      /\ Cardinality(Pkgs') <= Cardinality(Pkgs)
  BY HandlesFinite, FS_Subset
<1> QED
  BY <1>1, HandlesFinite, HandlesFinite_next

(* An fopen takes one. *)
LEMMA OneMoreHandle ==
  ASSUME frames \in Seq(Frame), frames' \in Seq(Frame), NEW n,
         \/ Outs' \subseteq Outs \cup {n} /\ Pkgs' \subseteq Pkgs
         \/ Outs' \subseteq Outs /\ Pkgs' \subseteq Pkgs \cup {n}
  PROVE  Handles' <= Handles + 1
<1>1. /\ IsFiniteSet(Outs \cup {n}) /\ IsFiniteSet(Pkgs \cup {n})
      /\ Cardinality(Outs \cup {n}) <= Cardinality(Outs) + 1
      /\ Cardinality(Pkgs \cup {n}) <= Cardinality(Pkgs) + 1
  <2>1. /\ IsFiniteSet(Outs) /\ Cardinality(Outs) \in Nat
        /\ IsFiniteSet(Pkgs) /\ Cardinality(Pkgs) \in Nat
    BY HandlesFinite
  <2>2. /\ IsFiniteSet(Outs \cup {n})
        /\ Cardinality(Outs \cup {n}) = IF n \in Outs THEN Cardinality(Outs)
                                        ELSE Cardinality(Outs) + 1
    BY <2>1, FS_AddElement
  <2>3. /\ IsFiniteSet(Pkgs \cup {n})
        /\ Cardinality(Pkgs \cup {n}) = IF n \in Pkgs THEN Cardinality(Pkgs)
                                        ELSE Cardinality(Pkgs) + 1
    BY <2>1, FS_AddElement
  <2> QED
    BY <2>1, <2>2, <2>3
<1>2. CASE Outs' \subseteq Outs \cup {n} /\ Pkgs' \subseteq Pkgs
  <2>1. /\ Cardinality(Outs') <= Cardinality(Outs \cup {n})
        /\ Cardinality(Pkgs') <= Cardinality(Pkgs)
    BY <1>1, <1>2, HandlesFinite, FS_Subset
  <2>2. Cardinality(Outs \cup {n}) \in Nat
    BY <1>1, FS_CardinalityType
  <2> QED
    BY <1>1, <2>1, <2>2, HandlesFinite, HandlesFinite_next
<1>3. CASE Outs' \subseteq Outs /\ Pkgs' \subseteq Pkgs \cup {n}
  <2>1. /\ Cardinality(Outs') <= Cardinality(Outs)
        /\ Cardinality(Pkgs') <= Cardinality(Pkgs \cup {n})
    BY <1>1, <1>3, HandlesFinite, FS_Subset
  <2>2. Cardinality(Pkgs \cup {n}) \in Nat
    BY <1>1, FS_CardinalityType
  <2> QED
    BY <1>1, <2>1, <2>2, HandlesFinite, HandlesFinite_next
<1> QED
  BY <1>2, <1>3

(* A step of the innermost save opens what it says it opens. *)
LEMMA MovedHandles ==
  ASSUME frames \in Seq(Frame), NEW at, NEW out, NEW pkg,
         Moved(at, out, pkg)
  PROVE  /\ \/ out # "open" \/ out = Top.out
            => Outs' \subseteq Outs
         /\ \/ pkg # "open" \/ pkg = Top.pkg
            => Pkgs' \subseteq Pkgs
         /\ Outs' \subseteq Outs \cup {Len(frames)}
         /\ Pkgs' \subseteq Pkgs \cup {Len(frames)}
<1>1. /\ DOMAIN frames' = DOMAIN frames /\ Len(frames) \in DOMAIN frames
      /\ \A i \in DOMAIN frames : i # Len(frames) => frames'[i] = frames[i]
      /\ frames'[Len(frames)].out = out /\ frames'[Len(frames)].pkg = pkg
  BY DEF Moved
<1>2. \A i : i \in Outs' => i = Len(frames) \/ i \in Outs
  BY <1>1 DEF Outs
<1>3. \A i : i \in Pkgs' => i = Len(frames) \/ i \in Pkgs
  BY <1>1 DEF Pkgs
<1>4. Len(frames) \in Outs' => out = "open"
  BY <1>1 DEF Outs
<1>5. Len(frames) \in Pkgs' => pkg = "open"
  BY <1>1 DEF Pkgs
<1>6. Top.out = "open" => Len(frames) \in Outs
  BY <1>1 DEF Outs, Top
<1>7. Top.pkg = "open" => Len(frames) \in Pkgs
  BY <1>1 DEF Pkgs, Top
<1> QED
  BY <1>2, <1>3, <1>4, <1>5, <1>6, <1>7

(* What every step of the innermost save leaves true of the saves. *)
LEMMA MovedFrames ==
  ASSUME TypeInv, NEW at, NEW out, NEW pkg, Moved(at, out, pkg),
         out = "failed" \/ pkg = "failed" => openFailed',
         openFailed => openFailed',
         at \in Editing => pkg # "none",
         terms' = terms, phase' = phase
  PROVE  FramesInv'
<1>1. terms \in Nat /\ Top.owed <= terms + 1 /\ frames # <<>>
      /\ Len(frames) \in DOMAIN frames
  BY SessionAssumption DEF TypeInv, TypeOK, FramesInv, Moved, Top
<1>2. ASSUME NEW i \in DOMAIN frames'
      PROVE  /\ frames'[i].out = "failed" \/ frames'[i].pkg = "failed"
                  => openFailed'
             /\ frames'[i].at \in Editing => frames'[i].pkg # "none"
             /\ frames'[i].owed <= terms' + 1
  <2>1. CASE i = Len(frames)
    <3>1. /\ frames'[i].at = at /\ frames'[i].out = out
          /\ frames'[i].pkg = pkg
          /\ frames'[i].owed <= Top.owed \/ frames'[i].owed = 1
      BY <2>1 DEF Moved
    <3>2. frames'[i] \in Frame /\ Top \in Frame
      BY <1>1, <1>2, TopTyped DEF Moved, TypeInv
    <3>3. frames'[i].owed \in Nat /\ Top.owed \in Nat
      BY <3>2, SessionAssumption DEF Frame
    <3>4. frames'[i].owed <= terms + 1
      BY <1>1, <3>1, <3>3
    <3> QED
      BY <3>1, <3>4
  <2>2. CASE i # Len(frames)
    BY <1>2, <2>2 DEF Moved, TypeInv, FramesInv
  <2> QED
    BY <2>1, <2>2
<1>3. phase' # "down"
  BY <1>1 DEF TypeInv, FramesInv
<1> QED
  BY <1>2, <1>3 DEF FramesInv

-----------------------------------------------------------------------------
(* The saves under way, when one begins or ends. *)

Begun ==
  /\ frames' \in Seq(Frame) /\ DOMAIN frames = 1 .. Len(frames)
  /\ Len(frames) \in Nat /\ DOMAIN frames' = 1 .. Len(frames) + 1
  /\ \A i \in DOMAIN frames :
       /\ frames'[i].at = frames[i].at /\ frames'[i].out = frames[i].out
       /\ frames'[i].pkg = frames[i].pkg
       /\ frames'[i].owed <= terms' + 1
  /\ frames'[Len(frames) + 1].at = "project"
  /\ frames'[Len(frames) + 1].out = "none"
  /\ frames'[Len(frames) + 1].pkg = "none"
  /\ frames'[Len(frames) + 1].owed = 1

LEMMA BegunOver ==
  ASSUME TypeInv, NEW fs \in Seq(Frame), NEW then \in After,
         frames' = Append(fs, NewFrame(then)), Len(fs) = Len(frames),
         \A i \in DOMAIN frames :
           /\ fs[i].at = frames[i].at /\ fs[i].out = frames[i].out
           /\ fs[i].pkg = frames[i].pkg /\ fs[i].owed <= terms' + 1
  PROVE  Begun
<1>1. /\ frames' \in Seq(Frame) /\ DOMAIN fs = 1 .. Len(fs)
      /\ Len(fs) \in Nat /\ DOMAIN frames' = 1 .. Len(fs) + 1
      /\ \A i \in DOMAIN fs : frames'[i] = fs[i]
      /\ frames'[Len(fs) + 1] = NewFrame(then)
  BY BeginAppends
<1>2. DOMAIN frames = 1 .. Len(frames)
  BY DEF TypeInv, TypeOK
<1>3. DOMAIN fs = DOMAIN frames
  BY <1>1, <1>2
<1>4. /\ NewFrame(then).at = "project" /\ NewFrame(then).out = "none"
      /\ NewFrame(then).pkg = "none" /\ NewFrame(then).owed = 1
  BY DEF NewFrame
<1> QED
  BY <1>1, <1>2, <1>3, <1>4 DEF Begun

LEMMA Begins ==
  ASSUME TypeInv, Save \/ Terminate \/ Destroy
  PROVE  Begun
<1>1. frames \in Seq(Frame) /\ terms \in Nat
  BY SessionAssumption DEF TypeInv, TypeOK
<1>2. CASE Save \/ Destroy
  <2>1. PICK then \in After : frames' = Append(frames, NewFrame(then))
    BY <1>2 DEF Save, Destroy, Begin, After
  <2>2. terms' = terms
    BY <1>2 DEF Save, Destroy, historyVars
  <2>3. \A i \in DOMAIN frames : frames[i].owed <= terms' + 1
    BY <2>2 DEF TypeInv, FramesInv
  <2> QED
    BY <1>1, <2>1, <2>3, BegunOver
<1>3. CASE Terminate
  <2>1. PICK blocked \in IF At("answer") /\ acks = 0 /\ conn = "open"
                         THEN BOOLEAN ELSE {FALSE} :
          frames' = Append(IF blocked THEN SetTop([Top EXCEPT !.owed = @ + 1])
                           ELSE frames, NewFrame("quit"))
    BY <1>3 DEF Terminate
  <2>2. terms' = terms + 1 /\ terms < MaxTerms /\ "quit" \in After
    BY <1>3 DEF Terminate, After
  <2>3. \A i \in DOMAIN frames :
          frames[i].owed <= terms + 1 /\ frames[i] \in Frame
    BY <1>1 DEF TypeInv, FramesInv
  <2>4. \A i \in DOMAIN frames :
          frames[i].owed \in Nat /\ frames[i].owed + 1 <= terms' + 1
    BY <1>1, <2>2, <2>3, SessionAssumption DEF Frame
  <2>5. CASE ~ blocked
    <3>1. frames' = Append(frames, NewFrame("quit"))
      BY <2>1, <2>5
    <3>2. \A i \in DOMAIN frames : frames[i].owed <= terms' + 1
      BY <1>1, <2>2, <2>4
    <3> QED
      BY <1>1, <2>2, <3>1, <3>2, BegunOver
  <2>6. CASE blocked
    <3> DEFINE n == Top.owed + 1
    <3> DEFINE g == [Top EXCEPT !.owed = n]
    <3> DEFINE fs == [frames EXCEPT ![Len(frames)] = g]
    <3>1. frames # <<>> /\ frames' = Append(fs, NewFrame("quit"))
      BY <2>1, <2>6 DEF SetTop, At
    <3>2. Top \in Frame /\ Len(frames) \in DOMAIN frames
          /\ DOMAIN frames = 1 .. Len(frames)
      BY <3>1, TopTyped DEF TypeInv
    <3>3. n \in 1 .. MaxTerms + 1 /\ n <= terms' + 1
      BY <1>1, <2>2, <2>4, <3>2, SessionAssumption DEF Top
    <3> HIDE DEF n
    <3>4. g \in Frame /\ g.at = Top.at /\ g.out = Top.out
          /\ g.pkg = Top.pkg /\ g.owed = n
      BY <3>2, <3>3 DEF Frame
    <3> HIDE DEF g
    <3>5. /\ fs \in Seq(Frame) /\ Len(fs) = Len(frames)
          /\ \A i \in 1 .. Len(frames) :
               fs[i] = IF i = Len(frames) THEN g ELSE frames[i]
      BY <1>1, <3>2, <3>4, ExceptSeq
    <3> HIDE DEF fs
    <3>6. \A i \in DOMAIN frames : frames[i].owed <= terms' + 1
      BY <1>1, <2>2, <2>4
    <3>7. \A i \in DOMAIN frames :
            /\ fs[i].at = frames[i].at /\ fs[i].out = frames[i].out
            /\ fs[i].pkg = frames[i].pkg /\ fs[i].owed <= terms' + 1
      BY <3>2, <3>3, <3>4, <3>5, <3>6 DEF Top
    <3> QED
      BY <2>2, <3>1, <3>5, <3>7, BegunOver
  <2> QED
    BY <2>1, <2>5, <2>6
<1> QED
  BY <1>2, <1>3

Ended ==
  /\ frames # <<>> /\ Top.at = "done"
  /\ frames' \in Seq(Frame) /\ DOMAIN frames' \subseteq DOMAIN frames
  /\ DOMAIN frames = DOMAIN frames' \cup {Len(frames)}
  /\ \A i \in DOMAIN frames' : frames'[i] = frames[i]

LEMMA Ends ==
  ASSUME TypeOK, Finish, Top.then # "goToCode"
  PROVE  Ended
<1>1. frames \in Seq(Frame) /\ frames # <<>> /\ Top.at = "done"
      /\ frames' = SubSeq(frames, 1, Len(frames) - 1)
  BY DEF TypeOK, Finish, At
<1>2. Len(frames) \in Nat \ {0} /\ DOMAIN frames = 1 .. Len(frames)
  BY <1>1
<1>3. \A i \in 1 .. Len(frames) - 1 : frames[i] \in Frame
  BY <1>1, <1>2
<1>4. /\ frames' \in Seq(Frame) /\ Len(frames') = Len(frames) - 1
      /\ \A i \in 1 .. Len(frames) - 1 : frames'[i] = frames[i]
  <2> DEFINE n == Len(frames) - 1
  <2>1. n \in Nat
    BY <1>2
  <2> HIDE DEF n
  <2>2. /\ SubSeq(frames, 1, n) \in Seq(Frame)
        /\ Len(SubSeq(frames, 1, n)) = IF 1 <= n THEN n - 1 + 1 ELSE 0
        /\ \A i \in 1 .. n - 1 + 1 :
             SubSeq(frames, 1, n)[i] = frames[1 + i - 1]
    BY <1>3, <2>1, SubSeqProperties DEF n
  <2>3. \A i \in 1 .. n : SubSeq(frames, 1, n)[i] = frames[i]
    BY <2>1, <2>2
  <2>4. Len(SubSeq(frames, 1, n)) = n
    BY <2>1, <2>2
  <2> QED
    BY <1>1, <2>2, <2>3, <2>4 DEF n
<1>5. DOMAIN frames' = 1 .. Len(frames) - 1
  BY <1>4
<1> QED
  BY <1>1, <1>2, <1>4, <1>5 DEF Ended

-----------------------------------------------------------------------------
(* Types. *)

LEMMA BegunHandles ==
  ASSUME frames \in Seq(Frame), Begun
  PROVE  Outs' \subseteq Outs /\ Pkgs' \subseteq Pkgs
<1>1. \A i \in DOMAIN frames' : i \in DOMAIN frames \/ i = Len(frames) + 1
  BY DEF Begun
<1> QED
  BY <1>1 DEF Begun, Outs, Pkgs

LEMMA EndedHandles ==
  ASSUME Ended
  PROVE  Outs' \subseteq Outs /\ Pkgs' \subseteq Pkgs
BY DEF Ended, Outs, Pkgs

LEMMA NoFrames == frames = <<>> => Outs = {} /\ Pkgs = {} /\ Handles = 0
<1>1. DOMAIN <<>> = {}
  OBVIOUS
<1>2. ASSUME frames = <<>> PROVE Outs = {} /\ Pkgs = {} /\ Handles = 0
  BY <1>1, <1>2, FS_EmptySet DEF Outs, Pkgs, Handles
<1> QED
  BY <1>2

LEMMA NoFrames_next == frames' = <<>> => Handles' = 0
<1>1. DOMAIN <<>> = {}
  OBVIOUS
<1>2. ASSUME frames' = <<>> PROVE Handles' = 0
  BY <1>1, <1>2, FS_EmptySet DEF Handles
<1> QED
  BY <1>2

LEMMA TypeInit == Init => TypeInv
<1> SUFFICES ASSUME Init PROVE TypeInv
  OBVIOUS
<1>1. frames \in Seq(Frame) /\ DOMAIN frames = {}
  <2>1. DOMAIN <<>> = {} /\ <<>> \in Seq(Frame)
    OBVIOUS
  <2> QED
    BY <2>1 DEF Init
<1>2. FramesInv
  BY <1>1 DEF Init, FramesInv
<1>3. Used <= MaxFds
  BY NoFrames, SessionAssumption DEF Init, Used
<1>4. dirty \subseteq Kept /\ file \in [File -> Content]
  BY DEF Init, Content
<1>5. 0 \in 0 .. MaxFds /\ 0 \in 0 .. Cardinality(Kept)
      /\ 0 \in 0 .. MaxKills /\ 0 \in 0 .. MaxTerms
  BY KeptFinite, SessionAssumption
<1>6. TypeOK
  BY <1>1, <1>3, <1>4, <1>5 DEF Init, TypeOK
<1> QED
  BY <1>2, <1>6 DEF TypeInv

Socket == IF conn = "none" THEN 0 ELSE 1

LEMMA UsedSum ==
  /\ Used = Handles + leaked + Socket /\ Socket \in Nat
  /\ Used' = Handles' + leaked' + Socket' /\ Socket' \in Nat
BY DEF Used, Socket

LEMMA Sums ==
  \A h, h1, l, c, m \in Nat :
    /\ h1 <= h /\ h + l + c <= m => h1 + l + c <= m
    /\ h1 <= h + 1 /\ h + l + c + 1 <= m => h1 + l + c <= m
OBVIOUS

LEMMA UsedGrows ==
  ASSUME Handles \in Nat, Handles' \in Nat, leaked \in Nat, MaxFds \in Nat,
         conn' = conn, leaked' = leaked
  PROVE  /\ Handles' <= Handles /\ Used <= MaxFds => Used' <= MaxFds
         /\ Handles' <= Handles + 1 /\ Used + 1 <= MaxFds => Used' <= MaxFds
<1>1. Socket' = Socket /\ Socket \in Nat
  BY DEF Socket
<1>2. Used = Handles + leaked + Socket /\ Used' = Handles' + leaked + Socket
  BY <1>1, UsedSum
<1> QED
  BY <1>1, <1>2, Sums

(* Where no stream is opened, nor a socket, the descriptors suffice. *)
LEMMA StillFree ==
  ASSUME TypeOK, frames' \in Seq(Frame), Outs' \subseteq Outs,
         Pkgs' \subseteq Pkgs, conn' = conn, leaked' = leaked
  PROVE  Used' <= MaxFds
<1>1. Handles' <= Handles
  BY NoMoreHandles DEF TypeOK
<1>2. Handles \in Nat /\ Handles' \in Nat
  BY HandlesFinite, HandlesFinite_next DEF TypeOK
<1>3. Used <= MaxFds /\ leaked \in Nat /\ MaxFds \in Nat
  BY SessionAssumption DEF TypeOK
<1> QED
  BY <1>1, <1>2, <1>3, UsedGrows

LEMMA FreeType ==
  ASSUME TypeOK
  PROVE  /\ Handles \in Nat /\ Used \in Nat /\ leaked \in Nat
         /\ Free > 0 => Used + 1 <= MaxFds
         /\ Free \in Nat
<1>1. Handles \in Nat /\ leaked \in Nat /\ MaxFds \in Nat
  BY HandlesFinite, SessionAssumption DEF TypeOK
<1>2. Used \in Nat
  BY <1>1, UsedSum
<1>3. Free = IF Used < MaxFds THEN MaxFds - Used ELSE 0
  BY DEF Free
<1> QED
  BY <1>1, <1>2, <1>3

(* A descriptor that is free may be taken. *)
LEMMA OneTaken ==
  ASSUME TypeOK, frames' \in Seq(Frame), NEW n, Free > 0,
         \/ Outs' \subseteq Outs \cup {n} /\ Pkgs' \subseteq Pkgs
         \/ Outs' \subseteq Outs /\ Pkgs' \subseteq Pkgs \cup {n},
         conn' = conn, leaked' = leaked
  PROVE  Used' <= MaxFds
<1>1. Handles' <= Handles + 1
  BY OneMoreHandle DEF TypeOK
<1>2. Handles' \in Nat
  BY HandlesFinite_next
<1>3. Handles \in Nat /\ leaked \in Nat /\ Used + 1 <= MaxFds /\ MaxFds \in Nat
  BY FreeType, SessionAssumption
<1> QED
  BY <1>1, <1>2, <1>3, UsedGrows

(* The streams and the descriptors of a step of the innermost save. *)
LEMMA WritingType ==
  ASSUME TypeInv, Skip \/ Open \/ Write \/ OpenPackage \/ ClosePackage
  PROVE  TypeInv'
<1>1. TypeOK /\ frames \in Seq(Frame) /\ frames # <<>>
  BY DEF TypeInv, TypeOK, Skip, Open, Write, OpenPackage, ClosePackage, At
<1>2. UNCHANGED <<phase, quit, isModified, empty, lost, conn, pending, acks,
                  leaked, interrupted, cutShort, kills, terms>>
  BY DEF Skip, Open, Write, OpenPackage, ClosePackage, Fopen, filesVars,
         peerVars, historyVars
<1>3. file' \in [File -> Content] /\ dirty' \subseteq Kept
      /\ openFailed' \in BOOLEAN
  BY DEF TypeInv, TypeOK, Content, Skip, Open, Write, OpenPackage,
         ClosePackage, Fopen, filesVars, historyVars
<1>4. ASSUME FramesInv', frames' \in Seq(Frame), Used' <= MaxFds
      PROVE  TypeInv'
  BY <1>2, <1>3, <1>4 DEF TypeInv, TypeOK
<1>5. CASE Skip \/ Write
  <2>1. Moved(Following(Top.at), "none", Top.pkg)
    BY <1>1, <1>5, Moves
  <2>2. Top.at \in OneStream
    BY <1>5 DEF Skip, Write
  <2>3. Following(Top.at) \in Editing => Top.pkg # "none"
    <3>1. Top.at \in Editing => Top.pkg # "none"
      BY <1>1, TopTyped DEF TypeInv, FramesInv, Top
    <3>2. Top.at # "package"
      BY <2>2, SessionAssumption DEF OneStream, AllKept
    <3> QED
      BY <2>2, <3>1, <3>2, FollowingStep
  <2>4. openFailed' = openFailed
    BY <1>5 DEF Skip, Write, historyVars
  <2>5. Top.pkg = "failed" => openFailed'
    BY <1>1, <2>4, TopTyped DEF TypeInv, FramesInv, Top
  <2>6. FramesInv'
    BY <1>2, <2>1, <2>3, <2>4, <2>5, MovedFrames
  <2>7. Used' <= MaxFds
    BY <1>1, <1>2, <2>1, MovedHandles, StillFree DEF Moved
  <2> QED
    BY <1>4, <2>1, <2>6, <2>7 DEF Moved
<1>6. CASE Open
  <2> DEFINE out == IF Free > 0 THEN "open" ELSE "failed"
  <2>1. Moved(Top.at, out, Top.pkg)
    BY <1>1, <1>6, Moves
  <2>2. /\ Top.at \in Editing => Top.pkg # "none"
        /\ Top.pkg = "failed" => openFailed
    BY <1>1, TopTyped DEF TypeInv, FramesInv, Top
  <2>3. openFailed' = (openFailed \/ ~ (Free > 0))
    BY <1>6 DEF Open, Fopen
  <2>4. FramesInv'
    BY <1>2, <2>1, <2>2, <2>3, MovedFrames
  <2>5. Used' <= MaxFds
    <3>1. CASE Free > 0
      <4>1. Outs' \subseteq Outs \cup {Len(frames)} /\ Pkgs' \subseteq Pkgs
        BY <1>1, <2>1, MovedHandles
      <4>2. frames' \in Seq(Frame)
        BY <2>1 DEF Moved
      <4> QED
        BY <1>1, <1>2, <3>1, <4>1, <4>2, OneTaken
    <3>2. CASE ~ (Free > 0)
      <4>1. Outs' \subseteq Outs /\ Pkgs' \subseteq Pkgs
        BY <1>1, <2>1, <3>2, MovedHandles
      <4> QED
        BY <1>1, <1>2, <2>1, <4>1, StillFree DEF Moved
    <3> QED
      BY <3>1, <3>2
  <2> QED
    BY <1>4, <2>1, <2>4, <2>5 DEF Moved
<1>7. CASE OpenPackage
  <2> DEFINE pkg == IF Free > 0 THEN "open" ELSE "failed"
  <2>1. Moved(Following("package"), Top.out, pkg)
    BY <1>1, <1>7, Moves
  <2>2. Top.out = "failed" => openFailed
    BY <1>1, TopTyped DEF TypeInv, FramesInv, Top
  <2>3. openFailed' = (openFailed \/ ~ (Free > 0))
    BY <1>7 DEF OpenPackage, Fopen
  <2>4. FramesInv'
    BY <1>2, <2>1, <2>2, <2>3, MovedFrames
  <2>5. Used' <= MaxFds
    <3>1. CASE Free > 0
      <4>1. Outs' \subseteq Outs /\ Pkgs' \subseteq Pkgs \cup {Len(frames)}
        BY <1>1, <2>1, MovedHandles
      <4>2. frames' \in Seq(Frame)
        BY <2>1 DEF Moved
      <4> QED
        BY <1>1, <1>2, <3>1, <4>1, <4>2, OneTaken
    <3>2. CASE ~ (Free > 0)
      <4>1. Outs' \subseteq Outs /\ Pkgs' \subseteq Pkgs
        BY <1>1, <2>1, <3>2, MovedHandles
      <4> QED
        BY <1>1, <1>2, <2>1, <4>1, StillFree DEF Moved
    <3> QED
      BY <3>1, <3>2
  <2> QED
    BY <1>4, <2>1, <2>4, <2>5 DEF Moved
<1>8. CASE ClosePackage
  <2>1. Moved(Following("strings"), Top.out, "none")
    BY <1>1, <1>8, Moves
  <2>2. Top.out = "failed" => openFailed
    BY <1>1, TopTyped DEF TypeInv, FramesInv, Top
  <2>3. openFailed' = openFailed
    BY <1>8 DEF ClosePackage, historyVars
  <2>4. Following("strings") \notin Editing
    BY DEF Following, Editing, Marks
  <2>5. FramesInv'
    BY <1>2, <2>1, <2>2, <2>3, <2>4, MovedFrames
  <2>6. Used' <= MaxFds
    BY <1>1, <1>2, <2>1, MovedHandles, StillFree DEF Moved
  <2> QED
    BY <1>4, <2>1, <2>5, <2>6 DEF Moved
<1> QED
  BY <1>5, <1>6, <1>7, <1>8

LEMMA SocketSums ==
  \A h, h1, l, l1, c, c1, m \in Nat :
    /\ h1 <= h /\ l1 + c1 <= l + c /\ h + l + c <= m
         => h1 + l1 + c1 <= m /\ l1 <= m
    /\ h1 <= h /\ l1 + c1 <= l + c + 1 /\ h + l + c + 1 <= m
         => h1 + l1 + c1 <= m /\ l1 <= m
OBVIOUS

(* The socket and what it leaves behind take a descriptor that was free. *)
LEMMA SocketTaken ==
  ASSUME TypeOK, frames' \in Seq(Frame), Outs' \subseteq Outs,
         Pkgs' \subseteq Pkgs, leaked' \in Nat,
         \/ leaked' + Socket' <= leaked + Socket
         \/ Free > 0 /\ leaked' + Socket' <= leaked + Socket + 1
  PROVE  Used' <= MaxFds /\ leaked' \in 0 .. MaxFds
<1>1. Handles' <= Handles
  BY NoMoreHandles DEF TypeOK
<1>2. Handles' \in Nat
  BY HandlesFinite_next
<1>3. Handles \in Nat /\ leaked \in Nat /\ MaxFds \in Nat
  BY FreeType, SessionAssumption
<1>4. Used <= MaxFds /\ (Free > 0 => Used + 1 <= MaxFds)
  BY FreeType DEF TypeOK
<1>5. /\ Used = Handles + leaked + Socket /\ Socket \in Nat
      /\ Used' = Handles' + leaked' + Socket' /\ Socket' \in Nat
  BY UsedSum
<1>6. Used' <= MaxFds /\ leaked' <= MaxFds
  <2>1. CASE leaked' + Socket' <= leaked + Socket
    BY <1>1, <1>2, <1>3, <1>4, <1>5, <2>1, SocketSums
  <2>2. CASE Free > 0 /\ leaked' + Socket' <= leaked + Socket + 1
    BY <1>1, <1>2, <1>3, <1>4, <1>5, <2>2, SocketSums
  <2> QED
    BY <2>1, <2>2
<1> QED
  BY <1>3, <1>6

LEMMA TalkingType ==
  ASSUME TypeInv,
         \/ Sync \/ Request \/ ReceiveAck \/ PeerGone \/ SendAck
         \/ Finish /\ Top.then = "goToCode"
  PROVE  TypeInv'
<1>1. TypeOK /\ frames # <<>> /\ frames \in Seq(Frame)
  BY Talks DEF TypeInv, TypeOK
<1>2. PICK at \in Talking, out \in Stream, pkg \in Stream :
        /\ Moved(at, out, pkg)
        /\ out \in {"none", Top.out} /\ pkg \in {"none", Top.pkg}
  BY <1>1, Talks
<1>3. frames' \in Seq(Frame) /\ Outs' \subseteq Outs /\ Pkgs' \subseteq Pkgs
  BY <1>1, <1>2, MovedHandles DEF Moved
<1>4. UNCHANGED <<phase, isModified, dirty, empty, file, openFailed,
                  interrupted, lost, cutShort, kills, terms>>
  BY DEF Sync, Request, ReceiveAck, PeerGone, SendAck, Finish, filesVars,
         historyVars
<1>5. FramesInv'
  <2>1. Top.out = "failed" \/ Top.pkg = "failed" => openFailed
    BY <1>1, TopTyped DEF TypeInv, FramesInv, Top
  <2>2. at \notin Editing
    BY <1>2 DEF Talking, Editing, Marks
  <2> QED
    BY <1>2, <1>4, <2>1, <2>2, MovedFrames
<1>6. /\ quit' \in BOOLEAN /\ conn' \in {"none", "open", "fin", "reset"}
      /\ pending' \in Nat /\ acks' \in Nat
  BY DEF TypeInv, TypeOK, Sync, Request, ReceiveAck, PeerGone, SendAck, Finish,
         closeSocket, peerVars
<1>7. leaked \in Nat
  BY <1>1, FreeType
<1>8. Used' <= MaxFds /\ leaked' \in 0 .. MaxFds
  <2>1. CASE Sync
    <3>1. CASE conn # "none" /\ UNCHANGED <<conn, leaked>>
      <4>1. leaked' + Socket' <= leaked + Socket /\ leaked' \in Nat
        BY <1>7, <3>1 DEF Socket
      <4> QED
        BY <1>1, <1>3, <4>1, SocketTaken
    <3>2. CASE /\ conn = "none" /\ Free > 0
               /\ conn' = "open" /\ UNCHANGED leaked
      <4>1. leaked' + Socket' <= leaked + Socket + 1 /\ leaked' \in Nat
        BY <1>7, <3>2 DEF Socket
      <4> QED
        BY <1>1, <1>3, <3>2, <4>1, SocketTaken
    <3>3. CASE Free > 0 /\ leaked' = leaked + 1 /\ UNCHANGED conn
      <4>1. leaked' + Socket' <= leaked + Socket + 1 /\ leaked' \in Nat
        BY <1>7, <3>3 DEF Socket
      <4> QED
        BY <1>1, <1>3, <3>3, <4>1, SocketTaken
    <3>4. CASE conn = "none" /\ UNCHANGED <<conn, leaked>>
      <4>1. leaked' + Socket' <= leaked + Socket /\ leaked' \in Nat
        BY <1>7, <3>4 DEF Socket
      <4> QED
        BY <1>1, <1>3, <4>1, SocketTaken
    <3> QED
      BY <2>1, <3>1, <3>2, <3>3, <3>4 DEF Sync
  <2>2. CASE PeerGone
    <3>1. leaked' = leaked + 1 /\ conn' = "none" /\ conn # "none"
      BY <2>2 DEF PeerGone, closeSocket
    <3>2. leaked' + Socket' <= leaked + Socket /\ leaked' \in Nat
      BY <1>7, <3>1 DEF Socket
    <3> QED
      BY <1>1, <1>3, <3>2, SocketTaken
  <2>3. CASE Request \/ ReceiveAck \/ SendAck \/ Finish
    <3>1. leaked' = leaked /\ (conn' = "none" <=> conn = "none")
      BY <2>3 DEF Request, ReceiveAck, SendAck, Finish, peerVars
    <3>2. leaked' + Socket' <= leaked + Socket /\ leaked' \in Nat
      BY <1>7, <3>1 DEF Socket
    <3> QED
      BY <1>1, <1>3, <3>2, SocketTaken
  <2> QED
    BY <2>1, <2>2, <2>3
<1> QED
  BY <1>3, <1>4, <1>5, <1>6, <1>8 DEF TypeInv, TypeOK

(* A save that begins has no stream yet; one that ends leaves the others. *)
LEMMA BeginType ==
  ASSUME TypeInv, Save \/ Terminate \/ Destroy
  PROVE  TypeInv'
<1>1. TypeOK /\ frames \in Seq(Frame) /\ terms \in Nat
  BY SessionAssumption DEF TypeInv, TypeOK
<1>2. Begun
  BY Begins
<1>3. /\ UNCHANGED <<quit, dirty, empty, file, conn, pending, acks, leaked,
                     openFailed, lost, cutShort, kills>>
      /\ isModified' \in BOOLEAN /\ phase' \in {"running", "closing"}
      /\ interrupted' \in BOOLEAN
  BY DEF TypeInv, TypeOK, Save, Terminate, Destroy, Idle, Begin, filesVars,
         peerVars, historyVars
<1>4. terms' \in 0 .. MaxTerms
  <2>1. terms' = terms \/ (terms < MaxTerms /\ terms' = terms + 1)
    BY DEF Save, Terminate, Destroy, historyVars
  <2>2. terms \in 0 .. MaxTerms /\ MaxTerms \in Nat
    BY <1>1, SessionAssumption DEF TypeOK
  <2> QED
    BY <2>1, <2>2
<1>5. FramesInv'
  <2>1. ASSUME NEW i \in DOMAIN frames'
        PROVE  /\ frames'[i].out = "failed" \/ frames'[i].pkg = "failed"
                    => openFailed'
               /\ frames'[i].at \in Editing => frames'[i].pkg # "none"
               /\ frames'[i].owed <= terms' + 1
    <3>1. CASE i = Len(frames) + 1
      BY <1>2, <1>4, <3>1, SessionAssumption DEF Begun, Editing, Marks
    <3>2. CASE i # Len(frames) + 1
      <4>1. i \in DOMAIN frames
        BY <1>2, <2>1, <3>2 DEF Begun
      <4> QED
        BY <1>2, <1>3, <4>1 DEF Begun, TypeInv, FramesInv
    <3> QED
      BY <3>1, <3>2
  <2> QED
    BY <1>3, <2>1 DEF FramesInv
<1>6. Used' <= MaxFds
  BY <1>1, <1>2, <1>3, BegunHandles, StillFree DEF Begun
<1> QED
  BY <1>2, <1>3, <1>4, <1>5, <1>6 DEF TypeInv, TypeOK, Begun

LEMMA EndType ==
  ASSUME TypeInv, Finish, Top.then # "goToCode"
  PROVE  TypeInv'
<1>1. TypeOK /\ frames \in Seq(Frame)
  BY DEF TypeInv, TypeOK
<1>2. Ended
  BY <1>1, Ends
<1>3. /\ UNCHANGED <<phase, isModified, dirty, empty, file, conn, pending,
                     acks, leaked, openFailed, interrupted, lost, cutShort,
                     kills, terms>>
      /\ quit' \in BOOLEAN
  BY DEF TypeInv, TypeOK, Finish, filesVars, peerVars, historyVars
<1>4. FramesInv'
  BY <1>2, <1>3 DEF Ended, TypeInv, FramesInv
<1>5. Used' <= MaxFds
  BY <1>1, <1>2, <1>3, EndedHandles, StillFree DEF Ended
<1> QED
  BY <1>2, <1>3, <1>4, <1>5 DEF TypeInv, TypeOK, Ended

(* A process that is gone holds nothing. *)
LEMMA GoneType ==
  ASSUME TypeInv, Exit \/ Kill \/ BrokenPipe \/ CopyCrashes
  PROVE  TypeInv'
<1>1. Gone /\ UNCHANGED <<isModified, dirty, empty, file, openFailed,
                          interrupted, lost, terms>>
  BY DEF Exit, Kill, BrokenPipe, CopyCrashes, Die, filesVars, historyVars
<1>2. frames' = <<>> /\ frames' \in Seq(Frame) /\ DOMAIN frames' = {}
  <2>1. <<>> \in Seq(Frame) /\ DOMAIN <<>> = {}
    OBVIOUS
  <2> QED
    BY <1>1, <2>1 DEF Gone
<1>3. cutShort' \in 0 .. Cardinality(Kept)
  <2>1. cutShort \in 0 .. Cardinality(Kept) /\ Len(frames) \in Nat
    BY DEF TypeInv, TypeOK
  <2>2. \/ cutShort' = cutShort
        \/ cutShort' = IF cutShort + Len(frames) < Cardinality(Kept)
                       THEN cutShort + Len(frames) ELSE Cardinality(Kept)
    BY DEF Exit, Kill, BrokenPipe, CopyCrashes, Die, historyVars
  <2> DEFINE most == Cardinality(Kept)
  <2>3. most \in Nat
    BY KeptFinite
  <2> HIDE DEF most
  <2>4. cutShort' \in 0 .. most
    BY <2>1, <2>2, <2>3 DEF most
  <2> QED
    BY <2>4 DEF most
<1>4. kills' \in 0 .. MaxKills
  <2>1. kills' = kills \/ (kills < MaxKills /\ kills' = kills + 1)
    BY DEF Exit, Kill, BrokenPipe, CopyCrashes, historyVars
  <2>2. kills \in 0 .. MaxKills /\ MaxKills \in Nat
    BY SessionAssumption DEF TypeInv, TypeOK
  <2> QED
    BY <2>1, <2>2
<1>5. Used' <= MaxFds /\ leaked' \in 0 .. MaxFds
  <2>1. Handles' = 0 /\ leaked' = 0 /\ Socket' = 0
    BY <1>1, <1>2, NoFrames_next DEF Gone, Socket
  <2>2. Used' = Handles' + leaked' + Socket'
    BY UsedSum
  <2> QED
    BY <2>1, <2>2, SessionAssumption
<1>6. FramesInv'
  BY <1>2 DEF FramesInv
<1> QED
  BY <1>1, <1>2, <1>3, <1>4, <1>5, <1>6 DEF TypeInv, TypeOK, Gone

LEMMA StartType ==
  ASSUME TypeInv, Start
  PROVE  TypeInv'
<1>1. /\ frames = <<>> /\ frames' = frames /\ phase' = "running"
      /\ UNCHANGED <<quit, conn, pending, acks, leaked, cutShort, kills, terms>>
      /\ openFailed' = FALSE /\ interrupted' = FALSE
  BY DEF TypeInv, FramesInv, Start, peerVars
<1>2. /\ empty' \subseteq Kept /\ lost' \subseteq Kept
      /\ file' \in [File -> Content] /\ isModified' \in BOOLEAN
      /\ dirty' \subseteq Kept
  BY DEF TypeInv, TypeOK, Start, loadXMLIDs, Content
<1>3. FramesInv'
  <2>1. DOMAIN <<>> = {}
    OBVIOUS
  <2> QED
    BY <1>1, <2>1 DEF FramesInv
<1>4. Used' <= MaxFds
  BY <1>1, StillFree DEF TypeInv, TypeOK, Outs, Pkgs
<1> QED
  BY <1>1, <1>2, <1>3, <1>4 DEF TypeInv, TypeOK

(* What the user, the IDE and the answers do leaves the saves alone. *)
LEMMA AsideType ==
  ASSUME TypeInv, (\E f \in Kept : Edit(f)) \/ Answer \/ IdeLeaves
  PROVE  TypeInv'
<1>1. UNCHANGED <<phase, frames, quit, leaked, lost, openFailed, interrupted,
                  cutShort, kills, terms>>
  BY DEF Edit, Answer, IdeLeaves, filesVars, peerVars, historyVars
<1>2. /\ isModified' \in BOOLEAN /\ dirty' \subseteq Kept
      /\ empty' \subseteq Kept /\ file' \in [File -> Content]
  BY DEF TypeInv, TypeOK, Edit, Answer, IdeLeaves, filesVars, Content
<1>3. /\ conn' \in {"none", "open", "fin", "reset"} /\ pending' \in Nat
      /\ acks' \in Nat /\ (conn' = "none" <=> conn = "none")
  BY DEF TypeInv, TypeOK, Edit, Answer, IdeLeaves, peerVars
<1>4. Used' <= MaxFds
  <2>1. Used' = Used
    BY <1>1, <1>3 DEF Used, Handles
  <2> QED
    BY <2>1 DEF TypeInv, TypeOK
<1>5. FramesInv'
  BY <1>1 DEF TypeInv, FramesInv
<1> QED
  BY <1>1, <1>2, <1>3, <1>4, <1>5 DEF TypeInv, TypeOK

LEMMA TypeNext ==
  ASSUME TypeInv, [Next]_vars
  PROVE  TypeInv'
<1>1. CASE SaveStep
  BY <1>1, WritingType, TalkingType, GoneType, EndType DEF SaveStep
<1>2. CASE CopyCrashes \/ Exit \/ Kill
  BY <1>2, GoneType
<1>3. CASE Save \/ Terminate \/ Destroy
  BY <1>3, BeginType
<1>4. CASE Start
  BY <1>4, StartType
<1>5. CASE (\E f \in Kept : Edit(f)) \/ Answer \/ IdeLeaves
  BY <1>5, AsideType
<1>6. CASE UNCHANGED vars
  BY <1>6 DEF vars, filesVars, peerVars, historyVars, TypeInv, TypeOK,
              FramesInv, Used, Handles
<1> QED
  BY <1>1, <1>2, <1>3, <1>4, <1>5, <1>6 DEF Next

LEMMA TypeInvariance == Spec => []TypeInv
<1>1. Init => TypeInv
  BY TypeInit
<1>2. TypeInv /\ [Next]_vars => TypeInv'
  BY TypeNext
<1> QED
  BY <1>1, <1>2, PTL DEF Spec

(* Every variable keeps its type; above all the streams, the socket and the *)
(* descriptors that SocketClient shuts down without closing never need more *)
(* than the process has, whatever is interrupted or killed.                 *)
THEOREM TypeCorrect == Spec => []TypeOK
<1>1. TypeInv => TypeOK
  BY DEF TypeInv
<1> QED
  BY <1>1, TypeInvariance, PTL

-----------------------------------------------------------------------------
(* What is not modified has been written. *)

LEMMA WrittenInit == Init => WrittenInv
BY DEF Init, WrittenInv, Accounted

(* A save that moves on past other files still comes to f. *)
LEMMA StillPassing ==
  ASSUME NEW at, NEW out, NEW pkg, Moved(at, out, pkg), NEW f, Passing(f),
         Top.at \in UpTo(f) => at \in UpTo(f)
  PROVE  Passing(f)'
<1>1. PICK i \in DOMAIN frames : frames[i].at \in UpTo(f)
  BY DEF Passing
<1>2. /\ DOMAIN frames' = DOMAIN frames
      /\ i # Len(frames) => frames'[i] = frames[i]
      /\ i = Len(frames) => frames[i].at = Top.at /\ frames'[i].at = at
  BY DEF Moved, Top
<1>3. frames'[i].at \in UpTo(f)
  BY <1>1, <1>2
<1> QED
  BY <1>1, <1>2, <1>3 DEF Passing

(* What a step that writes does not write stays accounted for. *)
LEMMA OthersAccounted ==
  ASSUME NEW f \in File, Accounted(f), file'[f] = file[f], empty' = empty,
         isModified' = isModified,
         f \in Marks /\ f \in dirty => f \in dirty',
         Passing(f) => Passing(f)'
  PROVE  Accounted(f)'
BY DEF Accounted, Forgotten, StillDue

LEMMA WritingWritten ==
  ASSUME TypeInv, WrittenInv, ~ openFailed', NEW f \in File,
         Skip \/ Open \/ Write \/ OpenPackage \/ ClosePackage
  PROVE  Accounted(f)'
<1>1. TypeOK /\ frames # <<>> /\ phase # "down"
  BY DEF TypeInv, FramesInv, Skip, Open, Write, OpenPackage, ClosePackage, At
<1>2. UNCHANGED <<isModified, empty>> /\ (openFailed => openFailed')
  <2>1. UNCHANGED <<isModified, empty>>
    BY DEF Skip, Open, Write, OpenPackage, ClosePackage, Fopen, filesVars
  <2>2. CASE Skip \/ Write \/ ClosePackage
    BY <2>1, <2>2 DEF Skip, Write, ClosePackage, historyVars
  <2>3. CASE Open \/ OpenPackage
    BY <2>1, <2>3, Zenon DEF Open, OpenPackage, Fopen
  <2> QED
    BY <2>2, <2>3
<1>3. Accounted(f) /\ ~ openFailed
  BY <1>1, <1>2 DEF WrittenInv
<1>4. /\ Top.out # "failed" /\ Top.pkg # "failed"
      /\ Top.at \in Editing => Top.pkg # "none"
      /\ Top.out \in Stream /\ Top.pkg \in Stream
  <2>1. Top \in Frame /\ Len(frames) \in DOMAIN frames
    BY <1>1, TopTyped
  <2>2. Top.out \in Stream /\ Top.pkg \in Stream
    BY <2>1 DEF Frame
  <2> QED
    BY <1>3, <2>1, <2>2 DEF TypeInv, FramesInv, Top
<1>5. CASE Skip
  <2>1. /\ Moved(Following(Top.at), "none", Top.pkg) /\ Top.at \in OneStream
        /\ ~ Needed(Top.at) /\ UNCHANGED <<dirty, file>>
    BY <1>1, <1>5, Moves DEF Skip, filesVars
  <2>2. CASE f = Top.at
    <3>1. f \in Marks /\ (f \notin dirty \/ f \in empty)
      BY <2>1, <2>2, SessionAssumption
         DEF Needed, uiNeeded, sourceNeeded, rdrNeeded, imageNeeded, OneStream,
             Marks, AllKept
    <3> QED
      BY <1>2, <1>3, <2>1, <3>1 DEF Accounted, Forgotten, StillDue, Derived, Marks
  <2>3. CASE f # Top.at
    <3>1. Top.at \in UpTo(f) => Following(Top.at) \in UpTo(f)
      BY <2>1, <2>3, FollowingOrder
    <3>2. Passing(f) => Passing(f)'
      BY <2>1, <3>1, StillPassing
    <3> QED
      BY <1>2, <1>3, <2>1, <3>2, OthersAccounted
  <2> QED
    BY <2>2, <2>3
<1>6. CASE Open
  <2>1. /\ Moved(Top.at, IF Free > 0 THEN "open" ELSE "failed", Top.pkg)
        /\ Top.at \in OneStream /\ Needed(Top.at) /\ dirty' = dirty
        /\ \A g \in File \ {Top.at} : file'[g] = file[g]
    BY <1>1, <1>6, Moves DEF Open, Fopen, TypeOK
  <2>2. Passing(f) => Passing(f)'
    BY <2>1, StillPassing
  <2>3. CASE f = Top.at
    <3>1. f \in Marks => f \in dirty'
      BY <2>1, <2>3
         DEF Needed, uiNeeded, sourceNeeded, rdrNeeded, imageNeeded, Marks
    <3>2. Passing(f)'
      BY <2>1, <2>3, UpToEnds DEF Moved, Passing
    <3> QED
      BY <3>1, <3>2 DEF Accounted, StillDue
  <2>4. CASE f # Top.at
    BY <1>2, <1>3, <2>1, <2>2, <2>4, OthersAccounted
  <2> QED
    BY <2>3, <2>4
<1>7. CASE Write
  <2>1. /\ Moved(Following(Top.at), "none", Top.pkg) /\ Top.at \in OneStream
        /\ Top.out # "none" /\ dirty' = dirty \ {Top.at}
        /\ file' = IF Top.out = "open"
                   THEN [file EXCEPT ![Top.at] = "Current"] ELSE file
    BY <1>1, <1>7, Moves DEF Write
  <2>2. Top.out = "open"
    BY <1>4, <2>1 DEF Stream
  <2>3. CASE f = Top.at
    BY <1>1, <2>1, <2>2, <2>3 DEF Accounted, TypeOK
  <2>4. CASE f # Top.at
    <3>1. Top.at \in UpTo(f) => Following(Top.at) \in UpTo(f)
      BY <2>1, <2>4, FollowingOrder
    <3>2. Passing(f) => Passing(f)'
      BY <2>1, <3>1, StillPassing
    <3>3. file'[f] = file[f]
      BY <1>1, <2>1, <2>2, <2>4 DEF TypeOK
    <3> QED
      BY <1>2, <1>3, <2>1, <2>4, <3>2, <3>3, OthersAccounted
  <2> QED
    BY <2>3, <2>4
<1>8. CASE OpenPackage
  <2>1. /\ Moved(Following("package"), Top.out,
                 IF Free > 0 THEN "open" ELSE "failed")
        /\ Top.at = "package" /\ dirty' = dirty
        /\ \A g \in File \ {"package"} : file'[g] = file[g]
    BY <1>1, <1>8, Moves DEF OpenPackage, At, Fopen, TypeOK
  <2>2. CASE f = "package"
    <3>1. Following("package") \in UpTo(f)
      BY <2>2 DEF Following, UpTo
    <3>2. Passing(f)'
      BY <2>1, <3>1 DEF Moved, Passing
    <3>3. f \notin Marks
      BY <2>2 DEF Marks
    <3> QED
      BY <3>2, <3>3 DEF Accounted, StillDue
  <2>3. CASE f # "package"
    <3>1. Top.at \in UpTo(f) => Following("package") \in UpTo(f)
      BY <2>1, <2>3, FollowingOrder
    <3>2. Passing(f) => Passing(f)'
      BY <2>1, <3>1, StillPassing
    <3> QED
      BY <1>2, <1>3, <2>1, <2>3, <3>2, OthersAccounted
  <2> QED
    BY <2>2, <2>3
<1>9. CASE ClosePackage
  <2>1. /\ Moved(Following("strings"), Top.out, "none")
        /\ Top.at = "strings" /\ dirty' = dirty
        /\ file' = IF Top.pkg = "open"
                   THEN [file EXCEPT !["package"] = "Current"] ELSE file
    BY <1>1, <1>9, Moves DEF ClosePackage, At
  <2>2. Top.pkg = "open"
    BY <1>4, <2>1 DEF Stream, Editing
  <2>3. CASE f = "package"
    BY <1>1, <2>1, <2>2, <2>3 DEF Accounted, TypeOK
  <2>4. CASE f # "package"
    <3>1. Passing(f) => Passing(f)'
      BY <2>1, <2>4, UpToEnds, StillPassing
    <3>2. file'[f] = file[f]
      BY <1>1, <2>1, <2>2, <2>4 DEF TypeOK
    <3> QED
      BY <1>2, <1>3, <2>1, <3>1, <3>2, OthersAccounted
  <2> QED
    BY <2>3, <2>4
<1> QED
  BY <1>5, <1>6, <1>7, <1>8, <1>9

LEMMA TalkingWritten ==
  ASSUME TypeInv, WrittenInv, ~ openFailed', NEW f \in File,
         \/ Sync \/ Request \/ ReceiveAck \/ PeerGone \/ SendAck \/ Finish
  PROVE  Accounted(f)'
<1>1. /\ UNCHANGED <<phase, isModified, dirty, empty, file, openFailed>>
      /\ frames # <<>> /\ TypeOK
  BY DEF TypeInv, Sync, Request, ReceiveAck, PeerGone, SendAck, Finish, At,
         filesVars, historyVars
<1>2. Accounted(f)
  BY <1>1 DEF WrittenInv, TypeInv, FramesInv
<1>3. Passing(f) => Passing(f)'
  <2>1. CASE Finish /\ Top.then # "goToCode"
    <3>1. Ended
      BY <1>1, <2>1, Ends
    <3>2. Top.at \notin UpTo(f) /\ Top = frames[Len(frames)]
      BY <3>1, UpToEnds DEF Ended, Talking, Top
    <3> QED
      BY <3>1, <3>2 DEF Ended, Passing
  <2>2. CASE \/ Sync \/ Request \/ ReceiveAck \/ PeerGone \/ SendAck
             \/ Finish /\ Top.then = "goToCode"
    <3>1. PICK at \in Talking, out \in Stream, pkg \in Stream :
            Moved(at, out, pkg)
      BY <1>1, <2>2, Talks
    <3>2. Top.at \notin UpTo(f)
      BY <1>1, <2>2, Talks, UpToEnds
    <3> QED
      BY <3>1, <3>2, StillPassing
  <2> QED
    BY <2>1, <2>2
<1> QED
  BY <1>1, <1>2, <1>3, OthersAccounted

(* A save that begins will come to every file. *)
LEMMA BeginWritten ==
  ASSUME TypeInv, WrittenInv, ~ openFailed', NEW f \in File,
         Save \/ Terminate \/ Destroy
  PROVE  Accounted(f)'
<1>1. Begun
  BY Begins
<1>2. Passing(f)'
  BY <1>1, UpToEnds DEF Begun, Passing
<1>3. UNCHANGED <<dirty, empty, file, openFailed>> /\ phase # "down"
  BY DEF Save, Terminate, Destroy, Idle, filesVars, historyVars
<1>4. Accounted(f)
  BY <1>3 DEF WrittenInv
<1> QED
  BY <1>2, <1>3, <1>4 DEF Accounted, Forgotten, StillDue

(* A start reads what is there, and forgets what it cannot read. *)
LEMMA StartWritten ==
  ASSUME TypeInv, Start, NEW f \in File
  PROVE  Accounted(f)'
<1>1. CASE f \in Derived
  <2>1. f \notin Marks
    BY <1>1 DEF Derived, Marks
  <2>2. "ui" \in empty' \/ isModified'
    BY DEF Start, loadXMLIDs
  <2> QED
    BY <1>1, <2>1, <2>2 DEF Accounted, Forgotten, StillDue
<1>2. CASE f \notin Derived
  <2>1. f \in Kept
    BY <1>2 DEF File
  <2>2. CASE file[f] = "Torn"
    <3>1. f \in empty'
      BY <2>1, <2>2 DEF Start
    <3> QED
      BY <1>2, <3>1 DEF Accounted, Forgotten
  <2>3. CASE file[f] # "Torn"
    BY <1>2, <2>1, <2>3 DEF Accounted, Start
  <2> QED
    BY <2>2, <2>3
<1> QED
  BY <1>1, <1>2

(* A change is marked where it is made. *)
LEMMA EditWritten ==
  ASSUME TypeInv, WrittenInv, ~ openFailed', NEW f \in File,
         NEW g \in Kept, Edit(g)
  PROVE  Accounted(f)'
<1>1. /\ isModified' = TRUE /\ phase # "down" /\ ~ openFailed
      /\ dirty' = dirty \cup ({g} \cap Marks) /\ empty' = empty \ {g}
      /\ f \notin {g} \cup Derived => file'[f] = file[f]
  BY DEF Edit, Idle, historyVars, Marks, TypeInv, TypeOK
<1>2. Accounted(f)
  BY <1>1 DEF WrittenInv
<1>3. CASE f \in Derived
  <2>1. f \notin Marks
    BY <1>3 DEF Derived, Marks
  <2> QED
    BY <1>1, <2>1 DEF Accounted, StillDue
<1>4. CASE f = g
  BY <1>1, <1>4 DEF Accounted, StillDue
<1>5. CASE f \notin Derived /\ f # g
  BY <1>1, <1>2, <1>5 DEF Accounted, Forgotten, StillDue
<1> QED
  BY <1>3, <1>4, <1>5

LEMMA WrittenNext ==
  ASSUME TypeInv, WrittenInv, [Next]_vars
  PROVE  WrittenInv'
<1> SUFFICES ASSUME phase' # "down", ~ openFailed', NEW f \in File
             PROVE  Accounted(f)'
  BY DEF WrittenInv
<1>1. CASE SaveStep
  <2>1. ~ BrokenPipe
    BY DEF BrokenPipe, Die, Gone
  <2> QED
    BY <1>1, <2>1, WritingWritten, TalkingWritten DEF SaveStep
<1>2. CASE CopyCrashes \/ Exit \/ Kill
  BY <1>2 DEF CopyCrashes, Exit, Kill, Die, Gone
<1>3. CASE Save \/ Terminate \/ Destroy
  BY <1>3, BeginWritten
<1>4. CASE Start
  BY <1>4, StartWritten
<1>5. CASE \E g \in Kept : Edit(g)
  BY <1>5, EditWritten
<1>6. CASE Answer \/ IdeLeaves \/ UNCHANGED vars
  BY <1>6 DEF Answer, IdeLeaves, vars, filesVars, historyVars, WrittenInv,
              Accounted, Forgotten, StillDue, Passing
<1> QED
  BY <1>1, <1>2, <1>3, <1>4, <1>5, <1>6 DEF Next

LEMMA QuietFromWritten == WrittenInv => QuietMeansWritten
<1> SUFFICES ASSUME WrittenInv, frames = <<>>, phase # "down", ~ isModified,
                    ~ openFailed
             PROVE  /\ \A f \in Kept : file[f] = "Current" \/ f \in empty
                    /\ "ui" \notin empty =>
                         \A f \in Derived : file[f] = "Current"
  BY DEF QuietMeansWritten
<1>1. DOMAIN <<>> = {}
  OBVIOUS
<1>2. \A f \in File : file[f] = "Current" \/ Forgotten(f)
  BY <1>1 DEF WrittenInv, Accounted, StillDue, Passing
<1>3. \A f \in Kept : f \notin Derived
  BY SessionAssumption DEF AllKept, Derived
<1> QED
  BY <1>2, <1>3 DEF Forgotten, File

(* Nothing modified means everything written: between saves, a project that *)
(* does not count as modified is whole on disk, header and package with it, *)
(* though onSave lowers the mark before it has written anything, though     *)
(* SIGTERM may save inside another save and a kill may end any of them.     *)
THEOREM QuietCorrect == Spec => []QuietMeansWritten
<1>1. Init => WrittenInv
  BY WrittenInit
<1>2. TypeInv /\ WrittenInv /\ [Next]_vars => WrittenInv'
  BY WrittenNext
<1>3. WrittenInv => QuietMeansWritten
  BY QuietFromWritten
<1> QED
  BY <1>1, <1>2, <1>3, TypeInvariance, PTL DEF Spec

-----------------------------------------------------------------------------
(* What a death can cost. *)

LEMMA LostFinite ==
  ASSUME TypeOK
  PROVE  /\ IsFiniteSet(lost) /\ Cardinality(lost) \in Nat
         /\ IsFiniteSet(lost \cup Torn) /\ Cardinality(lost \cup Torn) \in Nat
         /\ Cardinality(lost \cup Torn) <= Cardinality(Kept)
<1>1. lost \in SUBSET Kept /\ lost \cup Torn \in SUBSET Kept
  BY DEF TypeOK, Torn
<1>2. IsFiniteSet(lost) /\ IsFiniteSet(lost \cup Torn)
      /\ Cardinality(lost \cup Torn) <= Cardinality(Kept)
  BY <1>1, KeptFinite, FS_Subset
<1> QED
  BY <1>2, FS_CardinalityType

LEMMA TornInit == Init => TornInv
<1> SUFFICES ASSUME Init PROVE TornInv
  OBVIOUS
<1>1. Torn = {}
  BY DEF Init, Torn, File
<1>2. Cardinality({}) = 0
  BY FS_EmptySet
<1> QED
  BY <1>1, <1>2 DEF Init, TornInv

(* A file that is open stays open in its save, until that save writes it. *)
LEMMA StillOpen ==
  ASSUME NEW at, NEW out, NEW pkg, Moved(at, out, pkg), NEW f, HasOpen(f),
         ~ (Top.out = "open" /\ Top.at = f)
  PROVE  HasOpen(f)'
<1>1. PICK i \in DOMAIN frames : frames[i].out = "open" /\ frames[i].at = f
  BY DEF HasOpen
<1>2. i # Len(frames) /\ i \in DOMAIN frames' /\ frames'[i] = frames[i]
  BY <1>1 DEF Moved, Top
<1> QED
  BY <1>1, <1>2 DEF HasOpen

LEMMA WritingTorn ==
  ASSUME TypeInv, TornInv,
         Skip \/ Open \/ Write \/ OpenPackage \/ ClosePackage
  PROVE  TornInv'
<1>1. TypeOK /\ frames # <<>> /\ phase # "down"
  BY DEF TypeInv, FramesInv, Skip, Open, Write, OpenPackage, ClosePackage, At
<1>2. UNCHANGED <<phase, lost, cutShort>>
  BY DEF Skip, Open, Write, OpenPackage, ClosePackage, Fopen, historyVars
<1> SUFFICES ASSUME NEW f \in Kept, file'[f] = "Torn", f \notin lost
             PROVE  HasOpen(f)'
  BY <1>1, <1>2 DEF TornInv, Torn
<1>3. file[f] = "Torn" => HasOpen(f)
  BY <1>1 DEF TornInv, Torn
<1>4. f \in File /\ f # "package" /\ f # "strings"
  BY SessionAssumption DEF File, AllKept
<1>5. CASE Skip
  <2>1. /\ Moved(Following(Top.at), "none", Top.pkg) /\ Top.out = "none"
        /\ file' = file
    BY <1>1, <1>5, Moves DEF Skip, filesVars
  <2> QED
    BY <1>3, <2>1, StillOpen
<1>6. CASE Open
  <2>1. /\ Moved(Top.at, IF Free > 0 THEN "open" ELSE "failed", Top.pkg)
        /\ Top.out = "none"
        /\ file' = IF Free > 0 THEN [file EXCEPT ![Top.at] = "Torn"] ELSE file
    BY <1>1, <1>6, Moves DEF Open, Fopen
  <2>2. CASE f = Top.at /\ Free > 0
    BY <2>1, <2>2 DEF Moved, HasOpen
  <2>3. CASE ~ (f = Top.at /\ Free > 0)
    <3>1. file'[f] = file[f]
      BY <1>1, <1>4, <2>1, <2>3 DEF TypeOK
    <3> QED
      BY <1>3, <2>1, <3>1, StillOpen
  <2> QED
    BY <2>2, <2>3
<1>7. CASE Write
  <2>1. /\ Moved(Following(Top.at), "none", Top.pkg)
        /\ file' = IF Top.out = "open"
                   THEN [file EXCEPT ![Top.at] = "Current"] ELSE file
    BY <1>1, <1>7, Moves DEF Write
  <2>2. file'[f] = file[f] /\ ~ (Top.out = "open" /\ Top.at = f)
    BY <1>1, <1>4, <2>1 DEF TypeOK
  <2> QED
    BY <1>3, <2>1, <2>2, StillOpen
<1>8. CASE OpenPackage
  <2>1. /\ Moved(Following("package"), Top.out,
                 IF Free > 0 THEN "open" ELSE "failed")
        /\ Top.at = "package"
        /\ file' = IF Free > 0 THEN [file EXCEPT !["package"] = "Torn"]
                   ELSE file
    BY <1>1, <1>8, Moves DEF OpenPackage, At, Fopen
  <2>2. file'[f] = file[f]
    BY <1>1, <1>4, <2>1 DEF TypeOK
  <2> QED
    BY <1>3, <1>4, <2>1, <2>2, StillOpen
<1>9. CASE ClosePackage
  <2>1. /\ Moved(Following("strings"), Top.out, "none") /\ Top.at = "strings"
        /\ file' = IF Top.pkg = "open"
                   THEN [file EXCEPT !["package"] = "Current"] ELSE file
    BY <1>1, <1>9, Moves DEF ClosePackage, At
  <2>2. file'[f] = file[f]
    BY <1>1, <1>4, <2>1 DEF TypeOK
  <2> QED
    BY <1>3, <1>4, <2>1, <2>2, StillOpen
<1> QED
  BY <1>5, <1>6, <1>7, <1>8, <1>9

LEMMA TalkingTorn ==
  ASSUME TypeInv, TornInv,
         \/ Sync \/ Request \/ ReceiveAck \/ PeerGone \/ SendAck \/ Finish
  PROVE  TornInv'
<1>1. /\ UNCHANGED <<phase, file, lost, cutShort>>
      /\ frames # <<>> /\ TypeOK /\ phase # "down"
  BY DEF TypeInv, FramesInv, Sync, Request, ReceiveAck, PeerGone, SendAck,
         Finish, At, filesVars, historyVars
<1> SUFFICES ASSUME NEW f \in Kept, HasOpen(f) PROVE HasOpen(f)'
  BY <1>1 DEF TornInv, Torn
<1>2. f \notin Talking
  BY SessionAssumption DEF AllKept, Talking
<1>3. CASE Finish /\ Top.then # "goToCode"
  <2>1. Ended
    BY <1>1, <1>3, Ends
  <2>2. Top.at # f /\ Top = frames[Len(frames)]
    BY <1>2, <2>1 DEF Ended, Talking, Top
  <2> QED
    BY <2>1, <2>2 DEF Ended, HasOpen
<1>4. CASE \/ Sync \/ Request \/ ReceiveAck \/ PeerGone \/ SendAck
           \/ Finish /\ Top.then = "goToCode"
  <2>1. PICK at \in Talking, out \in Stream, pkg \in Stream :
          Moved(at, out, pkg)
    BY <1>1, <1>4, Talks
  <2>2. Top.at # f
    BY <1>1, <1>2, <1>4, Talks
  <2> QED
    BY <2>1, <2>2, StillOpen
<1> QED
  BY <1>3, <1>4

LEMMA BeginTorn ==
  ASSUME TypeInv, TornInv, Save \/ Terminate \/ Destroy
  PROVE  TornInv'
<1>1. Begun
  BY Begins
<1>2. /\ UNCHANGED <<file, lost, cutShort>>
      /\ phase # "down" /\ phase' # "down"
  BY DEF Save, Terminate, Destroy, Idle, filesVars, historyVars
<1>3. ASSUME NEW f, HasOpen(f) PROVE HasOpen(f)'
  <2>1. PICK i \in DOMAIN frames : frames[i].out = "open" /\ frames[i].at = f
    BY <1>3 DEF HasOpen
  <2>2. i \in DOMAIN frames'
    BY <1>1, <2>1 DEF Begun
  <2> QED
    BY <1>1, <2>1, <2>2 DEF Begun, HasOpen
<1> QED
  BY <1>2, <1>3 DEF TornInv, Torn

(* Each save under way had one file open. *)
LEMMA OneEach ==
  ASSUME TypeOK, \A f \in Torn \ lost : HasOpen(f)
  PROVE  Cardinality(lost \cup Torn) <= Cardinality(lost) + Len(frames)
<1> DEFINE n == Len(frames)
<1> DEFINE name == [i \in 1 .. n |-> frames[i].at]
<1> DEFINE names == {name[i] : i \in 1 .. n}
<1>1. n \in Nat /\ DOMAIN frames = 1 .. n
  BY DEF TypeOK
<1>2. IsFiniteSet(1 .. n) /\ Cardinality(1 .. n) = n
  <2> HIDE DEF n
  <2>1. 1 \in Int /\ n \in Int
    BY <1>1
  <2>2. IsFiniteSet(1 .. n) /\ Cardinality(1 .. n) = IF 1 > n THEN 0
                                                     ELSE n - 1 + 1
    BY <2>1, FS_Interval
  <2> QED
    BY <1>1, <2>2
<1>3. name \in Surjection(1 .. n, names)
  BY DEF Surjection
<1>4. IsFiniteSet(names) /\ Cardinality(names) <= n
  BY <1>2, <1>3, FS_Surjection
<1>5. Torn \ lost \subseteq names
  BY <1>1 DEF HasOpen
<1> HIDE DEF names, n
<1>6. Torn \ lost \in SUBSET names
  BY <1>5
<1>7. IsFiniteSet(Torn \ lost) /\ Cardinality(Torn \ lost) <= n
  <2>1. IsFiniteSet(Torn \ lost) /\ Cardinality(Torn \ lost) <= Cardinality(names)
    BY <1>4, <1>6, FS_Subset
  <2>2. Cardinality(Torn \ lost) \in Nat /\ Cardinality(names) \in Nat
    BY <1>4, <2>1, FS_CardinalityType
  <2> QED
    BY <1>1, <1>4, <2>1, <2>2
<1>8. Cardinality(lost \cup (Torn \ lost))
        = Cardinality(lost) + Cardinality(Torn \ lost)
            - Cardinality(lost \cap (Torn \ lost))
  BY <1>7, LostFinite, FS_Union
<1>9. lost \cap (Torn \ lost) = {} /\ lost \cup (Torn \ lost) = lost \cup Torn
  OBVIOUS
<1>10. Cardinality(lost \cup Torn) = Cardinality(lost) + Cardinality(Torn \ lost)
  <2>1. Cardinality(lost) \in Nat /\ Cardinality(Torn \ lost) \in Nat
    BY <1>7, LostFinite, FS_CardinalityType
  <2>2. Cardinality(lost \cap (Torn \ lost)) = 0
    BY <1>9, FS_EmptySet
  <2> QED
    BY <1>8, <1>9, <2>1, <2>2
<1> QED
  <2>1. Cardinality(lost) \in Nat /\ Cardinality(Torn \ lost) \in Nat
    BY <1>7, LostFinite, FS_CardinalityType
  <2> QED
    BY <1>1, <1>7, <1>10, <2>1 DEF n

LEMMA Caps ==
  \A a, b, c, n, m \in Nat :
    a <= b + n /\ b <= c /\ a <= m
      => a <= IF c + n < m THEN c + n ELSE m
OBVIOUS

LEMMA GoneTorn ==
  ASSUME TypeInv, TornInv, Exit \/ Kill \/ BrokenPipe \/ CopyCrashes
  PROVE  TornInv'
<1>1. TypeOK /\ UNCHANGED <<file, lost>> /\ phase' = "down"
  BY DEF TypeInv, Exit, Kill, BrokenPipe, CopyCrashes, Die, Gone, filesVars,
         historyVars
<1>2. phase # "down"
  BY DEF TypeInv, FramesInv, Exit, Kill, BrokenPipe, CopyCrashes, At
<1>3. Cardinality(lost) <= cutShort /\ \A f \in Torn \ lost : HasOpen(f)
  BY <1>2 DEF TornInv
<1>4. (lost \cup Torn)' = lost \cup Torn
  BY <1>1 DEF Torn
<1> SUFFICES Cardinality(lost \cup Torn) <= cutShort'
  BY <1>1, <1>4 DEF TornInv
<1>5. CASE Exit
  <2>1. cutShort' = cutShort /\ frames = <<>>
    BY <1>5 DEF Exit, historyVars
  <2>2. DOMAIN <<>> = {}
    OBVIOUS
  <2>3. lost \cup Torn = lost
    BY <1>3, <2>1, <2>2 DEF HasOpen
  <2> QED
    BY <1>3, <2>1, <2>3
<1>6. CASE Kill \/ BrokenPipe \/ CopyCrashes
  <2>1. cutShort' = IF cutShort + Len(frames) < Cardinality(Kept)
                    THEN cutShort + Len(frames) ELSE Cardinality(Kept)
    BY <1>6 DEF Kill, BrokenPipe, CopyCrashes, Die
  <2>2. cutShort \in Nat /\ Len(frames) \in Nat /\ Cardinality(Kept) \in Nat
    BY <1>1, KeptFinite DEF TypeOK
  <2>3. /\ Cardinality(lost \cup Torn) <= Cardinality(lost) + Len(frames)
        /\ Cardinality(lost \cup Torn) <= Cardinality(Kept)
        /\ Cardinality(lost \cup Torn) \in Nat /\ Cardinality(lost) \in Nat
    BY <1>1, <1>3, OneEach, LostFinite
  <2> QED
    BY <1>3, <2>1, <2>2, <2>3, Caps
<1> QED
  BY <1>5, <1>6

LEMMA StartTorn ==
  ASSUME TypeInv, TornInv, Start
  PROVE  TornInv'
<1>1. /\ phase = "down" /\ phase' = "running" /\ cutShort' = cutShort
      /\ lost' = lost \cup Torn
  BY DEF Start, Torn
<1>2. Torn' \subseteq Torn
  BY SessionAssumption DEF Start, Torn, File, AllKept, Derived
<1> QED
  BY <1>1, <1>2 DEF TornInv

LEMMA TornNext ==
  ASSUME TypeInv, TornInv, [Next]_vars
  PROVE  TornInv'
<1>1. CASE SaveStep
  BY <1>1, WritingTorn, TalkingTorn, GoneTorn DEF SaveStep
<1>2. CASE CopyCrashes \/ Exit \/ Kill
  BY <1>2, GoneTorn
<1>3. CASE Save \/ Terminate \/ Destroy
  BY <1>3, BeginTorn
<1>4. CASE Start
  BY <1>4, StartTorn
<1>5. CASE \E f \in Kept : Edit(f)
  <2>1. /\ UNCHANGED <<phase, frames, lost, cutShort>> /\ phase # "down"
    BY <1>5 DEF Edit, Idle, historyVars
  <2>2. Torn' \subseteq Torn
    BY <1>5 DEF Edit, Torn, File
  <2> QED
    BY <2>1, <2>2 DEF TornInv, HasOpen
<1>6. CASE Answer \/ IdeLeaves \/ UNCHANGED vars
  BY <1>6 DEF Answer, IdeLeaves, vars, filesVars, historyVars, TornInv, Torn,
              HasOpen
<1> QED
  BY <1>1, <1>2, <1>3, <1>4, <1>5, <1>6 DEF Next

(* A death at any moment costs the files of at most one mark for every save *)
(* under way, however many SIGTERMs save inside one another and however     *)
(* often the process is killed and started again: onSave has the stream of  *)
(* one kept file open at a time, and what a later save writes over a torn   *)
(* file is not counted as lost.                                             *)
THEOREM DeathCorrect == Spec => []DeathLosesOne
<1>1. Init => TornInv
  BY TornInit
<1>2. TypeInv /\ TornInv /\ [Next]_vars => TornInv'
  BY TornNext
<1>3. TypeInv /\ TornInv => DeathLosesOne
  <2> SUFFICES ASSUME TypeInv, TornInv, phase = "down"
               PROVE  Cardinality(lost) <= cutShort
    BY DEF TornInv, DeathLosesOne
  <2>1. TypeOK /\ cutShort \in Nat /\ Cardinality(lost \cup Torn) <= cutShort
    BY KeptFinite DEF TypeInv, TypeOK, TornInv
  <2>2. lost \in SUBSET (lost \cup Torn)
    OBVIOUS
  <2>3. Cardinality(lost) <= Cardinality(lost \cup Torn)
    BY <2>1, <2>2, LostFinite, FS_Subset
  <2>4. Cardinality(lost) \in Nat /\ Cardinality(lost \cup Torn) \in Nat
    BY <2>1, LostFinite
  <2> QED
    BY <2>1, <2>3, <2>4
<1> QED
  BY <1>1, <1>2, <1>3, TypeInvariance, PTL DEF Spec
=============================================================================
