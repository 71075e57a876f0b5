------------------------- MODULE TextEditor_proofs -------------------------
(* Proofs about the text editor, for any languages, texts and translations:  *)
(* its types, that the columns of the list and the editor mean the same      *)
(* languages, and that nothing unmarked is lost.  That the panel asks for    *)
(* the bits of a status and the editor for the whole of it makes no          *)
(* difference as long as no language has both roles; the combobox gives a    *)
(* second role to none as long as it offers neither the default nor what is  *)
(* off the list; and that holds after every profile dialog but a cancelled   *)
(* one.                                                                      *)
EXTENDS TextEditor, FiniteSetTheorems, SequenceTheorems, WellFoundedInduction, TLAPS

-----------------------------------------------------------------------------
(* The least and the greatest of a set, and the last of a list. *)

LEMMA LeastExists ==
  ASSUME NEW S \in SUBSET Nat, S # {}
  PROVE  \E m \in S : \A y \in S : m =< y
<1> DEFINE initials == {0 .. k : k \in S}
<1>1. initials \subseteq FiniteSubsetsOf(Nat) /\ initials # {}
  <2>1. \A k \in S : IsFiniteSet(0 .. k) /\ 0 .. k \subseteq Nat
    BY FS_Interval
  <2> QED  BY <2>1 DEF FiniteSubsetsOf
<1>2. PICK K \in initials :
        \A J \in initials : <<J, K>> \notin StrictSubsetOrdering(Nat)
  BY <1>1, WFMin, FS_StrictSubsetOrderingWellFounded
<1>3. PICK k \in S : K = 0 .. k
  OBVIOUS
<1>4. ASSUME NEW y \in S, ~ (k =< y) PROVE FALSE
  <2>1. y \in Nat /\ k \in Nat /\ y < k
    BY <1>4
  <2>2. 0 .. y \subseteq 0 .. k /\ k \in 0 .. k /\ k \notin 0 .. y
    BY <2>1
  <2>3. 0 .. y \in initials /\ 0 .. y \subseteq Nat /\ 0 .. k \subseteq Nat
    BY <2>1
  <2>4. <<0 .. y, K>> \in StrictSubsetOrdering(Nat)
    BY <1>3, <2>2, <2>3 DEF StrictSubsetOrdering
  <2> QED  BY <1>2, <2>3, <2>4
<1> QED  BY <1>4

LEMMA MinIs ==
  ASSUME NEW S \in SUBSET Nat, S # {}
  PROVE  Min(S) \in S /\ \A y \in S : Min(S) =< y
<1>1. \E m \in S : \A y \in S : m =< y
  BY LeastExists
<1> QED  BY <1>1 DEF Min

LEMMA MaxIs ==
  ASSUME NEW n \in Nat, NEW S \in SUBSET (1 .. n), S # {}
  PROVE  Max(S) \in S /\ \A y \in S : y =< Max(S)
<1> DEFINE rest == {n - y : y \in S}
<1>1. rest \in SUBSET Nat /\ rest # {}
  <2>1. \A y \in S : n - y \in Nat
    OBVIOUS
  <2>2. rest # {}
    OBVIOUS
  <2> QED  BY <2>1, <2>2
<1>2. PICK m \in rest : \A r \in rest : m =< r
  BY <1>1, LeastExists
<1>3. PICK x \in S : m = n - x
  OBVIOUS
<1>4. \A y \in S : n - x =< n - y
  BY <1>2, <1>3
<1>5. \A y \in S : x >= y
  BY <1>4
<1>6. Max(S) \in S /\ \A y \in S : Max(S) >= y
  BY <1>5 DEF Max
<1> QED  BY <1>6

-----------------------------------------------------------------------------
(* One entry taken out of a list, and what a language holds.                 *)

LEMMA RemoveAtIs ==
  ASSUME NEW S, NEW s \in Seq(S), NEW i \in DOMAIN s
  PROVE  /\ RemoveAt(s, i) \in Seq(S) /\ Len(RemoveAt(s, i)) = Len(s) - 1
         /\ \A j \in 1 .. Len(s) - 1 :
              RemoveAt(s, i)[j] = s[IF j < i THEN j ELSE j + 1]
<1> DEFINE n == Len(s)
           a == SubSeq(s, 1, i - 1)
           b == SubSeq(s, i + 1, n)
<1>1. n \in Nat /\ i \in 1 .. n /\ DOMAIN s = 1 .. n
  OBVIOUS
<1>2. a \in Seq(S) /\ Len(a) = i - 1 /\ \A j \in 1 .. i - 1 : a[j] = s[j]
  <2>1. \A j \in 1 .. i - 1 : s[j] \in S
    BY <1>1
  <2>2. Len(a) = i - 1 /\ \A j \in 1 .. i - 1 : a[j] = s[1 + j - 1]
    BY <1>1, <2>1, SubSeqProperties
  <2>3. a \in Seq(S)
    BY <1>1, <2>1, SubSeqProperties
  <2> QED  BY <2>2, <2>3, <1>1
<1>3. b \in Seq(S) /\ Len(b) = n - i /\ \A j \in 1 .. n - i : b[j] = s[i + j]
  <2>1. \A j \in i + 1 .. n : s[j] \in S
    BY <1>1
  <2>2. Len(b) = n - i
    BY <1>1, <2>1, SubSeqProperties
  <2>3. \A j \in 1 .. n - i : b[j] = s[i + 1 + j - 1]
    BY <1>1, <2>1, <2>2, SubSeqProperties
  <2>4. b \in Seq(S)
    BY <1>1, <2>1, SubSeqProperties
  <2>5. \A j \in 1 .. n - i : i + 1 + j - 1 = i + j
    BY <1>1
  <2> QED  BY <2>2, <2>3, <2>4, <2>5
<1>4. RemoveAt(s, i) = a \o b
  BY DEF RemoveAt
<1>5. /\ a \o b \in Seq(S) /\ Len(a \o b) = Len(a) + Len(b)
      /\ \A j \in 1 .. Len(a) + Len(b) :
           (a \o b)[j] = IF j <= Len(a) THEN a[j] ELSE b[j - Len(a)]
  BY <1>2, <1>3, ConcatProperties
<1>6. ASSUME NEW j \in 1 .. n - 1
      PROVE  (a \o b)[j] = s[IF j < i THEN j ELSE j + 1]
  <2>1. CASE j < i
    BY <1>1, <1>2, <1>3, <1>5, <2>1
  <2>2. CASE ~ (j < i)
    <3>1. /\ j \in 1 .. Len(a) + Len(b) /\ ~ (j <= Len(a))
          /\ j - Len(a) \in 1 .. n - i /\ i + (j - Len(a)) = j + 1
      <4> HIDE DEF a, b, n
      <4>1. Len(a) = i - 1 /\ Len(b) = n - i /\ n \in Nat /\ i \in 1 .. n
        BY <1>1, <1>2, <1>3
      <4> QED  BY <2>2, <4>1
    <3>2. b[j - Len(a)] = s[i + (j - Len(a))]
      BY <3>1, <1>3
    <3> QED  BY <1>5, <2>2, <3>1, <3>2
  <2> QED  BY <2>1, <2>2
<1>7. Len(a \o b) = n - 1
  BY <1>1, <1>2, <1>3, <1>5
<1> HIDE DEF n, a, b
<1>8. RemoveAt(s, i) \in Seq(S) /\ Len(RemoveAt(s, i)) = n - 1
  BY <1>4, <1>5, <1>7
<1>9. \A j \in 1 .. n - 1 : RemoveAt(s, i)[j] = s[IF j < i THEN j ELSE j + 1]
  BY <1>4, <1>6
<1> QED  BY <1>8, <1>9 DEF n

(* What a language holds is a function from some ids. *)
LEMMA TextsAre ==
  ASSUME NEW f
  PROVE  f \in Texts <=> /\ DOMAIN f \subseteq Text /\ f = [t \in DOMAIN f |-> f[t]]
                         /\ \A t \in DOMAIN f : f[t] \in Value
<1>1. ASSUME f \in Texts
      PROVE  /\ DOMAIN f \subseteq Text /\ f = [t \in DOMAIN f |-> f[t]]
             /\ \A t \in DOMAIN f : f[t] \in Value
  <2>1. PICK T \in SUBSET Text : f \in [T -> Value]
    BY <1>1 DEF Texts
  <2> QED  BY <2>1
<1>2. ASSUME DOMAIN f \subseteq Text, f = [t \in DOMAIN f |-> f[t]],
             \A t \in DOMAIN f : f[t] \in Value
      PROVE  f \in Texts
  <2>1. f \in [DOMAIN f -> Value] /\ DOMAIN f \in SUBSET Text
    BY <1>2
  <2> QED  BY <2>1 DEF Texts
<1> QED  BY <1>1, <1>2

LEMMA TextsOp ==
  ASSUME NEW f \in Texts, NEW t \in Text
  PROVE  /\ \A v \in Value : Put(f, t, v) \in Texts
         /\ Without(f, {t}) \in Texts
         /\ \A u \in Text : Renamed(f, t, u) \in Texts
         /\ << >> \in Texts
<1>1. DOMAIN f \subseteq Text /\ \A x \in DOMAIN f : f[x] \in Value
  BY TextsAre
<1>2. ASSUME NEW g \in Texts, NEW u \in Text, NEW v \in Value
      PROVE  Put(g, u, v) \in Texts
  <2>1. DOMAIN g \subseteq Text /\ \A x \in DOMAIN g : g[x] \in Value
    BY TextsAre
  <2> DEFINE h == Put(g, u, v)
  <2>2. h = [x \in DOMAIN g \cup {u} |-> IF x = u THEN v ELSE g[x]]
    BY DEF Put
  <2> HIDE DEF h
  <2>3. DOMAIN h \subseteq Text /\ h = [x \in DOMAIN h |-> h[x]]
        /\ \A x \in DOMAIN h : h[x] \in Value
    BY <2>1, <2>2
  <2>4. h \in Texts
    BY <2>3, TextsAre
  <2> QED  BY <2>4 DEF h
<1>3. ASSUME NEW g \in Texts PROVE Without(g, {t}) \in Texts
  <2>1. DOMAIN g \subseteq Text /\ \A x \in DOMAIN g : g[x] \in Value
    BY TextsAre
  <2> DEFINE h == Without(g, {t})
  <2>2. h = [x \in DOMAIN g \ {t} |-> g[x]]
    BY DEF Without
  <2> HIDE DEF h
  <2>3. DOMAIN h \subseteq Text /\ h = [x \in DOMAIN h |-> h[x]]
        /\ \A x \in DOMAIN h : h[x] \in Value
    BY <2>1, <2>2
  <2>4. h \in Texts
    BY <2>3, TextsAre
  <2> QED  BY <2>4 DEF h
<1>4. ASSUME NEW u \in Text PROVE Renamed(f, t, u) \in Texts
  <2>1. CASE t \in DOMAIN f
    <3>1. Put(f, u, f[t]) \in Texts
      BY <1>1, <1>2, <2>1
    <3> QED  BY <1>3, <2>1, <3>1 DEF Renamed
  <2>2. CASE t \notin DOMAIN f
    BY <2>2 DEF Renamed
  <2> QED  BY <2>1, <2>2
<1>5. << >> \in Texts
  <2>1. << >> \in [{} -> Value] /\ {} \in SUBSET Text
    OBVIOUS
  <2> QED  BY <2>1 DEF Texts
<1> QED  BY <1>2, <1>3, <1>4, <1>5

-----------------------------------------------------------------------------
(* The inductive invariant. *)

FileType == Texts \cup {NoFile}
Entry == [lang : Lang, status : Status]
Run == [pc : {"set", "translate", "store", "finish", "show", "done", "dead"},
        at : Text \cup {-1}, all : BOOLEAN, cur : Nat, cancelled : BOOLEAN]
Busy == {"set", "translate", "store"}
Dialogs == {"none", "profile", "progress", "ended"}

Pointers ==
  /\ configList \in Seq(Node) /\ combo \subseteq Node
  /\ pDefTeNode \in Node \cup {0} /\ pCurTeNode \in Node \cup {0}
  /\ pdefText \in Node \cup {0} /\ pcurText \in Node \cup {0}
  /\ silent \subseteq Node \cup {0}

Flags ==
  /\ reses \subseteq Text /\ bIdChanged \in BOOLEAN /\ dialog \in Dialogs
  /\ modified \in BOOLEAN /\ crashed \in BOOLEAN
  /\ astray \in {"no", "dialog", "yes"}

DiskType == disk \in [config : Seq(Entry), ids : SUBSET Text,
                      files : [Lang -> FileType]]

(* A thread that has work to do has an id to do it on. *)
Threads ==
  /\ thread \in Seq(Run)
  /\ \A i \in DOMAIN thread : thread[i].pc \in Busy => thread[i].at \in Text
  /\ ts \in [target : Lang, result : Value, data : {"none", "refused"} \cup Lang]

Held == \A i \in DOMAIN thread : thread[i].cur \in Node \cup {0}

Types ==
  node \in Seq(NodeType) /\ Pointers /\ Flags /\ DiskType /\ Threads /\ Held

(* A language is in the list once, and in the file once. *)
Both == {"DEF_LANG", "CUR_LANG"}

Once ==
  /\ \A i, j \in DOMAIN configList :
       node[configList[i]].lang = node[configList[j]].lang => i = j
  /\ \A i, j \in DOMAIN disk.config :
       disk.config[i].lang = disk.config[j].lang => i = j
  /\ \A i \in DOMAIN disk.config : disk.config[i].status # Both

(* No language is the default and the current one, so that the bits of a     *)
(* status and the whole of it say the same ...                               *)
OneRole == astray # "yes" => \A n \in Node : node[n].status # Both

(* ... which is why the panel and the editor, who ask in these two ways,     *)
(* agree after a profile dialog: in it they have not changed.                *)
Panel ==
  astray # "yes" => (~ Late => pcurText = pCurTeNode) /\ pdefText = pDefTeNode

(* While no translation came to its end after it was cancelled, the windows  *)
(* wait for the one that runs, so that nobody changes the current language   *)
(* between its read and its store.                                           *)
Over == {"done", "dead"}

Waited ==
  ~ Late => \A i \in DOMAIN thread :
              ~ thread[i].cancelled /\ thread[i].pc \notin Over =>
                /\ i = Len(thread) /\ dialog = "progress"
                /\ thread[i].pc = "show" => thread[i].cur = pCurTeNode

(* The combobox makes nothing current that is not in the list, or that is    *)
(* the default.                                                              *)
InCombo ==
  astray = "no" => /\ combo \subseteq ToSet(configList)
                   /\ \A n \in combo : "DEF_LANG" \notin node[n].status

IdsKept == bIdChanged \/ disk.ids = reses

InDialog == astray = "dialog" => dialog = "profile"

IInv == /\ Types /\ Once /\ OneRole /\ Panel /\ InCombo /\ IdsKept
        /\ InDialog /\ Waited /\ ColumnsAgree /\ LosesNothing

LEMMA NodeIs ==
  ASSUME Types, NEW n \in Node
  PROVE  /\ node[n] \in NodeType /\ node[n].lang \in Lang
         /\ node[n].status \in Status /\ node[n].texts \in Texts
<1>1. node[n] \in NodeType
  BY DEF Types, Node
<1> QED  BY <1>1 DEF NodeType

LEMMA TypesGive == Types => TypeOK
<1> SUFFICES ASSUME Types PROVE TypeOK
  OBVIOUS
<1>1. \A n \in Node : node[n] \in NodeType
  BY DEF Types, Node
<1>2. ToSet(configList) \subseteq Node
  BY DEF Types, Pointers, ToSet
<1> QED  BY <1>1, <1>2 DEF Types, TypeOK, Pointers, Flags, Dialogs

-----------------------------------------------------------------------------
(* Steps that leave the languages and their texts alone. *)

LEMMA OutsideKeeps ==
  ASSUME IInv, ~ crashed, crashed' \in BOOLEAN,
         UNCHANGED <<node, configList, pDefTeNode, pCurTeNode, pdefText, combo,
                     reses, bIdChanged, modified, disk, silent>>,
         pcurText' \in Node \cup {0},
         Late' \/ (~ Late /\ pcurText' \in {pcurText, pCurTeNode}),
         astray' \in {astray, "yes"},
         dialog' \in Dialogs, Threads', Held', Waited', InDialog'
  PROVE  IInv'
<1>1. Types'
  BY DEF IInv, Types, Pointers, Flags, DiskType, Node
<1>2. Once' /\ IdsKept'
  BY DEF IInv, Once, IdsKept
<1>3. OneRole' /\ Panel' /\ InCombo' /\ ColumnsAgree'
  BY DEF IInv, OneRole, Panel, InCombo, ColumnsAgree, Node
<1>4. LosesNothing'
  <2>1. CASE crashed' \/ astray' # "no"
    BY <2>1 DEF LosesNothing, FoundBut
  <2>2. CASE astray' = "no"
    <3>1. astray = "no" /\ UNCHANGED ReadNodes
      BY <2>2 DEF IInv, Types, Flags, ReadNodes, Read
    <3> QED  BY <3>1 DEF IInv, LosesNothing, FoundBut
  <2> QED  BY <2>1, <2>2
<1> QED  BY <1>1, <1>2, <1>3, <1>4 DEF IInv

LEMMA RunIs ==
  ASSUME Threads, NEW i \in DOMAIN thread
  PROVE  /\ thread[i] \in Run /\ Len(thread) \in Nat
         /\ DOMAIN thread = 1 .. Len(thread)
BY DEF Threads

(* The windows are not waiting, or nothing they could change has changed.    *)
LEMMA WaitedKept ==
  ASSUME Waited, thread' = thread,
         dialog # "progress" \/ UNCHANGED <<dialog, pCurTeNode>>
  PROVE  Waited' /\ Late' = Late
BY DEF Waited, Late

TsType == [target : Lang, result : Value, data : {"none", "refused"} \cup Lang]

(* A step of one thread. *)
LEMMA OneThread ==
  ASSUME IInv, NEW i \in DOMAIN thread, NEW run \in Run,
         thread[i].pc \notin Over, thread' = [thread EXCEPT ![i] = run],
         run.pc \in Busy => run.at \in Text, run.cur \in Node \cup {0},
         run.cancelled = thread[i].cancelled,
         run.pc = "show" => run.cur = pCurTeNode,
         Node' = Node, pCurTeNode' = pCurTeNode,
         dialog' = dialog \/ run.pc = "done", ts' \in TsType
  PROVE  Threads' /\ Held' /\ Waited' /\ (Late => Late')
         /\ (run.pc = "done" /\ run.cancelled => Late')
<1>1. /\ thread \in Seq(Run) /\ Len(thread) \in Nat /\ DOMAIN thread = 1 .. Len(thread)
      /\ \A j \in DOMAIN thread : thread[j] \in Run
  BY RunIs DEF IInv, Types, Threads
<1>2. /\ thread' \in Seq(Run) /\ DOMAIN thread' = DOMAIN thread
      /\ Len(thread') = Len(thread) /\ thread'[i] = run
      /\ \A j \in DOMAIN thread : j # i => thread'[j] = thread[j]
  BY <1>1
<1>3. Threads'
  <2>1. ASSUME NEW j \in DOMAIN thread', thread'[j].pc \in Busy
        PROVE  thread'[j].at \in Text
    <3>1. CASE j = i
      BY <1>2, <2>1, <3>1
    <3>2. CASE j # i
      BY <1>2, <2>1, <3>2 DEF IInv, Types, Threads
    <3> QED  BY <3>1, <3>2
  <2> QED  BY <1>2, <2>1 DEF Threads, TsType
<1>4. Held'
  BY <1>2 DEF IInv, Types, Held
<1>5. run.pc = "done" /\ run.cancelled => Late'
  BY <1>2 DEF Late
<1>6. Late => Late'
  <2> SUFFICES ASSUME Late PROVE Late'
    OBVIOUS
  <2>1. PICK j \in DOMAIN thread : thread[j].cancelled /\ thread[j].pc = "done"
    BY DEF Late
  <2>2. j # i
    BY <2>1 DEF Over
  <2> QED  BY <1>2, <2>1, <2>2 DEF Late
<1>7. Waited'
  <2> SUFFICES ASSUME ~ Late', NEW j \in DOMAIN thread', ~ thread'[j].cancelled,
                      thread'[j].pc \notin Over
               PROVE  /\ j = Len(thread') /\ dialog' = "progress"
                      /\ thread'[j].pc = "show" => thread'[j].cur = pCurTeNode'
    BY DEF Waited
  <2>1. \A k \in DOMAIN thread :
          ~ thread[k].cancelled /\ thread[k].pc \notin Over =>
            /\ k = Len(thread) /\ dialog = "progress"
            /\ thread[k].pc = "show" => thread[k].cur = pCurTeNode
    BY <1>6 DEF IInv, Waited
  <2>2. CASE j = i
    BY <1>2, <2>1, <2>2 DEF Over
  <2>3. CASE j # i
    <3>1. ~ thread[j].cancelled /\ thread[j].pc \notin Over
          /\ thread'[j] = thread[j] /\ j \in DOMAIN thread
      BY <1>2, <2>3
    <3>2. dialog' = dialog
      <4>1. run.pc = "done" => thread[i].cancelled
        BY <2>1, <2>3, <3>1
      <4> QED  BY <1>5, <4>1
    <3> QED  BY <1>2, <2>1, <3>1, <3>2
  <2> QED  BY <2>2, <2>3
<1> QED  BY <1>3, <1>4, <1>5, <1>6, <1>7

LEMMA Opened ==
  ASSUME IInv, ~ crashed, OpenProfile \/ ProfileCancel \/ CloseProgress
  PROVE  IInv'
<1>1. Threads' /\ Held' /\ Waited' /\ Late' = Late
  <2>1. thread' = thread /\ ts' = ts /\ node' = node /\ dialog # "progress"
    BY DEF OpenProfile, ProfileCancel, CloseProgress, memory
  <2>2. Waited' /\ Late' = Late
    BY <2>1, WaitedKept DEF IInv
  <2> QED  BY <2>1, <2>2 DEF IInv, Types, Threads, Held, Node
<1>2. InDialog'
  BY DEF IInv, InDialog, OpenProfile, ProfileCancel, CloseProgress
<1> QED
  BY <1>1, <1>2, OutsideKeeps
  DEF OpenProfile, ProfileCancel, CloseProgress, memory, Dialogs, IInv, Types, Flags,
      Pointers

LEMMA Translated ==
  ASSUME IInv, ~ crashed, Translate
  PROVE  IInv'
<1>1. PICK first \in Text \cup {-1}, all \in BOOLEAN : onTrans(first, all)
  <2>1. ASSUME NEW t \in reses, onTrans(t, FALSE)
        PROVE  \E first \in Text \cup {-1}, all \in BOOLEAN : onTrans(first, all)
    BY <2>1 DEF IInv, Types, Flags
  <2>2. ASSUME onTrans(IF reses = {} THEN -1 ELSE Min(reses), TRUE)
        PROVE  \E first \in Text \cup {-1}, all \in BOOLEAN : onTrans(first, all)
    <3>1. reses # {} => Min(reses) \in Text
      BY MinIs, TextAssumption DEF TextAssumption, IInv, Types, Flags
    <3> QED  BY <2>2, <3>1
  <2> QED  BY <2>1, <2>2 DEF Translate
<1> DEFINE run == [pc |-> IF first = -1 THEN "finish" ELSE "set",
                   at |-> first, all |-> all, cur |-> 0, cancelled |-> FALSE]
<1>2. /\ thread' = Append(thread, run) /\ dialog' = "progress"
      /\ UNCHANGED <<memory, ts, modified, disk, crashed, astray, silent>>
  BY <1>1 DEF onTrans
<1>3. run \in Run /\ (run.pc \in Busy => run.at \in Text) /\ run.cur = 0
      /\ run.pc \notin {"show", "done"} /\ ~ run.cancelled
  BY DEF Run, Busy
<1> HIDE DEF run
<1>4. /\ thread \in Seq(Run) /\ Len(thread) \in Nat /\ thread' \in Seq(Run)
      /\ DOMAIN thread = 1 .. Len(thread) /\ Len(thread') = Len(thread) + 1
      /\ DOMAIN thread' = DOMAIN thread \cup {Len(thread) + 1}
      /\ thread'[Len(thread) + 1] = run
      /\ \A j \in DOMAIN thread : thread'[j] = thread[j] /\ j # Len(thread) + 1
  BY <1>2, <1>3 DEF IInv, Types, Threads
<1>5. Threads'
  <2>1. ASSUME NEW j \in DOMAIN thread', thread'[j].pc \in Busy
        PROVE  thread'[j].at \in Text
    <3>1. CASE j \in DOMAIN thread
      BY <1>4, <2>1, <3>1 DEF IInv, Types, Threads
    <3>2. CASE j = Len(thread) + 1
      BY <1>3, <1>4, <2>1, <3>2
    <3> QED  BY <1>4, <3>1, <3>2
  <2> QED  BY <1>2, <1>4, <2>1 DEF Threads, IInv, Types
<1>6. Held'
  <2>1. Node' = Node
    BY <1>2 DEF memory, Node
  <2> QED  BY <1>3, <1>4, <2>1 DEF IInv, Types, Held
<1>7. Late' = Late
  BY ONLY <1>3, <1>4 DEF Late
<1>8. Waited'
  <2>1. dialog = "none"
    BY <1>1 DEF onTrans
  <2> SUFFICES ASSUME ~ Late', NEW j \in DOMAIN thread', ~ thread'[j].cancelled,
                      thread'[j].pc \notin Over
               PROVE  /\ j = Len(thread') /\ dialog' = "progress"
                      /\ thread'[j].pc = "show" => thread'[j].cur = pCurTeNode'
    BY DEF Waited
  <2>2. j \notin DOMAIN thread
    BY <1>4, <1>7, <2>1 DEF IInv, Waited
  <2>3. j = Len(thread) + 1
    BY <1>4, <2>2
  <2> QED  BY <1>2, <1>3, <1>4, <2>3
<1>9. InDialog'
  BY <1>1, <1>2 DEF IInv, InDialog, onTrans
<1> QED
  BY <1>2, <1>5, <1>6, <1>7, <1>8, <1>9, OutsideKeeps
  DEF memory, Dialogs, IInv, Types, Flags, Pointers

LEMMA Cancelled ==
  ASSUME IInv, ~ crashed, CancelProgress
  PROVE  IInv'
<1>1. Threads' /\ Held' /\ Waited' /\ (Late => Late')
  <2>1. thread \in Seq(Run) /\ Len(thread) \in Nat /\ DOMAIN thread = 1 .. Len(thread)
    BY DEF IInv, Types, Threads
  <2>2. thread' = [thread EXCEPT ![Len(thread)].cancelled = TRUE] /\ ts' = ts
    BY DEF CancelProgress
  <2>3. \A j \in DOMAIN thread :
          /\ thread[j] \in Run /\ [thread[j] EXCEPT !.cancelled = TRUE] \in Run
          /\ [thread[j] EXCEPT !.cancelled = TRUE].pc = thread[j].pc
          /\ [thread[j] EXCEPT !.cancelled = TRUE].at = thread[j].at
          /\ [thread[j] EXCEPT !.cancelled = TRUE].cur = thread[j].cur
          /\ [thread[j] EXCEPT !.cancelled = TRUE].cancelled
    <3>1. \A r \in Run : [r EXCEPT !.cancelled = TRUE] \in Run
      BY DEF Run
    <3>2. \A r \in Run : /\ [r EXCEPT !.cancelled = TRUE].pc = r.pc
                        /\ [r EXCEPT !.cancelled = TRUE].at = r.at
                        /\ [r EXCEPT !.cancelled = TRUE].cur = r.cur
                        /\ [r EXCEPT !.cancelled = TRUE].cancelled
      BY DEF Run
    <3>3. \A j \in DOMAIN thread : thread[j] \in Run
      BY <2>1
    <3> QED  BY <3>1, <3>2, <3>3
  <2>4. /\ DOMAIN thread' = DOMAIN thread
        /\ \A j \in DOMAIN thread :
             thread'[j] = IF j = Len(thread)
                          THEN [thread[j] EXCEPT !.cancelled = TRUE] ELSE thread[j]
    BY <2>1, <2>2
  <2>5. thread' \in Seq(Run)
    <3>1. thread' = [j \in 1 .. Len(thread) |-> thread'[j]]
      BY <2>1, <2>2
    <3>2. \A j \in 1 .. Len(thread) : thread'[j] \in Run
      BY <2>1, <2>3, <2>4
    <3> QED  BY <2>1, <3>1, <3>2
  <2>6. ASSUME NEW j \in DOMAIN thread', thread'[j].pc \in Busy
        PROVE  thread'[j].at \in Text
    <3>1. j \in DOMAIN thread /\ thread'[j].pc = thread[j].pc
          /\ thread'[j].at = thread[j].at
      BY <2>3, <2>4
    <3> QED  BY <2>6, <3>1 DEF IInv, Types, Threads
  <2>7. \A j \in DOMAIN thread :
          /\ thread'[j].cur = thread[j].cur /\ thread'[j].pc = thread[j].pc
          /\ thread[j].cancelled => thread'[j].cancelled
          /\ j = Len(thread) => thread'[j].cancelled
          /\ j # Len(thread) => thread'[j] = thread[j]
    BY <2>3, <2>4
  <2>8. Node' = Node
    BY DEF CancelProgress, memory, Node
  <2>9. Held'
    BY <2>4, <2>7, <2>8 DEF IInv, Types, Held
  <2>10. Late => Late'
    BY <2>4, <2>7 DEF Late
  <2>11. Waited'
    <3> SUFFICES ASSUME ~ Late', NEW j \in DOMAIN thread', ~ thread'[j].cancelled,
                        thread'[j].pc \notin Over
                 PROVE  FALSE
      BY DEF Waited
    <3>1. j \in DOMAIN thread /\ j # Len(thread) /\ thread'[j] = thread[j]
      BY <2>4, <2>7
    <3> QED  BY <2>10, <3>1 DEF IInv, Waited
  <2> QED  BY <2>2, <2>5, <2>6, <2>9, <2>10, <2>11 DEF Threads, IInv, Types
<1>2. InDialog'
  BY DEF IInv, InDialog, CancelProgress
<1> QED
  BY <1>1, <1>2, OutsideKeeps
  DEF CancelProgress, memory, Dialogs, IInv, Types, Flags, Pointers

LEMMA Died ==
  ASSUME IInv, ~ crashed, NEW i \in DOMAIN thread, ThreadDies(i)
  PROVE  IInv'
<1> DEFINE run == [thread[i] EXCEPT !.pc = "dead"]
<1>1. thread[i] \in Run /\ thread[i].cur \in Node \cup {0} /\ ts \in TsType
  BY RunIs DEF IInv, Types, Threads, Held, TsType
<1>2. /\ run \in Run /\ run.pc = "dead" /\ run.cur = thread[i].cur
      /\ run.cancelled = thread[i].cancelled
  BY <1>1 DEF Run
<1>3. /\ thread[i].pc \notin Over /\ thread' = [thread EXCEPT ![i] = run]
      /\ UNCHANGED <<memory, dialog, ts, modified, disk, crashed, astray, silent>>
  BY DEF ThreadDies, Over
<1> HIDE DEF run
<1>4. Threads' /\ Held' /\ Waited' /\ (Late => Late')
  BY <1>1, <1>2, <1>3, OneThread DEF memory, Busy, Node
<1>5. InDialog'
  BY <1>3 DEF IInv, InDialog
<1> QED
  BY <1>3, <1>4, <1>5, OutsideKeeps
  DEF memory, Dialogs, IInv, Types, Flags, Pointers

LEMMA Asked ==
  ASSUME IInv, ~ crashed, NEW i \in DOMAIN thread,
         SetLanguages(i) \/ AskService(i) \/ Finish(i)
  PROVE  IInv'
<1>1. /\ crashed' \in BOOLEAN
      /\ UNCHANGED <<node, configList, pDefTeNode, pCurTeNode, pdefText, pcurText,
                     combo, reses, bIdChanged, modified, disk, astray, silent, dialog>>
  BY DEF SetLanguages, AskService, Finish, ToPc, MayCrash, memory, IInv, Types, Flags
<1>2. /\ thread[i] \in Run /\ thread[i].cur \in Node \cup {0} /\ ts \in TsType
      /\ pCurTeNode \in Node \cup {0} /\ Node' = Node
  BY <1>1, RunIs DEF IInv, Types, Threads, Held, TsType, Pointers, Node
<1>3. Threads' /\ Held' /\ Waited' /\ (Late => Late')
  <2>1. CASE SetLanguages(i)
    <3>1. ts' \in TsType
      <4>1. CASE pCurTeNode = 0 \/ thread[i].at \notin DOMAIN node[pDefTeNode].texts
        BY <1>2, <2>1, <4>1 DEF SetLanguages
      <4>2. CASE ~ (pCurTeNode = 0 \/ thread[i].at \notin DOMAIN node[pDefTeNode].texts)
        <5>1. node[pCurTeNode].lang \in Lang
          BY <1>2, <4>2, NodeIs DEF IInv
        <5> QED  BY <1>2, <2>1, <4>2, <5>1 DEF SetLanguages, TsType
      <4> QED  BY <4>1, <4>2
    <3> DEFINE run == [thread[i] EXCEPT !.pc = "translate"]
    <3>2. /\ run \in Run /\ run.pc = "translate" /\ run.cur = thread[i].cur
          /\ run.at = thread[i].at /\ run.cancelled = thread[i].cancelled
      BY <1>2 DEF Run
    <3>3. thread[i].pc = "set" /\ thread' = [thread EXCEPT ![i] = run]
      BY <2>1 DEF SetLanguages, ToPc
    <3> HIDE DEF run
    <3>4. thread[i].at \in Text
      BY <3>3 DEF IInv, Types, Threads, Busy
    <3> QED  BY <1>1, <1>2, <3>1, <3>2, <3>3, <3>4, OneThread DEF Over
  <2>2. CASE AskService(i)
    <3>1. ts' \in TsType
      BY <1>2, <2>2 DEF AskService, Value, TsType
    <3> DEFINE run == [thread[i] EXCEPT !.pc = "store"]
    <3>2. /\ run \in Run /\ run.pc = "store" /\ run.cur = thread[i].cur
          /\ run.at = thread[i].at /\ run.cancelled = thread[i].cancelled
      BY <1>2 DEF Run
    <3>3. thread[i].pc = "translate" /\ thread' = [thread EXCEPT ![i] = run]
      BY <2>2 DEF AskService, ToPc
    <3> HIDE DEF run
    <3>4. thread[i].at \in Text
      BY <3>3 DEF IInv, Types, Threads, Busy
    <3> QED  BY <1>1, <1>2, <3>1, <3>2, <3>3, <3>4, OneThread DEF Over
  <2>3. CASE Finish(i)
    <3> DEFINE run == [thread[i] EXCEPT !.pc = "show", !.cur = pCurTeNode]
    <3>1. Node \cup {0} \subseteq Nat
      BY DEF IInv, Types, Node
    <3>2. /\ run \in Run /\ run.pc = "show" /\ run.cur = pCurTeNode
          /\ run.cancelled = thread[i].cancelled
      BY <1>2, <3>1 DEF Run
    <3>3. thread[i].pc = "finish" /\ thread' = [thread EXCEPT ![i] = run] /\ ts' = ts
      BY <2>3 DEF Finish
    <3> HIDE DEF run
    <3> QED  BY <1>1, <1>2, <3>2, <3>3, OneThread DEF Over, Busy
  <2> QED  BY <2>1, <2>2, <2>3
<1>4. InDialog'
  BY <1>1 DEF IInv, InDialog
<1> QED
  BY <1>1, <1>3, <1>4, OutsideKeeps DEF Dialogs, IInv, Types, Flags, Pointers

(* The store of the pointer that was read before: nobody changed the current *)
(* language, or the thread was cancelled and is late.                        *)
LEMMA Shown ==
  ASSUME IInv, ~ crashed, NEW i \in DOMAIN thread, setSubText(i)
  PROVE  IInv'
<1> DEFINE run == [thread[i] EXCEPT !.pc = "done"]
<1>1. /\ thread[i] \in Run /\ thread[i].cur \in Node \cup {0} /\ ts \in TsType
      /\ dialog \in Dialogs
  BY RunIs DEF IInv, Types, Threads, Held, TsType, Flags
<1>2. /\ run \in Run /\ run.pc = "done" /\ run.cur = thread[i].cur
      /\ run.cancelled = thread[i].cancelled
  BY <1>1 DEF Run
<1>3. /\ thread[i].pc = "show" /\ thread' = [thread EXCEPT ![i] = run]
      /\ pcurText' = thread[i].cur /\ crashed' \in BOOLEAN
      /\ dialog' = IF dialog = "progress" THEN "ended" ELSE dialog
      /\ UNCHANGED <<node, configList, pDefTeNode, pCurTeNode, pdefText, combo,
                     reses, bIdChanged, modified, disk, astray, ts, silent>>
  BY DEF setSubText, ToPc, MayCrash
<1> HIDE DEF run
<1>4. /\ Threads' /\ Held' /\ Waited' /\ (Late => Late')
      /\ thread[i].cancelled => Late'
  BY <1>1, <1>2, <1>3, OneThread DEF Node, Over, Busy
<1>5. Late' \/ (~ Late /\ pcurText' = pCurTeNode)
  <2> SUFFICES ASSUME ~ Late' PROVE ~ Late /\ thread[i].cur = pCurTeNode
    BY <1>3
  <2>1. ~ Late /\ ~ thread[i].cancelled
    BY <1>4
  <2> QED  BY <1>3, <2>1 DEF IInv, Waited, Over
<1>6. InDialog' /\ dialog' \in Dialogs
  BY <1>1, <1>3 DEF IInv, InDialog, Dialogs
<1> QED
  BY <1>1, <1>3, <1>4, <1>5, <1>6, OutsideKeeps

-----------------------------------------------------------------------------
(* Steps that change texts. *)

(* The languages are what they were, with other texts. *)
TextsChanged ==
  /\ node' \in Seq(NodeType) /\ DOMAIN node' = Node
  /\ \A n \in Node : /\ node'[n].lang = node[n].lang
                     /\ node'[n].status = node[n].status

LEMMA Mapped ==
  ASSUME Types, NEW f, f = [m \in Node |-> f[m]],
         \A m \in Node : f[m] \in NodeType
  PROVE  f \in Seq(NodeType) /\ DOMAIN f = Node
<1>1. Node = 1 .. Len(node) /\ Len(node) \in Nat
  BY DEF Types, Node
<1> QED  BY <1>1

WithTexts(r, f) == [r EXCEPT !.texts = f]

LEMMA TextOf ==
  ASSUME NEW r \in NodeType, NEW f \in Texts
  PROVE  /\ WithTexts(r, f) \in NodeType /\ WithTexts(r, f).lang = r.lang
         /\ WithTexts(r, f).status = r.status /\ WithTexts(r, f).texts = f
BY DEF NodeType, WithTexts

LEMMA SetTextIs ==
  ASSUME Types, NEW n \in Node, NEW t \in Text, NEW v \in Value,
         node' = setText(n, t, v)
  PROVE  TextsChanged /\ \A m \in Node \ {n} : node'[m] = node[m]
<1> DEFINE r == WithTexts(node[n], Put(node[n].texts, t, v))
<1>1. r \in NodeType /\ r.lang = node[n].lang /\ r.status = node[n].status
  BY NodeIs, TextsOp, TextOf
<1>2. node' = [node EXCEPT ![n] = r]
  BY DEF setText, WithTexts
<1> HIDE DEF r
<1>3. node \in Seq(NodeType)
  BY DEF Types
<1>4. node' \in Seq(NodeType) /\ DOMAIN node' = Node
  BY <1>1, <1>2, <1>3 DEF Node
<1>5. \A m \in Node : node'[m] = IF m = n THEN r ELSE node[m]
  BY <1>2, <1>3 DEF Node
<1> QED  BY <1>1, <1>4, <1>5 DEF TextsChanged

(* Whatever is done to each language of the list. *)
LEMMA InListIs ==
  ASSUME Types, NEW f, \A n \in Node : f[n] \in Texts, NEW S,
         node' = [n \in DOMAIN node |->
                    IF n \in S THEN [node[n] EXCEPT !.texts = f[n]] ELSE node[n]]
  PROVE  TextsChanged
<1>1. \A n \in Node :
        /\ node'[n] = IF n \in S THEN [node[n] EXCEPT !.texts = f[n]] ELSE node[n]
        /\ node[n] \in NodeType
  BY NodeIs DEF Node
<1>2. \A n \in Node : /\ node'[n] \in NodeType /\ node'[n].lang = node[n].lang
                      /\ node'[n].status = node[n].status
  <2> TAKE n \in Node
  <2>1. CASE n \in S
    <3>1. node[n] \in NodeType /\ f[n] \in Texts
          /\ node'[n] = WithTexts(node[n], f[n])
      BY <1>1, <2>1 DEF WithTexts
    <3> QED  BY <3>1, TextOf
  <2>2. CASE n \notin S
    BY <1>1, <2>2
  <2> QED  BY <2>1, <2>2
<1>3. node' = [n \in Node |-> node'[n]]
  BY DEF Node
<1> QED  BY <1>2, <1>3, Mapped DEF TextsChanged

(* A change of the texts that raises the mark. *)
LEMMA EditKeeps ==
  ASSUME IInv, ~ crashed, TextsChanged, Edits, modified' = TRUE,
         reses' \subseteq Text,
         \/ bIdChanged' = TRUE
         \/ UNCHANGED <<reses, bIdChanged>>
  PROVE  IInv'
<1>6. Waited' /\ Late' = Late
  BY WaitedKept DEF IInv, Edits, loops
<1>1. Types'
  <2>2. Node' = Node
    BY DEF TextsChanged, Node
  <2>1. Threads' /\ Held'
    BY <2>2 DEF IInv, Types, Threads, Held, Edits, loops
  <2> QED
    BY <2>1, <2>2
    DEF IInv, Types, Pointers, Flags, DiskType, Edits, TextsChanged, loops
<1>2. Once'
  <2>1. \A i \in DOMAIN configList : configList[i] \in Node
    BY DEF IInv, Types, Pointers
  <2> QED  BY <2>1 DEF IInv, Once, Edits, TextsChanged
<1>3. OneRole' /\ Panel' /\ IdsKept' /\ ColumnsAgree' /\ LosesNothing'
  BY <1>6 DEF IInv, OneRole, Panel, IdsKept, ColumnsAgree, LosesNothing, FoundBut,
         Edits, TextsChanged, Node
<1>5. InDialog'
  BY DEF IInv, InDialog, Edits, loops
<1>4. InCombo'
  <2>1. combo \subseteq Node
    BY DEF IInv, Types, Pointers
  <2> QED  BY <2>1 DEF IInv, InCombo, Edits, TextsChanged
<1> QED  BY <1>1, <1>2, <1>3, <1>4, <1>5, <1>6 DEF IInv

LEMMA Edited ==
  ASSUME IInv, ~ crashed, EditTexts
  PROVE  IInv'
<1> USE DEF Edits
<1>1. Types /\ reses \subseteq Text /\ Node = DOMAIN node
      /\ {""} \cup Typed \subseteq Value
      /\ {pdefText, pcurText, pDefTeNode, pCurTeNode} \subseteq Node \cup {0}
  BY DEF IInv, Types, Flags, Pointers, Node, Value
<1>2. PICK t \in Text :
        \/ \E v \in {""} \cup Typed :
             \/ updateValue(pdefText, t, v) \/ updateValue(pcurText, t, v)
             \/ setRes(t, v) \/ createRes(t, v)
        \/ removeRes(t)
        \/ \E u \in Text : setResId(t, u)
  BY DEF EditTexts
<1>3. ASSUME NEW v \in {""} \cup Typed, NEW column \in {pdefText, pcurText},
             updateValue(column, t, v)
      PROVE  IInv'
  <2>1. column \in Node /\ v \in Value /\ node' = setText(column, t, v)
    <3>1. column # 0 /\ node' = setText(column, t, v)
      BY <1>3 DEF updateValue
    <3>2. column \in Node \cup {0} /\ v \in Value
      BY <1>1
    <3> QED  BY <3>1, <3>2
  <2>2. TextsChanged
    BY <1>1, <2>1, SetTextIs
  <2> QED  BY <1>1, <1>3, <2>2, EditKeeps DEF updateValue
<1>4. ASSUME NEW v \in {""} \cup Typed, setRes(t, v)
      PROVE  IInv'
  <2>1. TextsChanged
    BY <1>1, <1>4, SetTextIs DEF setRes, Target
  <2> QED  BY <1>1, <1>4, <2>1, EditKeeps DEF setRes
<1>5. ASSUME NEW v \in {""} \cup Typed, createRes(t, v)
      PROVE  IInv'
  <2> DEFINE empty == InList(LAMBDA texts : Put(texts, t, ""))
  <2>1. \A n \in Node : Put(node[n].texts, t, "") \in Texts
    BY <1>1, NodeIs, TextsOp
  <2>2. /\ empty = [n \in Node |-> empty[n]]
        /\ \A n \in Node : empty[n] = IF n \in ToSet(configList)
                           THEN [node[n] EXCEPT !.texts = Put(node[n].texts, t, "")]
                           ELSE node[n]
    BY <1>1 DEF InList
  <2> HIDE DEF empty
  <2>3. \A n \in Node : empty[n] \in NodeType /\ empty[n].texts \in Texts
                        /\ empty[n].lang = node[n].lang
                        /\ empty[n].status = node[n].status
    <3> TAKE n \in Node
    <3>1. node[n] \in NodeType /\ Put(node[n].texts, t, "") \in Texts
      BY <1>1, <2>1, NodeIs
    <3>2. CASE n \in ToSet(configList)
      <4>1. empty[n] = WithTexts(node[n], Put(node[n].texts, t, ""))
        BY <2>2, <3>2 DEF WithTexts
      <4> DEFINE g == Put(node[n].texts, t, "")
                 w == WithTexts(node[n], g)
      <4>2. g \in Texts /\ empty[n] = w
        BY <3>1, <4>1
      <4>3. w \in NodeType /\ w.texts = g /\ w.lang = node[n].lang
            /\ w.status = node[n].status
        BY <3>1, TextOf
      <4> HIDE DEF g, w
      <4> QED  BY <4>2, <4>3
    <3>3. CASE n \notin ToSet(configList)
      BY <1>1, <2>2, <3>1, <3>3, NodeIs
    <3> QED  BY <3>2, <3>3
  <2>4. CASE v = "" \/ Target = 0
    <3>1. node' = empty
      BY <1>5, <2>4 DEF createRes, empty
    <3>2. TextsChanged
      BY <1>1, <2>2, <2>3, <3>1, Mapped DEF TextsChanged
    <3> QED  BY <1>1, <1>5, <3>2, EditKeeps DEF createRes
  <2>5. CASE ~ (v = "" \/ Target = 0)
    <3>1. Target \in Node
      BY <1>1, <2>5 DEF Target
    <3> DEFINE r == WithTexts(empty[Target], Put(empty[Target].texts, t, v))
    <3>2. r \in NodeType /\ r.lang = node[Target].lang /\ r.status = node[Target].status
      <4>1. /\ empty[Target] \in NodeType /\ empty[Target].texts \in Texts
            /\ empty[Target].lang = node[Target].lang
            /\ empty[Target].status = node[Target].status
        BY <2>3, <3>1
      <4>2. Put(empty[Target].texts, t, v) \in Texts
        BY <1>1, <4>1, TextsOp
      <4> QED  BY <4>1, <4>2, TextOf
    <3>3. node' = [empty EXCEPT ![Target] = r]
      BY <1>5, <2>5 DEF createRes, empty, WithTexts
    <3> HIDE DEF r
    <3>4. /\ node' = [n \in Node |-> node'[n]]
          /\ \A n \in Node : node'[n] = IF n = Target THEN r ELSE empty[n]
      BY <2>2, <3>3
    <3>5. TextsChanged
      BY <1>1, <2>3, <3>2, <3>4, Mapped DEF TextsChanged
    <3> QED  BY <1>1, <1>5, <3>5, EditKeeps DEF createRes
  <2> QED  BY <2>4, <2>5
<1>6. ASSUME removeRes(t)
      PROVE  IInv'
  <2> DEFINE f == [n \in Node |-> Without(node[n].texts, {t})]
  <2>1. \A n \in Node : f[n] \in Texts
    BY <1>1, NodeIs, TextsOp
  <2>2. node' = [n \in DOMAIN node |-> IF n \in ToSet(configList)
                   THEN [node[n] EXCEPT !.texts = f[n]] ELSE node[n]]
    BY <1>1, <1>6 DEF removeRes, InList
  <2> HIDE DEF f
  <2>3. TextsChanged
    BY <1>1, <2>1, <2>2, InListIs
  <2> QED  BY <1>1, <1>6, <2>3, EditKeeps DEF removeRes
<1>7. ASSUME NEW u \in Text, setResId(t, u)
      PROVE  IInv'
  <2> DEFINE f == [n \in Node |-> Renamed(node[n].texts, t, u)]
  <2>1. \A n \in Node : f[n] \in Texts
    BY <1>1, NodeIs, TextsOp
  <2>2. node' = [n \in DOMAIN node |-> IF n \in ToSet(configList)
                   THEN [node[n] EXCEPT !.texts = f[n]] ELSE node[n]]
    BY <1>1, <1>7 DEF setResId, InList
  <2> HIDE DEF f
  <2>3. TextsChanged
    BY <1>1, <2>1, <2>2, InListIs
  <2> QED  BY <1>1, <1>7, <2>3, EditKeeps DEF setResId
<1> QED  BY <1>2, <1>3, <1>4, <1>5, <1>6, <1>7

(* What a step that leaves the disk, the ids and the list alone has to keep  *)
(* of each language for a start to find what is there.                       *)
LEMMA QuietKeeps ==
  ASSUME IInv, ~ crashed, silent \subseteq silent', Node' = Node,
         UNCHANGED <<configList, reses, modified, disk, astray>>,
         \A n \in Node :
           /\ node'[n].lang = node[n].lang
           /\ 0 \notin silent' => node'[n].status = node[n].status
           /\ n \notin silent' => node'[n].texts = node[n].texts
  PROVE  LosesNothing'
<1> SUFFICES ASSUME ~ modified, astray = "no", configList # << >>, ~ crashed'
             PROVE  LosesNothing'
  BY DEF LosesNothing, FoundBut
<1>1. UNCHANGED ReadNodes
  BY DEF ReadNodes, Read
<1>2. \A i \in DOMAIN configList : configList[i] \in Node
  BY DEF IInv, Types, Pointers
<1> QED  BY <1>1, <1>2 DEF IInv, LosesNothing, FoundBut

LEMMA Stored ==
  ASSUME IInv, ~ crashed, NEW i \in DOMAIN thread, StoreText(i)
  PROVE  IInv'
<1> DEFINE last == ~ thread[i].all \/ After(thread[i].at) = {}
<1>1. /\ Types /\ thread[i] \in Run /\ thread[i].at \in Text
      /\ thread \in Seq(Run) /\ ts.result \in Value /\ reses \subseteq Text
  BY RunIs DEF IInv, Types, Threads, StoreText, Busy, Flags
<1>2. Threads' /\ Held' /\ Waited' /\ (Late => Late')
  <2>1. ~ last => Min(After(thread[i].at)) \in Text
    <3>1. After(thread[i].at) \subseteq Text /\ Text \subseteq Nat
      BY <1>1, TextAssumption DEF After, TextAssumption
    <3> QED  BY <3>1, MinIs
  <2> DEFINE run == [thread[i] EXCEPT !.pc = IF last THEN "finish" ELSE "set",
                                      !.at = IF last THEN @ ELSE Min(After(@))]
  <2>2. /\ run \in Run /\ (run.pc \in Busy => run.at \in Text)
        /\ run.pc \in {"finish", "set"} /\ run.cur = thread[i].cur
        /\ run.cancelled = thread[i].cancelled
    BY <1>1, <2>1 DEF Run, Busy
  <2>3. /\ thread' = [thread EXCEPT ![i] = run] /\ thread[i].pc = "store"
        /\ UNCHANGED <<ts, dialog, pCurTeNode>>
    BY DEF StoreText
  <2> HIDE DEF run
  <2>4. ts \in TsType /\ thread[i].cur \in Node \cup {0}
    BY <1>1 DEF Types, Threads, TsType, Held
  <2>5. Node' = Node
    BY DEF StoreText, setText, Node
  <2> QED  BY <2>2, <2>3, <2>4, <2>5, OneThread DEF Over
<1>3. CASE pCurTeNode = 0
  <2>1. InDialog'
    BY DEF IInv, InDialog, StoreText
  <2> QED
    BY <1>2, <1>3, <2>1, OutsideKeeps DEF StoreText, IInv, Types, Flags, Pointers
<1>4. CASE pCurTeNode # 0
  <2>1. pCurTeNode \in Node
    BY <1>4 DEF IInv, Types, Pointers
  <2>2. TextsChanged /\ \A m \in Node \ {pCurTeNode} : node'[m] = node[m]
    BY <1>1, <1>4, <2>1, SetTextIs DEF StoreText
  <2>3. Node' = Node /\ silent' = silent \cup {pCurTeNode} /\ crashed' \in BOOLEAN
        /\ UNCHANGED <<configList, pDefTeNode, pCurTeNode, pdefText, pcurText, combo,
                       reses, bIdChanged, dialog, ts, modified, disk, astray>>
    BY <1>4, <2>2 DEF StoreText, MayCrash, TextsChanged, Node
  <2>4. Types'
    BY <1>1, <1>2, <2>1, <2>2, <2>3
    DEF Types, Pointers, Flags, DiskType, TextsChanged
  <2>5. Once'
    <3>1. \A k \in DOMAIN configList : configList[k] \in Node
      BY <1>1 DEF Types, Pointers
    <3> QED  BY <2>2, <2>3, <3>1 DEF IInv, Once, TextsChanged
  <2>6. OneRole' /\ Panel' /\ IdsKept' /\ ColumnsAgree' /\ InDialog'
    BY <1>2, <2>2, <2>3
    DEF IInv, OneRole, Panel, IdsKept, ColumnsAgree, TextsChanged, InDialog
  <2>7. InCombo'
    <3>1. combo \subseteq Node
      BY <1>1 DEF Types, Pointers
    <3> QED  BY <2>2, <2>3, <3>1 DEF IInv, InCombo, TextsChanged
  <2>8. LosesNothing'
    BY <2>2, <2>3, QuietKeeps DEF TextsChanged
  <2> QED  BY <1>2, <2>4, <2>5, <2>6, <2>7, <2>8 DEF IInv
<1> QED  BY <1>3, <1>4

-----------------------------------------------------------------------------
(* Steps that change who is the default and the current language.            *)

WithStatus(r, st) == [r EXCEPT !.status = st]

LEMMA StatusOf ==
  ASSUME NEW r \in NodeType, NEW st \in Status
  PROVE  /\ WithStatus(r, st) \in NodeType /\ WithStatus(r, st).lang = r.lang
         /\ WithStatus(r, st).status = st /\ WithStatus(r, st).texts = r.texts
BY DEF NodeType, WithStatus

(* A function that gives each language its new status. *)
LEMMA StatusesIs ==
  ASSUME Types, NEW st, \A n \in Node : st[n] \in Status,
         node' = [n \in Node |-> WithStatus(node[n], st[n])]
  PROVE  /\ node' \in Seq(NodeType) /\ Node' = Node
         /\ \A n \in Node : /\ node'[n].lang = node[n].lang
                            /\ node'[n].status = st[n]
                            /\ node'[n].texts = node[n].texts
<1>1. ASSUME NEW n \in Node
      PROVE  /\ node'[n] \in NodeType /\ node'[n].lang = node[n].lang
             /\ node'[n].status = st[n] /\ node'[n].texts = node[n].texts
  <2>1. node[n] \in NodeType /\ st[n] \in Status
    BY NodeIs
  <2>2. node'[n] = WithStatus(node[n], st[n])
    OBVIOUS
  <2> QED  BY <2>1, <2>2, StatusOf
<1>2. node' = [n \in Node |-> node'[n]]
  OBVIOUS
<1>3. node' \in Seq(NodeType) /\ DOMAIN node' = Node
  BY <1>1, <1>2, Mapped
<1> QED  BY <1>1, <1>3 DEF Node

LEMMA Selected ==
  ASSUME IInv, ~ crashed, NEW n \in combo, SelectCurrent(n)
  PROVE  IInv'
<1> DEFINE st == [m \in Node |-> IF m = n THEN node[m].status \cup {"CUR_LANG"}
                                ELSE IF m = pCurTeNode THEN {} ELSE node[m].status]
<1>1. Types /\ n \in Node /\ dialog = "none" /\ combo \subseteq Node
  BY DEF IInv, Types, Pointers, SelectCurrent
<1>2. \A m \in Node : st[m] \in Status
  BY <1>1, NodeIs DEF Status
<1>3. node' = [m \in Node |-> WithStatus(node[m], st[m])]
  <2>1. \A m \in Node : WithStatus(node[m], node[m].status) = node[m]
    <3>1. \A r \in NodeType : WithStatus(r, r.status) = r
      BY DEF NodeType, WithStatus
    <3> QED  BY <1>1, <3>1, NodeIs
  <2>2. node' = [m \in Node |->
                   IF m = n THEN WithStatus(node[m], node[m].status \cup {"CUR_LANG"})
                   ELSE IF m = pCurTeNode THEN WithStatus(node[m], {})
                   ELSE node[m]]
    BY DEF SelectCurrent, WithStatus, Node
  <2> QED  BY <2>1, <2>2
<1> HIDE DEF st
<1>4. /\ node' \in Seq(NodeType) /\ Node' = Node
      /\ \A m \in Node : /\ node'[m].lang = node[m].lang
                         /\ node'[m].status = st[m]
                         /\ node'[m].texts = node[m].texts
  BY <1>1, <1>2, <1>3, StatusesIs
<1>5. /\ pCurTeNode' = n /\ pcurText' = n /\ silent' = silent \cup {0}
      /\ UNCHANGED <<configList, pDefTeNode, pdefText, combo, reses, bIdChanged,
                     dialog, thread, ts, modified, disk, crashed, astray>>
  BY DEF SelectCurrent, loops
<1>6. Types'
  BY <1>1, <1>4, <1>5 DEF Types, Pointers, Flags, DiskType, Threads, Held
<1>12. Waited'
  BY <1>1, <1>5, WaitedKept DEF IInv
<1>7. Once'
  <2>1. \A i \in DOMAIN configList : configList[i] \in Node
    BY <1>1 DEF Types, Pointers
  <2> QED  BY <1>4, <1>5, <2>1 DEF IInv, Once
<1>8. astray # "yes" => astray = "no"
  BY <1>1 DEF IInv, InDialog, Types, Flags
<1>9. OneRole' /\ InCombo'
  <2> SUFFICES ASSUME astray = "no" PROVE OneRole' /\ InCombo'
    BY <1>5, <1>8 DEF OneRole, InCombo
  <2>1. \A m \in Node : st[m] # Both
    BY <1>1 DEF IInv, OneRole, InCombo, Both, st
  <2>2. \A m \in combo : "DEF_LANG" \notin st[m]
    BY <1>1 DEF IInv, InCombo, st
  <2> QED  BY <1>1, <1>4, <1>5, <2>1, <2>2 DEF OneRole, InCombo, IInv
<1>10. Panel' /\ IdsKept' /\ InDialog' /\ ColumnsAgree'
  BY <1>5, <1>8 DEF IInv, Panel, IdsKept, InDialog, ColumnsAgree, InCombo
<1>11. LosesNothing'
  BY <1>4, <1>5, QuietKeeps
<1> QED  BY <1>6, <1>7, <1>9, <1>10, <1>11, <1>12 DEF IInv

-----------------------------------------------------------------------------
(* The profile dialog. *)

LEMMA ProfileKeeps ==
  ASSUME IInv, ~ crashed, dialog = "profile", ProfileStep,
         node' \in Seq(NodeType), Node \subseteq Node', configList' \in Seq(Node'),
         \A i, j \in DOMAIN configList' :
           node'[configList'[i]].lang = node'[configList'[j]].lang => i = j,
         astray # "yes" => \A n \in Node' : node'[n].status # Both
  PROVE  IInv'
<1>1. /\ astray' \in {"dialog", "yes"} /\ (astray' # "yes" => astray # "yes")
      /\ UNCHANGED <<pDefTeNode, pCurTeNode, pdefText, pcurText, combo, reses,
                     bIdChanged, dialog, thread, ts, modified, disk, crashed, silent>>
  BY DEF ProfileStep, loops, IInv, Types, Flags
<1>2. Types'
  BY <1>1 DEF IInv, Types, Pointers, Flags, DiskType, Threads, Held
<1>3. Once'
  BY <1>1 DEF IInv, Once
<1>6. Waited' /\ Late' = Late
  BY <1>1, WaitedKept DEF IInv
<1>4. OneRole' /\ Panel' /\ InCombo' /\ IdsKept' /\ InDialog'
  BY <1>1, <1>6 DEF IInv, OneRole, Panel, InCombo, IdsKept, InDialog
<1>5. ColumnsAgree' /\ LosesNothing'
  BY <1>1 DEF ColumnsAgree, LosesNothing, FoundBut
<1> QED  BY <1>2, <1>3, <1>4, <1>5, <1>6 DEF IInv

LEMMA Appended ==
  ASSUME IInv, ~ crashed, NEW l \in Lang, appendText(l)
  PROVE  IInv'
<1>1. PICK st \in {{}, {"CUR_LANG"}} :
        node' = Append(node, [lang |-> l, status |-> st, texts |-> << >>])
  BY DEF appendText
<1> DEFINE new == [lang |-> l, status |-> st, texts |-> << >>]
           k == Len(node) + 1
<1>2. new \in NodeType /\ new.lang = l /\ new.status = st
  <2>1. << >> \in Texts
    <3>1. << >> \in [{} -> Value] /\ {} \in SUBSET Text
      OBVIOUS
    <3> QED  BY <3>1 DEF Texts
  <2> QED  BY <2>1 DEF NodeType, Status
<1> HIDE DEF new
<1>3. /\ node \in Seq(NodeType) /\ Len(node) \in Nat /\ Node = 1 .. Len(node)
      /\ configList \in Seq(Node) /\ node' = Append(node, new)
  BY <1>1 DEF IInv, Types, Pointers, Node, new
<1>4. /\ node' \in Seq(NodeType) /\ Len(node') = k /\ Node' = Node \cup {k}
      /\ k \notin Node /\ node'[k] = new /\ \A n \in Node : node'[n] = node[n]
  BY <1>2, <1>3 DEF Node
<1>5. /\ configList' = Append(configList, k) /\ ProfileStep /\ dialog = "profile"
      /\ \A n \in ToSet(configList) : node[n].lang # l
  BY <1>4 DEF appendText
<1>6. configList' \in Seq(Node')
  <2>1. configList \in Seq(Node') /\ k \in Node'
    BY <1>3, <1>4
  <2> QED  BY ONLY <2>1, <1>5
<1>7. ASSUME NEW i \in DOMAIN configList', NEW j \in DOMAIN configList',
             node'[configList'[i]].lang = node'[configList'[j]].lang
      PROVE  i = j
  <2>1. \A m \in DOMAIN configList :
          /\ configList'[m] = configList[m] /\ configList[m] \in Node
          /\ node'[configList'[m]].lang = node[configList[m]].lang
          /\ node[configList[m]].lang # l
    BY <1>3, <1>4, <1>5 DEF ToSet
  <2>2. \A m \in DOMAIN configList' :
          m \in DOMAIN configList
          \/ (m = Len(configList) + 1 /\ configList'[m] = k)
    BY <1>3, <1>5
  <2>3. node'[k].lang = l
    BY <1>2, <1>4
  <2> QED  BY <1>7, <2>1, <2>2, <2>3 DEF IInv, Once
<1>8. astray # "yes" => \A n \in Node' : node'[n].status # Both
  <2>1. astray # "yes" => \A n \in Node : node[n].status # Both
    BY DEF IInv, OneRole
  <2>2. node'[k].status # Both
    BY <1>2, <1>4 DEF Both
  <2> QED  BY ONLY <1>4, <2>1, <2>2
<1> QED  BY <1>4, <1>5, <1>6, <1>7, <1>8, ProfileKeeps

LEMMA Deleted ==
  ASSUME IInv, ~ crashed, NEW n \in Node, onDel(n)
  PROVE  IInv'
<1>1. PICK i \in DOMAIN configList : configList' = RemoveAt(configList, i)
  BY DEF onDel
<1>2. configList \in Seq(Node) /\ Len(configList) \in Nat
      /\ DOMAIN configList = 1 .. Len(configList) /\ node \in Seq(NodeType)
  BY DEF IInv, Types, Pointers
<1>3. /\ configList' \in Seq(Node) /\ Len(configList') = Len(configList) - 1
      /\ \A j \in 1 .. Len(configList) - 1 :
           configList'[j] = configList[IF j < i THEN j ELSE j + 1]
  BY <1>1, <1>2, RemoveAtIs
<1>4. node' = node /\ Node' = Node /\ ProfileStep /\ dialog = "profile"
  BY DEF onDel, Node
<1>5. ASSUME NEW a \in DOMAIN configList', NEW b \in DOMAIN configList',
             node'[configList'[a]].lang = node'[configList'[b]].lang
      PROVE  a = b
  <2> DEFINE old(x) == IF x < i THEN x ELSE x + 1
  <2>1. a \in 1 .. Len(configList) - 1 /\ b \in 1 .. Len(configList) - 1
    BY <1>2, <1>3
  <2>2. old(a) \in DOMAIN configList /\ old(b) \in DOMAIN configList
    BY <1>2, <2>1
  <2>3. node[configList[old(a)]].lang = node[configList[old(b)]].lang
    BY <1>3, <1>4, <1>5, <2>1
  <2>4. old(a) = old(b)
    BY <2>2, <2>3 DEF IInv, Once
  <2> QED  BY <1>2, <2>1, <2>4
<1>6. astray # "yes" => \A m \in Node' : node'[m].status # Both
  BY <1>4 DEF IInv, OneRole
<1> QED  BY <1>2, <1>3, <1>4, <1>5, <1>6, ProfileKeeps

LEMMA Given ==
  ASSUME IInv, ~ crashed, NEW n \in Node, onSetDef(n) \/ onSetCur(n)
  PROVE  IInv'
<1>1. PICK role \in Both, other \in Both : Give(n, role, other)
  BY DEF onSetDef, onSetCur, Both
<1> DEFINE st == [m \in Node |->
                   IF m = n THEN {role}
                   ELSE IF m \notin ToSet(configList) THEN node[m].status
                   ELSE IF other \in node[n].status /\ m = Heir(n, role)
                   THEN {other}
                   ELSE node[m].status \ {role}]
<1>2. Types /\ configList \in Seq(Node) /\ dialog = "profile"
  BY <1>1 DEF IInv, Types, Pointers, Give
<1>3. \A m \in Node : st[m] \in Status
  <2>1. \A m \in Node : node[m].status \in Status
    BY <1>2, NodeIs
  <2> QED  BY <2>1 DEF Status, Both
<1>4. node' = [m \in Node |-> WithStatus(node[m], st[m])]
  BY <1>1 DEF Give, WithStatus, Node
<1>5. astray # "yes" => \A m \in Node : st[m] # Both
  BY DEF IInv, OneRole, Both
<1> HIDE DEF st
<1>6. /\ node' \in Seq(NodeType) /\ Node' = Node
      /\ \A m \in Node : /\ node'[m].lang = node[m].lang
                         /\ node'[m].status = st[m]
  BY <1>2, <1>3, <1>4, StatusesIs
<1>7. configList' = configList /\ ProfileStep
  BY <1>1 DEF Give
<1>8. \A i, j \in DOMAIN configList' :
        node'[configList'[i]].lang = node'[configList'[j]].lang => i = j
  <2>1. \A i \in DOMAIN configList : configList[i] \in Node
    BY <1>2
  <2> QED  BY <1>6, <1>7, <2>1 DEF IInv, Once
<1> QED  BY <1>2, <1>5, <1>6, <1>7, <1>8, ProfileKeeps

(* The last of a list that passes a test is in the list, or NULL. *)
LEMMA LastIs ==
  ASSUME NEW S, NEW list \in Seq(S), NEW found \in SUBSET DOMAIN list
  PROVE  /\ (IF found = {} THEN 0 ELSE list[Max(found)]) \in ToSet(list) \cup {0}
         /\ (IF found = {} THEN 0 ELSE list[Max(found)]) \in S \cup {0}
         /\ found # {} => Max(found) \in found
<1>1. Len(list) \in Nat /\ DOMAIN list = 1 .. Len(list)
      /\ \A i \in DOMAIN list : list[i] \in S
  OBVIOUS
<1>2. found # {} => Max(found) \in found
  BY <1>1, MaxIs
<1> QED  BY <1>1, <1>2 DEF ToSet

(* The files a start or a profile makes. *)
LEMMA MadeIs ==
  ASSUME NEW files \in [Lang -> FileType], NEW list, NEW nodes, NEW ids \in SUBSET Text
  PROVE  Made(files, list, nodes, ids) \in [Lang -> FileType]
<1> DEFINE first == {u \in ids : \A w \in ids : u <= w}
<1>1. [t \in first |-> "ids"] \in FileType
  <2>1. [t \in first |-> "ids"] \in [first -> Value] /\ first \in SUBSET Text
    BY DEF Value
  <2> HIDE DEF first
  <2> QED  BY <2>1 DEF Texts, FileType
<1> QED  BY <1>1 DEF Made

LEMMA Accepted ==
  ASSUME IInv, ~ crashed, ProfileOK
  PROVE  IInv'
<1> DEFINE curs == {i \in DOMAIN configList : node[configList[i]].status = {"CUR_LANG"}}
           defs == {i \in DOMAIN configList : node[configList[i]].status = {"DEF_LANG"}}
           bits == {i \in DOMAIN configList : "DEF_LANG" \in node[configList[i]].status}
           cur == IF curs = {} THEN 0 ELSE configList[Max(curs)]
           def == IF defs = {} THEN 0 ELSE configList[Max(defs)]
           bit == IF bits = {} THEN 0 ELSE configList[Max(bits)]
<1>1. /\ Types /\ configList \in Seq(Node) /\ DOMAIN configList = 1 .. Len(configList)
      /\ \A i \in DOMAIN configList : configList[i] \in Node
  BY DEF IInv, Types, Pointers
<1>2. /\ dialog = "profile" /\ dialog' = "none" /\ pCurTeNode' = cur /\ pcurText' = cur
      /\ pDefTeNode' = IF def = 0 THEN pDefTeNode ELSE def
      /\ pdefText' = IF bit = 0 THEN pdefText ELSE bit
      /\ combo' = Offered(configList, node)
      /\ disk' = [disk EXCEPT !.files = Made(@, configList, node, reses)]
      /\ modified' = TRUE
      /\ astray' = IF astray = "dialog" THEN "no" ELSE astray
      /\ UNCHANGED <<node, configList, reses, bIdChanged, thread, ts, crashed, silent>>
  BY DEF ProfileOK, ListedCurrent, LastWith
<1>3. /\ cur \in Node \cup {0} /\ def \in Node \cup {0} /\ bit \in Node \cup {0}
      /\ cur \in ToSet(configList) \cup {0}
  <2>1. /\ curs \in SUBSET DOMAIN configList /\ defs \in SUBSET DOMAIN configList
        /\ bits \in SUBSET DOMAIN configList
    OBVIOUS
  <2> HIDE DEF curs, defs, bits
  <2> QED  BY <1>1, <2>1, LastIs
<1>4. astray # "yes" => def = bit
  <2> SUFFICES ASSUME astray # "yes" PROVE defs = bits
    OBVIOUS
  <2>1. \A i \in DOMAIN configList :
          /\ node[configList[i]].status \in Status
          /\ node[configList[i]].status # Both
    BY <1>1, NodeIs DEF IInv, OneRole
  <2> QED  BY <2>1 DEF Status, Both
<1> HIDE DEF cur, def, bit
<1>5. combo' \subseteq ToSet(configList) /\ ToSet(configList) \subseteq Node
      /\ \A n \in combo' : node[n].status # {"DEF_LANG"}
  BY <1>1, <1>2 DEF Offered, ToSet
<1>6. DiskType' /\ disk'.config = disk.config /\ disk'.ids = disk.ids
  <2>1. /\ disk \in [config : Seq(Entry), ids : SUBSET Text, files : [Lang -> FileType]]
        /\ reses \in SUBSET Text
    BY <1>1 DEF Types, DiskType, Flags
  <2> DEFINE made == Made(disk.files, configList, node, reses)
  <2>2. made \in [Lang -> FileType]
    BY <2>1, MadeIs
  <2>3. disk' = [disk EXCEPT !.files = made]
    BY <1>2
  <2> HIDE DEF made
  <2> QED  BY <2>1, <2>2, <2>3 DEF DiskType
<1>7. Types'
  BY <1>1, <1>2, <1>3, <1>5, <1>6
  DEF Types, Pointers, Flags, Threads, Held, Dialogs, Node
<1>13. Waited'
  BY <1>2, WaitedKept DEF IInv
<1>8. Once' /\ IdsKept' /\ InDialog'
  BY <1>2, <1>6 DEF IInv, Once, IdsKept, InDialog
<1>9. OneRole' /\ Panel'
  BY <1>2, <1>4 DEF IInv, OneRole, Panel, Node
<1>10. InCombo'
  <2> SUFFICES ASSUME astray # "yes", NEW n \in combo'
               PROVE  "DEF_LANG" \notin node[n].status
    BY <1>2, <1>5 DEF InCombo
  <2>1. node[n].status \in Status /\ node[n].status # Both
    BY <1>1, <1>5, NodeIs DEF IInv, OneRole
  <2> QED  BY <1>5, <2>1 DEF Status, Both
<1>11. ColumnsAgree'
  BY <1>2, <1>3, <1>9 DEF ColumnsAgree, Panel
<1>12. LosesNothing'
  BY <1>2 DEF LosesNothing, FoundBut
<1> QED  BY <1>7, <1>8, <1>9, <1>10, <1>11, <1>12, <1>13 DEF IInv

LEMMA Profiled ==
  ASSUME IInv, ~ crashed, Profile
  PROVE  IInv'
BY Opened, Accepted, Appended, Deleted, Given DEF Profile, Node

-----------------------------------------------------------------------------
(* The files: what is saved, and what the next start reads. *)

LEMMA SeqIs ==
  ASSUME NEW S, NEW n \in Nat, NEW f, f = [i \in 1 .. n |-> f[i]],
         \A i \in 1 .. n : f[i] \in S
  PROVE  f \in Seq(S) /\ Len(f) = n /\ DOMAIN f = 1 .. n
OBVIOUS

LEMMA WrittenIs ==
  ASSUME NEW st \in Status
  PROVE  Written(st) \in Status /\ Written(st) # Both
         /\ (st # Both => Written(st) = st)
BY DEF Written, Status, Both

LEMMA ConfigIs ==
  ASSUME Types
  PROVE  /\ Config \in Seq(Entry) /\ DOMAIN Config = DOMAIN configList
         /\ Len(Config) = Len(configList)
         /\ \A i \in DOMAIN configList :
              /\ Config[i].lang = node[configList[i]].lang
              /\ Config[i].status = Written(node[configList[i]].status)
              /\ Config[i].status # Both
<1>1. /\ configList \in Seq(Node) /\ Len(configList) \in Nat
      /\ DOMAIN configList = 1 .. Len(configList)
      /\ \A i \in DOMAIN configList : configList[i] \in Node
  BY DEF Types, Pointers
<1>2. \A i \in DOMAIN configList :
        /\ node[configList[i]].lang \in Lang
        /\ Written(node[configList[i]].status) \in Status
        /\ Written(node[configList[i]].status) # Both
  BY <1>1, NodeIs, WrittenIs
<1>3. Config = [i \in 1 .. Len(configList) |->
                  [lang |-> node[configList[i]].lang,
                   status |-> Written(node[configList[i]].status)]]
  BY <1>1 DEF Config
<1>4. \A i \in 1 .. Len(configList) : Config[i] \in Entry
  BY <1>1, <1>2, <1>3 DEF Entry
<1>5. Config \in Seq(Entry) /\ Len(Config) = Len(configList)
      /\ DOMAIN Config = DOMAIN configList
  BY <1>1, <1>3, <1>4
<1> QED  BY <1>1, <1>2, <1>3, <1>5

(* The file of a language in the list is what the language holds. *)
LEMMA SavedFilesIs ==
  ASSUME IInv
  PROVE  /\ SavedFiles \in [Lang -> FileType]
         /\ \A i \in DOMAIN configList :
              SavedFiles[node[configList[i]].lang] = node[configList[i]].texts
<1> DEFINE found(l) == {i \in DOMAIN configList : node[configList[i]].lang = l}
           last(l) == IF found(l) = {} THEN 0 ELSE configList[Max(found(l))]
<1>1. /\ Types /\ configList \in Seq(Node)
      /\ disk.files \in [Lang -> FileType]
      /\ \A i \in DOMAIN configList : configList[i] \in Node
  BY DEF IInv, Types, Pointers, DiskType
<1>2. SavedFiles = [l \in Lang |-> IF last(l) = 0 THEN disk.files[l]
                                  ELSE node[last(l)].texts]
  BY DEF SavedFiles, LastWith
<1>3. ASSUME NEW l \in Lang
      PROVE  last(l) \in Node \cup {0} /\ (found(l) # {} => Max(found(l)) \in found(l))
  <2>1. found(l) \in SUBSET DOMAIN configList
    OBVIOUS
  <2> HIDE DEF found
  <2> QED  BY <1>1, <2>1, LastIs
<1>4. SavedFiles \in [Lang -> FileType]
  <2> HIDE DEF last
  <2>1. \A l \in Lang : last(l) # 0 => node[last(l)].texts \in Texts
    BY <1>1, <1>3, NodeIs
  <2> QED  BY <1>1, <1>2, <2>1 DEF FileType
<1>5. ASSUME NEW i \in DOMAIN configList
      PROVE  SavedFiles[node[configList[i]].lang] = node[configList[i]].texts
  <2> DEFINE l == node[configList[i]].lang
  <2>1. l \in Lang /\ i \in found(l) /\ 0 \notin Node
    <3>1. 0 \notin Node
      BY <1>1 DEF Types, Node
    <3> QED  BY <1>1, <3>1, NodeIs
  <2>2. Max(found(l)) \in found(l)
    BY <1>3, <2>1
  <2>3. Max(found(l)) = i
    BY <2>2 DEF IInv, Once
  <2>4. last(l) = configList[i] /\ last(l) # 0
    BY <1>1, <2>1, <2>3
  <2> HIDE DEF last, found
  <2> QED  BY <1>2, <2>1, <2>4
<1> QED  BY <1>4, <1>5

LEMMA Saved ==
  ASSUME IInv, ~ crashed, Save
  PROVE  IInv'
<1>1. /\ Types /\ node \in Seq(NodeType) /\ configList \in Seq(Node)
      /\ disk \in [config : Seq(Entry), ids : SUBSET Text, files : [Lang -> FileType]]
  BY DEF IInv, Types, Pointers, DiskType
<1>2. SavedIds = reses /\ reses \in SUBSET Text
  BY DEF IInv, IdsKept, SavedIds, Types, Flags
<1>3. /\ Config \in Seq(Entry) /\ SavedFiles \in [Lang -> FileType]
      /\ \A i, j \in DOMAIN Config : Config[i].lang = Config[j].lang => i = j
      /\ \A i \in DOMAIN Config : Config[i].status # Both
  <2>1. \A i, j \in DOMAIN Config : Config[i].lang = Config[j].lang => i = j
    BY <1>1, ConfigIs DEF IInv, Once
  <2> QED  BY <1>1, <2>1, ConfigIs, SavedFilesIs
<1>4. /\ UNCHANGED <<node, configList, pDefTeNode, pCurTeNode, pdefText, pcurText,
                     combo, reses, dialog, thread, ts, astray>>
      /\ bIdChanged' \in {bIdChanged, FALSE} /\ modified' \in BOOLEAN
      /\ crashed' \in BOOLEAN /\ silent' \in {silent, {}} /\ Node' = Node
  BY DEF Save, memory, loops, IInv, Types, Flags, Node
<1>5. DiskType' /\ Once' /\ IdsKept'
  <2>1. CASE UNCHANGED <<disk, bIdChanged>>
    BY <1>4, <2>1 DEF IInv, Types, DiskType, Once, IdsKept
  <2>2. CASE disk' = [disk EXCEPT !.config = Config, !.ids = SavedIds]
    <3>1. DiskType' /\ disk'.config = Config /\ disk'.ids = reses
      BY <1>1, <1>2, <1>3, <2>2 DEF DiskType
    <3> QED  BY <1>3, <1>4, <3>1 DEF IInv, Once, IdsKept
  <2>3. CASE disk' = [config |-> Config, ids |-> SavedIds, files |-> SavedFiles]
    <3>1. DiskType' /\ disk'.config = Config /\ disk'.ids = reses
      BY <1>1, <1>2, <1>3, <2>3 DEF DiskType
    <3> QED  BY <1>3, <1>4, <3>1 DEF IInv, Once, IdsKept
  <2> QED  BY <2>1, <2>2, <2>3 DEF Save, memory
<1>6. Types'
  BY <1>4, <1>5 DEF IInv, Types, Pointers, Flags, Threads, Held
<1>9. Waited' /\ Late' = Late
  BY <1>4, WaitedKept DEF IInv
<1>7. OneRole' /\ Panel' /\ InCombo' /\ InDialog' /\ ColumnsAgree'
  BY <1>4, <1>9 DEF IInv, OneRole, Panel, InCombo, InDialog, ColumnsAgree
<1>8. LosesNothing'
  <2> SUFFICES ASSUME ~ crashed', astray = "no", configList # << >>
               PROVE  LosesNothing'
    BY <1>4 DEF LosesNothing, FoundBut
  <2>1. /\ disk' = [config |-> Config, ids |-> SavedIds, files |-> SavedFiles]
    BY DEF Save
  <2>2. /\ disk'.config = Config /\ disk'.ids = reses /\ disk'.files = SavedFiles
        /\ Len(Config) = Len(configList) /\ DOMAIN Config = DOMAIN configList
    BY <1>1, <1>2, <2>1, ConfigIs
  <2>3. ASSUME NEW i \in DOMAIN configList
        PROVE  /\ node[configList[i]].lang = ReadNodes'[i].lang
               /\ node[configList[i]].status = ReadNodes'[i].status
               /\ \A t \in reses : \/ Garbled(node[configList[i]].texts, t)
                                  \/ TextIn(node[configList[i]].texts, t)
                                       = TextIn(ReadNodes'[i].texts, t)
    <3> DEFINE n == configList[i]
               l == node[n].lang
    <3>1. n \in Node /\ l \in Lang /\ node[n].texts \in Texts
          /\ node[n].status \in Status /\ node[n].status # Both
      BY <1>1, NodeIs DEF IInv, OneRole
    <3>2. Config[i].lang = l /\ Config[i].status = node[n].status
      BY <1>1, <3>1, ConfigIs, WrittenIs
    <3>3. disk'.files[l] = node[n].texts /\ node[n].texts # NoFile
      BY <2>2, <3>1, SavedFilesIs, FileAssumption DEF FileAssumption
    <3> DEFINE found == {t \in DOMAIN node[n].texts : ~ Swallowed(node[n].texts, t)}
               f == [t \in found \cup reses |->
                       IF t \in found THEN ReadAs[node[n].texts[t]] ELSE ""]
    <3>4. \A k : disk'.files[k] = node[n].texts => Read(k)' = f
      BY <2>2, <3>3 DEF Read
    <3>5. /\ ReadNodes'[i].lang = l /\ ReadNodes'[i].status = node[n].status
          /\ ReadNodes'[i].texts = f
      <4>1. ReadNodes' = [j \in DOMAIN Config |->
                            [lang |-> Config[j].lang, status |-> Config[j].status,
                             texts |-> Read(disk.config[j].lang)']]
        BY <2>2 DEF ReadNodes
      <4>2. Read(disk.config[i].lang)' = f
        BY <2>2, <3>2, <3>3, <3>4
      <4> HIDE DEF f
      <4> QED  BY <2>2, <3>2, <4>1, <4>2
    <3>6. \A t \in reses : \/ Garbled(node[n].texts, t)
                           \/ TextIn(node[n].texts, t) = TextIn(f, t)
      BY DEF TextIn, Garbled
    <3> HIDE DEF f
    <3> QED  BY <3>5, <3>6
  <2> QED  BY <1>4, <2>2, <2>3 DEF LosesNothing, FoundBut
<1> QED  BY <1>5, <1>6, <1>7, <1>8, <1>9 DEF IInv

-----------------------------------------------------------------------------
LEMMA ReadIs ==
  ASSUME DiskType, NEW l \in Lang
  PROVE  Read(l) \in Texts
<1> DEFINE file == IF disk.files[l] = NoFile THEN << >> ELSE disk.files[l]
           f == Read(l)
<1>1. file \in Texts
  <2>1. << >> \in Texts
    <3>1. << >> \in [{} -> Value] /\ {} \in SUBSET Text
      OBVIOUS
    <3> QED  BY <3>1 DEF Texts
  <2> QED  BY <2>1 DEF DiskType, FileType
<1> DEFINE found == {t \in DOMAIN file : ~ Swallowed(file, t)}
<1>2. f = [t \in found \cup disk.ids |-> IF t \in found THEN ReadAs[file[t]] ELSE ""]
  BY DEF Read
<1>3. disk.ids \subseteq Text /\ "" \in Value
  BY DEF DiskType, Value
<1>4. found \subseteq Text /\ \A t \in found : ReadAs[file[t]] \in Value
  <2>1. DOMAIN file \subseteq Text /\ \A t \in DOMAIN file : file[t] \in Value
    BY <1>1, TextsAre
  <2>2. found \subseteq DOMAIN file
    OBVIOUS
  <2> HIDE DEF found, file
  <2> QED  BY <2>1, <2>2, ReadAssumption DEF ReadAssumption
<1> HIDE DEF f, file, found
<1>5. DOMAIN f \subseteq Text /\ f = [t \in DOMAIN f |-> f[t]]
      /\ \A t \in DOMAIN f : f[t] \in Value
  BY <1>2, <1>3, <1>4
<1>6. f \in Texts
  BY <1>5, TextsAre
<1> QED  BY <1>6 DEF f

LEMMA ReadNodesIs ==
  ASSUME DiskType
  PROVE  /\ ReadNodes \in Seq(NodeType) /\ Len(ReadNodes) = Len(disk.config)
         /\ DOMAIN ReadNodes = 1 .. Len(disk.config) /\ Len(disk.config) \in Nat
         /\ DOMAIN disk.config = 1 .. Len(disk.config)
         /\ \A i \in DOMAIN disk.config :
              /\ ReadNodes[i].lang = disk.config[i].lang
              /\ ReadNodes[i].status = disk.config[i].status
              /\ ReadNodes[i].texts = Read(disk.config[i].lang)
<1>1. /\ disk.config \in Seq(Entry) /\ Len(disk.config) \in Nat
      /\ DOMAIN disk.config = 1 .. Len(disk.config)
  BY DEF DiskType
<1>2. ReadNodes = [i \in 1 .. Len(disk.config) |->
                     [lang |-> disk.config[i].lang, status |-> disk.config[i].status,
                      texts |-> Read(disk.config[i].lang)]]
  BY <1>1 DEF ReadNodes
<1>3. ASSUME NEW i \in 1 .. Len(disk.config) PROVE ReadNodes[i] \in NodeType
  <2>1. disk.config[i] \in Entry
    BY <1>1
  <2>2. disk.config[i].lang \in Lang /\ disk.config[i].status \in Status
    BY <2>1 DEF Entry
  <2>3. Read(disk.config[i].lang) \in Texts
    BY <2>2, ReadIs
  <2> QED  BY <1>2, <2>2, <2>3 DEF NodeType
<1>4. ReadNodes \in Seq(NodeType) /\ Len(ReadNodes) = Len(disk.config)
  <2> DEFINE f == ReadNodes
  <2>1. f = [i \in 1 .. Len(disk.config) |-> f[i]]
    BY <1>2
  <2> HIDE DEF f
  <2>2. \A i \in 1 .. Len(disk.config) : f[i] \in NodeType
    BY <1>3 DEF f
  <2>3. f \in Seq(NodeType) /\ Len(f) = Len(disk.config)
    BY <1>1, <2>1, <2>2, SeqIs
  <2> QED  BY <2>3 DEF f
<1> QED  BY <1>1, <1>2, <1>4

LEMMA Started ==
  ASSUME IInv, Start
  PROVE  IInv'
<1> DEFINE n == Len(disk.config)
           found(s) == {i \in DOMAIN ReadList : ReadNodes[ReadList[i]].status = {s}}
<1>1. /\ DiskType /\ disk.config \in Seq(Entry) /\ n \in Nat
      /\ DOMAIN disk.config = 1 .. n /\ disk.ids \subseteq Text
      /\ disk.files \in [Lang -> FileType] /\ n = Len(disk.config)
  BY DEF IInv, Types, DiskType
<1>0. \A i \in 1 .. n : disk.config[i].lang \in Lang /\ disk.config[i].status \in Status
  <2>1. \A i \in 1 .. n : disk.config[i] \in Entry
    BY <1>1
  <2> QED  BY <2>1 DEF Entry
<1>2. /\ node' = ReadNodes /\ configList' = ReadList
      /\ pDefTeNode' = ReadWith("DEF_LANG") /\ pCurTeNode' = ReadWith("CUR_LANG")
      /\ pdefText' = pDefTeNode' /\ pcurText' = pCurTeNode'
      /\ combo' = Offered(ReadList, ReadNodes)
      /\ reses' = disk.ids /\ bIdChanged' = (disk.ids # {})
      /\ disk' = [disk EXCEPT !.files = Made(@, ReadList, ReadNodes, {})]
      /\ dialog' = "none" /\ thread' = << >>
      /\ ts' = [target |-> First, result |-> "", data |-> "none"]
      /\ modified' = FALSE /\ crashed' = FALSE
      /\ astray' = "no" /\ silent' = {}
  BY DEF Start
<1>3. /\ ReadNodes \in Seq(NodeType) /\ Node' = 1 .. n
      /\ \A i \in 1 .. n : /\ ReadNodes[i].lang = disk.config[i].lang
                           /\ ReadNodes[i].status = disk.config[i].status
                           /\ ReadNodes[i].texts = Read(disk.config[i].lang)
  BY <1>1, <1>2, ReadNodesIs DEF Node
<1>4. /\ ReadList \in Seq(1 .. n) /\ Len(ReadList) = n /\ DOMAIN ReadList = 1 .. n
      /\ \A i \in 1 .. n : ReadList[i] = i
  BY <1>1 DEF ReadList
<1>5. ToSet(ReadList) = 1 .. n
  BY <1>4 DEF ToSet
<1>6. ASSUME NEW s PROVE ReadWith(s) \in (1 .. n) \cup {0}
  <2>1. ReadWith(s) = IF found(s) = {} THEN 0 ELSE ReadList[Max(found(s))]
    <3>1. \A i \in DOMAIN ReadList : ReadList[i] = i
      BY <1>4
    <3>2. found(s) = {i \in DOMAIN ReadList : ReadNodes[ReadList[i]].status = {s}}
      OBVIOUS
    <3> QED  BY DEF ReadWith, LastWith
  <2>2. found(s) \in SUBSET DOMAIN ReadList
    OBVIOUS
  <2> HIDE DEF found
  <2> QED  BY <1>4, <2>1, <2>2, LastIs
<1>7. /\ combo' \subseteq 1 .. n /\ \A m \in combo' : ReadNodes[m].status # {"DEF_LANG"}
  BY <1>2, <1>5 DEF Offered
<1> DEFINE made == Made(disk.files, ReadList, ReadNodes, {})
<1>8. made \in [Lang -> FileType]
  BY <1>1, MadeIs
<1>9. /\ \A l \in Lang : made[l] = disk.files[l]
                        \/ (disk.files[l] = NoFile /\ made[l] = [t \in {} |-> "ids"])
  <2>1. {u \in {} : \A w \in {} : u <= w} = {}
    OBVIOUS
  <2> QED  BY <2>1 DEF Made
<1>10. disk' = [disk EXCEPT !.files = made]
  BY <1>2
<1> HIDE DEF made
<1>11. DiskType' /\ disk'.config = disk.config /\ disk'.ids = disk.ids
       /\ disk'.files = made
  BY <1>1, <1>8, <1>10 DEF DiskType
<1>12. Threads'
  <2>1. First \in Lang /\ "" \in Value
    BY TextAssumption DEF TextAssumption, Value
  <2>2. thread' \in Seq(Run) /\ DOMAIN thread' = {}
    <3>1. thread' = << >>
      BY <1>2
    <3>2. << >> \in Seq(Run) /\ DOMAIN << >> = {}
      OBVIOUS
    <3> QED  BY <3>1, <3>2
  <2>3. ts' \in [target : Lang, result : Value, data : {"none", "refused"} \cup Lang]
    BY <1>2, <2>1
  <2> QED  BY <2>2, <2>3 DEF Threads
<1>20. Held' /\ Waited'
  <2>1. DOMAIN thread' = {}
    <3>1. thread' = << >>
      BY <1>2
    <3>2. DOMAIN << >> = {}
      OBVIOUS
    <3> QED  BY <3>1, <3>2
  <2> QED  BY <2>1 DEF Held, Waited
<1>13. Types'
  <2>1. Pointers'
    BY <1>2, <1>3, <1>4, <1>6, <1>7 DEF Pointers
  <2> QED  BY <1>1, <1>2, <1>3, <1>11, <1>12, <1>20, <2>1 DEF Types, Flags, Dialogs
<1>14. Once'
  <2>1. \A i \in DOMAIN configList' :
          i \in 1 .. n /\ node'[configList'[i]].lang = disk.config[i].lang
    BY <1>2, <1>3, <1>4
  <2> QED  BY <1>1, <1>11, <2>1 DEF IInv, Once
<1>15. \A i \in 1 .. n : ReadNodes[i].status \in Status /\ ReadNodes[i].status # Both
  BY <1>0, <1>1, <1>3 DEF IInv, Once
<1>16. OneRole' /\ Panel' /\ IdsKept' /\ InDialog'
  BY <1>2, <1>3, <1>11, <1>15 DEF OneRole, Panel, IdsKept, InDialog
<1>17. InCombo'
  <2>1. \A m \in combo' : "DEF_LANG" \notin ReadNodes[m].status
    BY <1>7, <1>15 DEF Status, Both
  <2> QED  BY <1>2, <1>5, <1>7, <2>1 DEF InCombo
<1>18. ColumnsAgree'
  BY <1>2, <1>5, <1>6 DEF ColumnsAgree
<1>19. LosesNothing'
  <2>1. ASSUME NEW l \in Lang PROVE Read(l)' = Read(l)
    <3>1. CASE made[l] = disk.files[l]
      BY <1>11, <3>1 DEF Read
    <3>2. CASE disk.files[l] = NoFile /\ made[l] = [t \in {} |-> "ids"]
      <4>1. Read(l) = [t \in disk.ids |-> ""]
        <5>1. {t \in DOMAIN << >> : ~ Swallowed(<< >>, t)} = {}
          OBVIOUS
        <5> QED  BY <3>2, <5>1 DEF Read
      <4>2. Read(l)' = [t \in disk.ids |-> ""]
        <5>1. DOMAIN << >> = {} /\ DOMAIN made[l] = {}
          BY <3>2
        <5>2. {t \in DOMAIN << >> : ~ Swallowed(<< >>, t)} = {}
              /\ {t \in DOMAIN made[l] : ~ Swallowed(made[l], t)} = {}
          BY <5>1
        <5> QED  BY <1>11, <5>2 DEF Read
      <4> QED  BY <4>1, <4>2
    <3> QED  BY <1>9, <3>1, <3>2
  <2>2. \A i \in 1 .. n : Read(disk.config[i].lang)' = Read(disk.config[i].lang)
    BY <1>0, <1>11, <2>1
  <2>3. UNCHANGED ReadNodes
    BY <1>1, <1>11, <2>2 DEF ReadNodes
  <2> QED  BY <1>2, <1>3, <1>4, <1>11, <2>3 DEF LosesNothing, FoundBut
<1> QED  BY <1>13, <1>14, <1>16, <1>17, <1>18, <1>19, <1>20 DEF IInv

LEMMA SingletonIs ==
  ASSUME NEW S, NEW x \in S
  PROVE  /\ <<x>> \in Seq(S) /\ Len(<<x>>) = 1 /\ DOMAIN <<x>> = {1}
         /\ <<x>>[1] = x
OBVIOUS

LEMMA InitHolds == Init => IInv
<1> SUFFICES ASSUME Init PROVE IInv
  OBVIOUS
<1> DEFINE entry == [lang |-> First, status |-> {"DEF_LANG"}]
           new == [lang |-> First, status |-> {"DEF_LANG"}, texts |-> << >>]
<1>1. /\ disk = [config |-> <<entry>>, ids |-> {}, files |-> [l \in Lang |-> NoFile]]
      /\ node = <<new>>
      /\ configList = <<1>> /\ pDefTeNode = 1 /\ pCurTeNode = 0
      /\ pdefText = 1 /\ pcurText = 0
      /\ combo = {} /\ reses = {} /\ bIdChanged = FALSE
      /\ dialog = "none" /\ thread = << >>
      /\ ts = [target |-> First, result |-> "", data |-> "none"]
      /\ modified = FALSE /\ crashed = FALSE /\ astray = "no" /\ silent = {}
  BY DEF Init, FirstDisk
<1>2. entry \in Entry /\ new \in NodeType /\ First \in Lang /\ "" \in Value
  <2>1. << >> \in Texts
    <3>1. << >> \in [{} -> Value] /\ {} \in SUBSET Text
      OBVIOUS
    <3> QED  BY <3>1 DEF Texts
  <2> QED  BY <2>1, TextAssumption DEF TextAssumption, Entry, NodeType, Status, Value
<1>3. entry.lang = First /\ entry.status = {"DEF_LANG"} /\ new.lang = First
      /\ new.status = {"DEF_LANG"} /\ new.texts = << >>
  OBVIOUS
<1> HIDE DEF entry, new
<1> USE SingletonIs
<1>4. node \in Seq(NodeType) /\ Node = {1} /\ node[1] = new
  BY <1>1, <1>2 DEF Node
<1>5. configList \in Seq({1}) /\ DOMAIN configList = {1} /\ configList[1] = 1
  <2>1. 1 \in {1}
    OBVIOUS
  <2> QED  BY <1>1, <2>1
<1>6. /\ disk.config \in Seq(Entry) /\ DOMAIN disk.config = {1} /\ disk.config[1] = entry
      /\ disk.ids = {} /\ disk.files = [l \in Lang |-> NoFile] /\ Len(disk.config) = 1
  BY <1>1, <1>2
<1>7. DiskType
  <2>1. [l \in Lang |-> NoFile] \in [Lang -> FileType] /\ <<entry>> \in Seq(Entry)
    <3>1. [l \in Lang |-> NoFile] \in [Lang -> FileType]
      BY DEF FileType
    <3> QED  BY <1>2, <3>1
  <2> QED  BY <1>1, <2>1 DEF DiskType
<1>8. Threads /\ Held /\ Waited
  <2>1. << >> \in Seq(Run) /\ DOMAIN << >> = {}
    OBVIOUS
  <2>2. Threads
    BY <1>1, <1>2, <2>1 DEF Threads
  <2>3. DOMAIN thread = {}
    BY <1>1, <2>1
  <2> QED  BY <2>2, <2>3 DEF Held, Waited
<1>9. Types
  <2>1. Pointers
    BY <1>1, <1>4, <1>5 DEF Pointers
  <2> QED  BY <1>1, <1>4, <1>7, <1>8, <2>1 DEF Types, Flags, Dialogs
<1>10. Once /\ OneRole
  <2>1. {"DEF_LANG"} # Both
    BY DEF Both
  <2> QED  BY <1>3, <1>4, <1>5, <1>6, <2>1 DEF Once, OneRole
<1>11. Panel /\ InCombo /\ IdsKept /\ InDialog /\ ColumnsAgree
  BY <1>1, <1>6 DEF Panel, InCombo, IdsKept, InDialog, ColumnsAgree
<1>12. LosesNothing
  <2>1. ReadNodes[1].lang = First /\ ReadNodes[1].status = {"DEF_LANG"}
    BY <1>3, <1>6, <1>7, ReadNodesIs
  <2>2. Len(configList) = 1 /\ Len(disk.config) = 1 /\ disk.ids = reses /\ reses = {}
    BY <1>1, <1>6
  <2>3. \A i \in DOMAIN configList : i = 1 /\ configList[i] = 1
    BY <1>5
  <2>4. node[1].lang = First /\ node[1].status = {"DEF_LANG"}
    BY <1>3, <1>4
  <2> QED  BY <2>1, <2>2, <2>3, <2>4 DEF LosesNothing, FoundBut
<1> QED  BY <1>8, <1>9, <1>10, <1>11, <1>12 DEF IInv

LEMMA StepHolds == IInv /\ [Next]_vars => IInv'
<1> SUFFICES ASSUME IInv, [Next]_vars PROVE IInv'
  OBVIOUS
<1>1. CASE UNCHANGED vars
  <2>1. ~ crashed => IInv'
    <3>1. Threads' /\ Held' /\ InDialog'
      BY <1>1 DEF vars, memory, loops, IInv, Types, Threads, Held, InDialog, Node
    <3>2. Waited' /\ Late' = Late
      BY <1>1, WaitedKept DEF vars, memory, loops, IInv
    <3> QED
      BY <1>1, <3>1, <3>2, OutsideKeeps
      DEF vars, memory, loops, IInv, Types, Flags, Pointers, Dialogs
  <2>2. CASE crashed
    <3>1. Types'
      BY <1>1 DEF vars, memory, loops, IInv, Types, Pointers, Flags, DiskType, Threads,
                  Held, Node
    <3>4. Waited' /\ Late' = Late
      BY <1>1, WaitedKept DEF vars, memory, loops, IInv
    <3>2. Once' /\ OneRole' /\ Panel' /\ InCombo' /\ IdsKept' /\ InDialog' /\ ColumnsAgree'
      BY <1>1, <3>4 DEF vars, memory, loops, IInv, Once, OneRole, Panel, InCombo, IdsKept,
                  InDialog, ColumnsAgree, Node
    <3>3. LosesNothing'
      BY <1>1, <2>2 DEF vars, LosesNothing, FoundBut
    <3> QED  BY <3>1, <3>2, <3>3, <3>4 DEF IInv
  <2> QED  BY <2>1, <2>2
<1>2. CASE Start
  BY <1>2, Started
<1>3. CASE ~ crashed /\ UserStep
  <2>1. CASE EditTexts
    BY <1>3, <2>1, Edited
  <2>2. CASE Profile
    BY <1>3, <2>2, Profiled
  <2>3. CASE Translate
    BY <1>3, <2>3, Translated
  <2>4. CASE CancelProgress
    BY <1>3, <2>4, Cancelled
  <2>5. CASE \E n \in combo : SelectCurrent(n)
    BY <1>3, <2>5, Selected
  <2> QED  BY <1>3, <2>1, <2>2, <2>3, <2>4, <2>5 DEF UserStep
<1>4. CASE ~ crashed /\ Save
  BY <1>4, Saved
<1>5. CASE ~ crashed /\ CloseProgress
  BY <1>5, Opened
<1>6. CASE ~ crashed /\ \E i \in DOMAIN thread : ThreadStep(i) \/ ThreadDies(i)
  BY <1>6, Asked, Stored, Shown, Died DEF ThreadStep
<1> QED  BY <1>1, <1>2, <1>3, <1>4, <1>5, <1>6 DEF Next, Running

LEMMA Inductive == Spec => []IInv
BY InitHolds, StepHolds, PTL DEF Spec

(* Every pointer the editor, its list panel and its combobox keep is to a    *)
(* language of the session, whichever was taken off the list meanwhile.      *)
THEOREM TypeCorrect == Spec => []TypeOK
<1>1. IInv => TypeOK
  BY TypesGive DEF IInv
<1> QED  BY <1>1, Inductive, PTL

(* What is typed into a column goes into the language at its head, for any   *)
(* languages, texts and translations running on; but for a profile dialog    *)
(* or a translation that was cancelled.                                      *)
THEOREM ColumnsCorrect == Spec => []ColumnsAgree
<1>1. IInv => ColumnsAgree
  BY DEF IInv
<1> QED  BY <1>1, Inductive, PTL

(* While nothing is marked as modified a start finds every language with its *)
(* texts, whichever texts the files do not give back: those are named, and   *)
(* nothing else is lost.                                                     *)
THEOREM NothingLostUnmarked == Spec => []LosesNothing
<1>1. IInv => LosesNothing
  BY DEF IInv
<1> QED  BY <1>1, Inductive, PTL
=============================================================================
