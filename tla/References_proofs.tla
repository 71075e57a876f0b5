-------------------------- MODULE References_proofs --------------------------
(***************************************************************************)
(* Proofs about References: its types, that the views follow the registry, *)
(* that the use counts cover what is shown, what follows for the pictures, *)
(* and what the next start finds; for any controls, renderers, ids and     *)
(* images and histories of any length.                                     *)
(***************************************************************************)
EXTENDS References, FiniteSetTheorems, SequenceTheorems, TLAPS

-----------------------------------------------------------------------------
(* Partial functions. *)

LEMMA PartialIntro ==
  ASSUME NEW S, NEW T, NEW D \in SUBSET S, NEW f \in [D -> T]
  PROVE  f \in Partial(S, T)
BY DEF Partial

LEMMA PartialElim ==
  ASSUME NEW S, NEW T, NEW f \in Partial(S, T)
  PROVE  f \in [DOMAIN f -> T] /\ DOMAIN f \in SUBSET S
BY DEF Partial

LEMMA PutTyped ==
  ASSUME NEW S, NEW T, NEW f \in Partial(S, T), NEW x \in S, NEW v \in T
  PROVE  Put(f, x, v) \in Partial(S, T)
<1>1. f \in [DOMAIN f -> T] /\ DOMAIN f \in SUBSET S
  BY PartialElim
<1>2. Put(f, x, v) \in [DOMAIN f \cup {x} -> T] /\ DOMAIN f \cup {x} \in SUBSET S
  BY <1>1 DEF Put
<1> QED  BY <1>2, PartialIntro

LEMMA WithoutTyped ==
  ASSUME NEW S, NEW T, NEW f \in Partial(S, T), NEW X
  PROVE  Without(f, X) \in Partial(S, T)
<1>1. f \in [DOMAIN f -> T] /\ DOMAIN f \in SUBSET S
  BY PartialElim
<1>2. Without(f, X) \in [DOMAIN f \ X -> T] /\ DOMAIN f \ X \in SUBSET S
  BY <1>1 DEF Without
<1> QED  BY <1>2, PartialIntro

-----------------------------------------------------------------------------
(* The type invariant, by the parts of the state an operation changes.     *)

RegistryOK ==
  /\ reses \in Partial(Id, Image)
  /\ list \subseteq Id /\ thumb \in Partial(Id, Image)
  /\ renumbered \subseteq DOMAIN reses

FieldsOK ==
  /\ fld \in Partial(Control \cup Renderer, Field) /\ uncounted \subseteq Id
  /\ use \in [DOMAIN reses -> Nat]
  /\ on \subseteq Control \cap DOMAIN fld
  /\ unlisted \subseteq Renderer \cap DOMAIN fld

HistoryOK ==
  /\ past \in Seq(CommandType) /\ future \in Seq(CommandType)
  /\ \A cmd \in ToSet(past) \cup ToSet(future) : cmd.on \in DOMAIN fld

RestOK ==
  /\ clip \in {Nothing} \cup [of : {"control", "renderer"}, val : Field]
  /\ formMarked \in BOOLEAN /\ silent \in BOOLEAN /\ disk \in Files

LEMMA TypeParts ==
  TypeOK <=> RegistryOK /\ FieldsOK /\ HistoryOK /\ RestOK /\ steps \in 0 .. MaxSteps
BY DEF TypeOK, RegistryOK, FieldsOK, HistoryOK, RestOK

-----------------------------------------------------------------------------
(* Fields and counts. *)

CountType ==
  [fld : Partial(Control \cup Renderer, Field), use : [DOMAIN reses -> Nat],
   uncounted : SUBSET Id]

LEMMA CountingTyped ==
  ASSUME FieldsOK
  PROVE  Counting \in CountType /\ Counting.fld = fld
BY DEF FieldsOK, Counting, CountType

LEMMA incUseTyped ==
  ASSUME NEW s \in CountType, NEW i
  PROVE  incUse(s, i) \in CountType /\ incUse(s, i).fld = s.fld
BY DEF incUse, CountType

LEMMA decUseTyped ==
  ASSUME NEW s \in CountType, NEW i
  PROVE  decUse(s, i) \in CountType /\ decUse(s, i).fld = s.fld
BY DEF decUse, CountType

(* A field of something that exists is set. *)
LEMMA FldSet ==
  ASSUME NEW s \in CountType, NEW x \in DOMAIN s.fld, NEW v \in Field
  PROVE  /\ [s EXCEPT !.fld[x] = v] \in CountType
         /\ DOMAIN [s EXCEPT !.fld[x] = v].fld = DOMAIN s.fld
<1>1. s.fld \in [DOMAIN s.fld -> Field] /\ DOMAIN s.fld \in SUBSET (Control \cup Renderer)
  BY PartialElim DEF CountType
<1>2. [s.fld EXCEPT ![x] = v] \in [DOMAIN s.fld -> Field]
  BY <1>1
<1>3. [s.fld EXCEPT ![x] = v] \in Partial(Control \cup Renderer, Field)
  BY <1>1, <1>2, PartialIntro
<1>4. [s EXCEPT !.fld[x] = v] = [s EXCEPT !.fld = [s.fld EXCEPT ![x] = v]]
  BY DEF CountType
<1> QED  BY <1>2, <1>3, <1>4 DEF CountType

LEMMA setFieldTyped ==
  ASSUME NEW s \in CountType, NEW x \in DOMAIN s.fld, NEW v \in Field
  PROVE  setField(s, x, v) \in CountType /\ DOMAIN setField(s, x, v).fld = DOMAIN s.fld
<1> DEFINE set == [s EXCEPT !.fld[x] = v]
<1>1. set \in CountType /\ DOMAIN set.fld = DOMAIN s.fld
  BY FldSet
<1>2. /\ decUse(set, s.fld[x]) \in CountType
      /\ decUse(set, s.fld[x]).fld = set.fld
  BY <1>1, decUseTyped
<1>3. /\ incUse(decUse(set, s.fld[x]), v) \in CountType
      /\ incUse(decUse(set, s.fld[x]), v).fld = set.fld
  BY <1>2, incUseTyped
<1> QED  BY <1>1, <1>3 DEF setField

LEMMA cleanFieldTyped ==
  ASSUME NEW s \in CountType, NEW x \in DOMAIN s.fld
  PROVE  cleanField(s, x) \in CountType /\ DOMAIN cleanField(s, x).fld = DOMAIN s.fld
BY FldSet DEF cleanField, Field

(* Something new gets its field. *)
LEMMA FldPut ==
  ASSUME NEW s \in CountType, NEW x \in Control \cup Renderer, NEW v \in Field
  PROVE  /\ [s EXCEPT !.fld = Put(@, x, v)] \in CountType
         /\ DOMAIN [s EXCEPT !.fld = Put(@, x, v)].fld = DOMAIN s.fld \cup {x}
<1>1. Put(s.fld, x, v) \in Partial(Control \cup Renderer, Field)
  BY PutTyped DEF CountType
<1>2. DOMAIN Put(s.fld, x, v) = DOMAIN s.fld \cup {x}
  BY DEF Put
<1> QED  BY <1>1, <1>2 DEF CountType

(* What is alive keeps its field. *)
LEMMA BecomesTyped ==
  ASSUME NEW s \in CountType, Becomes(s), ReferencesAssumption,
         reses' = reses, on' \subseteq Control \cap DOMAIN s.fld,
         unlisted' \subseteq Renderer \cap DOMAIN s.fld,
         past' \in Seq(CommandType), future' \in Seq(CommandType),
         \A cmd \in ToSet(past') \cup ToSet(future') : cmd.on \in DOMAIN s.fld
  PROVE  FieldsOK' /\ HistoryOK'
<1> DEFINE alive == on' \cup Renderer \cup {cmd.on : cmd \in ToSet(past') \cup ToSet(future')}
<1>1. fld' = Without(s.fld, Control \ alive) /\ use' = s.use /\ uncounted' = s.uncounted
  BY DEF Becomes
<1>2. fld' \in Partial(Control \cup Renderer, Field)
  BY <1>1, WithoutTyped DEF CountType
<1>3. DOMAIN fld' = DOMAIN s.fld \ (Control \ alive)
  BY <1>1 DEF Without
<1>4. Renderer \cap DOMAIN s.fld \subseteq DOMAIN fld' /\ on' \subseteq DOMAIN fld'
  BY <1>3 DEF ReferencesAssumption
<1>5. \A cmd \in ToSet(past') \cup ToSet(future') : cmd.on \in DOMAIN fld'
  BY <1>3
<1>6. use' \in [DOMAIN reses' -> Nat] /\ uncounted' \subseteq Id
  BY <1>1 DEF CountType
<1> QED  BY <1>2, <1>4, <1>5, <1>6 DEF FieldsOK, HistoryOK

-----------------------------------------------------------------------------
(* The form. *)

Parts == RegistryOK /\ FieldsOK /\ HistoryOK /\ RestOK

LEMMA RegistryStays ==
  ASSUME RegistryOK, UNCHANGED registry
  PROVE  RegistryOK'
BY DEF RegistryOK, registry

LEMMA PushTyped ==
  ASSUME HistoryOK, NEW kind \in {"ADD", "DELETE", "SET"}, NEW c \in Control,
         NEW v \in Field, push(kind, c, v)
  PROVE  /\ past' \in Seq(CommandType) /\ future' \in Seq(CommandType)
         /\ \A cmd \in ToSet(past') \cup ToSet(future') :
              cmd.on \in DOMAIN fld \cup {c}
<1> DEFINE new == [kind |-> kind, on |-> c, val |-> v]
<1>1. new \in CommandType
  BY DEF CommandType
<1>2. past' = Append(past, new) /\ future' = << >>
  BY DEF push
<1>3. past' \in Seq(CommandType) /\ future' \in Seq(CommandType)
  BY <1>1, <1>2 DEF HistoryOK
<1>4. ToSet(past') \subseteq ToSet(past) \cup {new} /\ ToSet(future') = {}
  BY <1>1, <1>2, AppendProperties DEF HistoryOK, ToSet
<1> QED  BY <1>3, <1>4 DEF HistoryOK

LEMMA MarkedTyped ==
  ASSUME Parts, FormMarked, UNCHANGED clip
  PROVE  RegistryOK' /\ RestOK' /\ UNCHANGED <<reses, unlisted>>
BY RegistryStays DEF Parts, FormMarked, RestOK, registry

LEMMA DefaultField ==
  /\ Default \in Field /\ NoImage \in Field /\ Id \subseteq Field
BY DEF Field

LEMMA FieldOf ==
  ASSUME FieldsOK, NEW x \in DOMAIN fld
  PROVE  fld[x] \in Field /\ x \in Control \cup Renderer
BY PartialElim DEF FieldsOK

LEMMA createTyped ==
  ASSUME ReferencesAssumption, Parts, NEW c \in Control, create(c)
  PROVE  Parts'
<1> DEFINE s == [Counting EXCEPT !.fld = Put(@, c, Default)]
<1>1. s \in CountType /\ DOMAIN s.fld = DOMAIN fld \cup {c}
  BY CountingTyped, FldPut, DefaultField DEF Parts
<1>2. RegistryOK' /\ RestOK' /\ UNCHANGED <<reses, unlisted>>
  BY MarkedTyped DEF create
<1>3. /\ past' \in Seq(CommandType) /\ future' \in Seq(CommandType)
      /\ \A cmd \in ToSet(past') \cup ToSet(future') : cmd.on \in DOMAIN s.fld
  BY <1>1, PushTyped, DefaultField DEF create, Parts
<1>4. on' \subseteq Control \cap DOMAIN s.fld
  BY <1>1 DEF create, Parts, FieldsOK
<1>5. unlisted' \subseteq Renderer \cap DOMAIN s.fld
  BY <1>1, <1>2 DEF Parts, FieldsOK
<1>6. Becomes(s)
  BY DEF create
<1>7. FieldsOK' /\ HistoryOK'
  BY <1>1, <1>2, <1>3, <1>4, <1>5, <1>6, BecomesTyped
<1> QED  BY <1>2, <1>7 DEF Parts

LEMMA deleteTyped ==
  ASSUME ReferencesAssumption, Parts, NEW c \in Control, deleteSelectedInstance(c)
  PROVE  Parts'
<1> DEFINE s == decUse(Counting, fld[c])
<1>1. s \in CountType /\ DOMAIN s.fld = DOMAIN fld /\ c \in DOMAIN fld
  BY CountingTyped, decUseTyped DEF Parts, deleteSelectedInstance, FieldsOK
<1>2. RegistryOK' /\ RestOK' /\ UNCHANGED <<reses, unlisted>>
  BY MarkedTyped DEF deleteSelectedInstance
<1>3. /\ past' \in Seq(CommandType) /\ future' \in Seq(CommandType)
      /\ \A cmd \in ToSet(past') \cup ToSet(future') : cmd.on \in DOMAIN s.fld
  BY <1>1, PushTyped, DefaultField DEF deleteSelectedInstance, Parts
<1>4. /\ on' \subseteq Control \cap DOMAIN s.fld
      /\ unlisted' \subseteq Renderer \cap DOMAIN s.fld /\ Becomes(s)
  BY <1>1, <1>2 DEF deleteSelectedInstance, Parts, FieldsOK
<1>5. FieldsOK' /\ HistoryOK'
  BY <1>1, <1>2, <1>3, <1>4, BecomesTyped
<1> QED  BY <1>2, <1>5 DEF Parts

LEMMA copyTyped ==
  ASSUME Parts, NEW x \in DOMAIN fld,
         clip' \in [of : {"control", "renderer"}, val : {fld[x]}],
         UNCHANGED <<registry, counting, on, unlisted, history, formMarked, disk,
                     silent>>
  PROVE  Parts'
<1>1. fld[x] \in Field
  BY FieldOf DEF Parts
<1>2. RestOK'
  BY <1>1 DEF RestOK, Parts
<1>3. RegistryOK' /\ FieldsOK' /\ HistoryOK'
  BY DEF Parts, RegistryOK, FieldsOK, HistoryOK, registry, counting, history
<1> QED  BY <1>2, <1>3 DEF Parts

LEMMA pasteTyped ==
  ASSUME ReferencesAssumption, Parts, NEW c \in Control, paste(c)
  PROVE  Parts'
<1>1. RegistryOK' /\ RestOK' /\ UNCHANGED <<reses, unlisted>>
  BY MarkedTyped DEF paste
<1>2. CASE UNCHANGED <<counting, on, history>>
  <2>1. FieldsOK' /\ HistoryOK'
    BY <1>1, <1>2 DEF Parts, FieldsOK, HistoryOK, counting, history
  <2> QED  BY <1>1, <2>1 DEF Parts
<1>3. CASE /\ push("ADD", c, Default) /\ on' = on \cup {c}
           /\ Becomes(incUse([Counting EXCEPT !.fld = Put(@, c, clip.val)], clip.val))
  <2> DEFINE put == [Counting EXCEPT !.fld = Put(@, c, clip.val)]
             s == incUse(put, clip.val)
  <2>1. clip.val \in Field
    BY DEF paste, Parts, RestOK
  <2>2. put \in CountType /\ DOMAIN put.fld = DOMAIN fld \cup {c}
    BY <2>1, CountingTyped, FldPut DEF Parts
  <2>3. s \in CountType /\ DOMAIN s.fld = DOMAIN fld \cup {c}
    BY <2>2, incUseTyped
  <2>4. /\ past' \in Seq(CommandType) /\ future' \in Seq(CommandType)
        /\ \A cmd \in ToSet(past') \cup ToSet(future') : cmd.on \in DOMAIN s.fld
    BY <1>3, <2>3, PushTyped, DefaultField DEF Parts
  <2>5. /\ on' \subseteq Control \cap DOMAIN s.fld
        /\ unlisted' \subseteq Renderer \cap DOMAIN s.fld
    BY <1>1, <1>3, <2>3 DEF Parts, FieldsOK
  <2>6. FieldsOK' /\ HistoryOK'
    BY <1>1, <1>3, <2>3, <2>4, <2>5, BecomesTyped
  <2> QED  BY <1>1, <2>6 DEF Parts
<1> QED  BY <1>2, <1>3 DEF paste

(* A command for a control that is on the form, and its field.             *)
LEMMA ValueTyped ==
  ASSUME ReferencesAssumption, Parts, NEW c \in on, NEW v \in Field,
         NEW s \in CountType, DOMAIN s.fld = DOMAIN fld, Becomes(s),
         push("SET", c, v), FormMarked, UNCHANGED <<on, clip>>
  PROVE  Parts'
<1>1. RegistryOK' /\ RestOK' /\ UNCHANGED <<reses, unlisted>>
  BY MarkedTyped
<1>2. c \in Control /\ c \in DOMAIN fld
  BY DEF Parts, FieldsOK
<1>3. /\ past' \in Seq(CommandType) /\ future' \in Seq(CommandType)
      /\ \A cmd \in ToSet(past') \cup ToSet(future') : cmd.on \in DOMAIN s.fld
  BY <1>2, PushTyped DEF Parts
<1>4. /\ on' \subseteq Control \cap DOMAIN s.fld
      /\ unlisted' \subseteq Renderer \cap DOMAIN s.fld
  BY <1>1 DEF Parts, FieldsOK
<1>5. FieldsOK' /\ HistoryOK'
  BY <1>1, <1>3, <1>4, BecomesTyped
<1> QED  BY <1>1, <1>5 DEF Parts

LEMMA setImageTyped ==
  ASSUME ReferencesAssumption, Parts, NEW c \in Control,
         NEW v \in Id \cup {NoImage}, setImage(c, v)
  PROVE  Parts'
<1>1. c \in on /\ c \in DOMAIN fld /\ v \in Field
  BY DefaultField DEF setImage, Parts, FieldsOK
<1>2. fld[c] \in Field
  BY <1>1, FieldOf DEF Parts
<1>3. /\ setField(Counting, c, v) \in CountType
      /\ DOMAIN setField(Counting, c, v).fld = DOMAIN fld
  BY <1>1, CountingTyped, setFieldTyped DEF Parts
<1> QED  BY <1>1, <1>2, <1>3, ValueTyped DEF setImage

LEMMA setDefValueTyped ==
  ASSUME ReferencesAssumption, Parts, NEW c \in Control, setDefValue(c)
  PROVE  Parts'
<1> DEFINE old == IF fld[c] = Default THEN NoImage ELSE fld[c]
<1>1. c \in on /\ c \in DOMAIN fld
  BY DEF setDefValue, Parts, FieldsOK
<1>2. old \in Field
  BY <1>1, FieldOf, DefaultField DEF Parts
<1>3. /\ cleanField(Counting, c) \in CountType
      /\ DOMAIN cleanField(Counting, c).fld = DOMAIN fld
  BY <1>1, CountingTyped, cleanFieldTyped DEF Parts
<1> QED  BY <1>1, <1>2, <1>3, ValueTyped DEF setDefValue

LEMMA refuseImageTyped ==
  ASSUME ReferencesAssumption, Parts, NEW c \in Control,
         NEW v \in Id \cup {NoImage}, refuseImage(c, v)
  PROVE  Parts'
<1> DEFINE set == setField(Counting, c, v)
           s == IF fld[c] = Default THEN cleanField(set, c)
                ELSE setField(set, c, fld[c])
<1>1. c \in DOMAIN fld /\ v \in Field
  BY DefaultField DEF refuseImage, Parts, FieldsOK
<1>2. fld[c] \in Field
  BY <1>1, FieldOf DEF Parts
<1>3. set \in CountType /\ DOMAIN set.fld = DOMAIN fld
  BY <1>1, CountingTyped, setFieldTyped DEF Parts
<1>4. s \in CountType /\ DOMAIN s.fld = DOMAIN fld
  BY <1>1, <1>2, <1>3, cleanFieldTyped, setFieldTyped
<1>5. RegistryOK' /\ RestOK' /\ UNCHANGED <<reses, on, unlisted, past, future>>
  BY RegistryStays DEF refuseImage, Parts, RestOK, registry, history
<1>6. /\ on' \subseteq Control \cap DOMAIN s.fld
      /\ unlisted' \subseteq Renderer \cap DOMAIN s.fld
      /\ past' \in Seq(CommandType) /\ future' \in Seq(CommandType)
      /\ \A cmd \in ToSet(past') \cup ToSet(future') : cmd.on \in DOMAIN s.fld
  BY <1>4, <1>5 DEF Parts, FieldsOK, HistoryOK
<1>7. Becomes(s)
  BY DEF refuseImage
<1>8. FieldsOK' /\ HistoryOK'
  BY <1>4, <1>5, <1>6, <1>7, BecomesTyped
<1> QED  BY <1>5, <1>8 DEF Parts

LEMMA ReversedTyped ==
  ASSUME FieldsOK, NEW cmd \in CommandType, cmd.on \in DOMAIN fld
  PROVE  Reversed(cmd) \in CommandType /\ Reversed(cmd).on = cmd.on
<1>1. fld[cmd.on] \in Field
  BY FieldOf
<1> QED  BY <1>1 DEF Reversed, CommandType

LEMMA executeTyped ==
  ASSUME ReferencesAssumption, Parts, NEW cmd \in CommandType,
         cmd.on \in DOMAIN fld, execute(cmd), undoRedoUpdate(cmd),
         past' \in Seq(CommandType), future' \in Seq(CommandType),
         \A other \in ToSet(past') \cup ToSet(future') : other.on \in DOMAIN fld
  PROVE  Parts'
<1> DEFINE c == cmd.on
           s == CASE cmd.kind = "ADD" -> decUse(Counting, fld[cmd.on])
                  [] cmd.kind = "DELETE" -> incUse(Counting, fld[cmd.on])
                  [] cmd.kind = "SET" /\ cmd.val = Default ->
                       cleanField(Counting, cmd.on)
                  [] OTHER -> setField(Counting, cmd.on, cmd.val)
<1>1. /\ cmd.kind \in {"ADD", "DELETE", "SET"} /\ cmd.val \in Field
      /\ c \in Control \cap DOMAIN fld
  BY DEF CommandType
<1>2. Counting \in CountType /\ Counting.fld = fld
  BY CountingTyped DEF Parts
<1>3. s \in CountType /\ DOMAIN s.fld = DOMAIN fld
  <2>1. CASE cmd.kind = "ADD"
    BY <1>2, <2>1, decUseTyped
  <2>2. CASE cmd.kind = "DELETE"
    BY <1>2, <2>2, incUseTyped
  <2>3. CASE cmd.kind = "SET" /\ cmd.val = Default
    BY <1>1, <1>2, <2>3, cleanFieldTyped
  <2>4. CASE cmd.kind = "SET" /\ cmd.val # Default
    BY <1>1, <1>2, <2>4, setFieldTyped
  <2> QED  BY <1>1, <2>1, <2>2, <2>3, <2>4
<1>4. Becomes(s)
  BY DEF execute
<1>5. on' \subseteq Control \cap DOMAIN s.fld
  BY <1>1, <1>3 DEF execute, Parts, FieldsOK
<1>6. RegistryOK' /\ RestOK' /\ UNCHANGED <<reses, unlisted>>
  BY RegistryStays DEF undoRedoUpdate, Parts, RestOK, registry
<1>7. unlisted' \subseteq Renderer \cap DOMAIN s.fld
  BY <1>3, <1>6 DEF Parts, FieldsOK
<1>8. FieldsOK' /\ HistoryOK'
  BY <1>3, <1>4, <1>5, <1>6, <1>7, BecomesTyped
<1> QED  BY <1>6, <1>8 DEF Parts

LEMMA undoTyped ==
  ASSUME ReferencesAssumption, Parts, undo
  PROVE  Parts'
<1> DEFINE cmd == Last(past)
<1>1. past \in Seq(CommandType) /\ past # << >> /\ future \in Seq(CommandType)
  BY DEF Parts, HistoryOK, undo
<1>2. cmd \in CommandType /\ cmd \in ToSet(past)
  BY <1>1, EmptySeq, LenProperties DEF Last, ToSet
<1>3. cmd.on \in DOMAIN fld
  BY <1>2 DEF Parts, HistoryOK
<1>4. Reversed(cmd) \in CommandType /\ Reversed(cmd).on = cmd.on
  BY <1>2, <1>3, ReversedTyped DEF Parts
<1>5. past' = SubSeq(past, 1, Len(past) - 1) /\ future' = <<Reversed(cmd)>> \o future
  BY DEF undo, Front
<1>6. past' \in Seq(CommandType) /\ ToSet(past') \subseteq ToSet(past)
  BY <1>1, <1>5, EmptySeq, LenProperties, SubSeqProperties DEF ToSet
<1>7. <<Reversed(cmd)>> \in Seq(CommandType)
  BY <1>4
<1>8. /\ future' \in Seq(CommandType)
      /\ ToSet(future') \subseteq ToSet(future) \cup {Reversed(cmd)}
  BY <1>1, <1>5, <1>7, ConcatProperties, LenProperties DEF ToSet
<1>9. \A other \in ToSet(past') \cup ToSet(future') : other.on \in DOMAIN fld
  BY <1>3, <1>4, <1>6, <1>8 DEF Parts, HistoryOK
<1> QED  BY <1>2, <1>3, <1>6, <1>8, <1>9, executeTyped DEF undo

LEMMA redoTyped ==
  ASSUME ReferencesAssumption, Parts, redo
  PROVE  Parts'
<1> DEFINE cmd == Head(future)
<1>1. past \in Seq(CommandType) /\ future # << >> /\ future \in Seq(CommandType)
  BY DEF Parts, HistoryOK, redo
<1>2. cmd \in CommandType /\ cmd \in ToSet(future)
  BY <1>1, EmptySeq, LenProperties, HeadTailProperties DEF ToSet
<1>3. cmd.on \in DOMAIN fld
  BY <1>2 DEF Parts, HistoryOK
<1>4. Reversed(cmd) \in CommandType /\ Reversed(cmd).on = cmd.on
  BY <1>2, <1>3, ReversedTyped DEF Parts
<1>5. past' = Append(past, Reversed(cmd)) /\ future' = Tail(future)
  BY DEF redo
<1>6. /\ future' \in Seq(CommandType) /\ ToSet(future') \subseteq ToSet(future)
  BY <1>1, <1>5, EmptySeq, LenProperties, HeadTailProperties DEF ToSet
<1>7. /\ past' \in Seq(CommandType)
      /\ ToSet(past') \subseteq ToSet(past) \cup {Reversed(cmd)}
  BY <1>1, <1>4, <1>5, AppendProperties DEF ToSet
<1>8. \A other \in ToSet(past') \cup ToSet(future') : other.on \in DOMAIN fld
  BY <1>3, <1>4, <1>6, <1>7 DEF Parts, HistoryOK
<1> QED  BY <1>2, <1>3, <1>6, <1>7, <1>8, executeTyped DEF redo

LEMMA FormTyped ==
  ASSUME ReferencesAssumption, Parts, FormStep
  PROVE  Parts'
<1>1. CASE undo
  BY <1>1, undoTyped
<1>2. CASE redo
  BY <1>2, redoTyped
<1>3. ASSUME NEW c \in Control,
             \/ create(c) \/ deleteSelectedInstance(c) \/ paste(c) \/ setDefValue(c)
             \/ \E v \in Id \cup {NoImage} : setImage(c, v) \/ refuseImage(c, v)
      PROVE  Parts'
  BY <1>3, createTyped, deleteTyped, pasteTyped, setDefValueTyped, setImageTyped,
     refuseImageTyped
<1>4. ASSUME NEW c \in Control, copy(c)
      PROVE  Parts'
  <2>1. c \in DOMAIN fld
    BY <1>4 DEF copy, Parts, FieldsOK
  <2> QED  BY <1>4, <2>1, copyTyped DEF copy
<1> QED  BY <1>1, <1>2, <1>3, <1>4 DEF FormStep

-----------------------------------------------------------------------------
(* The renderers. *)

LEMMA RdrStays ==
  ASSUME Parts, RdrStep
  PROVE  /\ RegistryOK' /\ UNCHANGED <<reses, on, past, future>>
         /\ (UNCHANGED clip => RestOK')
BY RegistryStays DEF RdrStep, Parts, RestOK, registry, history

(* A renderer's field is set or reset.                                     *)
LEMMA RdrValueTyped ==
  ASSUME ReferencesAssumption, Parts, NEW r \in Renderer, RdrStep,
         NEW s \in CountType, DOMAIN s.fld = DOMAIN fld, Becomes(s),
         unlisted' = unlisted \ {r}, UNCHANGED clip
  PROVE  Parts'
<1>1. RegistryOK' /\ RestOK' /\ UNCHANGED <<reses, on, past, future>>
  BY RdrStays
<1>2. /\ on' \subseteq Control \cap DOMAIN s.fld
      /\ unlisted' \subseteq Renderer \cap DOMAIN s.fld
      /\ past' \in Seq(CommandType) /\ future' \in Seq(CommandType)
      /\ \A cmd \in ToSet(past') \cup ToSet(future') : cmd.on \in DOMAIN s.fld
  BY <1>1 DEF Parts, FieldsOK, HistoryOK
<1>3. FieldsOK' /\ HistoryOK'
  BY <1>1, <1>2, BecomesTyped
<1> QED  BY <1>1, <1>3 DEF Parts

(* A renderer comes or goes: controls and their commands are others.       *)
LEMMA RdrDomainTyped ==
  ASSUME ReferencesAssumption, Parts, NEW r \in Renderer, RdrStep,
         fld' \in Partial(Control \cup Renderer, Field),
         DOMAIN fld \ {r} \subseteq DOMAIN fld', use' = use,
         uncounted' \subseteq Id, UNCHANGED clip,
         unlisted' \subseteq Renderer \cap DOMAIN fld'
  PROVE  Parts'
<1>1. RegistryOK' /\ RestOK' /\ UNCHANGED <<reses, on, past, future>>
  BY RdrStays
<1>2. Control \cap DOMAIN fld \subseteq DOMAIN fld'
  BY DEF ReferencesAssumption
<1>3. FieldsOK'
  BY <1>1, <1>2 DEF Parts, FieldsOK
<1>4. \A cmd \in ToSet(past) \cup ToSet(future) : cmd.on \in Control
  <2>1. past \in Seq(CommandType) /\ future \in Seq(CommandType)
    BY DEF Parts, HistoryOK
  <2>2. ToSet(past) \subseteq CommandType /\ ToSet(future) \subseteq CommandType
    BY <2>1, LenProperties, ElementOfSeq DEF ToSet
  <2> QED  BY <2>2 DEF CommandType
<1>5. HistoryOK'
  BY <1>1, <1>2, <1>4 DEF Parts, HistoryOK
<1> QED  BY <1>1, <1>3, <1>5 DEF Parts

LEMMA RendererTyped ==
  ASSUME ReferencesAssumption, Parts, RendererStep
  PROVE  Parts'
<1> USE DEF Parts
<1> SUFFICES ASSUME NEW r \in Renderer,
                    \/ newRdr(r) \/ clearRdr(r) \/ deleteRdr(r) \/ copyRdr(r)
                    \/ pasteRdr(r) \/ \E v \in Id \cup {NoImage} : setRdr(r, v)
             PROVE  Parts'
  BY DEF RendererStep
<1>0. fld \in Partial(Control \cup Renderer, Field) /\ unlisted \subseteq DOMAIN fld
  BY DEF FieldsOK
<1>1. CASE newRdr(r)
  <2>1. fld' \in Partial(Control \cup Renderer, Field) /\ DOMAIN fld' = DOMAIN fld \cup {r}
    BY <1>0, <1>1, PutTyped, DefaultField DEF newRdr, Put
  <2> QED  BY <1>1, <2>1, RdrDomainTyped DEF newRdr, FieldsOK
<1>2. CASE deleteRdr(r)
  <2>1. fld' \in Partial(Control \cup Renderer, Field) /\ DOMAIN fld' = DOMAIN fld \ {r}
    BY <1>0, <1>2, WithoutTyped DEF deleteRdr, Without
  <2> QED  BY <1>2, <2>1, RdrDomainTyped DEF deleteRdr, FieldsOK
<1>3. CASE pasteRdr(r)
  <2>1. clip.val \in Field
    BY <1>3 DEF pasteRdr, RestOK
  <2>2. fld' \in Partial(Control \cup Renderer, Field) /\ DOMAIN fld' = DOMAIN fld \cup {r}
    BY <1>0, <1>3, <2>1, PutTyped DEF pasteRdr, Put
  <2> QED  BY <1>3, <2>2, RdrDomainTyped DEF pasteRdr, FieldsOK
<1>4. CASE copyRdr(r)
  BY <1>4, copyTyped DEF copyRdr, RdrStep
<1>5. CASE clearRdr(r)
  <2>1. /\ cleanField(Counting, r) \in CountType
        /\ DOMAIN cleanField(Counting, r).fld = DOMAIN fld
    BY <1>5, CountingTyped, cleanFieldTyped DEF clearRdr
  <2> QED  BY <1>5, <2>1, RdrValueTyped DEF clearRdr
<1>6. ASSUME NEW v \in Id \cup {NoImage}, setRdr(r, v)
      PROVE  Parts'
  <2>1. v \in Field /\ r \in DOMAIN fld
    BY <1>6, DefaultField DEF setRdr
  <2>2. /\ setField(Counting, r, v) \in CountType
        /\ DOMAIN setField(Counting, r, v).fld = DOMAIN fld
    BY <2>1, CountingTyped, setFieldTyped
  <2> QED  BY <1>6, <2>2, RdrValueTyped DEF setRdr
<1> QED  BY <1>1, <1>2, <1>3, <1>4, <1>5, <1>6

-----------------------------------------------------------------------------
(* The image editor. *)

(* Fields that are renamed stay where they are.                            *)
LEMMA RenamedTyped ==
  ASSUME Parts, ImageStep, NEW g \in [DOMAIN fld -> Field], fld' = g,
         unlisted' = unlisted, uncounted' \subseteq Id,
         use' \in [DOMAIN reses' -> Nat], silent' \in BOOLEAN
  PROVE  FieldsOK' /\ HistoryOK' /\ RestOK'
<1>1. DOMAIN fld \in SUBSET (Control \cup Renderer)
  BY PartialElim DEF Parts, FieldsOK
<1>2. fld' \in Partial(Control \cup Renderer, Field) /\ DOMAIN fld' = DOMAIN fld
  BY <1>1, PartialIntro
<1>3. UNCHANGED <<on, past, future, clip, formMarked, disk>>
  BY DEF ImageStep, history
<1> QED  BY <1>2, <1>3 DEF Parts, FieldsOK, HistoryOK, RestOK

LEMMA RegistryTyped ==
  ASSUME Parts, RegistryStep
  PROVE  Parts'
<1> USE DEF Parts
<1>0. /\ reses \in [DOMAIN reses -> Image] /\ DOMAIN reses \in SUBSET Id
      /\ fld \in [DOMAIN fld -> Field]
      /\ use \in [DOMAIN reses -> Nat] /\ uncounted \subseteq Id
      /\ silent \in BOOLEAN
  BY PartialElim DEF RegistryOK, FieldsOK, RestOK
<1>1. ASSUME NEW i \in Id, importAgain(i)
      PROVE  Parts'
  <2>1. thumb' \in Partial(Id, Image)
    BY <1>0, <1>1, PutTyped DEF importAgain, AddThumb, RegistryOK
  <2>2. RegistryOK'
    BY <1>1, <2>1 DEF importAgain, RegistryOK
  <2>3. FieldsOK' /\ HistoryOK' /\ RestOK'
    BY <1>0, <1>1, RenamedTyped DEF importAgain, counting
  <2> QED  BY <2>2, <2>3
<1>2. ASSUME NEW i \in Id, removeRes(i)
      PROVE  Parts'
  <2>1. /\ reses' \in Partial(Id, Image) /\ DOMAIN reses' = DOMAIN reses \ {i}
        /\ thumb' \in Partial(Id, Image)
    BY <1>2, WithoutTyped DEF removeRes, RegistryOK, Without
  <2>2. RegistryOK'
    BY <1>2, <2>1 DEF removeRes, RegistryOK
  <2>3. use' \in [DOMAIN reses' -> Nat]
    BY <1>0, <1>2, <2>1 DEF removeRes, Without
  <2> DEFINE g == [x \in DOMAIN fld |->
                     IF x \in on /\ fld[x] = i THEN Default ELSE fld[x]]
  <2>4. g \in [DOMAIN fld -> Field] /\ fld' = g
    BY <1>0, <1>2, DefaultField DEF removeRes
  <2>5. silent' \in BOOLEAN
    BY <1>0, <1>2 DEF removeRes
  <2> HIDE DEF g
  <2>6. FieldsOK' /\ HistoryOK' /\ RestOK'
    BY <1>0, <1>2, <2>3, <2>4, <2>5, RenamedTyped DEF removeRes
  <2> QED  BY <2>2, <2>6
<1>3. ASSUME NEW i \in Id, NEW a \in Image, import(a, i)
      PROVE  Parts'
  <2>1. /\ reses' \in Partial(Id, Image) /\ DOMAIN reses' = DOMAIN reses \cup {i}
        /\ thumb' \in Partial(Id, Image)
    BY <1>3, PutTyped DEF import, AddThumb, RegistryOK, Put
  <2>2. RegistryOK'
    BY <1>3, <2>1 DEF import, RegistryOK
  <2>3. use' \in [DOMAIN reses' -> Nat]
    BY <1>0, <1>3, <2>1 DEF import, Put
  <2>4. FieldsOK' /\ HistoryOK' /\ RestOK'
    BY <1>0, <1>3, <2>3, RenamedTyped DEF import
  <2> QED  BY <2>2, <2>4
<1>4. ASSUME NEW i \in Id, NEW j \in Id, setResId(i, j)
      PROVE  Parts'
  <2> DEFINE put == Put(reses, j, reses[i])
             g == [x \in DOMAIN fld |->
                     IF x \in Told /\ fld[x] = i THEN j ELSE fld[x]]
  <2>1. put \in Partial(Id, Image) /\ DOMAIN put = DOMAIN reses \cup {j}
    BY <1>0, <1>4, PutTyped DEF setResId, RegistryOK, Put
  <2>2. /\ reses' \in Partial(Id, Image)
        /\ DOMAIN reses' = (DOMAIN reses \cup {j}) \ {i}
    BY <1>4, <2>1, WithoutTyped DEF setResId, Without
  <2>3. j # i
    BY <1>4 DEF setResId
  <2>4. RegistryOK'
    BY <1>4, <2>2, <2>3 DEF setResId, RegistryOK
  <2>5. use' \in [DOMAIN reses' -> Nat]
    BY <1>0, <1>4, <2>2 DEF setResId, Put, Without
  <2>6. g \in [DOMAIN fld -> Field] /\ fld' = g
    BY <1>0, <1>4, DefaultField DEF setResId
  <2>7. silent' \in BOOLEAN /\ uncounted' \subseteq Id
    BY <1>0, <1>4 DEF setResId
  <2> HIDE DEF g
  <2>8. FieldsOK' /\ HistoryOK' /\ RestOK'
    BY <1>0, <1>4, <2>5, <2>6, <2>7, RenamedTyped DEF setResId
  <2> QED  BY <2>4, <2>8
<1> QED  BY <1>1, <1>2, <1>3, <1>4 DEF RegistryStep

-----------------------------------------------------------------------------
(* Saving and starting. *)

LEMMA SaveTyped ==
  ASSUME Parts, Save
  PROVE  Parts'
<1> USE DEF Parts
<1> DEFINE ids == IF DOMAIN reses = {} THEN disk.ids ELSE reses
           shown == [c \in on |-> [val |-> fld[c], picture |-> Picture(c)]]
           form == IF formMarked THEN shown ELSE disk.form
           rdr == [r \in Renderer \cap DOMAIN fld |-> fld[r]]
<1>1. /\ disk.ids \in Partial(Id, Image) /\ formMarked \in BOOLEAN
      /\ disk.form \in Partial(Control, [val : Field, picture : Image \cup {None}])
  BY DEF RestOK, Files
<1>2. ids \in Partial(Id, Image)
  BY <1>1 DEF RegistryOK
<1>3. ASSUME NEW c \in on
      PROVE  [val |-> fld[c], picture |-> Picture(c)]
               \in [val : Field, picture : Image \cup {None}]
  <2>1. fld[c] \in Field
    BY <1>3, FieldOf DEF FieldsOK
  <2>2. Picture(c) \in Image \cup {None}
    BY PartialElim DEF Picture, PictureOf, RegistryOK
  <2> QED  BY <2>1, <2>2
<1>4. shown \in [on -> [val : Field, picture : Image \cup {None}]]
  BY <1>3
<1>5. form \in Partial(Control, [val : Field, picture : Image \cup {None}])
  <2>1. on \in SUBSET Control
    BY DEF FieldsOK
  <2> HIDE DEF shown
  <2>2. shown \in Partial(Control, [val : Field, picture : Image \cup {None}])
    BY <1>4, <2>1, PartialIntro
  <2> QED  BY <1>1, <2>2
<1>6. rdr \in Partial(Renderer, Field)
  <2>1. rdr \in [Renderer \cap DOMAIN fld -> Field]
    BY FieldOf
  <2> HIDE DEF rdr
  <2> QED  BY <2>1, PartialIntro
<1>7. disk' = [ids |-> ids, form |-> form, rdr |-> rdr]
  BY DEF Save
<1> HIDE DEF ids, form, rdr
<1>8. disk' \in Files
  BY <1>2, <1>5, <1>6, <1>7 DEF Files
<1>9. RestOK'
  BY <1>8 DEF Save, RestOK
<1>10. RegistryOK' /\ FieldsOK' /\ HistoryOK'
  BY DEF Save, RegistryOK, FieldsOK, HistoryOK, registry, counting, history
<1> QED  BY <1>9, <1>10

(* What is read from the files has its type.                               *)
LEMMA LoadTyped ==
  ASSUME ReferencesAssumption, NEW d \in Files
  PROVE  /\ d.ids \in Partial(Id, Image) /\ DOMAIN d.ids \subseteq Id
         /\ Shown(d) \in Partial(Control \cup Renderer, Field)
         /\ DOMAIN d.form \subseteq Control \cap DOMAIN Shown(d)
         /\ Counted(d) \in [DOMAIN d.ids -> Nat] /\ Uncounted(d) \subseteq Id
<1> DEFINE Entry == [val : Field, picture : Image \cup {None}]
<1>1. /\ d.ids \in Partial(Id, Image) /\ d.rdr \in Partial(Renderer, Field)
      /\ d.form \in Partial(Control, Entry)
  BY DEF Files
<1>2. /\ DOMAIN d.ids \in SUBSET Id
      /\ d.rdr \in [DOMAIN d.rdr -> Field] /\ DOMAIN d.rdr \in SUBSET Renderer
      /\ d.form \in [DOMAIN d.form -> Entry]
      /\ DOMAIN d.form \in SUBSET Control
  <2>1. DOMAIN d.ids \in SUBSET Id
    BY <1>1, PartialElim
  <2>2. d.rdr \in [DOMAIN d.rdr -> Field] /\ DOMAIN d.rdr \in SUBSET Renderer
    BY <1>1, PartialElim
  <2> HIDE DEF Entry
  <2>3. /\ d.form \in [DOMAIN d.form -> Entry]
        /\ DOMAIN d.form \in SUBSET Control
    BY <1>1, PartialElim
  <2> QED  BY <2>1, <2>2, <2>3
<1>3. /\ Shown(d) \in [DOMAIN d.form \cup DOMAIN d.rdr -> Field]
      /\ DOMAIN d.form \cup DOMAIN d.rdr \in SUBSET (Control \cup Renderer)
  BY <1>2 DEF Shown
<1>4. Shown(d) \in Partial(Control \cup Renderer, Field)
  BY <1>3, PartialIntro
<1>5. ASSUME NEW i
      PROVE  Cardinality({c \in DOMAIN d.form : d.form[c].val = i}) \in Nat
  <2>1. IsFiniteSet({c \in DOMAIN d.form : d.form[c].val = i})
    BY <1>2, FS_Subset DEF ReferencesAssumption
  <2> QED  BY <2>1, FS_CardinalityType
<1>6. Counted(d) \in [DOMAIN d.ids -> Nat]
  BY <1>5 DEF Counted
<1>7. Uncounted(d) \subseteq Id
  BY DEF Uncounted
<1> QED  BY <1>1, <1>2, <1>3, <1>4, <1>6, <1>7

LEMMA NothingDone ==
  << >> \in Seq(CommandType) /\ ToSet(<< >>) = {}
BY EmptySeq DEF ToSet

LEMMA InitTyped ==
  ASSUME ReferencesAssumption, Init
  PROVE  TypeOK
<1>1. disk \in Files
  BY DEF Init, ReferencesAssumption
<1>2. RegistryOK /\ FieldsOK
  BY <1>1, LoadTyped DEF Init, RegistryOK, FieldsOK
<1>3. HistoryOK
  BY NothingDone DEF Init, HistoryOK
<1>4. RestOK
  BY <1>1 DEF Init, RestOK
<1>5. steps \in 0 .. MaxSteps
  BY DEF Init, ReferencesAssumption
<1> QED  BY <1>2, <1>3, <1>4, <1>5, TypeParts

LEMMA RestartTyped ==
  ASSUME ReferencesAssumption, Parts, Restart
  PROVE  Parts'
<1>1. disk \in Files /\ silent' \in BOOLEAN
  BY DEF Parts, RestOK, Restart
<1>2. RegistryOK' /\ FieldsOK'
  BY <1>1, LoadTyped DEF Restart, Load, RegistryOK, FieldsOK
<1>3. HistoryOK' /\ RestOK'
  BY <1>1, NothingDone DEF Restart, Load, HistoryOK, RestOK
<1> QED  BY <1>2, <1>3 DEF Parts

-----------------------------------------------------------------------------
(* Theorems. *)

LEMMA NextTyped ==
  ASSUME ReferencesAssumption, TypeOK, [Next]_vars
  PROVE  TypeOK'
<1>0. Parts /\ steps \in 0 .. MaxSteps
  BY TypeParts DEF Parts
<1>1. CASE Edit
  <2>1. Parts'
    BY <1>0, <1>1, FormTyped, RendererTyped, RegistryTyped DEF Edit
  <2>2. steps' \in 0 .. MaxSteps
    BY <1>0, <1>1 DEF Edit, ReferencesAssumption
  <2> QED  BY <2>1, <2>2 DEF Parts, TypeOK, RegistryOK, FieldsOK, HistoryOK, RestOK
<1>2. CASE (Save \/ Restart) /\ UNCHANGED steps
  <2>1. Parts' /\ steps' \in 0 .. MaxSteps
    BY <1>0, <1>2, SaveTyped, RestartTyped
  <2> QED  BY <2>1 DEF Parts, TypeOK, RegistryOK, FieldsOK, HistoryOK, RestOK
<1>3. CASE UNCHANGED vars
  BY <1>3 DEF TypeOK, vars, registry, counting, history
<1> QED  BY <1>1, <1>2, <1>3 DEF Next

(* Every part of the state keeps its type: no command is left for a control  *)
(* that was deleted, and only renderers that exist are out of their ref_list *)
(* (ComponentInstanceUndoRedoCommand::setInstance, RendererEditor).          *)
THEOREM TypeCorrect == Spec => []TypeOK
<1>1. Init => TypeOK
  BY ReferencesAssumption, InitTyped
<1>2. TypeOK /\ [Next]_vars => TypeOK'
  BY ReferencesAssumption, NextTyped
<1> QED  BY <1>1, <1>2, PTL DEF Spec

(* Steps that leave the image editor alone leave its views right.            *)
LEMMA ViewsStay ==
  ASSUME ViewsFollow, UNCHANGED registry
  PROVE  ViewsFollow'
BY DEF ViewsFollow, registry

LEMMA EditorsKeepViews ==
  ASSUME FormStep \/ RendererStep
  PROVE  UNCHANGED registry
BY DEF FormStep, undo, redo, undoRedoUpdate, create, deleteSelectedInstance, copy,
       paste, setDefValue, setImage, refuseImage, FormMarked, RendererStep, newRdr,
       setRdr, clearRdr, deleteRdr, copyRdr, pasteRdr, RdrStep

LEMMA RegistryKeepsViews ==
  ASSUME TypeOK, ViewsFollow, RegistryStep
  PROVE  ViewsFollow'
<1>1. ASSUME NEW i \in Id, importAgain(i)
      PROVE  ViewsFollow'
  BY <1>1 DEF ViewsFollow, importAgain, AddThumb, Put
<1>2. ASSUME NEW i \in Id, removeRes(i)
      PROVE  ViewsFollow'
  BY <1>2 DEF ViewsFollow, removeRes, Without
<1>3. ASSUME NEW i \in Id, NEW a \in Image, import(a, i)
      PROVE  ViewsFollow'
  BY <1>3 DEF ViewsFollow, import, AddThumb, Put
<1>4. ASSUME NEW i \in Id, NEW j \in Id, setResId(i, j)
      PROVE  ViewsFollow'
  BY <1>4 DEF ViewsFollow, setResId, Put, Without
<1> QED  BY <1>1, <1>2, <1>3, <1>4 DEF RegistryStep

(* The listbox and the thumbnails follow the registry through imports over   *)
(* numbers that are free, stale or taken, renumbering, removal and restarts  *)
(* (ImageResListPanel, ImageView::Insert, ResImageView::removeSelectedImage).*)
THEOREM ViewsCorrect == Spec => []ViewsFollow
<1>1. Init => ViewsFollow
  BY DEF Init, ViewsFollow
<1>2. TypeOK /\ ViewsFollow /\ [Next]_vars => ViewsFollow'
  <2> SUFFICES ASSUME TypeOK, ViewsFollow, [Next]_vars
               PROVE  ViewsFollow'
    OBVIOUS
  <2>1. CASE FormStep \/ RendererStep \/ Save \/ UNCHANGED vars
    BY <2>1, EditorsKeepViews, ViewsStay DEF Save, vars
  <2>2. CASE RegistryStep
    BY <2>2, RegistryKeepsViews
  <2>3. CASE Restart
    BY <2>3 DEF Restart, Load, ViewsFollow
  <2> QED  BY <2>1, <2>2, <2>3 DEF Next, Edit
<1> QED  BY <1>1, <1>2, TypeCorrect, PTL DEF Spec

-----------------------------------------------------------------------------
(* What is executed next is possible: the forms that undoing leads back      *)
(* through, and those that redoing leads to.  A control is removed or set    *)
(* only while it is on the form, and inserted only while it is not.          *)

Leads(cmd, A, B) ==
  \/ cmd.kind = "ADD" /\ cmd.on \in A /\ B = A \ {cmd.on}
  \/ cmd.kind = "DELETE" /\ cmd.on \notin A /\ B = A \cup {cmd.on}
  \/ cmd.kind = "SET" /\ cmd.on \in A /\ B = A

PastLegal ==
  \E f \in [0 .. Len(past) -> SUBSET Control] :
    /\ f[Len(past)] = on
    /\ \A k \in 1 .. Len(past) : Leads(past[k], f[k], f[k - 1])

FutureLegal ==
  \E f \in [0 .. Len(future) -> SUBSET Control] :
    /\ f[0] = on
    /\ \A k \in 1 .. Len(future) : Leads(future[k], f[k - 1], f[k])

Legal == PastLegal /\ FutureLegal

LEMMA LegalPush ==
  ASSUME Legal, TypeOK, TypeOK', NEW cmd \in CommandType,
         past' = Append(past, cmd), Leads(cmd, on', on)
  PROVE  PastLegal'
<1>1. PICK f \in [0 .. Len(past) -> SUBSET Control] :
        /\ f[Len(past)] = on
        /\ \A k \in 1 .. Len(past) : Leads(past[k], f[k], f[k - 1])
  BY DEF Legal, PastLegal
<1> DEFINE n == Len(past)
           g == [k \in 0 .. n + 1 |-> IF k = n + 1 THEN on' ELSE f[k]]
<1>2. n \in Nat /\ Len(past') = n + 1 /\ past'[n + 1] = cmd
      /\ \A k \in 1 .. n : past'[k] = past[k]
  BY AppendProperties, LenProperties DEF TypeOK
<1>3. g \in [0 .. n + 1 -> SUBSET Control]
  BY <1>1, <1>2 DEF TypeOK
<1>4. g[n + 1] = on' /\ g[n] = on
  BY <1>1, <1>2
<1>5. ASSUME NEW k \in 1 .. n + 1
      PROVE  Leads(past'[k], g[k], g[k - 1])
  <2>1. CASE k = n + 1
    BY <1>2, <1>4, <2>1
  <2>2. CASE k # n + 1
    <3>1. k \in 1 .. n /\ k \in 0 .. n + 1 /\ k - 1 \in 0 .. n + 1 /\ k - 1 # n + 1
      BY <1>2, <2>2
    <3>2. g[k] = f[k] /\ g[k - 1] = f[k - 1] /\ past'[k] = past[k]
      BY <1>2, <2>2, <3>1
    <3> QED  BY <1>1, <3>1, <3>2
  <2> QED  BY <2>1, <2>2
<1> HIDE DEF g
<1> QED  BY <1>2, <1>3, <1>4, <1>5 DEF PastLegal

LEMMA NoFuture ==
  ASSUME future' = << >>, on' \subseteq Control
  PROVE  FutureLegal'
<1> DEFINE g == [k \in 0 .. 0 |-> on']
<1>1. Len(future') = 0 /\ 1 .. 0 = {} /\ g \in [0 .. 0 -> SUBSET Control] /\ g[0] = on'
  BY EmptySeq
<1> QED  BY <1>1 DEF FutureLegal

LEMMA LegalUndo ==
  ASSUME Legal, TypeOK, TypeOK', past # << >>, past' = Front(past),
         NEW cmd \in CommandType, future' = <<cmd>> \o future,
         \A S \in SUBSET Control :
           Leads(Last(past), on, S) => on' = S /\ Leads(cmd, on', on)
  PROVE  Legal' /\ Leads(Last(past), on, on')
<1>1. PICK f \in [0 .. Len(past) -> SUBSET Control] :
        /\ f[Len(past)] = on
        /\ \A k \in 1 .. Len(past) : Leads(past[k], f[k], f[k - 1])
  BY DEF Legal, PastLegal
<1>2. PICK h \in [0 .. Len(future) -> SUBSET Control] :
        /\ h[0] = on
        /\ \A k \in 1 .. Len(future) : Leads(future[k], h[k - 1], h[k])
  BY DEF Legal, FutureLegal
<1> DEFINE n == Len(past)
           m == Len(future)
<1>3. n \in Nat \ {0} /\ m \in Nat
  BY EmptySeq, LenProperties DEF TypeOK
<1>4. Len(past') = n - 1 /\ \A k \in 1 .. n - 1 : past'[k] = past[k]
  BY <1>3, SubSeqProperties DEF TypeOK, Front
<1>5. /\ Len(future') = m + 1 /\ future'[1] = cmd
      /\ \A k \in 1 .. m : future'[k + 1] = future[k]
  <2>1. <<cmd>> \in Seq(CommandType) /\ Len(<<cmd>>) = 1 /\ <<cmd>>[1] = cmd
    OBVIOUS
  <2> QED  BY <1>3, <2>1, ConcatProperties DEF TypeOK
<1>6. Leads(Last(past), on, f[n - 1]) /\ f[n - 1] \in SUBSET Control
  <2>1. n \in 1 .. n /\ n - 1 \in 0 .. n
    BY <1>3
  <2>2. Leads(past[n], f[n], f[n - 1]) /\ f[n - 1] \in SUBSET Control
    BY <1>1, <2>1
  <2> QED  BY <1>1, <2>2 DEF Last
<1>7. on' = f[n - 1] /\ Leads(cmd, on', on)
  BY <1>6
<1>8. PastLegal'
  <2> DEFINE g == [k \in 0 .. n - 1 |-> f[k]]
  <2>1. g \in [0 .. n - 1 -> SUBSET Control] /\ g[n - 1] = on'
    BY <1>3, <1>7
  <2>2. ASSUME NEW k \in 1 .. n - 1
        PROVE  Leads(past'[k], g[k], g[k - 1])
    BY <1>1, <1>3, <1>4
  <2> HIDE DEF g
  <2> QED  BY <1>4, <2>1, <2>2 DEF PastLegal
<1>9. FutureLegal'
  <2> DEFINE g == [k \in 0 .. m + 1 |-> IF k = 0 THEN on' ELSE h[k - 1]]
  <2>1. g \in [0 .. m + 1 -> SUBSET Control] /\ g[0] = on' /\ g[1] = on
    <3>1. on' \in SUBSET Control
      BY <1>6, <1>7
    <3>2. ASSUME NEW k \in 0 .. m + 1, k # 0
          PROVE  h[k - 1] \in SUBSET Control
      <4>1. k - 1 \in 0 .. m
        BY <1>3, <3>2
      <4> QED  BY <1>2, <4>1
    <3>3. g \in [0 .. m + 1 -> SUBSET Control]
      BY <3>1, <3>2
    <3>4. 0 \in 0 .. m + 1 /\ 1 \in 0 .. m + 1 /\ 1 # 0 /\ 1 - 1 = 0
      BY <1>3
    <3> QED  BY <1>2, <3>3, <3>4
  <2>2. ASSUME NEW k \in 1 .. m + 1
        PROVE  Leads(future'[k], g[k - 1], g[k])
    <3>1. CASE k = 1
      BY <1>5, <1>7, <2>1, <3>1
    <3>2. CASE k # 1
      <4> DEFINE j == k - 1
      <4>1. j \in 1 .. m /\ k = j + 1 /\ g[k - 1] = h[j - 1] /\ g[k] = h[j]
        BY <1>3, <3>2
      <4>2. Leads(future[j], h[j - 1], h[j])
        BY <1>2, <4>1
      <4> QED  BY <1>5, <4>1, <4>2
    <3> QED  BY <3>1, <3>2
  <2> HIDE DEF g
  <2> QED  BY <1>5, <2>1, <2>2 DEF FutureLegal
<1> QED  BY <1>6, <1>7, <1>8, <1>9 DEF Legal

LEMMA LegalRedo ==
  ASSUME Legal, TypeOK, TypeOK', future # << >>, future' = Tail(future),
         NEW cmd \in CommandType, past' = Append(past, cmd),
         \A S \in SUBSET Control :
           Leads(Head(future), on, S) => on' = S /\ Leads(cmd, on', on)
  PROVE  Legal' /\ Leads(Head(future), on, on')
<1>1. PICK h \in [0 .. Len(future) -> SUBSET Control] :
        /\ h[0] = on
        /\ \A k \in 1 .. Len(future) : Leads(future[k], h[k - 1], h[k])
  BY DEF Legal, FutureLegal
<1> DEFINE m == Len(future)
<1>2. m \in Nat \ {0}
  BY EmptySeq, LenProperties DEF TypeOK
<1>3. Len(future') = m - 1 /\ \A k \in 1 .. m - 1 : future'[k] = future[k + 1]
  BY <1>2, HeadTailProperties DEF TypeOK
<1>4. Leads(Head(future), on, h[1]) /\ h[1] \in SUBSET Control
  <2>1. Head(future) = future[1]
    BY <1>2, HeadTailProperties DEF TypeOK
  <2> QED  BY <1>1, <1>2, <2>1
<1>5. on' = h[1] /\ Leads(cmd, on', on)
  BY <1>4
<1>6. PastLegal'
  BY <1>5, LegalPush
<1>7. FutureLegal'
  <2> DEFINE g == [k \in 0 .. m - 1 |-> h[k + 1]]
  <2>1. g \in [0 .. m - 1 -> SUBSET Control] /\ g[0] = on'
    BY <1>2, <1>5
  <2>2. ASSUME NEW k \in 1 .. m - 1
        PROVE  Leads(future'[k], g[k - 1], g[k])
    <3>1. k + 1 \in 1 .. m /\ g[k - 1] = h[k] /\ g[k] = h[k + 1] /\ (k + 1) - 1 = k
      BY <1>2
    <3>2. Leads(future[k + 1], h[(k + 1) - 1], h[k + 1])
      BY <1>1, <3>1
    <3> QED  BY <1>3, <3>1, <3>2
  <2> HIDE DEF g
  <2> QED  BY <1>3, <2>1, <2>2 DEF FutureLegal
<1> QED  BY <1>4, <1>5, <1>6, <1>7 DEF Legal

(* A command leads where execute says, and its reverse leads back.           *)
LEMMA ExecuteLeads ==
  ASSUME NEW cmd \in CommandType, NEW S, Leads(cmd, on, S),
         on' = IF cmd.kind = "ADD" THEN on \ {cmd.on}
               ELSE IF cmd.kind = "DELETE" THEN on \cup {cmd.on} ELSE on
  PROVE  on' = S /\ Leads(Reversed(cmd), on', on)
BY DEF Leads, Reversed, CommandType

-----------------------------------------------------------------------------
(* A record of fields and counts covers those who show their images.       *)

Shows(s, S, i) == {x \in S : s.fld[x] = i}

Covered(s, S) ==
  /\ \A i \in DOMAIN reses \ s.uncounted : Cardinality(Shows(s, S, i)) <= s.use[i]
  /\ \A x \in S : s.fld[x] \in Id \ DOMAIN reses => s.fld[x] \in s.uncounted

(* From s to t only the field of x changes. *)
Moves(s, t, x) ==
  /\ s.uncounted \subseteq t.uncounted
  /\ \A y \in DOMAIN s.fld \ {x} : y \in DOMAIN t.fld /\ t.fld[y] = s.fld[y]

Within == Control \cup Renderer

LEMMA ShowsFinite ==
  ASSUME ReferencesAssumption, NEW S \in SUBSET Within, NEW s, NEW i
  PROVE  IsFiniteSet(Shows(s, S, i)) /\ Cardinality(Shows(s, S, i)) \in Nat
<1>1. IsFiniteSet(Within)
  BY FS_Union DEF ReferencesAssumption, Within
<1>2. Shows(s, S, i) \in SUBSET Within
  BY DEF Shows
<1> QED  BY <1>1, <1>2, FS_Subset, FS_CardinalityType

(* x comes, goes or changes, and the count of every image keeps up with it. *)
LEMMA OneMoves ==
  ASSUME ReferencesAssumption, NEW S \in SUBSET Within, NEW T \in SUBSET Within,
         NEW s \in CountType, NEW t \in CountType, Covered(s, S),
         NEW x, T \ {x} \subseteq S, S \subseteq DOMAIN s.fld, Moves(s, t, x),
         x \in T => t.fld[x] \notin (Id \ DOMAIN reses) \ t.uncounted,
         \A i \in DOMAIN reses \ t.uncounted :
           LET In == x \in T /\ t.fld[x] = i
               Out == x \in S /\ s.fld[x] = i
           IN  /\ t.use[i] >= s.use[i] - 1
               /\ ~ Out \/ In => t.use[i] >= s.use[i]
               /\ In /\ ~ Out => t.use[i] >= s.use[i] + 1
  PROVE  Covered(t, T)
<1>1. ASSUME NEW i \in DOMAIN reses \ t.uncounted
      PROVE  Cardinality(Shows(t, T, i)) <= t.use[i]
  <2> DEFINE A == Shows(s, S, i)
             B == Shows(t, T, i)
  <2>1. /\ IsFiniteSet(A) /\ Cardinality(A) \in Nat
        /\ IsFiniteSet(B) /\ Cardinality(B) \in Nat
    BY ShowsFinite
  <2>2. /\ Cardinality(A) <= s.use[i] /\ s.use[i] \in Nat /\ t.use[i] \in Nat
    BY DEF Covered, Moves, CountType
  <2>3. B \ {x} \subseteq A \ {x}
    BY DEF Shows, Moves
  <2>4. /\ IsFiniteSet(A \ {x}) /\ IsFiniteSet(B \ {x})
        /\ Cardinality(A \ {x}) = IF x \in A THEN Cardinality(A) - 1 ELSE Cardinality(A)
        /\ Cardinality(B \ {x}) = IF x \in B THEN Cardinality(B) - 1 ELSE Cardinality(B)
    BY <2>1, FS_RemoveElement
  <2>5. Cardinality(B \ {x}) <= Cardinality(A \ {x})
    BY <2>3, <2>4, FS_Subset
  <2>6. /\ x \in A <=> x \in S /\ s.fld[x] = i
        /\ x \in B <=> x \in T /\ t.fld[x] = i
    BY DEF Shows
  <2>7. /\ t.use[i] >= s.use[i] - 1
        /\ x \notin A \/ x \in B => t.use[i] >= s.use[i]
        /\ x \in B /\ x \notin A => t.use[i] >= s.use[i] + 1
    BY <2>6
  <2> HIDE DEF A, B
  <2>8. x \in A /\ x \in B => Cardinality(B) <= t.use[i]
    BY <2>1, <2>2, <2>4, <2>5, <2>7
  <2>9. x \in A /\ x \notin B => Cardinality(B) <= t.use[i]
    BY <2>1, <2>2, <2>4, <2>5, <2>7
  <2>10. x \notin A => Cardinality(B) <= t.use[i]
    BY <2>1, <2>2, <2>4, <2>5, <2>7
  <2> QED  BY <2>8, <2>9, <2>10 DEF B
<1>2. ASSUME NEW y \in T, t.fld[y] \in Id \ DOMAIN reses
      PROVE  t.fld[y] \in t.uncounted
  <2>1. CASE y = x
    BY <1>2, <2>1
  <2>2. CASE y # x
    BY <1>2, <2>2 DEF Moves, Covered
  <2> QED  BY <2>1, <2>2
<1> QED  BY <1>1, <1>2 DEF Covered

-----------------------------------------------------------------------------
(* What the operations do to the counts. *)

LEMMA UseOf ==
  ASSUME NEW s \in CountType
  PROVE  /\ s.use \in [DOMAIN reses -> Nat] /\ s.fld \in [DOMAIN s.fld -> Field]
         /\ DOMAIN s.fld \in SUBSET Within
BY PartialElim DEF CountType, Within

LEMMA incUseMoves ==
  ASSUME NEW s \in CountType, NEW i
  PROVE  /\ s.uncounted \subseteq incUse(s, i).uncounted
         /\ i \in Id \ DOMAIN reses => i \in incUse(s, i).uncounted
         /\ \A k \in DOMAIN reses :
              incUse(s, i).use[k] = IF k = i THEN s.use[k] + 1 ELSE s.use[k]
BY UseOf DEF incUse, CountType

LEMMA decUseMoves ==
  ASSUME NEW s \in CountType, NEW i
  PROVE  /\ decUse(s, i).uncounted = s.uncounted
         /\ \A k \in DOMAIN reses :
              /\ decUse(s, i).use[k] >= s.use[k] - 1
              /\ k # i => decUse(s, i).use[k] = s.use[k]
BY UseOf DEF decUse, CountType

(* A control leaves the form, or comes back to it.                         *)
LEMMA LeavesCovered ==
  ASSUME ReferencesAssumption, NEW s \in CountType, NEW S \in SUBSET DOMAIN s.fld,
         Covered(s, S), NEW x \in S
  PROVE  Covered(decUse(s, s.fld[x]), S \ {x}) /\ Moves(s, decUse(s, s.fld[x]), x)
<1> DEFINE t == decUse(s, s.fld[x])
<1>1. t \in CountType /\ t.fld = s.fld
  BY decUseTyped
<1>2. /\ t.uncounted = s.uncounted
      /\ \A k \in DOMAIN reses :
           /\ t.use[k] >= s.use[k] - 1
           /\ k # s.fld[x] => t.use[k] = s.use[k]
  BY decUseMoves
<1>3. /\ Moves(s, t, x) /\ S \in SUBSET Within /\ S \ {x} \in SUBSET Within
      /\ s.use \in [DOMAIN reses -> Nat] /\ t.use \in [DOMAIN reses -> Nat]
  BY <1>1, <1>2, UseOf DEF Moves
<1> HIDE DEF t
<1>4. \A k \in DOMAIN reses \ t.uncounted :
        /\ t.use[k] >= s.use[k] - 1
        /\ s.fld[x] # k => t.use[k] >= s.use[k]
  BY <1>2, <1>3
<1>5. Covered(t, S \ {x})
  BY <1>1, <1>3, <1>4, OneMoves
<1> QED  BY <1>3, <1>5 DEF t

LEMMA ReturnsCovered ==
  ASSUME ReferencesAssumption, NEW s \in CountType, NEW S \in SUBSET DOMAIN s.fld,
         Covered(s, S), NEW x \in DOMAIN s.fld \ S
  PROVE  /\ Covered(incUse(s, s.fld[x]), S \cup {x})
         /\ Moves(s, incUse(s, s.fld[x]), x)
<1> DEFINE t == incUse(s, s.fld[x])
<1>1. t \in CountType /\ t.fld = s.fld
  BY incUseTyped
<1>2. /\ s.uncounted \subseteq t.uncounted
      /\ s.fld[x] \in Id \ DOMAIN reses => s.fld[x] \in t.uncounted
      /\ \A k \in DOMAIN reses :
           t.use[k] = IF k = s.fld[x] THEN s.use[k] + 1 ELSE s.use[k]
  BY incUseMoves
<1>3. /\ Moves(s, t, x) /\ S \in SUBSET Within /\ S \cup {x} \in SUBSET Within
      /\ s.use \in [DOMAIN reses -> Nat] /\ t.use \in [DOMAIN reses -> Nat]
  BY <1>1, <1>2, UseOf DEF Moves
<1> HIDE DEF t
<1>4. \A k \in DOMAIN reses \ t.uncounted :
        /\ t.use[k] >= s.use[k]
        /\ s.fld[x] = k => t.use[k] >= s.use[k] + 1
  BY <1>2, <1>3
<1>5. Covered(t, S \cup {x})
  BY <1>1, <1>2, <1>3, <1>4, OneMoves
<1> QED  BY <1>3, <1>5 DEF t

(* A field of someone who is seen is set or reset.                         *)
LEMMA setFieldCovered ==
  ASSUME ReferencesAssumption, DOMAIN reses \subseteq Id, NEW s \in CountType,
         NEW S \in SUBSET DOMAIN s.fld, Covered(s, S), NEW x \in S, NEW v \in Field
  PROVE  Covered(setField(s, x, v), S) /\ Moves(s, setField(s, x, v), x)
<1> DEFINE set == [s EXCEPT !.fld[x] = v]
           less == decUse(set, s.fld[x])
           more == incUse(less, v)
<1>0. /\ s.use \in [DOMAIN reses -> Nat] /\ s.fld \in [DOMAIN s.fld -> Field]
      /\ S \in SUBSET Within
  BY UseOf
<1>1. /\ set \in CountType /\ set.use = s.use /\ set.uncounted = s.uncounted
      /\ DOMAIN set.fld = DOMAIN s.fld /\ set.fld[x] = v
      /\ \A y \in DOMAIN s.fld \ {x} : set.fld[y] = s.fld[y]
  BY <1>0, FldSet DEF CountType
<1>2. CASE v = s.fld[x] \/ v \notin Id
  <2> HIDE DEF set
  <2>1. Moves(s, set, x)
    BY <1>1 DEF Moves
  <2>2. \A k \in DOMAIN reses : v = k => s.fld[x] = k
    BY <1>2
  <2>3. v \notin (Id \ DOMAIN reses) \ set.uncounted
    BY <1>1, <1>2 DEF Covered
  <2>4. Covered(set, S)
    BY <1>0, <1>1, <2>1, <2>2, <2>3, OneMoves
  <2>5. setField(s, x, v) = set
    BY <1>2 DEF setField, set
  <2> QED  BY <2>1, <2>4, <2>5
<1>3. CASE v # s.fld[x] /\ v \in Id
  <2> HIDE DEF set
  <2>1. less \in CountType /\ less.fld = set.fld
    BY <1>1, decUseTyped
  <2>2. /\ less.uncounted = set.uncounted
        /\ \A k \in DOMAIN reses :
             /\ less.use[k] >= set.use[k] - 1
             /\ k # s.fld[x] => less.use[k] = set.use[k]
    BY <1>1, decUseMoves
  <2> HIDE DEF less
  <2>3. more \in CountType /\ more.fld = set.fld
    BY <2>1, incUseTyped
  <2>4. /\ less.uncounted \subseteq more.uncounted
        /\ v \in Id \ DOMAIN reses => v \in more.uncounted
        /\ \A k \in DOMAIN reses :
             more.use[k] = IF k = v THEN less.use[k] + 1 ELSE less.use[k]
    BY <2>1, incUseMoves
  <2> HIDE DEF more
  <2>5. Moves(s, more, x)
    BY <1>1, <2>2, <2>3, <2>4 DEF Moves
  <2>6. less.use \in [DOMAIN reses -> Nat] /\ more.use \in [DOMAIN reses -> Nat]
    BY <2>1, <2>3, UseOf
  <2>7. \A k \in DOMAIN reses \ more.uncounted :
          /\ more.use[k] >= s.use[k] - 1
          /\ s.fld[x] # k => more.use[k] >= s.use[k]
          /\ v = k => more.use[k] >= s.use[k] + 1
    BY <1>0, <1>1, <1>3, <2>2, <2>4, <2>6
  <2>8. v \notin (Id \ DOMAIN reses) \ more.uncounted
    BY <2>4
  <2>9. Covered(more, S)
    BY <1>0, <1>1, <1>3, <2>3, <2>5, <2>7, <2>8, OneMoves
  <2>10. setField(s, x, v) = more
    BY <1>3 DEF setField, set, less, more
  <2> QED  BY <2>5, <2>9, <2>10
<1> QED  BY <1>2, <1>3

LEMMA cleanFieldCovered ==
  ASSUME ReferencesAssumption, DOMAIN reses \subseteq Id, NEW s \in CountType,
         NEW S \in SUBSET DOMAIN s.fld, Covered(s, S), NEW x \in S
  PROVE  Covered(cleanField(s, x), S) /\ Moves(s, cleanField(s, x), x)
<1>1. Default \notin Id /\ Default \in Field
  BY DefaultField DEF ReferencesAssumption
<1>2. setField(s, x, Default) = cleanField(s, x)
  BY <1>1 DEF setField, cleanField
<1> QED  BY <1>1, <1>2, setFieldCovered

(* Something new gets its field and, as a copy, counts it.                 *)
LEMMA PutCovered ==
  ASSUME ReferencesAssumption, DOMAIN reses \subseteq Id, NEW s \in CountType,
         NEW S \in SUBSET DOMAIN s.fld, Covered(s, S),
         NEW x \in Within \ DOMAIN s.fld, NEW v \in Field
  PROVE  LET put == [s EXCEPT !.fld = Put(@, x, v)]
         IN  /\ put \in CountType /\ DOMAIN put.fld = DOMAIN s.fld \cup {x}
             /\ put.fld[x] = v /\ put.use = s.use /\ put.uncounted = s.uncounted
             /\ Covered(put, S) /\ Moves(s, put, x)
<1> DEFINE put == [s EXCEPT !.fld = Put(@, x, v)]
<1>1. put \in CountType /\ DOMAIN put.fld = DOMAIN s.fld \cup {x}
  BY FldPut DEF Within
<1>2. /\ put.fld[x] = v /\ put.use = s.use /\ put.uncounted = s.uncounted
      /\ \A y \in DOMAIN s.fld : put.fld[y] = s.fld[y]
  BY DEF CountType, Put
<1>3. S \in SUBSET Within /\ S \ {x} \subseteq S /\ s.use \in [DOMAIN reses -> Nat]
  BY UseOf
<1> HIDE DEF put
<1>4. Moves(s, put, x)
  BY <1>1, <1>2 DEF Moves
<1>5. Covered(put, S)
  BY <1>1, <1>2, <1>3, <1>4, OneMoves
<1> QED  BY <1>1, <1>2, <1>4, <1>5 DEF put

-----------------------------------------------------------------------------
(* The invariant: what is seen is counted, and what updateResId cannot reach *)
(* (a pasted renderer is in no ref_list) is known not to be.                 *)

Seen == on \cup (Renderer \cap DOMAIN fld)

CountsInv ==
  /\ Covered(Counting, Seen)
  /\ \A r \in unlisted : fld[r] \in Id => fld[r] \in uncounted

LEMMA CountingIs ==
  ASSUME FieldsOK
  PROVE  /\ Counting \in CountType /\ Counting.fld = fld /\ Counting.use = use
         /\ Counting.uncounted = uncounted
         /\ Seen \in SUBSET DOMAIN Counting.fld
         /\ DOMAIN fld \in SUBSET Within /\ fld \in [DOMAIN fld -> Field]
BY CountingTyped, UseOf DEF Counting, Seen, FieldsOK

LEMMA BecomesCovered ==
  ASSUME ReferencesAssumption, NEW s \in CountType, Becomes(s), reses' = reses,
         on' \subseteq Control \cap DOMAIN s.fld,
         unlisted' \subseteq Renderer \cap DOMAIN s.fld,
         Covered(s, on' \cup (Renderer \cap DOMAIN s.fld)),
         \A r \in unlisted' : s.fld[r] \in Id => s.fld[r] \in s.uncounted
  PROVE  CountsInv'
<1> DEFINE alive == on' \cup Renderer \cup {cmd.on : cmd \in ToSet(past') \cup ToSet(future')}
           T == on' \cup (Renderer \cap DOMAIN s.fld)
<1>1. fld' = Without(s.fld, Control \ alive) /\ use' = s.use /\ uncounted' = s.uncounted
  BY DEF Becomes
<1>2. /\ DOMAIN fld' = DOMAIN s.fld \ (Control \ alive)
      /\ \A x \in DOMAIN fld' : fld'[x] = s.fld[x]
  BY <1>1 DEF Without
<1>3. Seen' = T /\ T \subseteq DOMAIN fld'
  BY <1>2 DEF Seen, ReferencesAssumption
<1>4. \A i : Shows(Counting, Seen, i)' = Shows(s, T, i)
  BY <1>2, <1>3 DEF Shows, Counting
<1>5. Covered(Counting, Seen)'
  BY <1>1, <1>2, <1>3, <1>4 DEF Covered, Counting
<1>6. \A r \in unlisted' : fld'[r] \in Id => fld'[r] \in uncounted'
  BY <1>1, <1>2, <1>3
<1> QED  BY <1>5, <1>6 DEF CountsInv

(* A step of the form touches one control.                                 *)
LEMMA ControlCovered ==
  ASSUME ReferencesAssumption, FieldsOK, CountsInv, NEW c \in Control,
         NEW s \in CountType, DOMAIN s.fld \in {DOMAIN fld, DOMAIN fld \cup {c}},
         Moves(Counting, s, c), Becomes(s), reses' = reses, unlisted' = unlisted,
         on' \subseteq Control \cap DOMAIN s.fld,
         Covered(s, on' \cup (Renderer \cap DOMAIN fld))
  PROVE  CountsInv'
<1>1. c \notin Renderer /\ Renderer \cap DOMAIN s.fld = Renderer \cap DOMAIN fld
  BY DEF ReferencesAssumption
<1>2. \A r \in unlisted : s.fld[r] = fld[r]
  BY <1>1, CountingIs DEF Moves, FieldsOK
<1>3. uncounted \subseteq s.uncounted
  BY CountingIs DEF Moves
<1>4. unlisted' \subseteq Renderer \cap DOMAIN s.fld
  BY <1>1 DEF FieldsOK
<1>5. \A r \in unlisted' : s.fld[r] \in Id => s.fld[r] \in s.uncounted
  BY <1>2, <1>3 DEF CountsInv
<1> QED  BY <1>1, <1>4, <1>5, BecomesCovered

LEMMA deleteCovered ==
  ASSUME ReferencesAssumption, FieldsOK, CountsInv, NEW c \in on,
         Becomes(decUse(Counting, fld[c])), on' = on \ {c},
         reses' = reses, unlisted' = unlisted
  PROVE  CountsInv'
<1> DEFINE s == decUse(Counting, fld[c])
<1>1. s \in CountType /\ s.fld = fld
  BY CountingIs, decUseTyped
<1>2. c \in Control /\ c \in Seen
  BY DEF FieldsOK, Seen
<1>3. Covered(s, Seen \ {c}) /\ Moves(Counting, s, c)
  BY <1>2, CountingIs, LeavesCovered DEF CountsInv
<1>4. Seen \ {c} = on' \cup (Renderer \cap DOMAIN fld)
  BY <1>2 DEF Seen, ReferencesAssumption
<1>5. on' \subseteq Control \cap DOMAIN s.fld
  BY <1>1 DEF FieldsOK
<1> HIDE DEF s
<1>6. Becomes(s)
  BY DEF s
<1> QED  BY <1>1, <1>2, <1>3, <1>4, <1>5, <1>6, ControlCovered

LEMMA returnCovered ==
  ASSUME ReferencesAssumption, FieldsOK, CountsInv, NEW c \in Control \ on,
         c \in DOMAIN fld, Becomes(incUse(Counting, fld[c])), on' = on \cup {c},
         reses' = reses, unlisted' = unlisted
  PROVE  CountsInv'
<1> DEFINE s == incUse(Counting, fld[c])
<1>1. s \in CountType /\ s.fld = fld
  BY CountingIs, incUseTyped
<1>2. c \notin Seen
  BY DEF Seen, ReferencesAssumption
<1>3. Covered(s, Seen \cup {c}) /\ Moves(Counting, s, c)
  BY <1>2, CountingIs, ReturnsCovered DEF CountsInv
<1>4. Seen \cup {c} = on' \cup (Renderer \cap DOMAIN fld)
  BY DEF Seen
<1>5. on' \subseteq Control \cap DOMAIN s.fld
  BY <1>1 DEF FieldsOK
<1> HIDE DEF s
<1>6. Becomes(s)
  BY DEF s
<1> QED  BY <1>1, <1>3, <1>4, <1>5, <1>6, ControlCovered

LEMMA setCovered ==
  ASSUME ReferencesAssumption, FieldsOK, RegistryOK, CountsInv, NEW c \in on,
         NEW s \in CountType, DOMAIN s.fld = DOMAIN fld, Moves(Counting, s, c),
         Covered(s, Seen), Becomes(s), on' = on, reses' = reses, unlisted' = unlisted
  PROVE  CountsInv'
<1>1. c \in Control /\ on' \subseteq Control \cap DOMAIN s.fld
  BY DEF FieldsOK
<1>2. Seen = on' \cup (Renderer \cap DOMAIN fld)
  BY DEF Seen
<1> QED  BY <1>1, <1>2, ControlCovered

(* Someone more is seen, showing no image or one that is known uncounted.  *)
LEMMA UncountedCovered ==
  ASSUME ReferencesAssumption, DOMAIN reses \subseteq Id, NEW s \in CountType,
         NEW S \in SUBSET DOMAIN s.fld, Covered(s, S), NEW x \in DOMAIN s.fld,
         NEW t \in CountType, t.fld = s.fld, t.use = s.use,
         s.uncounted \subseteq t.uncounted, s.fld[x] \in Id => s.fld[x] \in t.uncounted
  PROVE  Covered(t, S \cup {x})
<1>1. /\ S \in SUBSET Within /\ S \cup {x} \in SUBSET Within
      /\ s.use \in [DOMAIN reses -> Nat]
  BY UseOf
<1>2. Moves(s, t, x)
  BY DEF Moves
<1>3. \A k \in DOMAIN reses \ t.uncounted : t.use[k] >= s.use[k] /\ t.fld[x] # k
  BY <1>1
<1> QED  BY <1>1, <1>2, <1>3, OneMoves

LEMMA MovesAgain ==
  ASSUME NEW s, NEW t, NEW u, NEW x, Moves(s, t, x), Moves(t, u, x)
  PROVE  Moves(s, u, x)
BY DEF Moves

LEMMA PutSeen ==
  ASSUME ReferencesAssumption, DOMAIN reses \subseteq Id, FieldsOK, CountsInv,
         NEW x \in Within \ DOMAIN fld, NEW v \in Field
  PROVE  LET put == [Counting EXCEPT !.fld = Put(@, x, v)]
         IN  /\ put \in CountType /\ DOMAIN put.fld = DOMAIN fld \cup {x}
             /\ put.fld[x] = v /\ put.use = use /\ put.uncounted = uncounted
             /\ Covered(put, Seen) /\ Moves(Counting, put, x)
<1>1. /\ Counting \in CountType /\ Seen \in SUBSET DOMAIN Counting.fld
      /\ Covered(Counting, Seen) /\ x \in Within \ DOMAIN Counting.fld
  BY CountingIs DEF CountsInv
<1> DEFINE s == Counting
<1> HIDE DEF s
<1>2. /\ s \in CountType /\ Seen \in SUBSET DOMAIN s.fld /\ Covered(s, Seen)
      /\ x \in Within \ DOMAIN s.fld
  BY <1>1 DEF s
<1>3. LET put == [s EXCEPT !.fld = Put(@, x, v)]
      IN  /\ put \in CountType /\ DOMAIN put.fld = DOMAIN s.fld \cup {x}
          /\ put.fld[x] = v /\ put.use = s.use /\ put.uncounted = s.uncounted
          /\ Covered(put, Seen) /\ Moves(s, put, x)
  BY <1>2, PutCovered
<1> QED  BY <1>3, CountingIs DEF s

LEMMA createCovered ==
  ASSUME ReferencesAssumption, FieldsOK, RegistryOK, CountsInv, NEW c \in Control,
         create(c)
  PROVE  CountsInv'
<1> DEFINE s == [Counting EXCEPT !.fld = Put(@, c, Default)]
<1>1. DOMAIN reses \subseteq Id /\ Default \in Field /\ Default \notin Id
  BY PartialElim, DefaultField DEF RegistryOK, ReferencesAssumption
<1>2. c \in Within \ DOMAIN fld /\ on' = on \cup {c} /\ Becomes(s)
      /\ reses' = reses /\ unlisted' = unlisted
  BY DEF create, Within, FormMarked, registry
<1>3. /\ s \in CountType /\ DOMAIN s.fld = DOMAIN fld \cup {c} /\ s.fld[c] = Default
      /\ Covered(s, Seen) /\ Moves(Counting, s, c)
  BY <1>1, <1>2, PutSeen
<1> HIDE DEF s
<1>4. Covered(s, Seen \cup {c})
  BY <1>1, <1>3, UncountedCovered, CountingIs
<1>5. Seen \cup {c} = on' \cup (Renderer \cap DOMAIN fld)
  BY <1>2 DEF Seen
<1>6. on' \subseteq Control \cap DOMAIN s.fld
  BY <1>2, <1>3 DEF FieldsOK
<1> QED  BY <1>2, <1>3, <1>4, <1>5, <1>6, ControlCovered

LEMMA pasteCovered ==
  ASSUME ReferencesAssumption, Parts, CountsInv, NEW c \in Control, paste(c),
         clip.of = "control"
  PROVE  CountsInv'
<1> DEFINE put == [Counting EXCEPT !.fld = Put(@, c, clip.val)]
           s == incUse(put, clip.val)
<1>1. DOMAIN reses \subseteq Id /\ clip.val \in Field /\ FieldsOK
  BY PartialElim DEF RegistryOK, Parts, RestOK, paste
<1>2. c \in Within \ DOMAIN fld /\ on' = on \cup {c} /\ Becomes(s)
      /\ reses' = reses /\ unlisted' = unlisted
  BY DEF paste, Within, FormMarked, registry
<1>3. /\ put \in CountType /\ DOMAIN put.fld = DOMAIN fld \cup {c}
      /\ put.fld[c] = clip.val /\ Covered(put, Seen) /\ Moves(Counting, put, c)
  BY <1>1, <1>2, PutSeen
<1>4. s \in CountType /\ s.fld = put.fld
  BY <1>3, incUseTyped
<1>5. c \notin Seen /\ Seen \in SUBSET DOMAIN put.fld
  BY <1>1, <1>2, <1>3, CountingIs
<1> HIDE DEF put
<1>6. Covered(s, Seen \cup {c}) /\ Moves(put, s, c)
  BY <1>3, <1>5, ReturnsCovered
<1> HIDE DEF s
<1>7. Moves(Counting, s, c)
  BY <1>3, <1>6, MovesAgain
<1>8. Seen \cup {c} = on' \cup (Renderer \cap DOMAIN fld)
  BY <1>2 DEF Seen
<1>9. on' \subseteq Control \cap DOMAIN s.fld
  BY <1>1, <1>2, <1>3, <1>4 DEF FieldsOK
<1> QED  BY <1>1, <1>2, <1>3, <1>4, <1>6, <1>7, <1>8, <1>9, ControlCovered

LEMMA valueCovered ==
  ASSUME ReferencesAssumption, FieldsOK, RegistryOK, CountsInv, NEW c \in on,
         NEW v \in Field, NEW s, on' = on, reses' = reses, unlisted' = unlisted,
         \/ s = setField(Counting, c, v)
         \/ s = cleanField(Counting, c)
         \/ s = cleanField(setField(Counting, c, v), c)
         \/ s = setField(setField(Counting, c, v), c, fld[c]),
         Becomes(s)
  PROVE  CountsInv'
<1> DEFINE set == setField(Counting, c, v)
<1>1. /\ DOMAIN reses \subseteq Id /\ c \in DOMAIN fld /\ c \in Seen
      /\ Covered(Counting, Seen)
  BY PartialElim DEF RegistryOK, FieldsOK, Seen, CountsInv
<1>2. /\ Counting \in CountType /\ Counting.fld = fld /\ fld[c] \in Field
      /\ Seen \in SUBSET DOMAIN fld
  BY <1>1, CountingIs
<1>3. set \in CountType /\ DOMAIN set.fld = DOMAIN fld
  BY <1>1, <1>2, setFieldTyped
<1>4. Covered(set, Seen) /\ Moves(Counting, set, c)
  BY <1>1, <1>2, setFieldCovered
<1>5. CASE s = set
  BY <1>3, <1>4, <1>5, setCovered
<1>6. CASE s = cleanField(Counting, c)
  <2>1. s \in CountType /\ DOMAIN s.fld = DOMAIN fld
    BY <1>1, <1>2, <1>6, cleanFieldTyped
  <2>2. Covered(s, Seen) /\ Moves(Counting, s, c)
    BY <1>1, <1>2, <1>6, cleanFieldCovered
  <2> QED  BY <2>1, <2>2, setCovered
<1> HIDE DEF set
<1>7. CASE s = cleanField(set, c)
  <2>1. s \in CountType /\ DOMAIN s.fld = DOMAIN fld
    BY <1>1, <1>3, <1>7, cleanFieldTyped
  <2>2. Covered(s, Seen) /\ Moves(set, s, c)
    BY <1>1, <1>2, <1>3, <1>4, <1>7, cleanFieldCovered
  <2>3. Moves(Counting, s, c)
    BY <1>4, <2>2, MovesAgain
  <2> QED  BY <2>1, <2>2, <2>3, setCovered
<1>8. CASE s = setField(set, c, fld[c])
  <2>1. s \in CountType /\ DOMAIN s.fld = DOMAIN fld
    BY <1>1, <1>2, <1>3, <1>8, setFieldTyped
  <2>2. Covered(s, Seen) /\ Moves(set, s, c)
    BY <1>1, <1>2, <1>3, <1>4, <1>8, setFieldCovered
  <2>3. Moves(Counting, s, c)
    BY <1>4, <2>2, MovesAgain
  <2> QED  BY <2>1, <2>2, <2>3, setCovered
<1> QED  BY <1>5, <1>6, <1>7, <1>8 DEF set

LEMMA executeCovered ==
  ASSUME ReferencesAssumption, FieldsOK, RegistryOK, CountsInv, NEW cmd \in CommandType,
         cmd.on \in DOMAIN fld, execute(cmd), undoRedoUpdate(cmd), Leads(cmd, on, on')
  PROVE  CountsInv'
<1>0. reses' = reses /\ unlisted' = unlisted
  BY DEF undoRedoUpdate, registry
<1>1. cmd.kind \in {"ADD", "DELETE", "SET"} /\ cmd.val \in Field /\ cmd.on \in Control
  BY DEF CommandType
<1>2. CASE cmd.kind = "ADD"
  <2>1. cmd.on \in on /\ on' = on \ {cmd.on} /\ Becomes(decUse(Counting, fld[cmd.on]))
    BY <1>2 DEF Leads, execute
  <2> QED  BY <1>0, <2>1, deleteCovered
<1>3. CASE cmd.kind = "DELETE"
  <2>1. cmd.on \notin on /\ on' = on \cup {cmd.on} /\ Becomes(incUse(Counting, fld[cmd.on]))
    BY <1>3 DEF Leads, execute
  <2> QED  BY <1>0, <1>1, <2>1, returnCovered
<1>4. CASE cmd.kind = "SET" /\ cmd.val = Default
  <2>1. cmd.on \in on /\ on' = on /\ Becomes(cleanField(Counting, cmd.on))
    BY <1>4 DEF Leads, execute
  <2> QED  BY <1>0, <1>1, <2>1, valueCovered
<1>5. CASE cmd.kind = "SET" /\ cmd.val # Default
  <2>1. cmd.on \in on /\ on' = on /\ Becomes(setField(Counting, cmd.on, cmd.val))
    BY <1>5 DEF Leads, execute
  <2> QED  BY <1>0, <1>1, <2>1, valueCovered
<1> QED  BY <1>1, <1>2, <1>3, <1>4, <1>5

-----------------------------------------------------------------------------
(* The steps of the form. *)

LEMMA LegalStays ==
  ASSUME Legal, UNCHANGED <<on, past, future>>
  PROVE  Legal'
BY DEF Legal, PastLegal, FutureLegal

LEMMA PushLegal ==
  ASSUME Legal, TypeOK, TypeOK', NEW kind \in {"ADD", "DELETE", "SET"},
         NEW c \in Control, NEW v \in Field, push(kind, c, v),
         \/ kind = "ADD" /\ c \notin on /\ on' = on \cup {c}
         \/ kind = "DELETE" /\ c \in on /\ on' = on \ {c}
         \/ kind = "SET" /\ c \in on /\ on' = on
  PROVE  Legal'
<1> DEFINE cmd == [kind |-> kind, on |-> c, val |-> v]
<1>1. /\ cmd \in CommandType /\ past' = Append(past, cmd) /\ future' = << >>
      /\ on' \subseteq Control
  BY DEF CommandType, push, TypeOK
<1>2. Leads(cmd, on', on)
  BY DEF Leads
<1> HIDE DEF cmd
<1>3. PastLegal'
  BY <1>1, <1>2, LegalPush
<1>4. FutureLegal'
  BY <1>1, NoFuture
<1> QED  BY <1>3, <1>4 DEF Legal

LEMMA undoLegal ==
  ASSUME Legal, TypeOK, TypeOK', undo
  PROVE  Legal' /\ Last(past) \in CommandType /\ Last(past).on \in DOMAIN fld
         /\ Leads(Last(past), on, on')
<1> DEFINE cmd == Last(past)
<1>1. past \in Seq(CommandType) /\ past # << >> /\ FieldsOK
  BY DEF TypeOK, FieldsOK, undo
<1>2. cmd \in CommandType /\ cmd \in ToSet(past)
  BY <1>1, EmptySeq, LenProperties DEF Last, ToSet
<1>3. cmd.on \in DOMAIN fld
  BY <1>2 DEF TypeOK
<1>4. Reversed(cmd) \in CommandType
  BY <1>1, <1>2, <1>3, ReversedTyped
<1> HIDE DEF cmd
<1>5. /\ past' = Front(past) /\ future' = <<Reversed(cmd)>> \o future /\ past # << >>
      /\ on' = IF cmd.kind = "ADD" THEN on \ {cmd.on}
               ELSE IF cmd.kind = "DELETE" THEN on \cup {cmd.on} ELSE on
  BY DEF undo, execute, cmd
<1>6. \A S \in SUBSET Control :
        Leads(cmd, on, S) => on' = S /\ Leads(Reversed(cmd), on', on)
  BY <1>2, <1>5, ExecuteLeads
<1>7. Legal' /\ Leads(cmd, on, on')
  BY <1>4, <1>5, <1>6, LegalUndo DEF cmd
<1> QED  BY <1>2, <1>3, <1>7 DEF cmd

LEMMA redoLegal ==
  ASSUME Legal, TypeOK, TypeOK', redo
  PROVE  Legal' /\ Head(future) \in CommandType /\ Head(future).on \in DOMAIN fld
         /\ Leads(Head(future), on, on')
<1> DEFINE cmd == Head(future)
<1>1. future \in Seq(CommandType) /\ future # << >> /\ FieldsOK
  BY DEF TypeOK, FieldsOK, redo
<1>2. cmd \in CommandType /\ cmd \in ToSet(future)
  BY <1>1, EmptySeq, LenProperties, HeadTailProperties DEF ToSet
<1>3. cmd.on \in DOMAIN fld
  BY <1>2 DEF TypeOK
<1>4. Reversed(cmd) \in CommandType
  BY <1>1, <1>2, <1>3, ReversedTyped
<1> HIDE DEF cmd
<1>5. /\ past' = Append(past, Reversed(cmd)) /\ future' = Tail(future) /\ future # << >>
      /\ on' = IF cmd.kind = "ADD" THEN on \ {cmd.on}
               ELSE IF cmd.kind = "DELETE" THEN on \cup {cmd.on} ELSE on
  BY DEF redo, execute, cmd
<1>6. \A S \in SUBSET Control :
        Leads(cmd, on, S) => on' = S /\ Leads(Reversed(cmd), on', on)
  BY <1>2, <1>5, ExecuteLeads
<1>7. Legal' /\ Leads(cmd, on, on')
  BY <1>4, <1>5, <1>6, LegalRedo DEF cmd
<1> QED  BY <1>2, <1>3, <1>7 DEF cmd

LEMMA CountsStay ==
  ASSUME CountsInv, UNCHANGED <<reses, counting, on, unlisted>>
  PROVE  CountsInv'
BY DEF CountsInv, Covered, Shows, Counting, Seen, counting

LEMMA FormCounts ==
  ASSUME ReferencesAssumption, TypeOK, TypeOK', Legal, CountsInv, FormStep
  PROVE  Legal' /\ CountsInv'
<1>0. /\ Parts /\ RegistryOK /\ FieldsOK /\ on \subseteq Control \cap DOMAIN fld
      /\ (FormMarked => reses' = reses /\ unlisted' = unlisted)
  BY TypeParts DEF Parts, FieldsOK, FormMarked, registry
<1>1. CASE undo
  <2>1. /\ Legal' /\ Last(past) \in CommandType /\ Last(past).on \in DOMAIN fld
        /\ Leads(Last(past), on, on')
    BY <1>1, undoLegal
  <2> QED  BY <1>0, <1>1, <2>1, executeCovered DEF undo
<1>2. CASE redo
  <2>1. /\ Legal' /\ Head(future) \in CommandType /\ Head(future).on \in DOMAIN fld
        /\ Leads(Head(future), on, on')
    BY <1>2, redoLegal
  <2> QED  BY <1>0, <1>2, <2>1, executeCovered DEF redo
<1>3. ASSUME NEW c \in Control, create(c)
      PROVE  Legal' /\ CountsInv'
  <2>1. Legal'
    BY <1>0, <1>3, PushLegal, DefaultField DEF create
  <2> QED  BY <1>0, <1>3, <2>1, createCovered
<1>4. ASSUME NEW c \in Control, deleteSelectedInstance(c)
      PROVE  Legal' /\ CountsInv'
  <2>1. Legal'
    BY <1>0, <1>4, PushLegal, DefaultField DEF deleteSelectedInstance
  <2>2. CountsInv'
    BY <1>0, <1>4, deleteCovered DEF deleteSelectedInstance
  <2> QED  BY <2>1, <2>2
<1>5. ASSUME NEW c \in Control, copy(c)
      PROVE  Legal' /\ CountsInv'
  BY <1>5, LegalStays, CountsStay DEF copy, registry, history
<1>6. ASSUME NEW c \in Control, paste(c)
      PROVE  Legal' /\ CountsInv'
  <2>1. CASE clip.of = "control" /\ ~ (UNCHANGED <<counting, on, history>>)
    <3>1. push("ADD", c, Default) /\ on' = on \cup {c} /\ c \notin on
      BY <1>0, <1>6, <2>1 DEF paste
    <3>2. Legal'
      BY <3>1, PushLegal, DefaultField
    <3> QED  BY <1>0, <1>6, <2>1, <3>2, pasteCovered
  <2>2. CASE UNCHANGED <<counting, on, history>>
    BY <1>0, <1>6, <2>2, LegalStays, CountsStay DEF paste, history
  <2>3. clip.of = "control" \/ UNCHANGED <<counting, on, history>>
    BY <1>6 DEF paste
  <2> QED  BY <2>1, <2>2, <2>3
<1>7. ASSUME NEW c \in Control, setDefValue(c)
      PROVE  Legal' /\ CountsInv'
  <2>1. c \in on /\ fld[c] \in Field
    BY <1>0, <1>7, FieldOf DEF setDefValue
  <2>2. Legal'
    BY <1>7, <2>1, PushLegal, DefaultField DEF setDefValue
  <2>3. CountsInv'
    BY <1>0, <1>7, <2>1, valueCovered, DefaultField DEF setDefValue
  <2> QED  BY <2>2, <2>3
<1>8. ASSUME NEW c \in Control, NEW v \in Id \cup {NoImage}, setImage(c, v)
      PROVE  Legal' /\ CountsInv'
  <2>1. c \in on /\ fld[c] \in Field /\ v \in Field
    BY <1>0, <1>8, FieldOf, DefaultField DEF setImage
  <2>2. Legal'
    BY <1>8, <2>1, PushLegal DEF setImage
  <2>3. CountsInv'
    BY <1>0, <1>8, <2>1, valueCovered DEF setImage
  <2> QED  BY <2>2, <2>3
<1>9. ASSUME NEW c \in Control, NEW v \in Id \cup {NoImage}, refuseImage(c, v)
      PROVE  Legal' /\ CountsInv'
  <2>1. c \in on /\ v \in Field /\ UNCHANGED <<reses, on, unlisted, past, future>>
    BY <1>9, DefaultField DEF refuseImage, registry, history
  <2> DEFINE set == setField(Counting, c, v)
             s == IF fld[c] = Default THEN cleanField(set, c)
                  ELSE setField(set, c, fld[c])
  <2>2. Becomes(s)
    BY <1>9 DEF refuseImage
  <2>3. s = cleanField(set, c) \/ s = setField(set, c, fld[c])
    OBVIOUS
  <2> HIDE DEF s
  <2>4. CountsInv'
    BY <1>0, <2>1, <2>2, <2>3, valueCovered
  <2> QED  BY <2>1, <2>4, LegalStays
<1> QED  BY <1>1, <1>2, <1>3, <1>4, <1>5, <1>6, <1>7, <1>8, <1>9 DEF FormStep

-----------------------------------------------------------------------------
(* The renderers. *)

LEMMA RdrCovered ==
  ASSUME NEW t, t.fld = fld', t.use = use', t.uncounted = uncounted',
         reses' = reses, Covered(t, Seen')
  PROVE  Covered(Counting, Seen)'
<1>1. \A i : Shows(Counting, Seen, i)' = Shows(t, Seen', i)
  BY DEF Shows, Counting
<1> QED  BY <1>1 DEF Covered, Counting

LEMMA RdrValueCounts ==
  ASSUME ReferencesAssumption, FieldsOK, CountsInv, NEW r \in Renderer,
         r \in DOMAIN fld, NEW s \in CountType, DOMAIN s.fld = DOMAIN fld,
         Covered(s, Seen), Moves(Counting, s, r), Becomes(s),
         on' = on, reses' = reses, unlisted' = unlisted \ {r}
  PROVE  CountsInv'
<1>1. Seen = on' \cup (Renderer \cap DOMAIN s.fld) /\ on' \subseteq Control \cap DOMAIN s.fld
  BY DEF Seen, FieldsOK
<1>2. \A q \in unlisted' : s.fld[q] = fld[q]
  BY CountingIs DEF Moves, FieldsOK
<1>3. uncounted \subseteq s.uncounted
  BY CountingIs DEF Moves
<1>4. unlisted' \subseteq Renderer \cap DOMAIN s.fld
  BY DEF FieldsOK
<1>5. \A q \in unlisted' : s.fld[q] \in Id => s.fld[q] \in s.uncounted
  BY <1>2, <1>3 DEF CountsInv
<1> QED  BY <1>1, <1>4, <1>5, BecomesCovered

(* A renderer comes, with a value that is known uncounted if it is an image. *)
LEMMA RdrComes ==
  ASSUME ReferencesAssumption, FieldsOK, RegistryOK, CountsInv, NEW r \in Renderer,
         r \notin DOMAIN fld, NEW v \in Field, fld' = Put(fld, r, v), use' = use,
         uncounted \subseteq uncounted', uncounted' \subseteq Id,
         v \in Id => v \in uncounted', on' = on, reses' = reses,
         unlisted' \subseteq unlisted \cup {r}
  PROVE  CountsInv'
<1> DEFINE put == [Counting EXCEPT !.fld = Put(@, r, v)]
           t == [put EXCEPT !.uncounted = uncounted']
<1>1. DOMAIN reses \subseteq Id /\ r \in Within \ DOMAIN fld
  BY PartialElim DEF RegistryOK, Within
<1>2. /\ put \in CountType /\ DOMAIN put.fld = DOMAIN fld \cup {r}
      /\ put.fld[r] = v /\ put.use = use /\ put.uncounted = uncounted
      /\ Covered(put, Seen)
  BY <1>1, PutSeen
<1>3. put.fld = fld'
  BY DEF Counting
<1> HIDE DEF put
<1>4. t \in CountType /\ t.fld = put.fld /\ t.use = put.use /\ t.uncounted = uncounted'
  BY <1>2 DEF CountType
<1> HIDE DEF t
<1>5. Covered(t, Seen \cup {r})
  BY <1>1, <1>2, <1>4, UncountedCovered, CountingIs
<1>6. Seen' = Seen \cup {r}
  BY <1>2, <1>3 DEF Seen
<1>7. Covered(Counting, Seen)'
  BY <1>2, <1>3, <1>4, <1>5, <1>6, RdrCovered
<1>8. \A q \in unlisted' : fld'[q] \in Id => fld'[q] \in uncounted'
  BY DEF Put, CountsInv, FieldsOK
<1> QED  BY <1>7, <1>8 DEF CountsInv

LEMMA RdrGoes ==
  ASSUME ReferencesAssumption, FieldsOK, CountsInv, NEW r \in Renderer,
         fld' = Without(fld, {r}), use' = use, uncounted' = uncounted, on' = on,
         reses' = reses, unlisted' = unlisted \ {r}
  PROVE  CountsInv'
<1> DEFINE t == [Counting EXCEPT !.fld = Without(@, {r})]
<1>1. /\ t.fld = fld' /\ t.use = use /\ t.uncounted = uncounted
      /\ DOMAIN fld' = DOMAIN fld \ {r}
      /\ \A x \in DOMAIN fld' : fld'[x] = fld[x]
  BY DEF Counting, Without
<1>2. t \in CountType
  BY WithoutTyped DEF Counting, CountType, FieldsOK
<1> HIDE DEF t
<1>3. /\ Seen' = Seen \ {r} /\ Seen \in SUBSET Within /\ use \in [DOMAIN reses -> Nat]
      /\ Counting \in CountType /\ Counting.use = use /\ Counting.fld = fld
      /\ Seen \subseteq DOMAIN fld /\ Covered(Counting, Seen)
  BY <1>1, CountingIs DEF Seen, FieldsOK, ReferencesAssumption, CountsInv
<1>4. Moves(Counting, t, r)
  BY <1>1, CountingIs DEF Moves
<1>5. \A k \in DOMAIN reses : t.use[k] >= Counting.use[k] - 1 /\ t.use[k] >= Counting.use[k]
  BY <1>1, <1>3
<1>6. Covered(t, Seen \ {r})
  BY <1>2, <1>3, <1>4, <1>5, OneMoves
<1>7. Covered(Counting, Seen)'
  BY <1>1, <1>3, <1>6, RdrCovered
<1>8. \A q \in unlisted' : fld'[q] \in Id => fld'[q] \in uncounted'
  BY <1>1 DEF CountsInv, FieldsOK
<1> QED  BY <1>7, <1>8 DEF CountsInv

LEMMA RendererCounts ==
  ASSUME ReferencesAssumption, TypeOK, Legal, CountsInv, RendererStep
  PROVE  Legal' /\ CountsInv'
<1>0. FieldsOK /\ RegistryOK /\ DOMAIN reses \subseteq Id /\ uncounted \subseteq Id
  BY TypeParts, PartialElim DEF RegistryOK, FieldsOK
<1> SUFFICES ASSUME NEW r \in Renderer,
                    \/ newRdr(r) \/ clearRdr(r) \/ deleteRdr(r) \/ copyRdr(r)
                    \/ pasteRdr(r) \/ \E v \in Id \cup {NoImage} : setRdr(r, v)
             PROVE  Legal' /\ CountsInv'
  BY DEF RendererStep
<1>1. UNCHANGED <<reses, on, past, future>>
  BY DEF newRdr, clearRdr, deleteRdr, copyRdr, pasteRdr, setRdr, RdrStep, registry, history
<1>2. Legal'
  BY <1>1, LegalStays
<1>3. CASE newRdr(r)
  <2>1. Default \in Field /\ Default \notin Id
    BY DefaultField DEF ReferencesAssumption
  <2> QED  BY <1>0, <1>1, <1>2, <1>3, <2>1, RdrComes DEF newRdr
<1>4. CASE deleteRdr(r)
  BY <1>0, <1>1, <1>2, <1>4, RdrGoes DEF deleteRdr
<1>5. CASE pasteRdr(r)
  <2>1. clip.val \in Field
    BY <1>5 DEF pasteRdr, TypeOK
  <2> QED  BY <1>0, <1>1, <1>2, <1>5, <2>1, RdrComes DEF pasteRdr
<1>6. CASE copyRdr(r)
  BY <1>1, <1>2, <1>6, CountsStay DEF copyRdr
<1>7. CASE clearRdr(r)
  <2>1. r \in DOMAIN fld /\ r \in Seen /\ Covered(Counting, Seen)
    BY <1>7 DEF clearRdr, Seen, CountsInv
  <2>2. /\ cleanField(Counting, r) \in CountType
        /\ DOMAIN cleanField(Counting, r).fld = DOMAIN fld
    BY <1>0, <2>1, CountingIs, cleanFieldTyped
  <2>3. /\ Covered(cleanField(Counting, r), Seen)
        /\ Moves(Counting, cleanField(Counting, r), r)
    BY <1>0, <2>1, CountingIs, cleanFieldCovered
  <2> QED  BY <1>0, <1>1, <1>2, <1>7, <2>1, <2>2, <2>3, RdrValueCounts DEF clearRdr
<1>8. ASSUME NEW v \in Id \cup {NoImage}, setRdr(r, v)
      PROVE  CountsInv'
  <2>1. r \in DOMAIN fld /\ r \in Seen /\ Covered(Counting, Seen) /\ v \in Field
    BY <1>8, DefaultField DEF setRdr, Seen, CountsInv
  <2>2. /\ setField(Counting, r, v) \in CountType
        /\ DOMAIN setField(Counting, r, v).fld = DOMAIN fld
    BY <1>0, <2>1, CountingIs, setFieldTyped
  <2>3. /\ Covered(setField(Counting, r, v), Seen)
        /\ Moves(Counting, setField(Counting, r, v), r)
    BY <1>0, <2>1, CountingIs, setFieldCovered
  <2> QED  BY <1>0, <1>1, <1>8, <2>1, <2>2, <2>3, RdrValueCounts DEF setRdr
<1> QED  BY <1>2, <1>3, <1>4, <1>5, <1>6, <1>7, <1>8

-----------------------------------------------------------------------------
(* The image editor, saving and starting. *)

(* The invariant in terms of the variables.                                *)
LEMMA CountsAre ==
  CountsInv <=>
    /\ \A i \in DOMAIN reses \ uncounted : Cardinality({x \in Seen : fld[x] = i}) <= use[i]
    /\ \A x \in Seen : fld[x] \in Id \ DOMAIN reses => fld[x] \in uncounted
    /\ \A r \in unlisted : fld[r] \in Id => fld[r] \in uncounted
BY DEF CountsInv, Covered, Shows, Counting

LEMMA SeenFinite ==
  ASSUME ReferencesAssumption, FieldsOK, NEW T \in SUBSET Seen
  PROVE  IsFiniteSet(T) /\ Cardinality(T) \in Nat
<1>1. IsFiniteSet(Within) /\ T \in SUBSET Within
  BY FS_Union, CountingIs DEF ReferencesAssumption, Within
<1> QED  BY <1>1, FS_Subset, FS_CardinalityType

LEMMA NobodyShows ==
  ASSUME ReferencesAssumption, FieldsOK, CountsInv,
         NEW i \in DOMAIN reses \ uncounted, use[i] = 0
  PROVE  \A x \in Seen : fld[x] # i
<1> DEFINE A == {x \in Seen : fld[x] = i}
<1>1. IsFiniteSet(A) /\ Cardinality(A) \in Nat
  BY SeenFinite
<1>2. Cardinality(A) <= 0
  BY CountsAre
<1>3. Cardinality(A) = 0
  BY <1>1, <1>2
<1>4. A = {}
  BY <1>1, <1>3, FS_EmptySet
<1> QED  BY <1>4

LEMMA importCounts ==
  ASSUME ReferencesAssumption, FieldsOK, CountsInv, NEW i \in Id, NEW a, import(a, i)
  PROVE  CountsInv'
<1>1. /\ i \notin DOMAIN reses /\ DOMAIN reses' = DOMAIN reses \cup {i}
      /\ use \in [DOMAIN reses -> Nat]
      /\ UNCHANGED <<fld, uncounted, unlisted, on>>
  BY DEF import, ImageStep, Put, FieldsOK
<1>2. use'[i] = 0 /\ \A k \in DOMAIN reses : use'[k] = use[k]
  BY <1>1 DEF import, Put
<1>3. Seen' = Seen
  BY <1>1 DEF Seen
<1>4. ASSUME NEW k \in DOMAIN reses' \ uncounted'
      PROVE  Cardinality({x \in Seen' : fld'[x] = k}) <= use'[k]
  <2>1. CASE k = i
    <3>1. {x \in Seen' : fld'[x] = k} = {}
      BY <1>1, <1>3, <1>4, <2>1, CountsAre
    <3> QED  BY <1>2, <2>1, <3>1, FS_EmptySet
  <2>2. CASE k # i
    BY <1>1, <1>2, <1>3, <1>4, <2>2, CountsAre
  <2> QED  BY <2>1, <2>2
<1>5. \A x \in Seen' : fld'[x] \in Id \ DOMAIN reses' => fld'[x] \in uncounted'
  BY <1>1, <1>3, CountsAre
<1>6. \A r \in unlisted' : fld'[r] \in Id => fld'[r] \in uncounted'
  BY <1>1, CountsAre
<1> QED  BY <1>3, <1>4, <1>5, <1>6 DEF CountsInv, Covered, Shows, Counting

LEMMA setResIdCounts ==
  ASSUME ReferencesAssumption, FieldsOK, CountsInv, NEW i \in Id, NEW j \in Id,
         setResId(i, j)
  PROVE  CountsInv'
<1>1. /\ i \in DOMAIN reses /\ j \notin DOMAIN reses /\ i # j
      /\ DOMAIN reses' = (DOMAIN reses \cup {j}) \ {i}
      /\ use \in [DOMAIN reses -> Nat] /\ DOMAIN fld' = DOMAIN fld
      /\ UNCHANGED <<unlisted, on>>
  BY DEF setResId, ImageStep, Put, Without, FieldsOK
<1>2. use'[j] = use[i] /\ \A k \in DOMAIN reses \ {i} : use'[k] = use[k]
  BY <1>1 DEF setResId, Put, Without
<1>3. Seen' = Seen /\ Seen \subseteq DOMAIN fld
  BY <1>1 DEF Seen, FieldsOK
<1>4. /\ uncounted \subseteq uncounted'
      /\ i \in uncounted => j \in uncounted'
  BY DEF setResId
<1>5. \A x \in DOMAIN fld : fld'[x] = fld[x] \/ (fld[x] = i /\ fld'[x] = j)
  BY DEF setResId
<1>6. \A x \in Seen : fld'[x] = i => x \in unlisted
  BY <1>1, <1>3 DEF setResId, Told, Seen
<1>7. ASSUME NEW k \in DOMAIN reses' \ uncounted'
      PROVE  Cardinality({x \in Seen' : fld'[x] = k}) <= use'[k]
  <2> DEFINE B == {x \in Seen' : fld'[x] = k}
             h == IF k = j THEN i ELSE k
             A == {x \in Seen : fld[x] = h}
  <2>1. h \in DOMAIN reses \ uncounted /\ use'[k] = use[h]
    BY <1>1, <1>2, <1>4, <1>7
  <2>2. B \subseteq A
    <3>1. SUFFICES ASSUME NEW x \in Seen, fld'[x] = k
                   PROVE  fld[x] = h
      BY <1>3
    <3>2. x \in DOMAIN fld /\ k # i
      BY <1>1, <1>3, <1>7
    <3>3. fld[x] = j => j \in uncounted
      BY <1>1, CountsAre
    <3> QED  BY <1>4, <1>5, <1>7, <3>1, <3>2, <3>3
  <2>3. /\ IsFiniteSet(A) /\ Cardinality(A) \in Nat
        /\ IsFiniteSet(B) /\ Cardinality(B) \in Nat
    BY <1>3, SeenFinite
  <2>4. Cardinality(A) <= use[h]
    BY <2>1, CountsAre
  <2>5. use[h] \in Nat
    BY <1>1, <2>1
  <2> HIDE DEF A, B, h
  <2>6. Cardinality(B) <= Cardinality(A)
    BY <2>2, <2>3, FS_Subset
  <2>7. Cardinality(B) <= use'[k]
    BY <2>1, <2>3, <2>4, <2>5, <2>6
  <2> QED  BY <2>7 DEF B
<1>8. ASSUME NEW x \in Seen', fld'[x] \in Id \ DOMAIN reses'
      PROVE  fld'[x] \in uncounted'
  <2>1. x \in Seen /\ x \in DOMAIN fld
    BY <1>3
  <2>2. CASE fld'[x] = i
    BY <1>1, <1>4, <1>5, <1>6, <2>1, <2>2, CountsAre
  <2>3. CASE fld'[x] # i
    BY <1>1, <1>4, <1>5, <1>8, <2>1, <2>3, CountsAre
  <2> QED  BY <2>2, <2>3
<1>9. ASSUME NEW r \in unlisted'
      PROVE  fld'[r] \in Id => fld'[r] \in uncounted'
  <2>1. r \in unlisted /\ r \in Renderer /\ r \in DOMAIN fld /\ r \notin on
    BY <1>1 DEF FieldsOK, ReferencesAssumption
  <2>2. fld'[r] = fld[r]
    BY <2>1 DEF setResId, Told
  <2> QED  BY <1>4, <2>1, <2>2, CountsAre
<1> QED  BY <1>7, <1>8, <1>9 DEF CountsInv, Covered, Shows, Counting

LEMMA removeResCounts ==
  ASSUME ReferencesAssumption, FieldsOK, RegistryOK, CountsInv, NEW i \in Id,
         removeRes(i)
  PROVE  CountsInv'
<1>1. /\ i \in DOMAIN reses /\ use[i] = 0 /\ DOMAIN reses' = DOMAIN reses \ {i}
      /\ DOMAIN fld' = DOMAIN fld /\ UNCHANGED <<unlisted, on, uncounted>>
      /\ \A k \in DOMAIN reses \ {i} : use'[k] = use[k]
  BY DEF removeRes, ImageStep, Without, FieldsOK
<1>2. Seen' = Seen /\ Seen \subseteq DOMAIN fld
  BY <1>1 DEF Seen, FieldsOK
<1>3. Default \notin Id /\ DOMAIN reses \subseteq Id
  BY PartialElim DEF ReferencesAssumption, RegistryOK
<1>4. \A x \in DOMAIN fld : fld'[x] = fld[x] \/ (fld[x] = i /\ fld'[x] = Default)
  BY DEF removeRes
<1>5. i \in uncounted \/ \A x \in Seen : fld[x] # i
  BY <1>1, NobodyShows
<1>6. ASSUME NEW k \in DOMAIN reses' \ uncounted'
      PROVE  Cardinality({x \in Seen' : fld'[x] = k}) <= use'[k]
  <2>1. {x \in Seen' : fld'[x] = k} = {x \in Seen : fld[x] = k}
    BY <1>1, <1>2, <1>3, <1>4, <1>6
  <2> QED  BY <1>1, <1>6, <2>1, CountsAre
<1>7. ASSUME NEW x \in Seen', fld'[x] \in Id \ DOMAIN reses'
      PROVE  fld'[x] \in uncounted'
  <2>1. x \in Seen /\ x \in DOMAIN fld /\ fld'[x] = fld[x]
    BY <1>2, <1>3, <1>4, <1>7
  <2> QED  BY <1>1, <1>5, <1>7, <2>1, CountsAre
<1>8. ASSUME NEW r \in unlisted'
      PROVE  fld'[r] \in Id => fld'[r] \in uncounted'
  <2>1. r \in DOMAIN fld /\ r \in unlisted
    BY <1>1 DEF FieldsOK
  <2> QED  BY <1>1, <1>3, <1>4, <2>1, CountsAre
<1> QED  BY <1>6, <1>7, <1>8 DEF CountsInv, Covered, Shows, Counting

(* What the files show is counted for the forms, and known uncounted for   *)
(* the renderers.                                                          *)
SeenIn(d) == DOMAIN d.form \cup (Renderer \cap DOMAIN Shown(d))

LEMMA LoadCovered ==
  ASSUME ReferencesAssumption, NEW d \in Files
  PROVE  /\ \A i \in DOMAIN d.ids \ Uncounted(d) :
              Cardinality({x \in SeenIn(d) : Shown(d)[x] = i}) <= Counted(d)[i]
         /\ \A x \in SeenIn(d) :
              Shown(d)[x] \in Id \ DOMAIN d.ids => Shown(d)[x] \in Uncounted(d)
<1>1. /\ DOMAIN d.ids \subseteq Id /\ Counted(d) \in [DOMAIN d.ids -> Nat]
      /\ DOMAIN d.form \subseteq Control
  BY LoadTyped
<1>2. \A x \in SeenIn(d) :
        \/ x \in DOMAIN d.form /\ Shown(d)[x] = d.form[x].val
        \/ x \in DOMAIN d.rdr /\ Shown(d)[x] = d.rdr[x]
           /\ (d.rdr[x] \in Id => d.rdr[x] \in Uncounted(d))
  BY <1>1 DEF SeenIn, Shown, Uncounted, ReferencesAssumption
<1>3. ASSUME NEW i \in DOMAIN d.ids \ Uncounted(d)
      PROVE  Cardinality({x \in SeenIn(d) : Shown(d)[x] = i}) <= Counted(d)[i]
  <2> DEFINE A == {x \in SeenIn(d) : Shown(d)[x] = i}
             B == {c \in DOMAIN d.form : d.form[c].val = i}
  <2>1. A = B
    BY <1>1, <1>2, <1>3 DEF SeenIn, Shown
  <2>2. Counted(d)[i] = Cardinality(B) /\ Counted(d)[i] \in Nat
    BY <1>1 DEF Counted
  <2> HIDE DEF A, B
  <2>3. Cardinality(A) <= Counted(d)[i]
    BY <2>1, <2>2
  <2> QED  BY <2>3 DEF A
<1>4. ASSUME NEW x \in SeenIn(d), Shown(d)[x] \in Id \ DOMAIN d.ids
      PROVE  Shown(d)[x] \in Uncounted(d)
  BY <1>2, <1>4 DEF Uncounted
<1> QED  BY <1>3, <1>4

LEMMA NoHistory ==
  ASSUME past = << >>, future = << >>, on \subseteq Control
  PROVE  Legal
<1> DEFINE g == [k \in 0 .. 0 |-> on]
<1>1. Len(past) = 0 /\ Len(future) = 0 /\ 1 .. 0 = {}
      /\ g \in [0 .. 0 -> SUBSET Control] /\ g[0] = on
  BY EmptySeq
<1> QED  BY <1>1 DEF Legal, PastLegal, FutureLegal

LEMMA InitCounts ==
  ASSUME ReferencesAssumption, Init
  PROVE  Legal /\ CountsInv
<1>1. disk \in Files /\ unlisted = {} /\ Seen = SeenIn(disk)
  BY DEF Init, ReferencesAssumption, Seen, SeenIn
<1>2. CountsInv
  BY <1>1, LoadCovered DEF Init, CountsInv, Covered, Shows, Counting
<1>3. Legal
  BY <1>1, LoadTyped, NoHistory DEF Init
<1> QED  BY <1>2, <1>3

LEMMA RestartCounts ==
  ASSUME ReferencesAssumption, TypeOK, Restart
  PROVE  Legal' /\ CountsInv'
<1>1. disk \in Files /\ unlisted' = {} /\ Seen' = SeenIn(disk)
  BY DEF Restart, Load, TypeOK, Seen, SeenIn
<1>2. CountsInv'
  BY <1>1, LoadCovered DEF Restart, Load, CountsInv, Covered, Shows, Counting
<1>3. on' \subseteq Control /\ past' = << >> /\ future' = << >>
  BY <1>1, LoadTyped DEF Restart, Load
<1>4. PastLegal'
  <2> DEFINE g == [k \in 0 .. 0 |-> on']
  <2>1. Len(past') = 0 /\ 1 .. 0 = {} /\ g \in [0 .. 0 -> SUBSET Control] /\ g[0] = on'
    BY <1>3, EmptySeq
  <2> QED  BY <2>1 DEF PastLegal
<1>5. FutureLegal'
  BY <1>3, NoFuture
<1> QED  BY <1>2, <1>4, <1>5 DEF Legal

-----------------------------------------------------------------------------
(* Theorems. *)

LEMMA RegistryCounts ==
  ASSUME ReferencesAssumption, TypeOK, Legal, CountsInv, RegistryStep
  PROVE  Legal' /\ CountsInv'
<1>0. FieldsOK /\ RegistryOK
  BY TypeParts
<1>1. UNCHANGED <<on, past, future>>
  BY DEF RegistryStep, importAgain, removeRes, import, setResId, ImageStep, history
<1>2. Legal'
  BY <1>1, LegalStays
<1>3. ASSUME NEW i \in Id, importAgain(i)
      PROVE  CountsInv'
  BY <1>1, <1>3, CountsStay DEF importAgain
<1> QED  BY <1>0, <1>2, <1>3, importCounts, setResIdCounts, removeResCounts DEF RegistryStep

LEMMA NextCounts ==
  ASSUME ReferencesAssumption, TypeOK, TypeOK', Legal, CountsInv, [Next]_vars
  PROVE  Legal' /\ CountsInv'
<1>1. CASE FormStep \/ RendererStep \/ RegistryStep
  BY <1>1, FormCounts, RendererCounts, RegistryCounts
<1>2. CASE Restart
  BY <1>2, RestartCounts
<1>3. CASE Save \/ UNCHANGED vars
  BY <1>3, LegalStays, CountsStay DEF Save, vars, registry, counting, history
<1> QED  BY <1>1, <1>2, <1>3 DEF Next, Edit

(* The inductive invariant: types, a history that can be executed, counts   *)
(* that cover and ids known to be counted by nobody (setField, execute,     *)
(* setResId, loadProject).                                                  *)
THEOREM CountsInductive == Spec => [](TypeOK /\ Legal /\ CountsInv)
<1>1. Init => TypeOK /\ Legal /\ CountsInv
  BY ReferencesAssumption, InitTyped, InitCounts
<1>2. TypeOK /\ Legal /\ CountsInv /\ [Next]_vars => (TypeOK /\ Legal /\ CountsInv)'
  BY ReferencesAssumption, NextTyped, NextCounts
<1> QED  BY <1>1, <1>2, PTL DEF Spec

(* The count of an image is at least the number of those that show it,     *)
(* through setField, undo, redo, renumbering and restarts                  *)
(* (Instance::setField, UndoRedoCommand::execute, ImageEditor::setResId):  *)
(* the history must be legal, or an undo could lower the count for a       *)
(* control that is not on the form.                                        *)
THEOREM CountsCorrect == Spec => []CountsCover
<1>1. CountsInv => CountsCover
  BY DEF CountsInv, Covered, Shows, Counting, Seen, CountsCover, Showing
<1> QED  BY <1>1, CountsInductive, PTL

LEMMA StepKeepsPictures ==
  ASSUME ReferencesAssumption, TypeOK, CountsInv, [Next]_vars
  PROVE  [reses' # reses =>
            \/ Restart
            \/ \A x \in on \cup ((Renderer \cap DOMAIN fld) \ unlisted) :
                 Picture(x) = None \/ fld[x] \in uncounted \/ Picture(x)' = Picture(x)
         ]_vars
<1> SUFFICES ASSUME reses' # reses, ~ Restart,
                    NEW x \in on \cup ((Renderer \cap DOMAIN fld) \ unlisted),
                    Picture(x) # None, fld[x] \notin uncounted
             PROVE  Picture(x)' = Picture(x)
  OBVIOUS
<1>0. FieldsOK
  BY TypeParts
<1>1. x \in Seen /\ x \in DOMAIN fld /\ x \in Told /\ fld[x] \in DOMAIN reses
      /\ Picture(x) = reses[fld[x]]
  BY <1>0 DEF Seen, Told, FieldsOK, Picture, PictureOf
<1>2. RegistryStep
  BY EditorsKeepViews DEF Next, Edit, Save, vars, registry
<1>3. ASSUME NEW i \in Id, importAgain(i)
      PROVE  FALSE
  BY <1>3 DEF importAgain
<1>4. ASSUME NEW i \in Id, NEW a \in Image, import(a, i)
      PROVE  Picture(x)' = Picture(x)
  BY <1>1, <1>4 DEF import, Put, Picture, PictureOf
<1>5. ASSUME NEW i \in Id, NEW j \in Id, setResId(i, j)
      PROVE  Picture(x)' = Picture(x)
  BY <1>1, <1>5 DEF setResId, Put, Without, Picture, PictureOf
<1>6. ASSUME NEW i \in Id, removeRes(i)
      PROVE  Picture(x)' = Picture(x)
  <2>1. fld[x] # i
    BY <1>0, <1>1, <1>6, NobodyShows DEF removeRes
  <2> QED  BY <1>1, <1>6, <2>1 DEF removeRes, Without, Picture, PictureOf
<1> QED  BY <1>2, <1>3, <1>4, <1>5, <1>6 DEF RegistryStep

(* What is on the form and what the renderers list goes on showing the     *)
(* picture it showed when images come, are renumbered or go                *)
(* (MainFrame::updateResId, ImageResListPanel::removeSelectedImage).       *)
THEOREM PicturesCorrect == Spec => PicturesKept
<1>1. TypeOK /\ Legal /\ CountsInv /\ [Next]_vars =>
        [reses' # reses =>
            \/ Restart
            \/ \A x \in on \cup ((Renderer \cap DOMAIN fld) \ unlisted) :
                 Picture(x) = None \/ fld[x] \in uncounted \/ Picture(x)' = Picture(x)
        ]_vars
  BY ReferencesAssumption, StepKeepsPictures
<1> QED  BY <1>1, CountsInductive, PTL DEF Spec, PicturesKept

-----------------------------------------------------------------------------
(* What the next start finds: while nothing is marked, the form shows what  *)
(* its XML was written with.                                               *)

SavedAsShown ==
  ~ formMarked /\ ~ silent =>
    \A c \in DOMAIN disk.form :
      LET saved == disk.form[c] IN
      /\ c \in on /\ fld[c] = saved.val
      /\ saved.picture # None => Picture(c) = saved.picture

LEMMA setFieldOnly ==
  ASSUME NEW s \in CountType, NEW x \in DOMAIN s.fld, NEW v \in Field
  PROVE  /\ DOMAIN setField(s, x, v).fld = DOMAIN s.fld
         /\ setField(s, x, v).fld[x] = v
         /\ \A y \in DOMAIN s.fld \ {x} : setField(s, x, v).fld[y] = s.fld[y]
<1> DEFINE set == [s EXCEPT !.fld[x] = v]
<1>1. /\ set \in CountType /\ DOMAIN set.fld = DOMAIN s.fld /\ set.fld[x] = v
      /\ \A y \in DOMAIN s.fld \ {x} : set.fld[y] = s.fld[y]
  BY FldSet, UseOf DEF CountType
<1> HIDE DEF set
<1>2. /\ decUse(set, s.fld[x]) \in CountType
      /\ decUse(set, s.fld[x]).fld = set.fld
      /\ incUse(decUse(set, s.fld[x]), v).fld = set.fld
  BY <1>1, decUseTyped, incUseTyped
<1>3. setField(s, x, v) \in {set, incUse(decUse(set, s.fld[x]), v)}
  BY DEF setField, set
<1> QED  BY <1>1, <1>2, <1>3

LEMMA cleanFieldOnly ==
  ASSUME NEW s \in CountType, NEW x \in DOMAIN s.fld
  PROVE  /\ DOMAIN cleanField(s, x).fld = DOMAIN s.fld
         /\ cleanField(s, x).fld[x] = Default
         /\ \A y \in DOMAIN s.fld \ {x} : cleanField(s, x).fld[y] = s.fld[y]
BY FldSet, UseOf DEF cleanField, CountType, Field

(* The form, its images and its files stay.                                *)
LEMMA SavedStays ==
  ASSUME SavedAsShown, StartFindsPictures, UNCHANGED <<reses, disk>>,
         on \subseteq on', \A c \in on : fld'[c] = fld[c],
         formMarked' = formMarked, silent' = silent
  PROVE  SavedAsShown' /\ StartFindsPictures'
BY DEF SavedAsShown, StartFindsPictures, Picture, PictureOf, Agree

(* A mark is raised. *)
LEMMA SavedMarked ==
  ASSUME StartFindsPictures, disk' = disk,
         formMarked' \/ silent', silent => silent'
  PROVE  SavedAsShown' /\ StartFindsPictures'
BY DEF SavedAsShown, StartFindsPictures, Agree

LEMMA FormSaved ==
  ASSUME ReferencesAssumption, TypeOK, SavedAsShown, StartFindsPictures, FormStep
  PROVE  SavedAsShown' /\ StartFindsPictures'
<1>0. FieldsOK /\ on \subseteq Control \cap DOMAIN fld
  BY TypeParts DEF FieldsOK
<1>1. CASE undo \/ redo
  BY <1>1, SavedMarked DEF undo, redo, undoRedoUpdate, TypeOK
<1>2. ASSUME NEW c \in Control,
             \/ create(c) \/ deleteSelectedInstance(c) \/ paste(c) \/ setDefValue(c)
             \/ \E v \in Id \cup {NoImage} : setImage(c, v)
      PROVE  SavedAsShown' /\ StartFindsPictures'
  <2>1. FormMarked
    BY <1>2 DEF create, deleteSelectedInstance, paste, setDefValue, setImage
  <2> QED  BY <2>1, SavedMarked DEF FormMarked
<1>3. ASSUME NEW c \in Control, copy(c)
      PROVE  SavedAsShown' /\ StartFindsPictures'
  BY <1>3, SavedStays DEF copy, registry, counting
<1>4. ASSUME NEW c \in Control, NEW v \in Id \cup {NoImage}, refuseImage(c, v)
      PROVE  SavedAsShown' /\ StartFindsPictures'
  <2> DEFINE set == setField(Counting, c, v)
             s == IF fld[c] = Default THEN cleanField(set, c)
                  ELSE setField(set, c, fld[c])
  <2>1. /\ c \in on /\ c \in DOMAIN fld /\ v \in Field /\ fld[c] \in Field
        /\ UNCHANGED <<reses, on, past, future, disk, formMarked, silent>>
        /\ Becomes(s)
    BY <1>0, <1>4, FieldOf, DefaultField DEF refuseImage, registry, history
  <2>2. Counting \in CountType /\ Counting.fld = fld
    BY <1>0, CountingIs
  <2>3. /\ set \in CountType /\ DOMAIN set.fld = DOMAIN fld
        /\ \A y \in DOMAIN fld \ {c} : set.fld[y] = fld[y]
    BY <2>1, <2>2, setFieldTyped, setFieldOnly
  <2> HIDE DEF set
  <2>4. DOMAIN s.fld = DOMAIN fld /\ \A y \in DOMAIN fld : s.fld[y] = fld[y]
    BY <2>1, <2>3, setFieldOnly, cleanFieldOnly
  <2> HIDE DEF s
  <2>5. \A x \in on : fld'[x] = fld[x]
    BY <1>0, <2>1, <2>4 DEF Becomes, Without
  <2> QED  BY <2>1, <2>5, SavedStays
<1> QED  BY <1>1, <1>2, <1>3, <1>4 DEF FormStep

LEMMA RendererSaved ==
  ASSUME ReferencesAssumption, TypeOK, SavedAsShown, StartFindsPictures, RendererStep
  PROVE  SavedAsShown' /\ StartFindsPictures'
<1>0. FieldsOK /\ on \subseteq Control \cap DOMAIN fld
  BY TypeParts DEF FieldsOK
<1> SUFFICES ASSUME NEW r \in Renderer,
                    \/ newRdr(r) \/ clearRdr(r) \/ deleteRdr(r) \/ copyRdr(r)
                    \/ pasteRdr(r) \/ \E v \in Id \cup {NoImage} : setRdr(r, v)
             PROVE  SavedAsShown' /\ StartFindsPictures'
  BY DEF RendererStep
<1>1. r \notin on
  BY <1>0 DEF ReferencesAssumption
<1>2. UNCHANGED <<reses, on, disk, formMarked, silent>>
  BY DEF newRdr, clearRdr, deleteRdr, copyRdr, pasteRdr, setRdr, RdrStep, registry
<1>3. \A x \in on : fld'[x] = fld[x]
  <2>1. CASE newRdr(r) \/ deleteRdr(r) \/ copyRdr(r) \/ pasteRdr(r)
    BY <1>0, <1>1, <2>1 DEF newRdr, deleteRdr, copyRdr, pasteRdr, Put, Without, counting
  <2>2. ASSUME NEW s \in CountType, Becomes(s), DOMAIN s.fld = DOMAIN fld,
               \A y \in DOMAIN fld \ {r} : s.fld[y] = fld[y]
        PROVE  \A x \in on : fld'[x] = fld[x]
    BY <1>0, <1>1, <1>2, <2>2 DEF Becomes, Without
  <2>3. CASE clearRdr(r)
    <3>1. cleanField(Counting, r) \in CountType
      BY <1>0, <2>3, CountingIs, cleanFieldTyped DEF clearRdr
    <3> QED  BY <1>0, <2>2, <2>3, <3>1, CountingIs, cleanFieldOnly DEF clearRdr
  <2>4. ASSUME NEW v \in Id \cup {NoImage}, setRdr(r, v)
        PROVE  \A x \in on : fld'[x] = fld[x]
    <3>1. v \in Field /\ r \in DOMAIN fld
      BY <2>4, DefaultField DEF setRdr
    <3>2. setField(Counting, r, v) \in CountType
      BY <1>0, <3>1, CountingIs, setFieldTyped
    <3> QED  BY <1>0, <2>2, <2>4, <3>1, <3>2, CountingIs, setFieldOnly DEF setRdr
  <2> QED  BY <2>1, <2>3, <2>4
<1> QED  BY <1>2, <1>3, SavedStays

LEMMA RegistrySaved ==
  ASSUME ReferencesAssumption, TypeOK, SavedAsShown, StartFindsPictures, RegistryStep
  PROVE  SavedAsShown' /\ StartFindsPictures'
<1>0. /\ on \subseteq DOMAIN fld
      /\ UNCHANGED <<on, disk, formMarked>> /\ (silent => silent')
  BY DEF TypeOK, RegistryStep, importAgain, removeRes, import, setResId, ImageStep
<1>1. StartFindsPictures'
  BY <1>0 DEF StartFindsPictures, Agree
<1>2. SUFFICES ASSUME ~ silent', NEW c \in on
               PROVE  /\ fld'[c] = fld[c]
                      /\ Picture(c) # None => Picture(c)' = Picture(c)
  BY <1>0, <1>1 DEF SavedAsShown
<1>3. ASSUME NEW i \in Id, importAgain(i)
      PROVE  fld'[c] = fld[c] /\ Picture(c)' = Picture(c)
  BY <1>3 DEF importAgain, counting, Picture, PictureOf
<1>4. ASSUME NEW i \in Id, NEW a \in Image, import(a, i)
      PROVE  fld'[c] = fld[c] /\ (Picture(c) # None => Picture(c)' = Picture(c))
  BY <1>4 DEF import, Put, Picture, PictureOf
<1>5. ASSUME NEW i \in Id, NEW j \in Id, setResId(i, j)
      PROVE  fld'[c] = fld[c] /\ (Picture(c) # None => Picture(c)' = Picture(c))
  BY <1>0, <1>2, <1>5 DEF setResId, Put, Without, Picture, PictureOf
<1>6. ASSUME NEW i \in Id, removeRes(i)
      PROVE  fld'[c] = fld[c] /\ (Picture(c) # None => Picture(c)' = Picture(c))
  BY <1>0, <1>2, <1>6 DEF removeRes, Without, Picture, PictureOf
<1> QED  BY <1>3, <1>4, <1>5, <1>6 DEF RegistryStep

LEMMA SaveSaved ==
  ASSUME TypeOK, SavedAsShown, StartFindsPictures, Save
  PROVE  SavedAsShown' /\ StartFindsPictures'
<1>1. /\ disk'.ids = IF DOMAIN reses = {} THEN disk.ids ELSE reses
      /\ UNCHANGED <<reses, fld, on>> /\ silent' = (silent /\ ~ formMarked)
      /\ formMarked' = FALSE
  BY DEF Save, registry, counting
<1>2. CASE formMarked
  <2>1. disk'.form = [c \in on |-> [val |-> fld[c], picture |-> Picture(c)]]
    BY <1>2 DEF Save
  <2> QED  BY <1>1, <2>1 DEF SavedAsShown, StartFindsPictures, Agree, Picture, PictureOf
<1>3. CASE ~ formMarked
  <2>1. disk'.form = disk.form
    BY <1>3 DEF Save
  <2>2. SavedAsShown'
    BY <1>1, <1>3, <2>1 DEF SavedAsShown, Picture, PictureOf
  <2>3. ASSUME ~ silent', NEW c \in DOMAIN disk.form, disk.form[c].picture # None
        PROVE  /\ disk.form[c].val \in DOMAIN reses
               /\ reses[disk.form[c].val] = disk.form[c].picture
    BY <1>1, <1>3, <2>3 DEF SavedAsShown, Picture, PictureOf
  <2>4. StartFindsPictures'
    BY <1>1, <2>1, <2>3 DEF StartFindsPictures, Agree
  <2> QED  BY <2>2, <2>4
<1> QED  BY <1>2, <1>3

(* The next start finds the pictures the form's XML was written with, saved *)
(* or killed since (UIEditor::save, ImageEditor::save, loadProject), unless *)
(* a change that raises no mark came between.                              *)
THEOREM StartCorrect == Spec => []StartFindsPictures
<1>1. Init => SavedAsShown /\ StartFindsPictures
  BY ReferencesAssumption DEF Init, SavedAsShown, StartFindsPictures
<1>2. TypeOK /\ SavedAsShown /\ StartFindsPictures /\ [Next]_vars =>
        (SavedAsShown /\ StartFindsPictures)'
  <2> SUFFICES ASSUME TypeOK, SavedAsShown, StartFindsPictures, [Next]_vars
               PROVE  SavedAsShown' /\ StartFindsPictures'
    OBVIOUS
  <2>1. CASE FormStep \/ RendererStep \/ RegistryStep
    BY <2>1, ReferencesAssumption, FormSaved, RendererSaved, RegistrySaved
  <2>2. CASE Save
    BY <2>2, SaveSaved
  <2>3. CASE Restart
    BY <2>3, SavedMarked DEF Restart, Load
  <2>4. CASE UNCHANGED vars
    BY <2>4, SavedStays DEF vars, registry, counting
  <2> QED  BY <2>1, <2>2, <2>3, <2>4 DEF Next, Edit
<1> QED  BY <1>1, <1>2, TypeCorrect, PTL DEF Spec
=============================================================================
