------------------------ MODULE EditorServices_proofs ------------------------
(***************************************************************************)
(* The services an editor panel relies on.  The undo history, by itself:   *)
(* it is in the order of the pushes for every capacity, and what           *)
(* implements it (CommandRing, UIEdit) inherits that.  The ring the        *)
(* program keeps it in: no sequence of operations mixes the commands up or *)
(* loses one, and it implements the history, for every size.  The          *)
(* clipboard: its pointers stay in its array, a paste finds the last copy  *)
(* and no clone is held after it was released, for every size.  The ranges *)
(* ids are given out from: their counts are exact and no id is in two, but *)
(* for ids asked for that another range had, and a restart gives no id to  *)
(* another developer.  The four share no state.                            *)
(***************************************************************************)
EXTENDS EditHistory, CommandRing, ClipRing, IDRanges, SequenceTheorems,
        FiniteSetTheorems, WellFoundedInduction, TLAPS

-----------------------------------------------------------------------------
(* The undo history.                                                       *)

(* What can be undone and what can be redone fit in the history together:  *)
(* without it a redo might make past longer than Capacity.                 *)
Fits == Len(past) + Len(future) <= Capacity

HInv == HistoryTypeOK /\ Fits /\ HistoryOrdered

(* The order of the history without concatenation: inside past, inside     *)
(* future, and between the two.                                            *)
Ordered(p, f) ==
  /\ \A j, k \in 1 .. Len(p) : j < k => p[j] < p[k]
  /\ \A j, k \in 1 .. Len(f) : j < k => f[j] < f[k]
  /\ \A j \in 1 .. Len(p), k \in 1 .. Len(f) : p[j] < f[k]

LEMMA OrderedConcat ==
  ASSUME NEW n, NEW p \in Seq(1 .. n), NEW f \in Seq(1 .. n)
  PROVE  Ordered(p, f) <=> \A j, k \in 1 .. Len(p \o f) :
                              j < k => (p \o f)[j] < (p \o f)[k]
<1> DEFINE all == p \o f
<1>1. /\ Len(p) \in Nat /\ Len(f) \in Nat
      /\ Len(all) = Len(p) + Len(f)
      /\ \A i \in 1 .. Len(p) + Len(f) :
           all[i] = IF i <= Len(p) THEN p[i] ELSE f[i - Len(p)]
  BY ConcatProperties, LenProperties
<1>2. ASSUME Ordered(p, f), NEW j \in 1 .. Len(all), NEW k \in 1 .. Len(all), j < k
      PROVE  all[j] < all[k]
  <2>1. CASE k <= Len(p)
    BY <1>1, <1>2, <2>1 DEF Ordered
  <2>2. CASE j <= Len(p) /\ Len(p) < k
    BY <1>1, <1>2, <2>2 DEF Ordered
  <2>3. CASE Len(p) < j
    <3>1. /\ j - Len(p) \in 1 .. Len(f) /\ k - Len(p) \in 1 .. Len(f)
          /\ j - Len(p) < k - Len(p)
      BY <1>1, <1>2, <2>3
    <3>2. f[j - Len(p)] < f[k - Len(p)]
      BY <1>2, <3>1 DEF Ordered
    <3> QED  BY <1>1, <1>2, <2>3, <3>2
  <2> QED  BY <1>1, <2>1, <2>2, <2>3
<1>3. ASSUME \A j, k \in 1 .. Len(all) : j < k => all[j] < all[k]
      PROVE  Ordered(p, f)
  <2>1. ASSUME NEW j \in 1 .. Len(p), NEW k \in 1 .. Len(p), j < k
        PROVE  p[j] < p[k]
    BY <1>1, <1>3, <2>1
  <2>2. ASSUME NEW j \in 1 .. Len(f), NEW k \in 1 .. Len(f), j < k
        PROVE  f[j] < f[k]
    <3> DEFINE a == j + Len(p)
               b == k + Len(p)
    <3>1. /\ a \in 1 .. Len(all) /\ b \in 1 .. Len(all) /\ a < b
          /\ ~(a <= Len(p)) /\ ~(b <= Len(p)) /\ a - Len(p) = j /\ b - Len(p) = k
      BY <1>1, <2>2
    <3>2. all[a] = f[j] /\ all[b] = f[k]
      BY <1>1, <3>1
    <3> QED  BY <1>3, <3>1, <3>2
  <2>3. ASSUME NEW j \in 1 .. Len(p), NEW k \in 1 .. Len(f)
        PROVE  p[j] < f[k]
    <3> DEFINE b == k + Len(p)
    <3>1. /\ j \in 1 .. Len(all) /\ b \in 1 .. Len(all) /\ j < b
          /\ ~(b <= Len(p)) /\ b - Len(p) = k
      BY <1>1
    <3>2. all[j] = p[j] /\ all[b] = f[k]
      BY <1>1, <3>1
    <3> QED  BY <1>3, <3>1, <3>2
  <2> QED  BY <2>1, <2>2, <2>3 DEF Ordered
<1> QED  BY <1>2, <1>3

(* The invariant, restated without concatenation. *)
LEMMA InvOrdered == ASSUME HistoryTypeOK PROVE HistoryOrdered <=> Ordered(past, future)
  BY OrderedConcat DEF HistoryTypeOK, HistoryOrdered

LEMMA InvOrderedPrime ==
  ASSUME HistoryTypeOK' PROVE HistoryOrdered' <=> Ordered(past', future')
<1>1. past' \in Seq(1 .. pushed') /\ future' \in Seq(1 .. pushed')
  BY DEF HistoryTypeOK
<1> QED  BY <1>1, OrderedConcat DEF HistoryOrdered

(* A push: the new command is the newest, and nothing is left to redo.     *)
LEMMA PushOrdered ==
  ASSUME Capacity \in Nat \ {0}, PushLimit \in Nat, HInv, HPush
  PROVE  HistoryTypeOK' /\ Fits' /\ Ordered(past', future')
<1> DEFINE kept == IF Len(past) = Capacity THEN Tail(past) ELSE past
<1>1. /\ past \in Seq(1 .. pushed) /\ pushed \in 0 .. PushLimit
      /\ Len(past) <= Capacity /\ pushed < PushLimit /\ pushed' = pushed + 1
      /\ past' = Append(kept, pushed + 1) /\ future' = <<>>
  BY DEF HInv, HistoryTypeOK, HPush
<1>2. /\ kept \in Seq(1 .. pushed) /\ Len(kept) \in Nat /\ Len(kept) < Capacity
      /\ \A j, k \in 1 .. Len(kept) : j < k => kept[j] < kept[k]
  <2>1. \A j, k \in 1 .. Len(past) : j < k => past[j] < past[k]
    BY InvOrdered DEF HInv, Ordered
  <2>2. CASE Len(past) = Capacity
    <3>1. past # <<>>
      BY <2>2, <1>1
    <3>2. /\ Tail(past) \in Seq(1 .. pushed) /\ Len(Tail(past)) = Len(past) - 1
          /\ \A j \in 1 .. Len(past) - 1 : Tail(past)[j] = past[j + 1]
      BY <1>1, <3>1
    <3> QED  BY <1>1, <2>1, <2>2, <3>2
  <2>3. CASE Len(past) # Capacity
    BY <1>1, <2>1, <2>3
  <2> QED  BY <2>2, <2>3
<1>3. kept \in Seq(1 .. pushed') /\ pushed + 1 \in 1 .. pushed'
  BY <1>1, <1>2, SeqMonotonic
<1> HIDE DEF kept
<1>4. /\ past' \in Seq(1 .. pushed') /\ Len(past') = Len(kept) + 1
      /\ \A j \in 1 .. Len(kept) : past'[j] = kept[j]
      /\ past'[Len(kept) + 1] = pushed + 1
  BY <1>1, <1>3
<1>5. \A j \in 1 .. Len(kept) : kept[j] \in 1 .. pushed
  BY <1>2, ElementOfSeq
<1>6. HistoryTypeOK'
  <2>1. future' \in Seq(1 .. pushed')
    BY <1>1
  <2>2. Len(past') <= Capacity
    BY <1>2, <1>4
  <2>3. pushed' \in 0 .. PushLimit
    BY <1>1
  <2> QED  BY <1>4, <2>1, <2>2, <2>3 DEF HistoryTypeOK
<1>7. \A j, k \in 1 .. Len(past') : j < k => past'[j] < past'[k]
  <2> SUFFICES ASSUME NEW j \in 1 .. Len(past'), NEW k \in 1 .. Len(past'), j < k
               PROVE  past'[j] < past'[k]
    OBVIOUS
  <2>1. j \in 1 .. Len(kept) /\ past'[j] = kept[j] /\ kept[j] \in 1 .. pushed
    BY <1>2, <1>4, <1>5
  <2>2. CASE k = Len(kept) + 1
    BY <1>1, <1>4, <2>1, <2>2
  <2>3. CASE k # Len(kept) + 1
    BY <1>2, <1>4, <2>1, <2>3
  <2> QED  BY <2>2, <2>3
<1>8. Len(future') = 0
  BY <1>1
<1>9. Fits'
  BY <1>2, <1>4, <1>8 DEF Fits
<1> QED  BY <1>6, <1>7, <1>8, <1>9 DEF Ordered

(* An undo moves the last command of past in front of future ... *)
LEMMA UndoOrdered ==
  ASSUME Capacity \in Nat \ {0}, HInv, HUndo
  PROVE  HistoryTypeOK' /\ Fits' /\ Ordered(past', future')
<1> DEFINE n == Len(past)
<1>1. /\ past \in Seq(1 .. pushed) /\ future \in Seq(1 .. pushed)
      /\ pushed \in 0 .. PushLimit /\ n <= Capacity /\ past # <<>>
      /\ past' = SubSeq(past, 1, n - 1)
      /\ future' = <<past[n]>> \o future /\ pushed' = pushed
  BY DEF HInv, HistoryTypeOK, HUndo
<1>2. Ordered(past, future)
  BY InvOrdered DEF HInv
<1>3. n \in Nat \ {0} /\ past[n] \in 1 .. pushed
  BY <1>1
<1>4. /\ past' \in Seq(1 .. pushed) /\ Len(past') = n - 1
      /\ \A j \in 1 .. n - 1 : past'[j] = past[j]
  <2>1. \A j \in 1 .. n - 1 : past[j] \in 1 .. pushed
    <3>1. \A j \in 1 .. Len(past) : past[j] \in 1 .. pushed
      BY <1>1
    <3> HIDE DEF n
    <3>2. \A j \in 1 .. n - 1 : j \in 1 .. n
      BY <1>3
    <3> QED  BY <3>1, <3>2 DEF n
  <2> HIDE DEF n
  <2>2. /\ SubSeq(past, 1, n - 1) \in Seq(1 .. pushed)
        /\ Len(SubSeq(past, 1, n - 1)) = n - 1
        /\ \A j \in 1 .. n - 1 : SubSeq(past, 1, n - 1)[j] = past[j]
    BY <1>1, <1>3, <2>1, SubSeqProperties
  <2> QED  BY <1>1, <2>2
<1>5. /\ future' \in Seq(1 .. pushed) /\ Len(future') = Len(future) + 1
      /\ future'[1] = past[n]
      /\ \A j \in 2 .. Len(future) + 1 : future'[j] = future[j - 1]
  BY <1>1, <1>3
<1>6. HistoryTypeOK'
  BY <1>1, <1>3, <1>4, <1>5 DEF HistoryTypeOK
<1>8. Fits'
  <2>1. Len(past) + Len(future) <= Capacity /\ Len(future) \in Nat
    BY <1>1 DEF HInv, Fits
  <2> QED  BY <1>3, <1>4, <1>5, <2>1 DEF Fits
<1> HIDE DEF n
<1>7. Ordered(past', future')
  <2>1. Len(future) \in Nat
    BY <1>1
  <2>2. \A j, k \in 1 .. Len(past') : j < k => past'[j] < past'[k]
    BY <1>2, <1>3, <1>4 DEF Ordered, n
  <2>3. \A j, k \in 1 .. Len(future') : j < k => future'[j] < future'[k]
    <3> SUFFICES ASSUME NEW j \in 1 .. Len(future'), NEW k \in 1 .. Len(future'), j < k
                 PROVE  future'[j] < future'[k]
      OBVIOUS
    <3>1. k - 1 \in 1 .. Len(future) /\ future'[k] = future[k - 1]
      BY <1>5, <2>1
    <3>2. CASE j = 1
      BY <1>2, <1>3, <1>5, <3>1, <3>2 DEF Ordered, n
    <3>3. CASE j # 1
      BY <1>2, <1>5, <2>1, <3>1, <3>3 DEF Ordered
    <3> QED  BY <3>2, <3>3
  <2>4. \A j \in 1 .. Len(past'), k \in 1 .. Len(future') : past'[j] < future'[k]
    <3> SUFFICES ASSUME NEW j \in 1 .. Len(past'), NEW k \in 1 .. Len(future')
                 PROVE  past'[j] < future'[k]
      OBVIOUS
    <3>1. j \in 1 .. Len(past) /\ j < Len(past) /\ past'[j] = past[j]
      BY <1>3, <1>4 DEF n
    <3>2. CASE k = 1
      BY <1>2, <1>3, <1>5, <3>1, <3>2 DEF Ordered, n
    <3>3. CASE k # 1
      BY <1>2, <1>5, <2>1, <3>1, <3>3 DEF Ordered
    <3> QED  BY <3>2, <3>3
  <2> QED  BY <2>2, <2>3, <2>4 DEF Ordered
<1> QED  BY <1>6, <1>7, <1>8

(* ... and a redo moves it back. *)
LEMMA RedoOrdered ==
  ASSUME Capacity \in Nat \ {0}, HInv, HRedo
  PROVE  HistoryTypeOK' /\ Fits' /\ Ordered(past', future')
<1> DEFINE n == Len(past)
<1>1. /\ past \in Seq(1 .. pushed) /\ future \in Seq(1 .. pushed)
      /\ pushed \in 0 .. PushLimit /\ future # <<>>
      /\ n + Len(future) <= Capacity
      /\ past' = Append(past, Head(future))
      /\ future' = Tail(future) /\ pushed' = pushed
  BY DEF HInv, HistoryTypeOK, Fits, HRedo
<1>2. Ordered(past, future)
  BY InvOrdered DEF HInv
<1>3. /\ n \in Nat /\ Len(future) \in Nat \ {0}
      /\ Head(future) = future[1] /\ future[1] \in 1 .. pushed
  BY <1>1
<1>4. /\ past' \in Seq(1 .. pushed) /\ Len(past') = n + 1
      /\ past'[n + 1] = future[1]
      /\ \A j \in 1 .. n : past'[j] = past[j]
  BY <1>1, <1>3
<1>5. /\ future' \in Seq(1 .. pushed) /\ Len(future') = Len(future) - 1
      /\ \A j \in 1 .. Len(future) - 1 : future'[j] = future[j + 1]
  BY <1>1, <1>3
<1>6. HistoryTypeOK' /\ Fits'
  BY <1>1, <1>3, <1>4, <1>5 DEF HistoryTypeOK, Fits
<1> HIDE DEF n
<1>7. \A j, k \in 1 .. Len(past') : j < k => past'[j] < past'[k]
  <2> SUFFICES ASSUME NEW j \in 1 .. Len(past'), NEW k \in 1 .. Len(past'), j < k
               PROVE  past'[j] < past'[k]
    OBVIOUS
  <2>1. j \in 1 .. Len(past) /\ past'[j] = past[j]
    BY <1>3, <1>4 DEF n
  <2>2. CASE k = n + 1
    BY <1>2, <1>3, <1>4, <2>1, <2>2 DEF Ordered
  <2>3. CASE k # n + 1
    BY <1>2, <1>3, <1>4, <2>1, <2>3 DEF Ordered, n
  <2> QED  BY <2>2, <2>3
<1>8. \A j, k \in 1 .. Len(future') : j < k => future'[j] < future'[k]
  <2> SUFFICES ASSUME NEW j \in 1 .. Len(future'), NEW k \in 1 .. Len(future'), j < k
               PROVE  future'[j] < future'[k]
    OBVIOUS
  <2>1. /\ j + 1 \in 1 .. Len(future) /\ k + 1 \in 1 .. Len(future) /\ j + 1 < k + 1
        /\ future'[j] = future[j + 1] /\ future'[k] = future[k + 1]
    BY <1>3, <1>5
  <2> QED  BY <1>2, <2>1 DEF Ordered
<1>9. \A j \in 1 .. Len(past'), k \in 1 .. Len(future') : past'[j] < future'[k]
  <2> SUFFICES ASSUME NEW j \in 1 .. Len(past'), NEW k \in 1 .. Len(future')
               PROVE  past'[j] < future'[k]
    OBVIOUS
  <2>1. /\ k + 1 \in 1 .. Len(future) /\ 1 < k + 1 /\ 1 \in 1 .. Len(future)
        /\ future'[k] = future[k + 1]
    BY <1>3, <1>5
  <2>2. CASE j = n + 1
    BY <1>2, <1>4, <2>1, <2>2 DEF Ordered
  <2>3. CASE j # n + 1
    <3>1. j \in 1 .. Len(past) /\ past'[j] = past[j]
      BY <1>3, <1>4, <2>3 DEF n
    <3> QED  BY <1>2, <2>1, <3>1 DEF Ordered
  <2> QED  BY <2>2, <2>3
<1> QED  BY <1>6, <1>7, <1>8, <1>9 DEF Ordered

(* The history is in the order of the pushes and never longer than its     *)
(* capacity, whatever is pushed, undone and redone.                        *)
THEOREM HistoryCorrect ==
  ASSUME Capacity \in Nat \ {0}, PushLimit \in Nat
  PROVE  HSpec => [](HistoryTypeOK /\ HistoryOrdered)
<1>1. HInit => HInv
  <2> SUFFICES ASSUME HInit PROVE HInv
    OBVIOUS
  <2>1. /\ past = <<>> /\ future = <<>> /\ pushed = 0
        /\ Len(past) = 0 /\ Len(future) = 0
    BY DEF HInit
  <2>2. HistoryTypeOK /\ Fits
    BY <2>1 DEF HistoryTypeOK, Fits
  <2>3. Ordered(past, future)
    BY <2>1 DEF Ordered
  <2> QED  BY <2>2, <2>3, InvOrdered DEF HInv
<1>2. HInv /\ [HNext]_hvars => HInv'
  <2> SUFFICES ASSUME HInv, [HNext]_hvars PROVE HInv'
    OBVIOUS
  <2>1. ASSUME HistoryTypeOK', Fits', Ordered(past', future') PROVE HInv'
    BY <2>1, InvOrderedPrime DEF HInv
  <2>2. CASE HPush
    BY <2>1, <2>2, PushOrdered
  <2>3. CASE HUndo
    BY <2>1, <2>3, UndoOrdered
  <2>4. CASE HRedo
    BY <2>1, <2>4, RedoOrdered
  <2>5. CASE UNCHANGED hvars
    BY <2>5 DEF HInv, HistoryTypeOK, Fits, HistoryOrdered, hvars
  <2> QED  BY <2>2, <2>3, <2>4, <2>5 DEF HNext
<1>3. HInv => HistoryTypeOK /\ HistoryOrdered
  BY DEF HInv
<1> QED  BY <1>1, <1>2, <1>3, PTL DEF HSpec

-----------------------------------------------------------------------------
(* The ring.  WindowOrdered and Accounted need each other and the types: a *)
(* push deletes what the loop of emptyRedo visits, which is the redo part  *)
(* of the window only because undo_tail lies in it, and a command is not   *)
(* deleted twice only because the window holds distinct ones.              *)

(* The clamp of the constructor: there are always at least eight slots.    *)
LEMMA MaxcountBound == maxcount \in Nat /\ maxcount >= 8
BY RingAssumption DEF maxcount, DEF_UNDOREDO_MIN

-----------------------------------------------------------------------------
(* Arithmetic of the indices. *)

LEMMA IndexStep ==
  ASSUME NEW i \in Index
  PROVE  After(i) \in Index /\ Before(i) \in Index
BY MaxcountBound DEF After, Before, Index

LEMMA SlotInIndex ==
  ASSUME NEW i \in Index, NEW k \in 0 .. maxcount - 1
  PROVE  Slot(i, k) \in Index
BY MaxcountBound DEF Slot, Index

LEMMA DistanceBound ==
  ASSUME NEW i \in Index, NEW j \in Index
  PROVE  Distance(i, j) \in 0 .. maxcount - 1 /\ Slot(i, Distance(i, j)) = j
BY MaxcountBound DEF Distance, Slot, Index

LEMMA DistanceUnique ==
  ASSUME NEW i \in Index, NEW k \in 0 .. maxcount - 1
  PROVE  Distance(i, Slot(i, k)) = k
BY MaxcountBound DEF Distance, Slot, Index

(* A step of undo_tail or of undo_head changes the lengths by one. *)
LEMMA DistanceAfter ==
  ASSUME NEW i \in Index, NEW j \in Index
  PROVE  /\ After(j) # i => Distance(i, After(j)) = Distance(i, j) + 1
         /\ After(j) = i => Distance(i, j) = maxcount - 1
         /\ j # i => Distance(i, Before(j)) = Distance(i, j) - 1
         /\ j # i => Distance(After(i), j) = Distance(i, j) - 1
BY MaxcountBound DEF Distance, After, Before, Index

LEMMA SlotAfter ==
  ASSUME NEW i \in Index, NEW k \in 0 .. maxcount - 2
  PROVE  Slot(After(i), k) = Slot(i, k + 1)
BY MaxcountBound DEF Slot, After, Index

(* A loop that ends visits exactly the slots between its two pointers,     *)
(* counted from any third pointer in front of them.                        *)
LEMMA VisitedIsWindow ==
  ASSUME NEW h \in Index, NEW t \in Index, NEW r \in Index,
         Distance(h, t) <= Distance(h, r), LoopEnds(t, r)
  PROVE  Visited(t, r) =
           {Slot(h, k) : k \in Distance(h, t) .. Distance(h, r) - 1}
<1>1. ASSUME NEW i \in Visited(t, r)
      PROVE  /\ i \in Index
             /\ Distance(h, i) \in Distance(h, t) .. Distance(h, r) - 1
  BY <1>1, MaxcountBound DEF Visited, LoopEnds, Distance, Index
<1>2. ASSUME NEW k \in Distance(h, t) .. Distance(h, r) - 1
      PROVE  Slot(h, k) \in Visited(t, r)
  BY <1>2, MaxcountBound DEF Visited, LoopEnds, Distance, Slot, Index
<1>3. ASSUME NEW i \in Visited(t, r)
      PROVE  i = Slot(h, Distance(h, i))
  BY <1>1, DistanceBound
<1> QED BY <1>1, <1>2, <1>3

-----------------------------------------------------------------------------
(* The inductive invariant. *)

IInv == TypeOK /\ WindowOrdered /\ Accounted

LEMMA Lengths ==
  ASSUME TypeOK
  PROVE  Undoable \in 0 .. maxcount - 1 /\ Used \in 0 .. maxcount - 1
BY DistanceBound DEF TypeOK, Undoable, Used

LEMMA InitIInv == Init => IInv
<1> SUFFICES ASSUME Init PROVE IInv
  OBVIOUS
<1>1. TypeOK
  BY MaxcountBound, RingAssumption DEF Init, TypeOK, Index, NULL
<1>2. Used = 0 /\ Undoable = 0
  BY DEF Init, Used, Undoable, Distance
<1>3. WindowOrdered
  BY <1>2 DEF WindowOrdered
<1>4. Accounted
  BY <1>2 DEF Accounted, Live, Init
<1> QED BY <1>1, <1>3, <1>4 DEF IInv

(* The window after a push: the commands that could be undone, without the *)
(* oldest if the ring was full, and the new one at its end.                *)
LEMMA PushWindow ==
  ASSUME IInv, pushUndoRedoCommand
  PROVE  LET full == After(undo_tail) = undo_head
             d == IF full THEN 1 ELSE 0
         IN /\ Undoable' = Undoable - d + 1
            /\ Used' = Undoable'
            /\ \A k \in 0 .. Undoable' - 2 : Held(k)' = Held(k + d)
            /\ Held(Undoable - 1)' = pushes + 1
            /\ full => Held(0) = commands[undo_head]
            /\ full => Undoable > 0
<1> DEFINE full == After(undo_tail) = undo_head
           d == IF full THEN 1 ELSE 0
<1> USE DEF IInv
<1>1. /\ undo_head \in Index /\ undo_tail \in Index /\ redo_tail \in Index
      /\ commands \in [Index -> 0 .. pushes]
      /\ After(undo_tail) \in Index /\ After(undo_head) \in Index
  BY IndexStep DEF TypeOK
<1>2. /\ undo_tail' = After(undo_tail) /\ redo_tail' = After(undo_tail)
      /\ undo_head' = (IF full THEN After(undo_head) ELSE undo_head)
      /\ commands' = [commands EXCEPT ![undo_tail] = pushes + 1]
  BY DEF pushUndoRedoCommand
<1>3. Undoable' = Undoable - d + 1
  BY <1>1, <1>2, MaxcountBound DEF Undoable, Distance, After, Index
<1>4. Used' = Undoable'
  BY <1>2 DEF Used, Undoable
<1>5. Undoable \in 0 .. maxcount - 1 /\ (full => Undoable = maxcount - 1)
  BY <1>1, DistanceBound, DistanceAfter DEF Undoable
<1>6. ASSUME NEW k \in 0 .. Undoable - d
      PROVE  Slot(undo_head', k) = Slot(undo_head, k + d)
  BY <1>1, <1>2, <1>5, MaxcountBound DEF Slot, After, Index
<1>7. Slot(undo_head, Undoable) = undo_tail
  BY <1>1, DistanceBound DEF Undoable
<1>8. ASSUME NEW k \in 0 .. Undoable' - 2
      PROVE  Held(k)' = Held(k + d)
  <2>1. k \in 0 .. Undoable - d /\ k + d \in 0 .. Undoable - 1
    BY <1>3, <1>5, MaxcountBound
  <2>2. Slot(undo_head, k + d) \in Index /\ Slot(undo_head, k + d) # undo_tail
    <3>1. k + d \in 0 .. maxcount - 1 /\ k + d # Undoable
      BY <2>1, <1>5, MaxcountBound
    <3> QED BY <3>1, <1>1, <1>7, SlotInIndex, DistanceUnique DEF Undoable
  <2> QED BY <2>1, <2>2, <1>1, <1>2, <1>6 DEF Held
<1>9. Held(Undoable - 1)' = pushes + 1
  <2>1. Undoable' - 1 = Undoable - d /\ Undoable - d \in 0 .. Undoable - d
    BY <1>3, <1>5, MaxcountBound
  <2>2. Slot(undo_head', Undoable - d) = Slot(undo_head, Undoable)
    BY <2>1, <1>6, <1>5
  <2> QED BY <2>1, <2>2, <1>1, <1>2, <1>7 DEF Held
<1>10. full => Held(0) = commands[undo_head] /\ Undoable > 0
  BY <1>1, <1>5, MaxcountBound DEF Held, Slot, Index
<1> QED BY <1>3, <1>4, <1>8, <1>9, <1>10

-----------------------------------------------------------------------------
(* Preservation, part by part. *)

LEMMA TypePreserved ==
  ASSUME TypeOK, [Next]_vars
  PROVE  TypeOK'
<1> USE DEF TypeOK
<1>1. After(undo_tail) \in Index /\ After(undo_head) \in Index
      /\ Before(undo_tail) \in Index
  BY IndexStep
<1>2. ASSUME NEW S PROVE S \subseteq Index => CommandsIn(S) \subseteq 1 .. pushes
  BY DEF CommandsIn, NULL
<1>3. ASSUME NEW i \in Index, NEW j \in Index PROVE Visited(i, j) \subseteq Index
  BY <1>3, MaxcountBound DEF Visited, Index
<1>4. CASE pushUndoRedoCommand
  <2>1. deleted' \subseteq 1 .. pushes
    BY <1>2, <1>3, <1>4 DEF pushUndoRedoCommand
  <2>2. commands' \in [Index -> 0 .. pushes']
    BY <1>4, RingAssumption DEF pushUndoRedoCommand
  <2>3. pushes' \in 0 .. MaxPush
    BY <1>4, RingAssumption DEF pushUndoRedoCommand
  <2>4. undo_head' \in Index /\ undo_tail' \in Index /\ redo_tail' \in Index
    BY <1>1, <1>4 DEF pushUndoRedoCommand
  <2>5. deleted' \subseteq 1 .. pushes' /\ phase' \in {"open", "closed", "spin"}
    <3>1. pushes' = pushes + 1 /\ phase' = phase /\ pushes \in Nat
      BY <1>4, RingAssumption DEF pushUndoRedoCommand
    <3>2. 1 .. pushes \subseteq 1 .. pushes'
      BY <3>1
    <3> QED BY <2>1, <3>1, <3>2
  <2> QED BY <2>2, <2>3, <2>4, <2>5
<1>5. CASE pushSpins
  BY <1>2, <1>3, <1>5 DEF pushSpins, pointers
<1>6. CASE undo
  BY <1>1, <1>6 DEF undo
<1>7. CASE redo
  BY <1>1, <1>7 DEF redo
<1>8. CASE destroy
  BY <1>2, <1>3, <1>8 DEF destroy, pointers
<1>9. CASE UNCHANGED vars
  BY <1>9 DEF vars, pointers
<1> QED BY <1>4, <1>5, <1>6, <1>7, <1>8, <1>9 DEF Next

(* Undo and redo move undo_tail inside the window and touch nothing else.  *)
LEMMA MoveKeepsWindow ==
  ASSUME IInv, undo \/ redo
  PROVE  /\ Used' = Used /\ Undoable' <= Used
         /\ Undoable' = Undoable + (IF undo THEN -1 ELSE 1)
         /\ \A k : Held(k)' = Held(k)
<1> USE DEF IInv
<1>1. Used' = Used /\ \A k : Held(k)' = Held(k)
  BY DEF undo, redo, Used, Held
<1>2. undo_head \in Index /\ undo_tail \in Index /\ redo_tail \in Index
      /\ Undoable <= Used
  BY DEF TypeOK, WindowOrdered
<1>3. CASE undo
  <2>1. Undoable' = Undoable - 1
    BY <1>2, <1>3, DistanceAfter DEF undo, canUndo, Undoable
  <2> QED BY <1>1, <1>2, <2>1, <1>3, Lengths
<1>4. CASE redo /\ ~undo
  <2>1. Undoable < Used /\ After(undo_tail) # undo_head
    BY <1>2, <1>4, MaxcountBound
       DEF redo, canRedo, Undoable, Used, Distance, After, Index
  <2>2. Undoable' = Undoable + 1
    BY <1>2, <1>4, <2>1, DistanceAfter DEF redo, Undoable
  <2> QED BY <1>1, <1>4, <2>1, <2>2, Lengths
<1> QED BY <1>3, <1>4

LEMMA HeldIsCommand ==
  ASSUME IInv, NEW k \in 0 .. Used - 1
  PROVE  Held(k) \in 1 .. pushes
<1>1. k \in 0 .. maxcount - 1 /\ undo_head \in Index
  BY Lengths, MaxcountBound DEF IInv, TypeOK
<1>2. Held(k) \in 0 .. pushes /\ Held(k) # NULL
  BY <1>1, SlotInIndex DEF IInv, TypeOK, WindowOrdered, Held
<1> QED BY <1>2 DEF NULL, IInv, TypeOK

LEMMA WindowPreserved ==
  ASSUME IInv, [Next]_vars
  PROVE  WindowOrdered'
<1>1. CASE pushUndoRedoCommand
  <2> DEFINE d == IF After(undo_tail) = undo_head THEN 1 ELSE 0
  <2>1. /\ Undoable' = Undoable - d + 1 /\ Used' = Undoable'
        /\ \A k \in 0 .. Undoable' - 2 : Held(k)' = Held(k + d)
        /\ Held(Undoable - 1)' = pushes + 1
    BY <1>1, PushWindow
  <2>2. d \in {0, 1} /\ Undoable \in Nat /\ Used \in Nat /\ Undoable <= Used
    BY Lengths, MaxcountBound DEF IInv, WindowOrdered
  <2>3. ASSUME NEW k \in 0 .. Undoable' - 2
        PROVE  /\ k + d \in 0 .. Used - 1
               /\ Held(k)' = Held(k + d) /\ Held(k)' \in 1 .. pushes
    BY <2>1, <2>2, HeldIsCommand
  <2>4. pushes \in Nat
    BY RingAssumption DEF IInv, TypeOK
  <2>5. ASSUME NEW k \in 0 .. Used' - 1, k \notin 0 .. Undoable' - 2
        PROVE  Held(k)' = pushes + 1
    <3>1. k = Undoable' - 1
      BY <2>1, <2>2, <2>5
    <3> QED BY <3>1, <2>1
  <2>6. ASSUME NEW k \in 0 .. Used' - 1
        PROVE  Held(k)' # NULL
    BY <2>3, <2>4, <2>5 DEF NULL
  <2>7. ASSUME NEW j \in 0 .. Used' - 1, NEW k \in 0 .. Used' - 1, j < k
        PROVE  Held(j)' < Held(k)'
    <3>1. j \in 0 .. Undoable' - 2
      BY <2>1, <2>2, <2>7
    <3>2. CASE k \in 0 .. Undoable' - 2
      BY <3>1, <3>2, <2>2, <2>3, <2>7 DEF IInv, WindowOrdered
    <3>3. CASE k \notin 0 .. Undoable' - 2
      BY <3>1, <3>3, <2>3, <2>4, <2>5
    <3> QED BY <3>2, <3>3
  <2> QED BY <2>1, <2>2, <2>6, <2>7 DEF WindowOrdered
<1>2. CASE undo \/ redo
  BY <1>2, MoveKeepsWindow DEF IInv, WindowOrdered
<1>3. CASE pushSpins \/ destroy \/ UNCHANGED vars
  BY <1>3 DEF IInv, WindowOrdered, pushSpins, destroy, vars, pointers,
              Undoable, Used, Held
<1> QED BY <1>1, <1>2, <1>3 DEF Next

(* What the loops delete, in terms of the window. *)
LEMMA CommandsInWindow ==
  ASSUME IInv, NEW t \in Index,
         Distance(undo_head, t) <= Used, LoopEnds(t, redo_tail)
  PROVE  CommandsIn(Visited(t, redo_tail)) =
           {Held(k) : k \in Distance(undo_head, t) .. Used - 1}
<1>1. undo_head \in Index /\ redo_tail \in Index
  BY DEF IInv, TypeOK
<1>2. Visited(t, redo_tail) =
        {Slot(undo_head, k) : k \in Distance(undo_head, t) .. Used - 1}
  BY <1>1, VisitedIsWindow DEF Used
<1>3. Distance(undo_head, t) \in Nat
  BY <1>1, DistanceBound, MaxcountBound
<1>4. \A k \in Distance(undo_head, t) .. Used - 1 : Held(k) # NULL
  <2>1. Used \in Nat
    BY Lengths, MaxcountBound DEF IInv
  <2>2. \A k \in Distance(undo_head, t) .. Used - 1 : k \in 0 .. Used - 1
    BY <2>1, <1>3
  <2> QED BY <2>2 DEF IInv, WindowOrdered
<1> QED BY <1>2, <1>4 DEF CommandsIn, Held

LEMMA AccountedPreserved ==
  ASSUME IInv, [Next]_vars
  PROVE  Accounted'
<1> USE DEF IInv
<1>0. /\ Undoable \in Nat /\ Used \in Nat /\ Undoable <= Used
      /\ pushes \in Nat /\ deleted \subseteq 1 .. pushes
      /\ undo_head \in Index /\ undo_tail \in Index /\ redo_tail \in Index
  BY Lengths, MaxcountBound, RingAssumption DEF TypeOK, WindowOrdered
<1>1. CASE pushUndoRedoCommand
  <2> DEFINE full == After(undo_tail) = undo_head
             d == IF full THEN 1 ELSE 0
             shed == {Held(k) : k \in Undoable .. Used - 1}
             oldest == IF full THEN {Held(0)} ELSE {}
             kept == {Held(k) : k \in d .. Undoable - 1}
  <2>1. /\ Undoable' = Undoable - d + 1 /\ Used' = Undoable'
        /\ \A k \in 0 .. Undoable' - 2 : Held(k)' = Held(k + d)
        /\ Held(Undoable - 1)' = pushes + 1
        /\ full => Held(0) = commands[undo_head] /\ Undoable > 0
    BY <1>1, PushWindow
  <2>2. phase = "open" /\ phase' = "open" /\ pushes' = pushes + 1
        /\ LoopEnds(undo_tail, redo_tail)
    BY <1>1 DEF pushUndoRedoCommand
  <2>3. deleted' = deleted \cup shed \cup oldest
    <3>1. CommandsIn(Visited(undo_tail, redo_tail)) = shed
      BY <1>0, <2>2, CommandsInWindow DEF Undoable
    <3>2. full => CommandsIn({undo_head}) = {Held(0)}
      <4>1. full => Held(0) # NULL
        BY <1>0, <2>1, HeldIsCommand DEF NULL
      <4> QED BY <4>1, <2>1 DEF CommandsIn
    <3> QED BY <1>1, <3>1, <3>2 DEF pushUndoRedoCommand
  <2>4. Live' = kept \cup {pushes + 1}
    <3>1. ASSUME NEW k \in 0 .. Used' - 1
          PROVE  Held(k)' \in kept \cup {pushes + 1}
      <4>1. CASE k \in 0 .. Undoable' - 2
        BY <4>1, <1>0, <2>1
      <4>2. CASE k \notin 0 .. Undoable' - 2
        <5>1. k = Undoable' - 1
          BY <4>2, <1>0, <2>1
        <5> QED BY <5>1, <2>1
      <4> QED BY <4>1, <4>2
    <3>2. ASSUME NEW k \in d .. Undoable - 1
          PROVE  Held(k) \in Live'
      <4>1. \E m : m = k - d
        OBVIOUS
      <4>2. PICK m : m = k - d
        BY <4>1
      <4>3. m \in 0 .. Used' - 1 /\ m \in 0 .. Undoable' - 2 /\ m + d = k
        BY <4>2, <1>0, <2>1
      <4>4. Held(m)' = Held(k)
        BY <4>3, <2>1
      <4> QED BY <4>3, <4>4, <2>2 DEF Live
    <3>3. Undoable' - 1 \in 0 .. Used' - 1
      BY <1>0, <2>1
    <3>4. pushes + 1 \in Live'
      BY <3>3, <2>1, <2>2 DEF Live
    <3> QED BY <3>1, <3>2, <3>4, <2>2 DEF Live
  <2>5. Live = kept \cup shed \cup oldest
    <3>1. ASSUME NEW k \in 0 .. Used - 1
          PROVE  \/ k \in d .. Undoable - 1 \/ k \in Undoable .. Used - 1
                 \/ full /\ k = 0
      BY <1>0
    <3>2. /\ \A k \in d .. Undoable - 1 : k \in 0 .. Used - 1
          /\ \A k \in Undoable .. Used - 1 : k \in 0 .. Used - 1
          /\ full => 0 \in 0 .. Used - 1
      BY <1>0, <2>1
    <3> QED BY <3>1, <3>2, <2>2 DEF Live
  <2>6. kept \cap (shed \cup oldest) = {}
    <3>1. ASSUME NEW j \in d .. Undoable - 1, NEW k \in Undoable .. Used - 1
          PROVE  Held(j) # Held(k)
      <4>1. j \in 0 .. Used - 1 /\ k \in 0 .. Used - 1 /\ j < k
        BY <1>0, <2>1
      <4>2. Held(j) < Held(k) /\ Held(j) \in Int /\ Held(k) \in Int
        BY <4>1, HeldIsCommand DEF WindowOrdered
      <4> QED BY <4>2
    <3>2. ASSUME full, NEW k \in d .. Undoable - 1
          PROVE  Held(0) # Held(k)
      <4>1. 0 \in 0 .. Used - 1 /\ k \in 0 .. Used - 1 /\ 0 < k
        BY <1>0, <2>1, <3>2
      <4>2. Held(0) < Held(k) /\ Held(0) \in Int /\ Held(k) \in Int
        BY <4>1, HeldIsCommand DEF WindowOrdered
      <4> QED BY <4>2
    <3> QED BY <3>1, <3>2
  <2>7. Live \cap deleted = {} /\ Live \cup deleted = 1 .. pushes
    BY <2>2 DEF Accounted
  <2>8. pushes + 1 \notin deleted'
    BY <1>0, <2>3, <2>5, <2>7
  <2>9. Live' \cap deleted' = {}
    BY <2>3, <2>4, <2>5, <2>6, <2>7, <2>8
  <2>10. Live' \cup deleted' = 1 .. pushes'
    <3>1. 1 .. pushes' = (1 .. pushes) \cup {pushes + 1}
      BY <1>0, <2>2
    <3> QED BY <3>1, <2>3, <2>4, <2>5, <2>7
  <2> QED BY <2>9, <2>10 DEF Accounted
<1>2. CASE undo \/ redo
  <2>1. Used' = Used /\ \A k : Held(k)' = Held(k)
    BY <1>2, MoveKeepsWindow
  <2>2. UNCHANGED <<pushes, deleted, phase>>
    BY <1>2 DEF undo, redo
  <2>3. Live' = Live
    BY <2>1, <2>2 DEF Live
  <2> QED BY <2>2, <2>3 DEF Accounted
<1>3. CASE pushSpins
  BY <1>3 DEF pushSpins, Accounted
<1>4. CASE destroy
  <2>1. phase = "open" /\ (phase' # "spin" => LoopEnds(undo_head, redo_tail))
        /\ phase' # "open" /\ pushes' = pushes
        /\ deleted' = deleted \cup CommandsIn(Visited(undo_head, redo_tail))
    BY <1>4 DEF destroy, pointers
  <2>2. Distance(undo_head, undo_head) = 0
    BY <1>0, MaxcountBound DEF Distance, Index
  <2>3. phase' # "spin" => CommandsIn(Visited(undo_head, redo_tail)) = Live
    BY <1>0, <2>1, <2>2, CommandsInWindow DEF Live
  <2>4. Live' = {}
    BY <2>1 DEF Live
  <2> QED BY <2>1, <2>3, <2>4 DEF Accounted
<1>5. CASE UNCHANGED vars
  BY <1>5 DEF vars, pointers, Accounted, Live, Used, Held
<1> QED BY <1>1, <1>2, <1>3, <1>4, <1>5 DEF Next

-----------------------------------------------------------------------------
(* The theorems. *)

LEMMA Inductive == Spec => []IInv
<1>1. IInv /\ [Next]_vars => IInv'
  BY TypePreserved, WindowPreserved, AccountedPreserved DEF IInv
<1> QED BY <1>1, InitIInv, PTL DEF Spec

(* Every index stays inside the array and every slot names a command that  *)
(* was pushed, for every size of the ring.                                 *)
THEOREM TypeCorrect == Spec => []TypeOK
BY Inductive, PTL DEF IInv

(* The commands to undo and to redo stay in the order of their pushes      *)
(* however often the ring wraps.                                           *)
THEOREM OrderCorrect == Spec => []WindowOrdered
BY Inductive, PTL DEF IInv

(* As long as no loop spins, no command is leaked, none is destroyed twice *)
(* and none is still reachable after it was destroyed.                     *)
THEOREM NothingLost == Spec => []Accounted
BY Inductive, PTL DEF IInv

-----------------------------------------------------------------------------
(* The ring implements the history of EditHistory. *)

LEMMA Sequences ==
  IInv => /\ Past \in Seq(Nat) /\ Future \in Seq(Nat)
          /\ Len(Past) = Undoable /\ Len(Future) = Used - Undoable
          /\ \A k \in 1 .. Undoable : Past[k] = Held(k - 1)
          /\ \A k \in 1 .. Used - Undoable : Future[k] = Held(Undoable + k - 1)
          /\ Undoable \in 0 .. maxcount - 1 /\ Used \in 0 .. maxcount - 1
          /\ Undoable <= Used /\ pushes \in Nat
<1> SUFFICES ASSUME IInv
    PROVE /\ Past \in Seq(Nat) /\ Future \in Seq(Nat)
          /\ Len(Past) = Undoable /\ Len(Future) = Used - Undoable
          /\ \A k \in 1 .. Undoable : Past[k] = Held(k - 1)
          /\ \A k \in 1 .. Used - Undoable : Future[k] = Held(Undoable + k - 1)
          /\ Undoable \in 0 .. maxcount - 1 /\ Used \in 0 .. maxcount - 1
          /\ Undoable <= Used /\ pushes \in Nat
  OBVIOUS
<1>1. /\ Undoable \in 0 .. maxcount - 1 /\ Used \in 0 .. maxcount - 1
      /\ Undoable <= Used /\ pushes \in Nat
  BY Lengths, RingAssumption DEF IInv, WindowOrdered, TypeOK
<1>2. ASSUME NEW k \in 0 .. Used - 1 PROVE Held(k) \in Nat
  BY HeldIsCommand, <1>1
<1>3. ASSUME NEW k \in 1 .. Undoable PROVE Held(k - 1) \in Nat
  BY <1>1, <1>2, MaxcountBound
<1>4. ASSUME NEW k \in 1 .. Used - Undoable PROVE Held(Undoable + k - 1) \in Nat
  BY <1>1, <1>2, MaxcountBound
<1>5. Undoable \in Nat /\ Used - Undoable \in Nat
  BY <1>1, MaxcountBound
<1>6. Past \in [1 .. Undoable -> Nat] /\ Future \in [1 .. Used - Undoable -> Nat]
  BY <1>3, <1>4 DEF Past, Future
<1>7. Past \in Seq(Nat) /\ Future \in Seq(Nat)
  <2>1. \A k \in Nat : \A f \in [1 .. k -> Nat] : f \in Seq(Nat)
    OBVIOUS
  <2> QED  BY ONLY <1>5, <1>6, <2>1
<1>8. Len(Past) = Undoable /\ Len(Future) = Used - Undoable
  BY <1>5, <1>6, <1>7, LenProperties
<1>9. \A k \in 1 .. Undoable : Past[k] = Held(k - 1)
  BY DEF Past
<1>10. \A k \in 1 .. Used - Undoable : Future[k] = Held(Undoable + k - 1)
  BY DEF Future
<1> QED BY <1>1, <1>7, <1>8, <1>9, <1>10

LEMMA FullRing ==
  ASSUME IInv
  PROVE  Undoable = maxcount - 1 <=> After(undo_tail) = undo_head
<1>1. undo_head \in Index /\ undo_tail \in Index
  BY DEF IInv, TypeOK
<1> QED BY <1>1, MaxcountBound DEF Undoable, Distance, After, Index

LEMMA PushRefines ==
  ASSUME IInv, IInv', Past \in Seq(Nat), Past' \in Seq(Nat),
         Len(Past) = Undoable, Len(Past') = Undoable',
         \A k \in 1 .. Undoable : Past[k] = Held(k - 1),
         \A k \in 1 .. Undoable' : Past'[k] = Held(k - 1)',
         Undoable \in 0 .. maxcount - 1, pushes \in Nat,
         pushUndoRedoCommand
  PROVE  Past' = Append(IF Len(Past) = maxcount - 1 THEN Tail(Past) ELSE Past,
                        pushes + 1)
<1> DEFINE d == IF After(undo_tail) = undo_head THEN 1 ELSE 0
           rest == IF Len(Past) = maxcount - 1 THEN Tail(Past) ELSE Past
<1>1. /\ Undoable' = Undoable - d + 1
      /\ \A k \in 0 .. Undoable' - 2 : Held(k)' = Held(k + d)
      /\ Held(Undoable - 1)' = pushes + 1
  BY PushWindow
<1>2. /\ rest \in Seq(Nat) /\ Len(rest) = Undoable - d
      /\ \A k \in 1 .. Undoable - d : rest[k] = Past[k + d]
  <2>1. CASE Undoable = maxcount - 1
    <3>1. Past # <<>> /\ d = 1
      BY <2>1, FullRing, MaxcountBound
    <3> QED BY <2>1, <3>1, HeadTailProperties
  <2>2. CASE Undoable # maxcount - 1
    <3>1. d = 0
      BY <2>2, FullRing
    <3> QED BY <2>2, <3>1, MaxcountBound
  <2> QED BY <2>1, <2>2
<1>3. /\ Append(rest, pushes + 1) \in Seq(Nat)
      /\ Len(Append(rest, pushes + 1)) = Undoable'
      /\ \A k \in 1 .. Undoable - d : Append(rest, pushes + 1)[k] = rest[k]
      /\ Append(rest, pushes + 1)[Undoable'] = pushes + 1
  <2>0. d \in {0, 1}
    OBVIOUS
  <2> HIDE DEF rest, d
  <2>1. pushes + 1 \in Nat /\ Undoable' = Len(rest) + 1
    BY <1>1, <1>2, <2>0, MaxcountBound
  <2> QED BY <2>1, <1>2, AppendProperties
<1>4. ASSUME NEW k \in 1 .. Undoable'
      PROVE  Past'[k] = Append(rest, pushes + 1)[k]
  <2>1. CASE k = Undoable'
    BY <2>1, <1>1, <1>3
  <2>2. CASE k # Undoable'
    <3>1. k \in 1 .. Undoable - d /\ k - 1 \in 0 .. Undoable' - 2
          /\ k + d \in 1 .. Undoable /\ (k - 1) + d = (k + d) - 1
      BY <2>2, <1>1, MaxcountBound
    <3>2. Past'[k] = Held((k - 1) + d)
      BY <3>1, <1>1
    <3>3. Past[k + d] = Held((k + d) - 1)
      BY <3>1
    <3> QED BY <3>1, <3>2, <3>3, <1>2, <1>3
  <2> QED BY <2>1, <2>2
<1> QED BY <1>3, <1>4, SeqEqual

(* An undo moves the commands to redo by one. *)
LEMMA OneFurther ==
  ASSUME NEW u \in Int, NEW w \in Int, NEW k \in 1 .. w - (u - 1), k # 1
  PROVE  k - 1 \in 1 .. w - u /\ k > 1 /\ (u - 1) + k - 1 = u + (k - 1) - 1
OBVIOUS

(* Every step of the ring is a step of the history, or none.               *)
LEMMA StepRefines ==
  ASSUME IInv, IInv', [Next]_vars,
         Past \in Seq(Nat), Future \in Seq(Nat),
         Len(Past) = Undoable, Len(Future) = Used - Undoable,
         \A k \in 1 .. Undoable : Past[k] = Held(k - 1),
         \A k \in 1 .. Used - Undoable : Future[k] = Held(Undoable + k - 1),
         Undoable \in 0 .. maxcount - 1, Used \in 0 .. maxcount - 1,
         Undoable <= Used, pushes \in Nat,
         Past' \in Seq(Nat), Future' \in Seq(Nat),
         Len(Past') = Undoable', Len(Future') = Used' - Undoable',
         \A k \in 1 .. Undoable' : Past'[k] = Held(k - 1)',
         \A k \in 1 .. Used' - Undoable' : Future'[k] = Held(Undoable + k - 1)'
  PROVE  [History!HNext]_(History!hvars)
<1>1. CASE pushUndoRedoCommand
  <2>1. Past' = Append(IF Len(Past) = maxcount - 1 THEN Tail(Past) ELSE Past,
                       pushes + 1)
    BY <1>1, PushRefines
  <2>2. Used' = Undoable'
    BY <1>1, PushWindow
  <2>3. Future' = <<>>
    <3>1. Used' - Undoable' = 0
      BY <2>2, Lengths, PushWindow, <1>1, MaxcountBound
    <3> QED BY <3>1, EmptySeq
  <2> QED BY <1>1, <2>1, <2>3 DEF pushUndoRedoCommand, History!HNext, History!HPush
<1>2. CASE undo
  <2>1. /\ Used' = Used /\ Undoable' = Undoable - 1 /\ \A k : Held(k)' = Held(k)
        /\ UNCHANGED pushes
    BY <1>2, MoveKeepsWindow DEF undo
  <2>2. Undoable > 0
    <3>1. Undoable' \in Nat
      BY <2>1, LenProperties
    <3> QED BY <3>1, <2>1, MaxcountBound
  <2>3. Past' = SubSeq(Past, 1, Len(Past) - 1)
    <3>1. /\ SubSeq(Past, 1, Undoable - 1) \in Seq(Nat)
          /\ Len(SubSeq(Past, 1, Undoable - 1)) = Undoable'
          /\ \A k \in 1 .. Undoable' : SubSeq(Past, 1, Undoable - 1)[k] = Past[k]
      <4>1. \A k \in 1 .. Undoable - 1 : Past[k] \in Nat
        <5>1. /\ Past \in Seq(Nat) /\ Len(Past) = Undoable
              /\ \A k \in 1 .. Undoable - 1 : k \in 1 .. Undoable
          BY <2>2, MaxcountBound
        <5> QED  BY <5>1, ElementOfSeq
      <4>2. Undoable \in Int /\ Undoable - 1 + 1 - 1 = Undoable - 1
        BY <2>2, MaxcountBound
      <4> DEFINE s == SubSeq(Past, 1, Undoable - 1)
      <4>3. /\ s \in Seq(Nat)
            /\ Len(s) = IF 1 <= Undoable - 1 THEN Undoable - 1 - 1 + 1 ELSE 0
            /\ \A k \in 1 .. Undoable - 1 - 1 + 1 : s[k] = Past[1 + k - 1]
        BY <4>1, <4>2, SubSeqProperties
      <4> HIDE DEF s
      <4>4. \A k \in 1 .. Undoable - 1 : k \in 1 .. Undoable - 1 - 1 + 1 /\ 1 + k - 1 = k
        BY <4>2
      <4>5. Len(s) = Undoable - 1
        BY <4>2, <4>3, <2>2
      <4>6. \A k \in 1 .. Undoable - 1 : s[k] = Past[k]
        BY <4>3, <4>4
      <4> QED BY <4>3, <4>5, <4>6, <2>1 DEF s
    <3>2. ASSUME NEW k \in 1 .. Undoable'
          PROVE  Past'[k] = SubSeq(Past, 1, Undoable - 1)[k]
      <4>1. k \in 1 .. Undoable
        BY <2>1, MaxcountBound
      <4> QED BY <3>1, <2>1, <4>1
    <3> QED BY <3>1, <3>2, SeqEqual
  <2>4. Future' = <<Past[Len(Past)]>> \o Future
    <3> DEFINE f == <<Past[Len(Past)]>>
    <3>1. f \in Seq(Nat) /\ Len(f) = 1 /\ f[1] = Held(Undoable - 1)
      <4>1. Undoable \in 1 .. Undoable
        BY <2>2, MaxcountBound
      <4>2. Past[Undoable] \in Nat /\ Past[Undoable] = Held(Undoable - 1)
        BY <4>1, ElementOfSeq
      <4> QED BY <4>2
    <3>2. /\ f \o Future \in Seq(Nat) /\ Len(f \o Future) = Used' - Undoable'
          /\ \A k \in 1 .. Used' - Undoable' :
               (f \o Future)[k] = IF k <= 1 THEN f[k] ELSE Future[k - 1]
      <4>1. Used' - Undoable' = Len(f) + Len(Future)
        BY <3>1, <2>1, MaxcountBound
      <4> HIDE DEF f
      <4>2. /\ f \o Future \in Seq(Nat)
            /\ Len(f \o Future) = Len(f) + Len(Future)
            /\ \A k \in 1 .. Len(f) + Len(Future) :
                 (f \o Future)[k] = IF k <= Len(f) THEN f[k]
                                   ELSE Future[k - Len(f)]
        BY <3>1, ConcatProperties
      <4> QED BY <3>1, <4>1, <4>2
    <3>3. ASSUME NEW k \in 1 .. Used' - Undoable'
          PROVE  Future'[k] = (f \o Future)[k]
      <4>1. Future'[k] = Held((Undoable - 1) + k - 1)
        <5>1. Future'[k] = Held(Undoable + k - 1)'
          OBVIOUS
        <5>2. Held(Undoable + k - 1)' = commands'[Slot(undo_head', Undoable' + k - 1)]
          BY DEF Held
        <5>3. commands' = commands /\ undo_head' = undo_head
          BY <1>2 DEF undo
        <5> QED BY <5>1, <5>2, <5>3, <2>1 DEF Held
      <4>2. CASE k = 1
        <5>1. (Undoable - 1) + k - 1 = Undoable - 1
          BY <4>2, MaxcountBound
        <5> QED BY <4>1, <4>2, <5>1, <3>1, <3>2
      <4>3. CASE k # 1
        <5>1. k - 1 \in 1 .. Used - Undoable /\ k > 1
              /\ (Undoable - 1) + k - 1 = Undoable + (k - 1) - 1
          <6>1. Used \in Int /\ Undoable \in Int /\ k \in 1 .. Used - (Undoable - 1)
            BY <2>1, MaxcountBound
          <6> QED BY <4>3, <6>1, OneFurther
        <5> QED BY <4>1, <5>1, <3>2
      <4> QED BY <4>2, <4>3
    <3> QED BY <3>2, <3>3, SeqEqual
  <2>5. Past # <<>>
    BY <2>2, EmptySeq
  <2> QED BY <2>1, <2>3, <2>4, <2>5 DEF History!HNext, History!HUndo
<1>3. CASE redo /\ ~undo
  <2>1. /\ Used' = Used /\ Undoable' = Undoable + 1 /\ \A k : Held(k)' = Held(k)
        /\ Undoable' <= Used /\ UNCHANGED pushes
    BY <1>3, MoveKeepsWindow DEF redo
  <2>2. Future # <<>> /\ Head(Future) = Held(Undoable) /\ Held(Undoable) \in Nat
    <3>1. 1 \in 1 .. Used - Undoable /\ Undoable + 1 - 1 = Undoable
      BY <2>1, MaxcountBound
    <3>2. Future # <<>>
      BY <3>1, EmptySeq
    <3>3. Future[1] = Held(Undoable) /\ Future[1] \in Nat
      BY <3>1, ElementOfSeq
    <3> QED BY <3>2, <3>3
  <2>3. Past' = Append(Past, Head(Future))
    <3>1. /\ Append(Past, Held(Undoable)) \in Seq(Nat)
          /\ Len(Append(Past, Held(Undoable))) = Undoable'
          /\ \A k \in 1 .. Undoable : Append(Past, Held(Undoable))[k] = Past[k]
          /\ Append(Past, Held(Undoable))[Undoable'] = Held(Undoable)
      BY <2>1, <2>2, AppendProperties
    <3>2. ASSUME NEW k \in 1 .. Undoable'
          PROVE  Past'[k] = Append(Past, Held(Undoable))[k]
      <4>1. Past'[k] = Held(k - 1)
        BY <2>1
      <4>2. CASE k = Undoable'
        <5>1. k - 1 = Undoable
          BY <4>2, <2>1, MaxcountBound
        <5> QED BY <4>1, <4>2, <5>1, <3>1
      <4>3. CASE k # Undoable'
        <5>1. k \in 1 .. Undoable
          BY <4>3, <2>1, MaxcountBound
        <5> QED BY <4>1, <5>1, <3>1
      <4> QED BY <4>2, <4>3
    <3> QED BY <2>2, <3>1, <3>2, SeqEqual
  <2>4. Future' = Tail(Future)
    <3>1. /\ Tail(Future) \in Seq(Nat) /\ Len(Tail(Future)) = Used' - Undoable'
          /\ \A k \in 1 .. Used' - Undoable' : Tail(Future)[k] = Future[k + 1]
      BY <2>1, <2>2, HeadTailProperties, MaxcountBound
    <3>2. ASSUME NEW k \in 1 .. Used' - Undoable'
          PROVE  Future'[k] = Tail(Future)[k]
      <4>1. Future'[k] = Held((Undoable + 1) + k - 1)
        <5>1. Future'[k] = Held(Undoable + k - 1)'
          OBVIOUS
        <5>2. Held(Undoable + k - 1)' = commands'[Slot(undo_head', Undoable' + k - 1)]
          BY DEF Held
        <5>3. commands' = commands /\ undo_head' = undo_head
          BY <1>3 DEF redo
        <5> QED BY <5>1, <5>2, <5>3, <2>1 DEF Held
      <4>2. k + 1 \in 1 .. Used - Undoable
            /\ (Undoable + 1) + k - 1 = Undoable + (k + 1) - 1
        BY <2>1, MaxcountBound
      <4> QED BY <4>1, <4>2, <3>1
    <3> QED BY <3>1, <3>2, SeqEqual
  <2> QED BY <2>1, <2>2, <2>3, <2>4 DEF History!HNext, History!HRedo
<1>4. CASE pushSpins \/ destroy \/ UNCHANGED vars
  <2>1. Past' = Past /\ Future' = Future /\ pushes' = pushes
    BY <1>4 DEF pushSpins, destroy, vars, pointers, Past, Future, Held,
                Undoable, Used
  <2> QED BY <2>1 DEF History!hvars
<1> QED BY <1>1, <1>2, <1>3, <1>4 DEF Next

(* Undo and redo follow the order of the pushes across every wrap, a push  *)
(* forgets exactly the undone commands and a full ring exactly its oldest: *)
(* the ring implements the history that editors rely on.                   *)
THEOREM RingImplementsHistory == Spec => ImplementsHistory
<1>1. Init => History!HInit
  <2> SUFFICES ASSUME Init PROVE History!HInit
    OBVIOUS
  <2>1. Undoable = 0 /\ Used = 0
    BY DEF Init, Used, Undoable, Distance
  <2>2. Past = <<>> /\ Future = <<>>
    BY <2>1, Sequences, InitIInv, EmptySeq
  <2> QED BY <2>2 DEF Init, History!HInit
<1>2. IInv /\ IInv' /\ [Next]_vars => [History!HNext]_(History!hvars)
  <2> SUFFICES ASSUME IInv, IInv', [Next]_vars
               PROVE  [History!HNext]_(History!hvars)
    OBVIOUS
  <2>1. (IInv => /\ Past \in Seq(Nat) /\ Future \in Seq(Nat)
                 /\ Len(Past) = Undoable /\ Len(Future) = Used - Undoable
                 /\ \A k \in 1 .. Undoable : Past[k] = Held(k - 1)
                 /\ \A k \in 1 .. Used - Undoable :
                      Future[k] = Held(Undoable + k - 1))'
    BY Sequences, PTL
  <2> QED BY <2>1, Sequences, StepRefines
<1> QED BY <1>1, <1>2, Inductive, PTL DEF Spec, ImplementsHistory, History!HSpec
-----------------------------------------------------------------------------
(* The clipboard.                                                          *)

(* The clamp of the constructor: the ring has at least 8 slots. *)
LEMMA MaxCountType == max_count \in Nat /\ max_count >= 8
BY ClipAssumption DEF ClipAssumption, max_count

(* The first slot of a new group is a slot of the ring. *)
LEMMA NewTopInIndex ==
  ASSUME NEW n \in 1 .. max_count, n < max_count - 1, obj_top \in 0 .. max_count
  PROVE  NewTop(n) \in Slots
BY MaxCountType DEF NewTop, Back, Start, Slots

(* Counting from a slot t, every slot is at a place of its own. *)
LEMMA GapType ==
  ASSUME NEW t \in Slots, NEW i \in Slots
  PROVE  Gap(t, i) \in Slots
BY MaxCountType DEF Gap, Slots

LEMMA GapInjective ==
  ASSUME NEW t \in Slots, NEW i \in Slots, NEW j \in Slots, Gap(t, i) = Gap(t, j)
  PROVE  i = j
BY MaxCountType DEF Gap, Slots

-----------------------------------------------------------------------------
(* What one accepted copy leaves in the slots. *)

LEMMA PushType ==
  ASSUME ClipTypeOK, NEW n \in 1 .. max_count, push(n)
  PROVE  ClipTypeOK'
<1> DEFINE t == NewTop(n)
<1> USE MaxCountType
<1>1. t \in Slots
  BY NewTopInIndex DEF ClipTypeOK, push
<1>2. clones' \in 0 .. MaxClones /\ clones' = clones + n /\ clones \in Nat
  BY ClipAssumption DEF ClipTypeOK, push, ClipAssumption
<1>3. objects' \in [Slots -> 0 .. clones']
  <2> SUFFICES ASSUME NEW i \in Slots
               PROVE  objects'[i] \in 0 .. clones'
    BY DEF push
  <2>1. objects'[i] = IF Gap(t, i) < n THEN clones + 1 + Gap(t, i)
                      ELSE IF i \in Cleared(t, n) THEN Empty ELSE objects[i]
    BY DEF push
  <2>2. Gap(t, i) \in Nat
    BY <1>1, GapType DEF Slots
  <2>3. objects[i] \in 0 .. clones
    BY DEF ClipTypeOK
  <2> QED BY <1>2, <2>1, <2>2, <2>3 DEF Empty
<1>4. obj_top' \in 0 .. max_count
  BY <1>1 DEF push, Slots
<1>5. released' \subseteq 1 .. clones'
  <2>1. \A i \in Cleared(t, n) : objects[i] \in 0 .. clones
    BY DEF Cleared, ClipTypeOK
  <2>2. released' = released \cup ({objects[i] : i \in Cleared(t, n)} \ {Empty})
    BY DEF push
  <2>3. ASSUME NEW r \in released'
        PROVE  r \in 1 .. clones
    <3>1. CASE r \in released
      BY <3>1 DEF ClipTypeOK
    <3>2. CASE r \notin released
      <4>1. PICK i \in Cleared(t, n) : r = objects[i] /\ r # Empty
        BY <2>2, <2>3, <3>2
      <4> QED BY <1>2, <2>1, <4>1 DEF Empty
    <3> QED BY <3>1, <3>2
  <2> QED BY <1>2, <2>3
<1>6. copied' \in Seq(1 .. clones')
  <2>1. copied' = [k \in 1 .. n |-> clones + k]
    BY DEF push
  <2>2. \A k \in 1 .. n : clones + k \in 1 .. clones'
    BY <1>2
  <2> QED BY <2>1, <2>2
<1> QED BY <1>2, <1>3, <1>4, <1>5, <1>6 DEF ClipTypeOK

LEMMA PushPaste ==
  ASSUME ClipTypeOK, NEW n \in 1 .. max_count, push(n)
  PROVE  PasteIsLastCopy'
<1> DEFINE t == NewTop(n)
<1> USE MaxCountType
<1>1. t \in Slots /\ obj_top' = t
  BY NewTopInIndex DEF ClipTypeOK, push
<1>2. copied' = [k \in 1 .. n |-> clones + k] /\ Len(copied') = n
  BY DEF push
<1>3. ASSUME NEW i \in Slots
      PROVE  /\ Gap(t, i) < n => objects'[i] = copied'[Gap(t, i) + 1]
             /\ Gap(t, i) = n => objects'[i] = Empty
  <2>1. objects'[i] = IF Gap(t, i) < n THEN clones + 1 + Gap(t, i)
                      ELSE IF i \in Cleared(t, n) THEN Empty ELSE objects[i]
    BY DEF push
  <2>2. Gap(t, i) \in Nat
    BY <1>1, GapType DEF Slots
  <2>3. CASE Gap(t, i) < n
    <3>1. Gap(t, i) + 1 \in 1 .. n
      BY <2>2, <2>3
    <3>2. copied'[Gap(t, i) + 1] = clones + (Gap(t, i) + 1)
      BY <1>2, <3>1
    <3>3. clones \in Nat
      BY DEF ClipTypeOK
    <3> QED BY <2>1, <2>2, <2>3, <3>2, <3>3
  <2>4. CASE Gap(t, i) = n
    BY <2>1, <2>4 DEF Cleared
  <2> QED BY <2>3, <2>4
<1> HIDE DEF t
<1>4. \A i \in Slots :
        /\ Gap(obj_top', i) < Len(copied') =>
             objects'[i] = copied'[Gap(obj_top', i) + 1]
        /\ Gap(obj_top', i) = Len(copied') => objects'[i] = Empty
  BY <1>1, <1>2, <1>3
<1> QED BY <1>1, <1>4 DEF PasteIsLastCopy, Gap, Slots, max_count, Empty

LEMMA PushHeld ==
  ASSUME ClipTypeOK, HeldOnce, NEW n \in 1 .. max_count, push(n)
  PROVE  HeldOnce'
<1> DEFINE t == NewTop(n)
           kept(i) == ~(Gap(t, i) < n) /\ i \notin Cleared(t, n)
<1> USE MaxCountType
<1>1. t \in Slots /\ clones \in Nat
  BY NewTopInIndex DEF ClipTypeOK, push
<1>2. \A i \in Slots : Gap(t, i) \in Nat /\ objects[i] \in 0 .. clones
  <2>1. \A i \in Slots : Gap(t, i) \in Slots
    BY <1>1, GapType
  <2>2. \A i \in Slots : i \in Nat
    BY DEF Slots
  <2>3. \A i \in Slots : objects[i] \in 0 .. clones
    BY DEF ClipTypeOK
  <2> QED BY <2>1, <2>2, <2>3
<1>3. \A i \in Slots :
        /\ Gap(t, i) < n => objects'[i] = clones + 1 + Gap(t, i)
        /\ kept(i) => objects'[i] = objects[i]
        /\ ~(Gap(t, i) < n) /\ ~kept(i) => objects'[i] = Empty
  BY DEF push
<1>4. released' = released \cup ({objects[i] : i \in Cleared(t, n)} \ {Empty})
  BY DEF push
<1>5. \A r \in released' : r \in 1 .. clones
  BY <1>2, <1>4 DEF ClipTypeOK, Cleared, Empty
<1> HIDE DEF t
<1>6. ASSUME NEW i \in Slots, objects'[i] # Empty
      PROVE  objects'[i] \notin released'
  <2>1. CASE Gap(t, i) < n
    BY <1>1, <1>2, <1>3, <1>5, <2>1
  <2>2. CASE kept(i)
    <3>1. objects'[i] = objects[i] /\ objects[i] # Empty
      BY <1>3, <1>6, <2>2
    <3>2. \A j \in Cleared(t, n) : j \in Slots \ {i}
      BY <2>2 DEF Cleared
    <3>3. objects[i] \notin released /\ \A j \in Cleared(t, n) : objects[j] # objects[i]
      BY <3>1, <3>2 DEF HeldOnce
    <3> QED BY <1>4, <3>1, <3>3
  <2> QED BY <1>3, <1>6, <2>1, <2>2
<1>7. ASSUME NEW i \in Slots, objects'[i] # Empty, NEW j \in Slots \ {i}
      PROVE  objects'[j] # objects'[i]
  <2>1. CASE Gap(t, i) < n /\ Gap(t, j) < n
    BY <1>1, <1>2, <1>3, <2>1, GapInjective
  <2>2. CASE kept(i) /\ kept(j)
    BY <1>3, <1>7, <2>2 DEF HeldOnce
  <2>3. CASE Gap(t, i) < n /\ kept(j)
    BY <1>1, <1>2, <1>3, <2>3
  <2>4. CASE kept(i) /\ Gap(t, j) < n
    BY <1>1, <1>2, <1>3, <2>4
  <2>5. CASE ~(Gap(t, j) < n) /\ ~kept(j)
    BY <1>3, <1>7, <2>5
  <2> QED BY <1>3, <1>7, <2>1, <2>2, <2>3, <2>4, <2>5
<1> QED BY <1>6, <1>7 DEF HeldOnce, Empty, Slots, max_count

-----------------------------------------------------------------------------
(* The theorems. *)

LEMMA InitHolds == ClipInit => ClipTypeOK /\ PasteIsLastCopy /\ HeldOnce
<1> SUFFICES ASSUME ClipInit PROVE ClipTypeOK /\ PasteIsLastCopy /\ HeldOnce
  OBVIOUS
<1> USE MaxCountType, ClipAssumption DEF ClipInit, ClipAssumption
<1>1. ClipTypeOK
  BY DEF ClipTypeOK, Empty
<1>2. PasteIsLastCopy
  BY DEF PasteIsLastCopy
<1>3. HeldOnce
  BY DEF HeldOnce
<1> QED BY <1>1, <1>2, <1>3

LEMMA StepHolds ==
  ASSUME ClipTypeOK, PasteIsLastCopy, HeldOnce, [ClipNext]_clipVars
  PROVE  ClipTypeOK' /\ PasteIsLastCopy' /\ HeldOnce'
<1>1. CASE ClipNext
  <2>1. PICK n \in 1 .. max_count : push(n)
    BY <1>1 DEF ClipNext
  <2> QED BY <2>1, PushType, PushPaste, PushHeld
<1>2. CASE UNCHANGED clipVars
  <2>1. ClipTypeOK'
    BY <1>2 DEF clipVars, ClipTypeOK, Slots, max_count
  <2>2. PasteIsLastCopy'
    BY <1>2 DEF clipVars, PasteIsLastCopy, Gap, Slots, max_count, Empty
  <2>3. HeldOnce'
    BY <1>2 DEF clipVars, HeldOnce, Slots, max_count, Empty
  <2> QED BY <2>1, <2>2, <2>3
<1> QED BY <1>1, <1>2

(* The pointers of the clipboard stay in its array for every ring size.    *)
THEOREM ClipTypeCorrect == ClipSpec => []ClipTypeOK
<1>1. ClipSpec => [](ClipTypeOK /\ PasteIsLastCopy /\ HeldOnce)
  BY InitHolds, StepHolds, PTL DEF ClipSpec
<1> QED BY <1>1, PTL

(* Whatever was copied before, a paste finds the whole last copy: push     *)
(* always clears enough of the ring to end its group.                      *)
THEOREM PasteCorrect == ClipSpec => []PasteIsLastCopy
<1>1. ClipSpec => [](ClipTypeOK /\ PasteIsLastCopy /\ HeldOnce)
  BY InitHolds, StepHolds, PTL DEF ClipSpec
<1> QED BY <1>1, PTL

(* No clone is held after it was released, nor released twice: the clones  *)
(* a push releases are in the slots it clears and in no other.             *)
THEOREM HeldCorrect == ClipSpec => []HeldOnce
<1>1. ClipSpec => [](ClipTypeOK /\ PasteIsLastCopy /\ HeldOnce)
  BY InitHolds, StepHolds, PTL DEF ClipSpec
<1> QED BY <1>1, PTL

-----------------------------------------------------------------------------
(* The id ranges.                                                          *)

OneRange == [min : 0 .. LimitMax, max : Ids, owner : Owner, used : 0 .. Unknown,
          new : BOOLEAN, linked : BOOLEAN, managed : BOOLEAN]

Ranges == Seq(OneRange)

(* No range is empty.  nextId hands out min+1 without a look at max. *)
Sane(l) == \A k \in DOMAIN l : l[k].min < l[k].max

(* No id lies in two ranges, but for those of S. *)
Apart(l, S) ==
  \A i \in Ids \ S : \A j, k \in DOMAIN l :
    Covers(l[j], i) /\ Covers(l[k], i) => j = k

(* Every range counts its ids in use, but for those with an id of S.       *)
Clear(r, S) == \A i \in S : ~Covers(r, i)

Counted(l, ids, S) ==
  \A k \in DOMAIN l : Clear(l[k], S) =>
    l[k].used = Cardinality({i \in ids : Covers(l[k], i)})

(* A manager between two calls, with its current range in the list, freed  *)
(* or unset.                                                               *)
Manager ==
  {m \in [list : Ranges, cur : Int, next_id : -1 .. LimitMax + 1,
          fault : BOOLEAN] :
     Sane(m.list) /\ m.cur \in Freed .. Len(m.list)}

(* Two ranges that differ only in their pointers. *)
Like(r, s) ==
  /\ r.min = s.min /\ r.max = s.max /\ r.owner = s.owner
  /\ r.used = s.used /\ r.new = s.new

(* What addIDRange of (lo, hi] for o can make of the list: every range but *)
(* one comes from a range of the old list, and no two from the same; the   *)
(* one may be a new range of ids of (lo, hi], or an old one of o's that    *)
(* has grown by such ids.                                                  *)
NewPiece(r, lo, hi, o) ==
  r.owner = o /\ r.new /\ lo <= r.min /\ r.min < r.max /\ r.max <= hi

Wider(r, s, lo, hi, o) ==
  /\ r.owner = s.owner /\ r.min < r.max
  /\ r.new \/ Like(r, s)
  /\ \A i \in Ids : Covers(r, i) =>
       Covers(s, i) \/ (s.owner = o /\ lo < i /\ i <= hi)

GrownFrom(l, l2, from, g, lo, hi, o) ==
  /\ \A j, k \in 1 .. Len(l2) : from[j] = from[k] => j = k
  /\ \A j \in 1 .. Len(l2) :
       j # g => from[j] # 0 /\ Like(l2[j], l[from[j]])
  /\ g \in 1 .. Len(l2) =>
       \/ from[g] = 0 /\ NewPiece(l2[g], lo, hi, o)
       \/ from[g] # 0 /\ Wider(l2[g], l[from[g]], lo, hi, o)

Grown(l, l2, lo, hi, o) ==
  \E from \in [1 .. Len(l2) -> 0 .. Len(l)], g \in Nat :
    GrownFrom(l, l2, from, g, lo, hi, o)

-----------------------------------------------------------------------------
(* The least of a set of numbers, and sequences. *)

LEMMA LeastExists ==
  ASSUME NEW S \in SUBSET Nat, S # {}
  PROVE  \E m \in S : \A y \in S : m =< y
<1> DEFINE initials == {0 .. k : k \in S}
<1>1. initials \subseteq FiniteSubsetsOf(Nat) /\ initials # {}
  <2>1. \A k \in S : IsFiniteSet(0 .. k) /\ 0 .. k \subseteq Nat
    BY FS_Interval
  <2> QED  BY <2>1 DEF FiniteSubsetsOf
<1>2. PICK K \in initials :
        \A J \in initials : <<J, K>> \notin StrictSubsetOrdering(Nat)
  BY <1>1, WFMin, FS_StrictSubsetOrderingWellFounded
<1>3. PICK k \in S : K = 0 .. k
  OBVIOUS
<1>4. ASSUME NEW y \in S, ~ (k =< y) PROVE FALSE
  <2>1. y \in Nat /\ k \in Nat /\ y < k
    BY <1>4
  <2>2. 0 .. y \subseteq 0 .. k /\ k \in 0 .. k /\ k \notin 0 .. y
    BY <2>1
  <2>3. 0 .. y \in initials /\ 0 .. y \subseteq Nat /\ 0 .. k \subseteq Nat
    BY <2>1
  <2>4. <<0 .. y, K>> \in StrictSubsetOrdering(Nat)
    BY <1>3, <2>2, <2>3 DEF StrictSubsetOrdering
  <2> QED  BY <1>2, <2>3, <2>4
<1> QED  BY <1>4

LEMMA FirstIs ==
  ASSUME NEW S \in SUBSET Nat, S # {}
  PROVE  First(S) \in S /\ \A j \in S : First(S) <= j
<1>1. \E k \in S : \A j \in S : k <= j
  BY LeastExists
<1> QED  BY <1>1 DEF First

LEMMA InsertAtFacts ==
  ASSUME NEW S, NEW s \in Seq(S), NEW x \in S, NEW k \in 1 .. Len(s) + 1
  PROVE  /\ InsertAt(s, k, x) \in Seq(S)
         /\ Len(InsertAt(s, k, x)) = Len(s) + 1
         /\ InsertAt(s, k, x)[k] = x
         /\ \A j \in 1 .. k - 1 : InsertAt(s, k, x)[j] = s[j]
         /\ \A j \in k .. Len(s) : InsertAt(s, k, x)[j + 1] = s[j]
<1> DEFINE n == Len(s)
           a == SubSeq(s, 1, k - 1)
           b == SubSeq(s, k, n)
           c == a \o <<x>>
<1>1. n \in Nat /\ k \in 1 .. n + 1 /\ DOMAIN s = 1 .. n
  OBVIOUS
<1>2. a \in Seq(S) /\ Len(a) = k - 1 /\ \A j \in 1 .. k - 1 : a[j] = s[j]
  <2>1. \A j \in 1 .. k - 1 : s[j] \in S
    BY <1>1
  <2> QED  BY <1>1, <2>1, SubSeqProperties
<1>3. b \in Seq(S) /\ Len(b) = n - k + 1 /\ \A j \in 1 .. n - k + 1 : b[j] = s[k + j - 1]
  <2>1. \A j \in k .. n : s[j] \in S
    BY <1>1
  <2>2. Len(b) = n - k + 1
    BY <1>1, <2>1, SubSeqProperties
  <2>3. \A j \in 1 .. n - k + 1 : b[j] = s[k + j - 1]
    BY <1>1, <2>1, <2>2, SubSeqProperties
  <2>4. b \in Seq(S)
    BY <1>1, <2>1, SubSeqProperties
  <2> QED  BY <2>2, <2>3, <2>4
<1> HIDE DEF a, b
<1>4. c \in Seq(S) /\ Len(c) = k /\ c[k] = x /\ \A j \in 1 .. k - 1 : c[j] = s[j]
  <2>1. c \in Seq(S) /\ Len(c) = k
    BY <1>1, <1>2
  <2>2. c[k] = x
    BY <1>1, <1>2
  <2>3. \A j \in 1 .. k - 1 : c[j] = a[j]
    BY <1>1, <1>2
  <2> QED  BY <1>2, <2>1, <2>2, <2>3
<1> HIDE DEF c
<1>5. c \o b \in Seq(S) /\ Len(c \o b) = n + 1
  BY <1>1, <1>3, <1>4
<1>6. \A j \in 1 .. k : (c \o b)[j] = c[j]
  BY <1>1, <1>3, <1>4
<1>7. \A j \in k .. n : (c \o b)[j + 1] = s[j]
  <2> TAKE j \in k .. n
  <2>1. (c \o b)[j + 1] = b[j + 1 - k]
    BY <1>1, <1>3, <1>4
  <2>2. j + 1 - k \in 1 .. n - k + 1 /\ k + (j + 1 - k) - 1 = j
    BY <1>1
  <2> QED  BY <1>3, <2>1, <2>2
<1>8. InsertAt(s, k, x) = c \o b
  BY DEF InsertAt, a, b, c
<1> QED  BY <1>1, <1>4, <1>5, <1>6, <1>7, <1>8

LEMMA RemoveAtFacts ==
  ASSUME NEW S, NEW s \in Seq(S), NEW i \in DOMAIN s
  PROVE  /\ RemoveAt(s, i) \in Seq(S) /\ Len(RemoveAt(s, i)) = Len(s) - 1
         /\ \A j \in 1 .. Len(s) - 1 :
              RemoveAt(s, i)[j] = s[IF j < i THEN j ELSE j + 1]
<1> DEFINE n == Len(s)
           a == SubSeq(s, 1, i - 1)
           b == SubSeq(s, i + 1, n)
<1>1. n \in Nat /\ i \in 1 .. n /\ DOMAIN s = 1 .. n
  OBVIOUS
<1>2. a \in Seq(S) /\ Len(a) = i - 1 /\ \A j \in 1 .. i - 1 : a[j] = s[j]
  <2>1. \A j \in 1 .. i - 1 : s[j] \in S
    BY <1>1
  <2>2. Len(a) = i - 1 /\ \A j \in 1 .. i - 1 : a[j] = s[1 + j - 1]
    BY <1>1, <2>1, SubSeqProperties
  <2>3. a \in Seq(S)
    BY <1>1, <2>1, SubSeqProperties
  <2> QED  BY <2>2, <2>3, <1>1
<1>3. b \in Seq(S) /\ Len(b) = n - i /\ \A j \in 1 .. n - i : b[j] = s[i + j]
  <2>1. \A j \in i + 1 .. n : s[j] \in S
    BY <1>1
  <2>2. Len(b) = n - i
    BY <1>1, <2>1, SubSeqProperties
  <2>3. \A j \in 1 .. n - i : b[j] = s[i + 1 + j - 1]
    BY <1>1, <2>1, <2>2, SubSeqProperties
  <2>4. b \in Seq(S)
    BY <1>1, <2>1, SubSeqProperties
  <2>5. \A j \in 1 .. n - i : i + 1 + j - 1 = i + j
    BY <1>1
  <2> QED  BY <2>2, <2>3, <2>4, <2>5
<1>4. RemoveAt(s, i) = a \o b
  BY DEF RemoveAt
<1>5. /\ a \o b \in Seq(S) /\ Len(a \o b) = Len(a) + Len(b)
      /\ \A j \in 1 .. Len(a) + Len(b) :
           (a \o b)[j] = IF j <= Len(a) THEN a[j] ELSE b[j - Len(a)]
  BY <1>2, <1>3, ConcatProperties
<1>6. ASSUME NEW j \in 1 .. n - 1
      PROVE  (a \o b)[j] = s[IF j < i THEN j ELSE j + 1]
  <2>1. CASE j < i
    BY <1>1, <1>2, <1>3, <1>5, <2>1
  <2>2. CASE ~ (j < i)
    <3>1. /\ j \in 1 .. Len(a) + Len(b) /\ ~ (j <= Len(a))
          /\ j - Len(a) \in 1 .. n - i /\ i + (j - Len(a)) = j + 1
      <4> HIDE DEF a, b, n
      <4>1. Len(a) = i - 1 /\ Len(b) = n - i /\ n \in Nat /\ i \in 1 .. n
        BY <1>1, <1>2, <1>3
      <4> QED  BY <2>2, <4>1
    <3>2. b[j - Len(a)] = s[i + (j - Len(a))]
      BY <3>1, <1>3
    <3> QED  BY <1>5, <2>2, <3>1, <3>2
  <2> QED  BY <2>1, <2>2
<1>7. Len(a \o b) = n - 1
  BY <1>1, <1>2, <1>3, <1>5
<1> HIDE DEF n, a, b
<1>8. RemoveAt(s, i) \in Seq(S) /\ Len(RemoveAt(s, i)) = n - 1
  BY <1>4, <1>5, <1>7
<1>9. \A j \in 1 .. n - 1 : RemoveAt(s, i)[j] = s[IF j < i THEN j ELSE j + 1]
  BY <1>4, <1>6
<1> QED  BY <1>8, <1>9 DEF n

-----------------------------------------------------------------------------
(* Grown lists. *)

(* What a grown list covers: old ids for old owners, new ids for the new.  *)
LEMMA GrownCovers ==
  ASSUME NEW l \in Ranges, NEW l2 \in Ranges, NEW lo \in 0 .. LimitMax,
         NEW hi \in Ids, NEW o \in Owner, Grown(l, l2, lo, hi, o),
         NEW k \in DOMAIN l2, NEW i \in Ids, Covers(l2[k], i)
  PROVE  \/ l2[k].owner = o /\ lo < i /\ i <= hi
         \/ \E j \in DOMAIN l : l[j].owner = l2[k].owner /\ Covers(l[j], i)
<1>1. PICK from \in [1 .. Len(l2) -> 0 .. Len(l)], g \in Nat :
        GrownFrom(l, l2, from, g, lo, hi, o)
  BY DEF Grown
<1>2. DOMAIN l = 1 .. Len(l) /\ k \in 1 .. Len(l2) /\ from[k] \in 0 .. Len(l)
  BY DEF Ranges
<1>3. CASE from[k] = 0
  <2>1. k = g /\ NewPiece(l2[k], lo, hi, o)
    BY <1>1, <1>2, <1>3 DEF GrownFrom
  <2>2. l2[k] \in OneRange
    BY <1>2 DEF Ranges
  <2> QED  BY <2>1, <2>2, RangesAssumption DEF NewPiece, Covers, Ids, OneRange
<1>4. CASE from[k] # 0
  <2>1. from[k] \in DOMAIN l
    BY <1>2, <1>4
  <2>2. CASE k # g
    <3>1. Like(l2[k], l[from[k]])
      BY <1>1, <1>2, <2>2 DEF GrownFrom
    <3> QED  BY <2>1, <3>1 DEF Like, Covers
  <2>3. CASE k = g
    <3>1. Wider(l2[k], l[from[k]], lo, hi, o)
      BY <1>1, <1>2, <1>4, <2>3 DEF GrownFrom
    <3> QED  BY <2>1, <3>1 DEF Wider
  <2> QED  BY <2>2, <2>3
<1> QED  BY <1>3, <1>4

(* Every range of a grown list is not empty, and is new or an old one.     *)
LEMMA GrownSane ==
  ASSUME NEW l \in Ranges, NEW l2 \in Ranges, NEW lo \in 0 .. LimitMax,
         NEW hi \in Ids, NEW o \in Owner, Grown(l, l2, lo, hi, o), Sane(l)
  PROVE  /\ Sane(l2)
         /\ \A k \in DOMAIN l2 :
              l2[k].new \/ \E j \in DOMAIN l : Like(l2[k], l[j])
<1>1. PICK from \in [1 .. Len(l2) -> 0 .. Len(l)], g \in Nat :
        GrownFrom(l, l2, from, g, lo, hi, o)
  BY DEF Grown
<1> SUFFICES ASSUME NEW k \in DOMAIN l2
             PROVE  /\ l2[k].min < l2[k].max
                    /\ l2[k].new \/ \E j \in DOMAIN l : Like(l2[k], l[j])
  BY DEF Sane
<1>2. DOMAIN l = 1 .. Len(l) /\ k \in 1 .. Len(l2) /\ from[k] \in 0 .. Len(l)
  BY DEF Ranges
<1>3. CASE from[k] = 0
  BY <1>1, <1>2, <1>3 DEF GrownFrom, NewPiece
<1>4. CASE from[k] # 0
  <2>1. from[k] \in DOMAIN l
    BY <1>2, <1>4
  <2>2. l[from[k]].min < l[from[k]].max
    BY <2>1 DEF Sane
  <2>3. Like(l2[k], l[from[k]]) \/ Wider(l2[k], l[from[k]], lo, hi, o)
    BY <1>1, <1>2, <1>4 DEF GrownFrom
  <2> QED  BY <2>1, <2>2, <2>3 DEF Like, Wider
<1> QED  BY <1>3, <1>4

(* A list that grows by ids that are free or of S stays one of ranges       *)
(* without a common id but those of S.                                     *)
LEMMA GrownApart ==
  ASSUME NEW l \in Ranges, NEW l2 \in Ranges, NEW lo \in 0 .. LimitMax,
         NEW hi \in Ids, NEW o \in Owner, NEW S, Grown(l, l2, lo, hi, o),
         Apart(l, S), \A i \in (lo + 1 .. hi) \ S : RangesOf(l, i) = {}
  PROVE  Apart(l2, S)
<1>1. PICK from \in [1 .. Len(l2) -> 0 .. Len(l)], g \in Nat :
        GrownFrom(l, l2, from, g, lo, hi, o)
  BY DEF Grown
<1>2. DOMAIN l = 1 .. Len(l) /\ DOMAIN l2 = 1 .. Len(l2)
  BY DEF Ranges
<1>3. ASSUME NEW i \in Ids \ S, NEW k \in DOMAIN l2, Covers(l2[k], i)
      PROVE  \/ from[k] \in DOMAIN l /\ Covers(l[from[k]], i)
             \/ k = g /\ ~\E j \in DOMAIN l : Covers(l[j], i)
  <2>1. (lo < i /\ i <= hi) => ~\E j \in DOMAIN l : Covers(l[j], i)
    BY DEF RangesOf, Ids
  <2>2. from[k] \in 0 .. Len(l) /\ k \in 1 .. Len(l2) /\ l2[k] \in OneRange
    BY <1>2 DEF Ranges
  <2>3. CASE from[k] = 0
    <3>1. k = g /\ NewPiece(l2[k], lo, hi, o)
      BY <1>1, <2>2, <2>3 DEF GrownFrom
    <3>2. lo < i /\ i <= hi
      BY <1>3, <3>1, <2>2 DEF NewPiece, Covers, Ids, OneRange
    <3> QED  BY <2>1, <3>1, <3>2
  <2>4. CASE from[k] # 0 /\ k # g
    BY <1>1, <1>2, <1>3, <2>2, <2>4 DEF GrownFrom, Like, Covers
  <2>5. CASE from[k] # 0 /\ k = g
    <3>1. Wider(l2[k], l[from[k]], lo, hi, o) /\ from[k] \in DOMAIN l
      BY <1>1, <1>2, <2>2, <2>5 DEF GrownFrom
    <3> QED  BY <1>3, <2>1, <2>5, <3>1 DEF Wider
  <2> QED  BY <2>3, <2>4, <2>5
<1> SUFFICES ASSUME NEW i \in Ids \ S, NEW j \in DOMAIN l2, NEW k \in DOMAIN l2,
                    Covers(l2[j], i), Covers(l2[k], i)
             PROVE  j = k
  BY DEF Apart
<1>4. from[j] \in DOMAIN l /\ Covers(l[from[j]], i)
      /\ from[k] \in DOMAIN l /\ Covers(l[from[k]], i) => from[j] = from[k]
  BY DEF Apart
<1>5. from[j] = from[k] => j = k
  BY <1>1, <1>2 DEF GrownFrom
<1> QED  BY <1>3, <1>4, <1>5

(* The shapes a list takes when one range is added, changed or taken out.  *)
LEMMA GrownByNone ==
  ASSUME NEW l \in Ranges, NEW lo, NEW hi, NEW o
  PROVE  Grown(l, l, lo, hi, o)
<1> DEFINE from == [j \in 1 .. Len(l) |-> j]
<1>1. Len(l) \in Nat
  BY DEF Ranges
<1>2. from \in [1 .. Len(l) -> 0 .. Len(l)]
  BY <1>1
<1>3. GrownFrom(l, l, from, 0, lo, hi, o)
  BY <1>1 DEF GrownFrom, Like
<1> QED  BY <1>2, <1>3 DEF Grown

LEMMA GrownByNew ==
  ASSUME NEW l \in Ranges, NEW l2 \in Ranges, NEW lo, NEW hi, NEW o,
         NEW k \in 1 .. Len(l) + 1, Len(l2) = Len(l) + 1,
         NewPiece(l2[k], lo, hi, o),
         \A j \in 1 .. k - 1 : Like(l2[j], l[j]),
         \A j \in k .. Len(l) : Like(l2[j + 1], l[j])
  PROVE  Grown(l, l2, lo, hi, o)
<1> DEFINE at(j) == IF j < k THEN j ELSE IF j = k THEN 0 ELSE j - 1
           from == [j \in 1 .. Len(l2) |-> at(j)]
<1>1. Len(l) \in Nat
  BY DEF Ranges
<1>2. from \in [1 .. Len(l2) -> 0 .. Len(l)]
  BY <1>1
<1>3. \A i, j \in 1 .. Len(l2) : from[i] = from[j] => i = j
  BY <1>1
<1>4. ASSUME NEW j \in 1 .. Len(l2), j # k
      PROVE  from[j] # 0 /\ Like(l2[j], l[from[j]])
  <2>1. CASE j < k
    BY <1>1, <2>1
  <2>2. CASE j > k
    <3>1. j - 1 \in k .. Len(l) /\ (j - 1) + 1 = j /\ from[j] = j - 1
      BY <1>1, <2>2
    <3>2. Like(l2[(j - 1) + 1], l[j - 1])
      BY <3>1
    <3> QED  BY <1>1, <3>1, <3>2
  <2> QED  BY <1>1, <1>4, <2>1, <2>2
<1>5. from[k] = 0 /\ k \in Nat
  BY <1>1
<1>6. GrownFrom(l, l2, from, k, lo, hi, o)
  <2> HIDE DEF from
  <2> QED  BY <1>3, <1>4, <1>5 DEF GrownFrom
<1> HIDE DEF from
<1> QED  BY <1>2, <1>5, <1>6 DEF Grown

LEMMA GrownByWider ==
  ASSUME NEW l \in Ranges, NEW l2 \in Ranges, NEW lo, NEW hi, NEW o,
         NEW k \in 1 .. Len(l), Len(l2) = Len(l),
         Wider(l2[k], l[k], lo, hi, o),
         \A j \in 1 .. Len(l) : j # k => Like(l2[j], l[j])
  PROVE  Grown(l, l2, lo, hi, o)
<1> DEFINE from == [j \in 1 .. Len(l) |-> j]
<1>1. Len(l) \in Nat
  BY DEF Ranges
<1>2. from \in [1 .. Len(l2) -> 0 .. Len(l)]
  BY <1>1
<1>3. GrownFrom(l, l2, from, k, lo, hi, o)
  BY <1>1 DEF GrownFrom
<1>4. k \in Nat
  BY <1>1
<1> HIDE DEF from
<1> QED  BY <1>2, <1>3, <1>4 DEF Grown

LEMMA GrownByLess ==
  ASSUME NEW l \in Ranges, NEW l2 \in Ranges, NEW lo, NEW hi, NEW o,
         NEW k \in 1 .. Len(l), Len(l2) = Len(l) - 1,
         \A j \in 1 .. Len(l) - 1 : l2[j] = l[IF j < k THEN j ELSE j + 1]
  PROVE  Grown(l, l2, lo, hi, o)
<1> DEFINE at(j) == IF j < k THEN j ELSE j + 1
           from == [j \in 1 .. Len(l2) |-> at(j)]
<1>1. Len(l) \in Nat
  BY DEF Ranges
<1>2. from \in [1 .. Len(l2) -> 0 .. Len(l)]
  BY <1>1
<1>3. \A i, j \in 1 .. Len(l2) : from[i] = from[j] => i = j
  BY <1>1
<1>4. \A j \in 1 .. Len(l2) : from[j] # 0 /\ Like(l2[j], l[from[j]])
  BY <1>1 DEF Like
<1>5. GrownFrom(l, l2, from, 0, lo, hi, o)
  <2> HIDE DEF from
  <2> QED  BY <1>3, <1>4 DEF GrownFrom
<1> HIDE DEF from
<1> QED  BY <1>2, <1>5 DEF Grown

-----------------------------------------------------------------------------
(* What the functions of the manager do to it. *)

LEMMA ManagerIs ==
  ASSUME NEW m
  PROVE  m \in Manager <=>
           /\ m \in [list : Ranges, cur : Int, next_id : -1 .. LimitMax + 1,
                     fault : BOOLEAN]
           /\ Sane(m.list) /\ m.cur \in Freed .. Len(m.list)
  BY DEF Manager

(* IDRange::extend refuses, or gives the range the bounds asked for.       *)
LEMMA ExtendFacts ==
  ASSUME NEW m \in Manager, NEW k \in DOMAIN m.list, NEW lo \in 0 .. LimitMax,
         NEW hi \in Ids
  PROVE  LET e == extend(m, k, lo, hi)
             r == m.list[k]
             s == e.list[k]
         IN /\ e \in Manager
            /\ e.cur = m.cur /\ e.next_id = m.next_id /\ e.fault = m.fault
            /\ Len(e.list) = Len(m.list)
            /\ \A j \in DOMAIN m.list : j # k => e.list[j] = m.list[j]
            /\ \/ e = m
               \/ /\ s.owner = r.owner /\ s.used = r.used
                  /\ s.new \/ Like(s, r)
                  /\ s.max = hi /\ s.min < hi
                  /\ s.min = IF lo > 0 THEN lo ELSE r.min
<1> DEFINE r == m.list[k]
           low == IF lo > 0 THEN lo ELSE r.min
           changed == low # r.min \/ hi # r.max
           s == [r EXCEPT !.min = low, !.max = hi, !.new = @ \/ changed]
           e == extend(m, k, lo, hi)
<1>1. /\ m \in [list : Ranges, cur : Int, next_id : -1 .. LimitMax + 1,
                fault : BOOLEAN]
      /\ Sane(m.list) /\ m.cur \in Freed .. Len(m.list)
      /\ r \in OneRange
  BY DEF Manager, Ranges
<1>2. e = m \/ (low < hi /\ e = [m EXCEPT !.list[k] = s])
  <2>1. low >= hi \/ low < hi
    BY <1>1 DEF OneRange, Ids
  <2> QED  BY <2>1 DEF extend
<1>3. CASE e = m
  BY <1>3
<1>4. CASE low < hi /\ e = [m EXCEPT !.list[k] = s]
  <2>1. s \in OneRange
    BY <1>1 DEF OneRange
  <2>2. /\ s.owner = r.owner /\ s.used = r.used /\ s.max = hi /\ s.min = low
        /\ s.new \/ Like(s, r)
    BY <1>1 DEF OneRange, Like
  <2> HIDE DEF s, low
  <2>3. /\ e.list = [m.list EXCEPT ![k] = s]
        /\ e.cur = m.cur /\ e.next_id = m.next_id /\ e.fault = m.fault
        /\ e = [m EXCEPT !.list = [m.list EXCEPT ![k] = s]]
    BY <1>1, <1>4
  <2>4. /\ [m.list EXCEPT ![k] = s] \in Ranges
        /\ Len([m.list EXCEPT ![k] = s]) = Len(m.list)
        /\ DOMAIN [m.list EXCEPT ![k] = s] = DOMAIN m.list
    BY <1>1, <2>1 DEF Ranges
  <2>5. Sane(e.list)
    BY <1>1, <1>4, <2>2, <2>3, <2>4 DEF Sane
  <2>6. e \in [list : Ranges, cur : Int, next_id : -1 .. LimitMax + 1,
               fault : BOOLEAN]
    BY <1>1, <2>3, <2>4
  <2>7. e \in Manager
    BY <1>1, <2>3, <2>4, <2>5, <2>6, ManagerIs
  <2>8. e.list[k] = s /\ \A j \in DOMAIN m.list : j # k => e.list[j] = m.list[j]
    BY <2>3
  <2> HIDE DEF e
  <2> QED  BY <1>4, <2>2, <2>3, <2>4, <2>7, <2>8 DEF low, e
<1> QED  BY <1>2, <1>3, <1>4

LEMMA InsertFacts ==
  ASSUME NEW m \in Manager, NEW k \in 1 .. Len(m.list) + 1, NEW r \in OneRange,
         r.min < r.max
  PROVE  LET e == insertRange(m, k, r)
         IN /\ e \in Manager
            /\ e.list = InsertAt(m.list, k, r) /\ Len(e.list) = Len(m.list) + 1
            /\ e.next_id = m.next_id /\ e.fault = m.fault
<1> DEFINE e == insertRange(m, k, r)
           l == InsertAt(m.list, k, r)
           c == IF m.cur >= k THEN m.cur + 1 ELSE m.cur
<1>1. /\ m \in [list : Ranges, cur : Int, next_id : -1 .. LimitMax + 1,
                fault : BOOLEAN]
      /\ Sane(m.list) /\ m.cur \in Freed .. Len(m.list)
      /\ m.list \in Seq(OneRange)
  BY DEF Manager, Ranges
<1>2. /\ l \in Seq(OneRange) /\ Len(l) = Len(m.list) + 1 /\ l[k] = r
      /\ \A j \in 1 .. k - 1 : l[j] = m.list[j]
      /\ \A j \in k .. Len(m.list) : l[j + 1] = m.list[j]
  <2> DEFINE old == m.list
  <2>1. old \in Seq(OneRange) /\ k \in 1 .. Len(old) + 1
    BY <1>1
  <2> HIDE DEF old
  <2>2. LET n == InsertAt(old, k, r)
        IN /\ n \in Seq(OneRange) /\ Len(n) = Len(old) + 1 /\ n[k] = r
           /\ \A j \in 1 .. k - 1 : n[j] = old[j]
           /\ \A j \in k .. Len(old) : n[j + 1] = old[j]
    BY <2>1, InsertAtFacts
  <2> QED  BY <2>2 DEF old
<1>3. e = [m EXCEPT !.list = l, !.cur = c]
  BY <1>1 DEF insertRange
<1> HIDE DEF l
<1>4. c \in Int /\ c \in Freed .. Len(l)
  BY <1>1, <1>2 DEF Freed
<1> HIDE DEF c
<1>5. /\ e.list = l /\ e.cur = c /\ e.next_id = m.next_id /\ e.fault = m.fault
      /\ e \in [list : Ranges, cur : Int, next_id : -1 .. LimitMax + 1,
                fault : BOOLEAN]
  BY <1>1, <1>2, <1>3, <1>4 DEF Ranges
<1>6. Sane(l)
  <2> SUFFICES ASSUME NEW j \in 1 .. Len(l)
               PROVE  l[j].min < l[j].max
    BY <1>2 DEF Sane
  <2>1. CASE j < k
    <3>1. j \in 1 .. k - 1 /\ j \in DOMAIN m.list
      BY <1>1, <2>1
    <3> QED  BY <1>1, <1>2, <3>1 DEF Sane
  <2>2. CASE j = k
    BY <1>2, <2>2
  <2>3. CASE j > k
    <3>1. j - 1 \in k .. Len(m.list) /\ j - 1 \in DOMAIN m.list /\ (j - 1) + 1 = j
      BY <1>1, <1>2, <2>3
    <3>2. l[(j - 1) + 1] = m.list[j - 1]
      BY <1>2, <3>1
    <3> QED  BY <1>1, <3>1, <3>2 DEF Sane
  <2> QED  BY <2>1, <2>2, <2>3
<1> HIDE DEF e
<1>7. e \in Manager
  BY <1>4, <1>5, <1>6, ManagerIs
<1> QED  BY <1>2, <1>5, <1>7 DEF e, l

(* What every branch of addIDRange keeps. *)
Added(m, e, lo, hi, o) ==
  /\ e \in Manager /\ Grown(m.list, e.list, lo, hi, o)
  /\ e.next_id = m.next_id

LEMMA AddedNothing ==
  ASSUME NEW m \in Manager, NEW lo, NEW hi, NEW o
  PROVE  Added(m, m, lo, hi, o)
BY ManagerIs, GrownByNone DEF Added

LEMMA NewRangeIs ==
  ASSUME NEW lo \in 0 .. LimitMax, NEW hi \in Ids, NEW o \in Owner
  PROVE  /\ NewRange(lo, hi, o) \in OneRange
         /\ NewRange(lo, hi, o).min = lo /\ NewRange(lo, hi, o).max = hi
         /\ NewRange(lo, hi, o).owner = o /\ NewRange(lo, hi, o).new
BY DEF NewRange, OneRange, Unknown

(* A new range anywhere, and its pointers set or not. *)
LEMMA AddedNew ==
  ASSUME NEW m \in Manager, NEW lo \in 0 .. LimitMax, NEW hi \in Ids,
         NEW o \in Owner, NEW k \in 1 .. Len(m.list) + 1, NEW r \in OneRange,
         NewPiece(r, lo, hi, o)
  PROVE  Added(m, insertRange(m, k, r), lo, hi, o)
<1> DEFINE e == insertRange(m, k, r)
<1>1. m.list \in Ranges /\ m.list \in Seq(OneRange)
  BY ManagerIs DEF Ranges
<1>2. /\ e \in Manager
      /\ e.list = InsertAt(m.list, k, r) /\ Len(e.list) = Len(m.list) + 1
      /\ e.next_id = m.next_id
  BY InsertFacts DEF NewPiece
<1>3. /\ e.list[k] = r
      /\ \A j \in 1 .. k - 1 : e.list[j] = m.list[j]
      /\ \A j \in k .. Len(m.list) : e.list[j + 1] = m.list[j]
  BY <1>1, <1>2, InsertAtFacts
<1>4. e.list \in Ranges
  BY <1>2, ManagerIs
<1> HIDE DEF e
<1>5. Grown(m.list, e.list, lo, hi, o)
  BY <1>1, <1>2, <1>3, <1>4, GrownByNew DEF Like
<1> QED  BY <1>2, <1>5 DEF Added, e

(* An own range that reaches down to lo or up to hi. *)
LEMMA AddedWider ==
  ASSUME NEW m \in Manager, NEW lo \in 0 .. LimitMax, NEW hi \in Ids,
         NEW o \in Owner, NEW k \in DOMAIN m.list, m.list[k].owner = o,
         NEW a \in 0 .. LimitMax, NEW b \in Ids,
         \/ a = lo /\ b = m.list[k].max /\ hi = m.list[k].min
         \/ a = m.list[k].min /\ b = hi /\ lo <= m.list[k].max
         \/ a = m.list[k].min /\ b = m.list[k].max
  PROVE  Added(m, extend(m, k, a, b), lo, hi, o)
<1> DEFINE e == extend(m, k, a, b)
           r == m.list[k]
           s == e.list[k]
<1>1. m.list \in Ranges /\ Sane(m.list) /\ r \in OneRange /\ k \in 1 .. Len(m.list)
  BY ManagerIs DEF Ranges
<1>2. /\ e \in Manager /\ e.next_id = m.next_id /\ Len(e.list) = Len(m.list)
      /\ \A j \in DOMAIN m.list : j # k => e.list[j] = m.list[j]
      /\ \/ e = m
         \/ /\ s.owner = r.owner /\ s.used = r.used
            /\ s.new \/ Like(s, r)
            /\ s.max = b /\ s.min < b
            /\ s.min = IF a > 0 THEN a ELSE r.min
  BY ExtendFacts
<1>3. e.list \in Ranges /\ s \in OneRange
  <2>1. e.list \in Ranges
    BY <1>2, ManagerIs
  <2> QED  BY <1>1, <1>2, <2>1 DEF Ranges
<1>4. CASE e = m
  BY <1>4, AddedNothing
<1>5. CASE e # m
  <2> HIDE DEF e
  <2>1. ASSUME NEW i \in Ids, Covers(s, i)
        PROVE  Covers(r, i) \/ (r.owner = o /\ lo < i /\ i <= hi)
    <3>1. /\ s.owner = r.owner /\ s.max = b /\ s.min < b
          /\ s.min = IF a > 0 THEN a ELSE r.min
      BY <1>2, <1>5
    <3>2. s.min < i /\ i <= s.max
      BY <2>1 DEF Covers
    <3>3. /\ r.min \in 0 .. LimitMax /\ r.max \in Ids /\ i \in 0 .. LimitMax
      BY <1>1 DEF OneRange, Ids
    <3>4. /\ r.owner = o
          /\ \/ a = lo /\ b = r.max /\ hi = r.min
             \/ a = r.min /\ b = hi /\ lo <= r.max
             \/ a = r.min /\ b = r.max
      OBVIOUS
    <3>5. lo \in 0 .. LimitMax /\ hi \in 0 .. LimitMax /\ LimitMax \in Nat
      BY RangesAssumption DEF Ids
    <3> HIDE DEF r, s
    <3>6. (r.min < i /\ i <= r.max) \/ (lo < i /\ i <= hi)
      BY ONLY <3>1, <3>2, <3>3, <3>4, <3>5 DEF Ids
    <3>7. s.owner = r.owner
      BY <3>1
    <3> QED  BY ONLY <2>1, <3>4, <3>6 DEF Covers
  <2>2. Wider(s, r, lo, hi, o)
    BY <1>2, <1>5, <2>1 DEF Wider
  <2>3. \A j \in 1 .. Len(m.list) : j # k => Like(e.list[j], m.list[j])
    BY <1>1, <1>2 DEF Like, Ranges
  <2>4. Grown(m.list, e.list, lo, hi, o)
    BY <1>1, <1>2, <1>3, <2>2, <2>3, GrownByWider
  <2> QED  BY <1>2, <2>4 DEF Added, e
<1> QED  BY <1>4, <1>5

(* The combination only loses the second range: the first is not extended, *)
(* since what it would grow by is still in the list.                       *)
LEMMA AddedLess ==
  ASSUME NEW m \in Manager, NEW lo, NEW hi, NEW o,
         NEW k \in 2 .. Len(m.list)
  PROVE  Added(m, combine(m, k), lo, hi, o)
<1> DEFINE l == RemoveAt(m.list, k)
           c == IF m.cur = k THEN Freed ELSE IF m.cur > k THEN m.cur - 1 ELSE m.cur
           e == combine(m, k)
<1>1. /\ m \in [list : Ranges, cur : Int, next_id : -1 .. LimitMax + 1,
                fault : BOOLEAN]
      /\ Sane(m.list) /\ m.cur \in Freed .. Len(m.list)
      /\ m.list \in Seq(OneRange) /\ k \in 1 .. Len(m.list)
  BY ManagerIs DEF Ranges
<1>2. extend(m, k - 1, m.list[k - 1].min, m.list[k].max) = m
  <2>1. m.list[k].max > m.list[k].min
    <3>1. k \in DOMAIN m.list /\ m.list[k] \in OneRange
      BY <1>1
    <3>2. m.list[k].min < m.list[k].max
      BY <1>1, <3>1 DEF Sane
    <3> QED  BY <3>1, <3>2 DEF OneRange, Ids
  <2>2. k - 1 < Len(m.list) /\ (k - 1) + 1 = k
    BY <1>1
  <2> QED  BY <2>1, <2>2 DEF extend
<1>3. /\ l \in Seq(OneRange) /\ Len(l) = Len(m.list) - 1
      /\ \A j \in 1 .. Len(m.list) - 1 :
           l[j] = m.list[IF j < k THEN j ELSE j + 1]
  BY <1>1, RemoveAtFacts
<1>4. e = [m EXCEPT !.list = l, !.cur = c, !.fault = (k = Len(m.list))]
  BY <1>1, <1>2 DEF combine
<1> HIDE DEF l
<1>5. c \in Int /\ c \in Freed .. Len(l)
  BY <1>1, <1>3 DEF Freed
<1> HIDE DEF c
<1>6. /\ e.list = l /\ e.cur = c /\ e.next_id = m.next_id
      /\ e \in [list : Ranges, cur : Int, next_id : -1 .. LimitMax + 1,
                fault : BOOLEAN]
  BY <1>1, <1>3, <1>4, <1>5 DEF Ranges
<1>7. Sane(l)
  <2> SUFFICES ASSUME NEW j \in 1 .. Len(m.list) - 1
               PROVE  l[j].min < l[j].max
    BY <1>3 DEF Sane
  <2> DEFINE i == IF j < k THEN j ELSE j + 1
  <2>1. i \in DOMAIN m.list
    BY <1>1
  <2>2. m.list[i].min < m.list[i].max
    BY <1>1, <2>1 DEF Sane
  <2> QED  BY <1>3, <2>2
<1> HIDE DEF e
<1>8. e \in Manager
  BY <1>5, <1>6, <1>7, ManagerIs
<1>9. Grown(m.list, l, lo, hi, o)
  BY <1>1, <1>3, GrownByLess DEF Ranges
<1> QED  BY <1>6, <1>8, <1>9 DEF Added, e

LEMMA PlaceIs ==
  ASSUME NEW m \in Manager, NEW lo \in 0 .. LimitMax, NEW hi \in Ids
  PROVE  LET k == Place(m, lo, hi)
         IN \/ k = 0
            \/ /\ k \in DOMAIN m.list /\ hi <= m.list[k].min
               /\ k <= 2 \/ m.list[k - 1].max <= lo
<1> DEFINE stops == {k \in DOMAIN m.list :
                       hi <= m.list[k].min /\ (k <= 2 \/ m.list[k - 1].max <= lo)}
<1>1. stops \in SUBSET Nat
  BY ManagerIs DEF Ranges
<1>2. CASE stops = {}
  BY <1>2 DEF Place
<1>3. CASE stops # {}
  <2>1. \E k \in stops : \A j \in stops : k <= j
    BY <1>1, <1>3, LeastExists
  <2>2. Place(m, lo, hi) \in stops
    BY <1>3, <2>1 DEF Place
  <2> QED  BY <2>2
<1> QED  BY <1>2, <1>3

LEMMA addAtHeadAdds ==
  ASSUME NEW m \in Manager, NEW lo \in 0 .. LimitMax, NEW hi \in Ids,
         NEW o \in Owner, lo < hi, NEW k \in DOMAIN m.list
  PROVE  Added(m, addAtHead(m, k, lo, hi, o), lo, hi, o)
<1>1. m.list \in Seq(OneRange) /\ 1 \in 1 .. Len(m.list) + 1
      /\ m.list[k] \in OneRange
  BY ManagerIs DEF Ranges
<1>2. CASE Joins(m, k, hi, o)
  <2>1. m.list[k].max \in Ids /\ m.list[k].owner = o /\ hi = m.list[k].min
    BY <1>1, <1>2 DEF OneRange, Joins
  <2> QED  BY <1>2, <2>1, AddedWider DEF addAtHead
<1>3. CASE ~Joins(m, k, hi, o)
  <2>1. NewRange(lo, hi, o) \in OneRange /\ NewPiece(NewRange(lo, hi, o), lo, hi, o)
    BY NewRangeIs DEF NewPiece, Ids
  <2> QED  BY <1>1, <1>3, <2>1, AddedNew DEF addAtHead
<1> QED  BY <1>2, <1>3

LEMMA addAtEndAdds ==
  ASSUME NEW m \in Manager, NEW lo \in 0 .. LimitMax, NEW hi \in Ids,
         NEW o \in Owner, lo < hi, m.list # <<>>
  PROVE  Added(m, addAtEnd(m, lo, hi, o), lo, hi, o)
<1> DEFINE n == Len(m.list)
           before == m.list[n]
           meets == before.max >= lo
           low == IF meets THEN before.max + 1 ELSE lo
           r == [NewRange(low, hi, o) EXCEPT !.linked = TRUE]
<1>1. /\ m.list \in Seq(OneRange) /\ n \in DOMAIN m.list /\ n \in Nat
      /\ n + 1 \in 1 .. n + 1 /\ before \in OneRange
  BY ManagerIs DEF Ranges
<1>2. CASE meets /\ before.owner = o
  <2> DEFINE b == IF hi > before.max THEN hi ELSE before.max
  <2>1. before.min \in 0 .. LimitMax /\ before.max \in Ids /\ b \in Ids
        /\ lo <= before.max
    BY <1>1, <1>2 DEF OneRange, Ids
  <2>2. addAtEnd(m, lo, hi, o) = extend(m, n, before.min, b)
    BY <1>2 DEF addAtEnd
  <2>3. b = hi \/ b = before.max
    OBVIOUS
  <2> HIDE DEF b
  <2>4. before.owner = o
    BY <1>2
  <2> QED  BY <1>1, <2>1, <2>2, <2>3, <2>4, AddedWider
<1>3. CASE ~(meets /\ before.owner = o) /\ low >= hi
  BY <1>3, AddedNothing DEF addAtEnd
<1>4. CASE ~(meets /\ before.owner = o) /\ ~(low >= hi)
  <2>1. low \in 0 .. LimitMax /\ lo <= low /\ low < hi
    <3>1. before.max \in Nat /\ LimitMax \in Nat /\ hi \in Nat /\ hi <= LimitMax
      BY <1>1, RangesAssumption DEF OneRange, Ids
    <3>2. low = IF meets THEN before.max + 1 ELSE lo
      OBVIOUS
    <3>3. ~(low >= hi) /\ lo \in 0 .. LimitMax /\ (meets <=> before.max >= lo)
      BY <1>4
    <3> HIDE DEF low, before, meets
    <3> QED  BY ONLY <3>1, <3>2, <3>3
  <2>2. addAtEnd(m, lo, hi, o) = insertRange(m, n + 1, r)
    BY <1>4 DEF addAtEnd
  <2> HIDE DEF low
  <2>3. r \in OneRange /\ NewPiece(r, lo, hi, o)
    <3> DEFINE q == NewRange(low, hi, o)
    <3>1. /\ q \in OneRange /\ q.min = low /\ q.max = hi
          /\ q.owner = o /\ q.new
      BY <2>1, NewRangeIs
    <3>2. r = [q EXCEPT !.linked = TRUE]
      OBVIOUS
    <3> HIDE DEF q, r
    <3>3. r \in OneRange
      BY <3>1, <3>2 DEF OneRange
    <3>4. r.min = low /\ r.max = hi /\ r.owner = o /\ r.new
      BY <3>1, <3>2 DEF OneRange
    <3> QED  BY <2>1, <3>3, <3>4 DEF NewPiece, Ids
  <2> QED  BY <1>1, <2>2, <2>3, AddedNew
<1> QED  BY <1>2, <1>3, <1>4

(* A new range between two others, which the second then points back to;   *)
(* and the setting of these pointers changes no range.                     *)
LEMMA PointersSet ==
  ASSUME NEW m \in Manager, NEW lo, NEW hi, NEW o, NEW e,
         Added(m, e, lo, hi, o), NEW k \in DOMAIN e.list
  PROVE  Added(m, [e EXCEPT !.list[k].linked = TRUE, !.list[k].managed = TRUE],
               lo, hi, o)
<1> DEFINE q == e.list[k]
           s == [q EXCEPT !.linked = TRUE, !.managed = TRUE]
           l == [e.list EXCEPT ![k] = s]
           f == [e EXCEPT !.list = l]
<1>1. /\ e \in [list : Ranges, cur : Int, next_id : -1 .. LimitMax + 1,
                fault : BOOLEAN]
      /\ Sane(e.list) /\ e.cur \in Freed .. Len(e.list)
      /\ e.list \in Seq(OneRange) /\ q \in OneRange /\ e.next_id = m.next_id
  BY ManagerIs DEF Added, Ranges
<1>2. s \in OneRange /\ Like(s, q)
  BY <1>1 DEF OneRange, Like
<1>3. [e EXCEPT !.list[k].linked = TRUE, !.list[k].managed = TRUE] = f
  BY <1>1
<1> HIDE DEF s
<1>4. l \in Ranges /\ Len(l) = Len(e.list) /\ DOMAIN l = DOMAIN e.list
  BY <1>1, <1>2 DEF Ranges
<1>5. \A j \in DOMAIN e.list : Like(l[j], e.list[j])
  BY <1>1, <1>2 DEF Like
<1>6. Sane(l)
  BY <1>1, <1>4, <1>5 DEF Sane, Like
<1>7. DOMAIN l = 1 .. Len(l) /\ Len(l) = Len(e.list)
  BY <1>4 DEF Ranges
<1> HIDE DEF l
<1>8. f.list = l /\ f.cur = e.cur /\ f.next_id = e.next_id
      /\ f \in [list : Ranges, cur : Int, next_id : -1 .. LimitMax + 1,
                fault : BOOLEAN]
  BY <1>1, <1>4
<1>9. f \in Manager
  BY <1>1, <1>4, <1>6, <1>8, ManagerIs
<1>10. Grown(m.list, l, lo, hi, o)
  <2>1. PICK from \in [1 .. Len(e.list) -> 0 .. Len(m.list)], g \in Nat :
          GrownFrom(m.list, e.list, from, g, lo, hi, o)
    BY DEF Added, Grown
  <2>2. \A j \in 1 .. Len(l) : Like(l[j], e.list[j])
    BY <1>4, <1>5, <1>7
  <2>3. GrownFrom(m.list, l, from, g, lo, hi, o)
    <3>1. \A j \in 1 .. Len(l) :
            j # g => from[j] # 0 /\ Like(l[j], m.list[from[j]])
      BY <1>7, <2>1, <2>2 DEF GrownFrom, Like
    <3>2. ASSUME g \in 1 .. Len(l)
          PROVE  \/ from[g] = 0 /\ NewPiece(l[g], lo, hi, o)
                 \/ from[g] # 0 /\ Wider(l[g], m.list[from[g]], lo, hi, o)
      <4>1. Like(l[g], e.list[g]) /\ g \in 1 .. Len(e.list)
        BY <1>7, <2>2, <3>2
      <4>2. \/ from[g] = 0 /\ NewPiece(e.list[g], lo, hi, o)
            \/ from[g] # 0 /\ Wider(e.list[g], m.list[from[g]], lo, hi, o)
        BY <2>1, <4>1 DEF GrownFrom
      <4> QED  BY <4>1, <4>2 DEF Like, NewPiece, Wider, Covers
    <3> QED  BY <1>7, <2>1, <3>1, <3>2 DEF GrownFrom
  <2> QED  BY <1>7, <2>1, <2>3 DEF Grown
<1> HIDE DEF f
<1> QED  BY <1>1, <1>3, <1>8, <1>9, <1>10 DEF Added

LEMMA addBetweenAdds ==
  ASSUME NEW m \in Manager, NEW lo \in 0 .. LimitMax, NEW hi \in Ids,
         NEW o \in Owner, lo < hi, NEW k \in DOMAIN m.list, k > 2,
         m.list[k - 1].max <= lo
  PROVE  Added(m, addBetween(m, k, lo, hi, o), lo, hi, o)
<1> DEFINE before == m.list[k - 1]
           mine == o = before.owner
           low == IF ~mine /\ before.max = lo THEN before.max + 1 ELSE lo
           between == [NewRange(low, hi, o) EXCEPT !.linked = TRUE, !.managed = FALSE]
<1>1. /\ m.list \in Seq(OneRange) /\ k \in 2 .. Len(m.list)
      /\ k - 1 \in DOMAIN m.list /\ before \in OneRange /\ m.list[k] \in OneRange
  BY ManagerIs DEF Ranges
<1>2. CASE Joins(m, k, hi, o)
  <2>1. CASE mine
    BY <1>1, <1>2, <2>1, AddedLess DEF addBetween
  <2>2. CASE ~mine
    <3>1. m.list[k].max \in Ids /\ m.list[k].owner = o /\ hi = m.list[k].min
      BY <1>1, <1>2 DEF OneRange, Joins
    <3>2. Added(m, extend(m, k, lo, m.list[k].max), lo, hi, o)
      BY <3>1, AddedWider
    <3> QED  BY <1>2, <2>2, <3>2 DEF addBetween
  <2> QED  BY <2>1, <2>2
<1>3. CASE ~Joins(m, k, hi, o) /\ low >= hi
  BY <1>3, AddedNothing DEF addBetween
<1>4. CASE ~Joins(m, k, hi, o) /\ ~(low >= hi)
  <2> DEFINE e == insertRange(m, k, between)
  <2>1. low \in 0 .. LimitMax /\ lo <= low /\ low < hi
    <3>1. before.max \in Int /\ lo \in Int /\ hi \in Int /\ hi <= LimitMax
      BY <1>1, RangesAssumption DEF OneRange, Ids
    <3>2. low = lo \/ low = lo + 1
      OBVIOUS
    <3> HIDE DEF low
    <3> QED  BY <1>4, <3>1, <3>2, RangesAssumption
  <2>2. addBetween(m, k, lo, hi, o) =
          [e EXCEPT !.list[k + 1].linked = TRUE, !.list[k + 1].managed = TRUE]
    BY <1>4 DEF addBetween
  <2> HIDE DEF low
  <2>3. between \in OneRange /\ NewPiece(between, lo, hi, o)
    <3> DEFINE q == NewRange(low, hi, o)
    <3>1. /\ q \in OneRange /\ q.min = low /\ q.max = hi
          /\ q.owner = o /\ q.new
      BY <2>1, NewRangeIs
    <3>2. between = [q EXCEPT !.linked = TRUE, !.managed = FALSE]
      OBVIOUS
    <3> HIDE DEF q, between
    <3>3. between \in OneRange
      BY <3>1, <3>2 DEF OneRange
    <3>4. between.min = low /\ between.max = hi /\ between.owner = o /\ between.new
      BY <3>1, <3>2 DEF OneRange
    <3> QED  BY <2>1, <3>3, <3>4 DEF NewPiece, Ids
  <2> HIDE DEF between
  <2>4. Added(m, e, lo, hi, o) /\ Len(e.list) = Len(m.list) + 1
        /\ e.list \in Ranges
    <3>1. k \in 1 .. Len(m.list) + 1
      BY <1>1
    <3>2. Added(m, e, lo, hi, o)
      BY <2>3, <3>1, AddedNew
    <3>3. Len(e.list) = Len(m.list) + 1
      BY <2>3, <3>1, InsertFacts DEF NewPiece
    <3> QED  BY <3>2, <3>3, ManagerIs DEF Added
  <2>5. k + 1 \in DOMAIN e.list
    BY <1>1, <2>4 DEF Ranges
  <2> HIDE DEF e
  <2>6. Added(m, [e EXCEPT !.list[k + 1].linked = TRUE,
                           !.list[k + 1].managed = TRUE], lo, hi, o)
    BY <2>4, <2>5, PointersSet
  <2> QED  BY <2>2, <2>6
<1> QED  BY <1>2, <1>3, <1>4

(* IDRangeManager::addIDRange, whatever the list looks like. *)
LEMMA addIDRangeAdds ==
  ASSUME NEW m \in Manager, NEW lo \in 0 .. LimitMax, NEW hi \in Ids,
         NEW o \in Owner, lo < hi
  PROVE  Added(m, addIDRange(m, lo, hi, o), lo, hi, o)
<1> DEFINE k == Place(m, lo, hi)
<1>1. /\ m.list \in Seq(OneRange)
      /\ \/ k = 0
         \/ /\ k \in DOMAIN m.list /\ k \in Nat
            /\ k <= 2 \/ m.list[k - 1].max <= lo
  BY ManagerIs, PlaceIs DEF Ranges
<1> HIDE DEF k
<1>2. CASE m.list = <<>>
  <2>1. 1 \in 1 .. Len(m.list) + 1
    BY <1>2
  <2>2. NewRange(lo, hi, o) \in OneRange /\ NewPiece(NewRange(lo, hi, o), lo, hi, o)
    BY NewRangeIs DEF NewPiece, Ids
  <2>3. Added(m, insertRange(m, 1, NewRange(lo, hi, o)), lo, hi, o)
    BY <2>1, <2>2, AddedNew
  <2> QED  BY <1>2, <2>3 DEF addIDRange
<1>3. CASE m.list # <<>> /\ k = 0
  BY <1>3, addAtEndAdds DEF addIDRange, k
<1>4. CASE m.list # <<>> /\ k # 0 /\ k <= 2
  <2>1. Added(m, addAtHead(m, k, lo, hi, o), lo, hi, o)
    BY <1>1, <1>4, addAtHeadAdds
  <2> QED  BY <1>4, <2>1 DEF addIDRange, k
<1>5. CASE m.list # <<>> /\ k # 0 /\ ~(k <= 2)
  <2>1. Added(m, addBetween(m, k, lo, hi, o), lo, hi, o)
    BY <1>1, <1>5, addBetweenAdds
  <2> QED  BY <1>5, <2>1 DEF addIDRange, k
<1> QED  BY <1>2, <1>3, <1>4, <1>5

-----------------------------------------------------------------------------
(* Counts. *)

(* A list with the same ids in the same ranges. *)
Recounted(l, l2) ==
  /\ l2 \in Ranges /\ DOMAIN l2 = DOMAIN l
  /\ \A k \in DOMAIN l :
       l2[k].min = l[k].min /\ l2[k].max = l[k].max /\ l2[k].owner = l[k].owner

LEMMA RecountedKeeps ==
  ASSUME NEW l \in Ranges, NEW l2, Recounted(l, l2)
  PROVE  /\ Sane(l) => Sane(l2)
         /\ \A S : Apart(l, S) => Apart(l2, S)
         /\ Len(l2) = Len(l)
<1>1. Len(l2) = Len(l)
  BY DEF Recounted, Ranges
<1>2. Sane(l) => Sane(l2)
  BY DEF Recounted, Sane
<1>3. \A S : Apart(l, S) => Apart(l2, S)
  BY DEF Recounted, Apart, Covers
<1> QED  BY <1>1, <1>2, <1>3

LEMMA UnknownIs == Unknown \in Nat /\ LimitMax \in Nat /\ LimitMax <= Unknown
BY RangesAssumption DEF Unknown

LEMMA CountIs ==
  ASSUME NEW ids \in SUBSET Ids, NEW r
  PROVE  LET S == {i \in ids : Covers(r, i)}
         IN /\ IsFiniteSet(S) /\ Cardinality(S) \in 0 .. LimitMax
            /\ Cardinality(S) \in 0 .. Unknown
<1> DEFINE S == {i \in ids : Covers(r, i)}
<1>1. IsFiniteSet(Ids) /\ Cardinality(Ids) = LimitMax
  BY RangesAssumption, FS_Interval DEF Ids
<1>2. S \subseteq Ids
  OBVIOUS
<1> HIDE DEF S
<1>3. IsFiniteSet(S) /\ Cardinality(S) <= LimitMax
  BY <1>1, <1>2, FS_Subset
<1>4. Cardinality(S) \in Nat
  BY <1>3, FS_CardinalityType
<1> QED  BY <1>3, <1>4, UnknownIs DEF S

LEMMA updateFacts ==
  ASSUME NEW m \in Manager, NEW ids \in SUBSET Ids, NEW S
  PROVE  LET u == updateNewIDRanges(m, ids)
         IN /\ u \in Manager /\ Recounted(m.list, u.list)
            /\ u.cur = m.cur /\ u.next_id = m.next_id /\ u.fault = m.fault
            /\ (\A k \in DOMAIN m.list :
                  \/ m.list[k].new \/ ~Clear(m.list[k], S)
                  \/ m.list[k].used = Cardinality({i \in ids : Covers(m.list[k], i)}))
                 => Counted(u.list, ids, S)
<1> DEFINE count(k) == Cardinality({i \in ids : Covers(m.list[k], i)})
           entry(k) == IF ~m.list[k].new THEN m.list[k]
                       ELSE [m.list[k] EXCEPT !.used = count(k), !.new = FALSE]
           l == [k \in DOMAIN m.list |-> entry(k)]
           u == updateNewIDRanges(m, ids)
<1>1. /\ m \in [list : Ranges, cur : Int, next_id : -1 .. LimitMax + 1,
                fault : BOOLEAN]
      /\ Sane(m.list) /\ m.cur \in Freed .. Len(m.list)
      /\ m.list \in Seq(OneRange) /\ DOMAIN m.list = 1 .. Len(m.list)
  BY ManagerIs DEF Ranges
<1>2. u = [m EXCEPT !.list = l]
  BY <1>1 DEF updateNewIDRanges
<1>3. ASSUME NEW k \in DOMAIN m.list
      PROVE  /\ entry(k) \in OneRange
             /\ entry(k).min = m.list[k].min /\ entry(k).max = m.list[k].max
             /\ entry(k).owner = m.list[k].owner
             /\ m.list[k].new => entry(k).used = count(k)
             /\ ~m.list[k].new => entry(k).used = m.list[k].used
  <2>1. count(k) \in 0 .. Unknown
    BY CountIs
  <2>2. m.list[k] \in OneRange
    BY <1>1
  <2> HIDE DEF count
  <2> QED  BY <2>1, <2>2 DEF OneRange
<1>4. \A k \in DOMAIN m.list : l[k] = entry(k)
  OBVIOUS
<1>5. DOMAIN l = 1 .. Len(m.list)
  BY <1>1
<1> HIDE DEF entry
<1>6. l \in Seq(OneRange) /\ Len(l) = Len(m.list)
  <2>1. Len(m.list) \in Nat
    BY <1>1
  <2>2. l \in [1 .. Len(m.list) -> OneRange]
    BY <1>1, <1>3
  <2> HIDE DEF l
  <2>3. l \in Seq(OneRange)
    BY <2>1, <2>2, SeqDef
  <2> QED  BY <1>5, <2>1, <2>3
<1> HIDE DEF l
<1>7. Recounted(m.list, l)
  BY <1>1, <1>3, <1>4, <1>5, <1>6 DEF Recounted, Ranges
<1>8. Sane(l)
  BY <1>1, <1>7, RecountedKeeps
<1>9. /\ u.list = l /\ u.cur = m.cur /\ u.next_id = m.next_id /\ u.fault = m.fault
      /\ u \in [list : Ranges, cur : Int, next_id : -1 .. LimitMax + 1,
                fault : BOOLEAN]
  BY <1>1, <1>2, <1>6 DEF Ranges
<1>10. u \in Manager
  BY <1>1, <1>6, <1>8, <1>9, ManagerIs
<1>11. ASSUME \A k \in DOMAIN m.list : \/ m.list[k].new \/ ~Clear(m.list[k], S)
                                         \/ m.list[k].used = count(k)
       PROVE  Counted(l, ids, S)
  <2> SUFFICES ASSUME NEW k \in DOMAIN m.list, Clear(l[k], S)
               PROVE  l[k].used = Cardinality({i \in ids : Covers(l[k], i)})
    BY <1>1, <1>5 DEF Counted
  <2>1. {i \in ids : Covers(l[k], i)} = {i \in ids : Covers(m.list[k], i)}
    BY <1>7 DEF Recounted, Covers
  <2>2. Clear(m.list[k], S)
    BY <1>7 DEF Recounted, Clear, Covers
  <2>3. l[k].used = count(k)
    BY <1>3, <1>4, <1>11, <2>2
  <2> QED  BY <2>1, <2>3
<1> HIDE DEF u
<1> QED  BY <1>7, <1>9, <1>10, <1>11 DEF u

(* One id taken, and one given back. *)
LEMMA CountFacts ==
  ASSUME NEW l \in Ranges, NEW i \in Ids
  PROVE  Recounted(l, useId(l, i)) /\ Recounted(l, unuseId(l, i))
<1> DEFINE k == First(RangesOf(l, i))
<1>1. CASE RangesOf(l, i) = {}
  BY <1>1 DEF useId, unuseId, Recounted
<1>2. CASE RangesOf(l, i) # {}
  <2>1. RangesOf(l, i) \in SUBSET Nat /\ RangesOf(l, i) \subseteq DOMAIN l
    BY DEF RangesOf, Ranges
  <2>2. k \in DOMAIN l
    BY <1>2, <2>1, FirstIs
  <2>3. /\ useId(l, i) = [l EXCEPT ![k].used = Increment(@)]
        /\ unuseId(l, i) = [l EXCEPT ![k].used = Decrement(@)]
    BY <1>2 DEF useId, unuseId
  <2> HIDE DEF k
  <2>4. l[k] \in OneRange /\ l[k].used \in 0 .. Unknown /\ l \in Seq(OneRange)
    <3>1. l \in Seq(OneRange)
      BY DEF Ranges
    <3>2. l[k] \in OneRange
      BY <2>2, <3>1
    <3> QED  BY <3>1, <3>2 DEF OneRange
  <2>5. Increment(l[k].used) \in 0 .. Unknown /\ Decrement(l[k].used) \in 0 .. Unknown
    <3>1. Unknown \in Nat /\ Unknown >= 1
      BY UnknownIs, RangesAssumption
    <3> QED  BY <2>4, <3>1 DEF Increment, Decrement
  <2>6. ASSUME NEW n \in 0 .. Unknown
        PROVE  Recounted(l, [l EXCEPT ![k].used = n])
    <3> DEFINE r == [l[k] EXCEPT !.used = n]
    <3>1. /\ r \in OneRange /\ r.min = l[k].min /\ r.max = l[k].max
          /\ r.owner = l[k].owner
      BY <2>4 DEF OneRange
    <3> HIDE DEF r
    <3>2. [l EXCEPT ![k].used = n] = [l EXCEPT ![k] = r]
      BY <2>2 DEF r
    <3>3. [l EXCEPT ![k] = r] \in Seq(OneRange)
      BY <2>2, <2>4, <3>1
    <3> QED  BY <2>2, <3>1, <3>2, <3>3 DEF Recounted, Ranges
  <2>7. Recounted(l, [l EXCEPT ![k].used = Increment(l[k].used)])
    BY <2>5, <2>6
  <2>8. Recounted(l, [l EXCEPT ![k].used = Decrement(l[k].used)])
    BY <2>5, <2>6
  <2> QED  BY <2>2, <2>3, <2>7, <2>8
<1> QED  BY <1>1, <1>2

LEMMA UseCounts ==
  ASSUME NEW l \in Ranges, NEW ids \in SUBSET Ids, NEW S,
         Apart(l, S), Counted(l, ids, S),
         NEW i \in Ids \ ids
  PROVE  Counted(useId(l, i), ids \cup {i}, S)
<1> DEFINE count(k) == Cardinality({x \in ids : Covers(l[k], x)})
           more(k) == Cardinality({x \in ids \cup {i} : Covers(l[k], x)})
           u == useId(l, i)
<1>1. Recounted(l, u)
  BY CountFacts
<1>2. ASSUME NEW k \in DOMAIN l
      PROVE  more(k) = IF Covers(l[k], i) THEN count(k) + 1 ELSE count(k)
  <2> DEFINE T == {x \in ids : Covers(l[k], x)}
  <2>1. IsFiniteSet(T)
    BY CountIs
  <2>2. CASE Covers(l[k], i)
    <3>1. {x \in ids \cup {i} : Covers(l[k], x)} = T \cup {i} /\ i \notin T
      BY <2>2
    <3> HIDE DEF T
    <3>2. Cardinality(T \cup {i}) = Cardinality(T) + 1
      BY <2>1, <3>1, FS_AddElement
    <3> QED  BY <2>2, <3>1, <3>2 DEF T
  <2>3. CASE ~Covers(l[k], i)
    <3>1. {x \in ids \cup {i} : Covers(l[k], x)} = T
      BY <2>3
    <3> QED  BY <2>3, <3>1
  <2> QED  BY <2>2, <2>3
<1>3. \A k \in DOMAIN l : /\ Clear(l[k], S) => l[k].used = count(k)
                          /\ count(k) \in 0 .. LimitMax
  BY CountIs DEF Counted
<1>4. ASSUME NEW k \in DOMAIN l PROVE more(k) \in 0 .. LimitMax
  BY CountIs
<1> HIDE DEF count, more
<1>5. ASSUME NEW k \in DOMAIN l, Clear(l[k], S)
      PROVE  u[k].used = more(k)
  <2>1. CASE RangesOf(l, i) = {}
    <3>1. u = l /\ ~Covers(l[k], i)
      BY <2>1 DEF useId, RangesOf
    <3> QED  BY <1>2, <1>3, <1>5, <3>1
  <2>2. CASE RangesOf(l, i) # {}
    <3> DEFINE f == First(RangesOf(l, i))
    <3>1. RangesOf(l, i) \in SUBSET Nat
      BY DEF RangesOf, Ranges
    <3>2. f \in DOMAIN l /\ Covers(l[f], i)
      <4>1. f \in RangesOf(l, i)
        BY <2>2, <3>1, FirstIs
      <4> QED  BY <4>1 DEF RangesOf
    <3>3. u = [l EXCEPT ![f].used = Increment(@)]
      BY <2>2 DEF useId
    <3> HIDE DEF f, u
    <3>4. CASE k = f
      <4>1. l[k] \in OneRange
        BY DEF Ranges
      <4>2. u[k].used = Increment(l[k].used)
        BY <3>2, <3>3, <3>4, <4>1 DEF OneRange
      <4>3. more(k) = count(k) + 1 /\ l[k].used = count(k)
        BY <1>2, <1>3, <1>5, <3>2, <3>4
      <4>4. l[k].used # Unknown
        BY <1>3, <1>4, <4>3, UnknownIs
      <4> QED  BY <4>2, <4>3, <4>4 DEF Increment
    <3>5. CASE k # f
      <4>1. ~Covers(l[k], i)
        <5>1. CASE i \in S
          BY <1>5, <5>1 DEF Clear
        <5>2. CASE i \notin S
          BY <3>2, <3>5, <5>2 DEF Apart
        <5> QED  BY <5>1, <5>2
      <4>2. u[k] = l[k]
        BY <3>2, <3>3, <3>5
      <4> QED  BY <1>2, <1>3, <1>5, <4>1, <4>2
    <3> QED  BY <3>4, <3>5
  <2> QED  BY <2>1, <2>2
<1>6. ASSUME NEW k \in DOMAIN l
      PROVE  {x \in ids \cup {i} : Covers(u[k], x)} = {x \in ids \cup {i} : Covers(l[k], x)}
  BY <1>1 DEF Recounted, Covers
<1>7. DOMAIN u = DOMAIN l
  BY <1>1 DEF Recounted
<1>8. ASSUME NEW k \in DOMAIN l, Clear(u[k], S) PROVE Clear(l[k], S)
  BY <1>1, <1>8 DEF Recounted, Clear, Covers
<1> HIDE DEF u
<1>9. Counted(u, ids \cup {i}, S)
  BY <1>5, <1>6, <1>7, <1>8 DEF Counted, more
<1> QED  BY <1>9 DEF u

LEMMA UnuseCounts ==
  ASSUME NEW l \in Ranges, NEW ids \in SUBSET Ids, NEW S,
         Apart(l, S), Counted(l, ids, S),
         NEW i \in ids
  PROVE  Counted(unuseId(l, i), ids \ {i}, S)
<1> DEFINE count(k) == Cardinality({x \in ids : Covers(l[k], x)})
           less(k) == Cardinality({x \in ids \ {i} : Covers(l[k], x)})
           u == unuseId(l, i)
<1>1. Recounted(l, u)
  BY CountFacts
<1>2. ASSUME NEW k \in DOMAIN l
      PROVE  less(k) = IF Covers(l[k], i) THEN count(k) - 1 ELSE count(k)
  <2> DEFINE T == {x \in ids : Covers(l[k], x)}
  <2>1. IsFiniteSet(T)
    BY CountIs
  <2>2. CASE Covers(l[k], i)
    <3>1. {x \in ids \ {i} : Covers(l[k], x)} = T \ {i} /\ i \in T
      BY <2>2
    <3> HIDE DEF T
    <3>2. Cardinality(T \ {i}) = Cardinality(T) - 1
      BY <2>1, <3>1, FS_RemoveElement
    <3> QED  BY <2>2, <3>1, <3>2 DEF T
  <2>3. CASE ~Covers(l[k], i)
    <3>1. {x \in ids \ {i} : Covers(l[k], x)} = T
      BY <2>3
    <3> QED  BY <2>3, <3>1
  <2> QED  BY <2>2, <2>3
<1>3. \A k \in DOMAIN l : /\ Clear(l[k], S) => l[k].used = count(k)
                          /\ count(k) \in 0 .. LimitMax
  BY CountIs DEF Counted
<1>4. ASSUME NEW k \in DOMAIN l PROVE less(k) \in 0 .. LimitMax
  BY CountIs
<1> HIDE DEF count, less
<1>5. ASSUME NEW k \in DOMAIN l, Clear(l[k], S)
      PROVE  u[k].used = less(k)
  <2>1. CASE RangesOf(l, i) = {}
    <3>1. u = l /\ ~Covers(l[k], i)
      BY <2>1 DEF unuseId, RangesOf
    <3> QED  BY <1>2, <1>3, <1>5, <3>1
  <2>2. CASE RangesOf(l, i) # {}
    <3> DEFINE f == First(RangesOf(l, i))
    <3>1. RangesOf(l, i) \in SUBSET Nat
      BY DEF RangesOf, Ranges
    <3>2. f \in DOMAIN l /\ Covers(l[f], i)
      <4>1. f \in RangesOf(l, i)
        BY <2>2, <3>1, FirstIs
      <4> QED  BY <4>1 DEF RangesOf
    <3>3. u = [l EXCEPT ![f].used = Decrement(@)]
      BY <2>2 DEF unuseId
    <3> HIDE DEF f, u
    <3>4. CASE k = f
      <4>1. l[k] \in OneRange
        BY DEF Ranges
      <4>2. u[k].used = Decrement(l[k].used)
        BY <3>2, <3>3, <3>4, <4>1 DEF OneRange
      <4>3. less(k) = count(k) - 1 /\ l[k].used = count(k)
        BY <1>2, <1>3, <1>5, <3>2, <3>4
      <4>4. l[k].used # 0
        BY <1>3, <1>4, <4>3
      <4> QED  BY <4>2, <4>3, <4>4 DEF Decrement
    <3>5. CASE k # f
      <4>1. ~Covers(l[k], i)
        <5>1. CASE i \in S
          BY <1>5, <5>1 DEF Clear
        <5>2. CASE i \notin S
          BY <3>2, <3>5, <5>2 DEF Apart
        <5> QED  BY <5>1, <5>2
      <4>2. u[k] = l[k]
        BY <3>2, <3>3, <3>5
      <4> QED  BY <1>2, <1>3, <1>5, <4>1, <4>2
    <3> QED  BY <3>4, <3>5
  <2> QED  BY <2>1, <2>2
<1>6. ASSUME NEW k \in DOMAIN l
      PROVE  {x \in ids \ {i} : Covers(u[k], x)} = {x \in ids \ {i} : Covers(l[k], x)}
  BY <1>1 DEF Recounted, Covers
<1>7. DOMAIN u = DOMAIN l
  BY <1>1 DEF Recounted
<1>8. ASSUME NEW k \in DOMAIN l, Clear(u[k], S) PROVE Clear(l[k], S)
  BY <1>1, <1>8 DEF Recounted, Clear, Covers
<1> HIDE DEF u
<1>9. Counted(u, ids \ {i}, S)
  BY <1>5, <1>6, <1>7, <1>8 DEF Counted, less
<1> QED  BY <1>9 DEF u

-----------------------------------------------------------------------------
(* Loops over a list or a number of tries.                                 *)

LEMMA UpTo ==
  ASSUME NEW n \in Nat, NEW S, 0 \in S, \A j \in 1 .. n : j - 1 \in S => j \in S
  PROVE  \A j \in 0 .. n : j \in S
<1> DEFINE rest == {j \in 0 .. n : j \notin S}
<1> SUFFICES ASSUME rest # {} PROVE FALSE
  OBVIOUS
<1>1. rest \in SUBSET Nat
  OBVIOUS
<1>2. PICK k \in rest : \A j \in rest : k <= j
  BY <1>1, LeastExists
<1>3. k \in 1 .. n /\ k - 1 \in 0 .. n
  BY <1>2
<1>4. k - 1 \in S
  BY <1>2, <1>3
<1> QED  BY <1>2, <1>3, <1>4

LEMMA LoopExists ==
  ASSUME NEW X, NEW a \in X, NEW n \in Nat, NEW step \in [1 .. n -> [X -> X]]
  PROVE  \E f \in [0 .. n -> X] :
           f[0] = a /\ \A j \in 1 .. n : f[j] = step[j][f[j - 1]]
<1> DEFINE Runs(f, k) == f[0] = a /\ \A j \in 1 .. k : f[j] = step[j][f[j - 1]]
           S == {k \in 0 .. n : \E f \in [0 .. k -> X] : Runs(f, k)}
<1>1. 0 \in S
  <2>1. [j \in 0 .. 0 |-> a] \in [0 .. 0 -> X] /\ Runs([j \in 0 .. 0 |-> a], 0)
    OBVIOUS
  <2>2. \E f \in [0 .. 0 -> X] : Runs(f, 0)
    BY <2>1
  <2> HIDE DEF Runs
  <2> QED  BY <2>2
<1>2. ASSUME NEW k \in 1 .. n, k - 1 \in S PROVE k \in S
  <2>1. PICK f \in [0 .. k - 1 -> X] : Runs(f, k - 1)
    BY <1>2
  <2> DEFINE g == [j \in 0 .. k |-> IF j = k THEN step[k][f[k - 1]] ELSE f[j]]
  <2>2. k - 1 \in 0 .. k - 1 /\ f[k - 1] \in X /\ step[k][f[k - 1]] \in X
    BY <1>2
  <2>3. \A j \in 0 .. k : j # k => j \in 0 .. k - 1
    BY <1>2
  <2>4. g \in [0 .. k -> X]
    BY <2>2, <2>3
  <2>5. g[0] = a
    BY <1>2, <2>1
  <2>6. ASSUME NEW j \in 1 .. k PROVE g[j] = step[j][g[j - 1]]
    <3>1. g[j - 1] = f[j - 1]
      BY <1>2
    <3>2. CASE j = k
      BY <3>1, <3>2
    <3>3. CASE j # k
      <4>1. j \in 1 .. k - 1 /\ j \in 0 .. k
        BY <1>2, <3>3
      <4>2. g[j] = f[j] /\ f[j] = step[j][f[j - 1]]
        BY <2>1, <3>3, <4>1
      <4> QED  BY <3>1, <4>2
    <3> QED  BY <3>2, <3>3
  <2> HIDE DEF g
  <2>7. \E h \in [0 .. k -> X] : Runs(h, k)
    BY <2>4, <2>5, <2>6
  <2> HIDE DEF Runs
  <2> QED  BY <1>2, <2>7
<1> HIDE DEF S
<1>3. \A j \in 1 .. n : j - 1 \in S => j \in S
  BY <1>2
<1>4. \A j \in 0 .. n : j \in S
  BY <1>1, <1>3, UpTo
<1>5. n \in S
  BY <1>4
<1> QED  BY <1>5 DEF S

-----------------------------------------------------------------------------
(* A restart. *)

(* What is there when the first n ranges have been read: only new ranges,  *)
(* and every id with an owner it had among the n; and no id in two ranges  *)
(* that was not.                                                           *)
LoadedFrom(m, n) ==
  /\ m \in Manager
  /\ \A k \in DOMAIN m.list : m.list[k].new
  /\ \A k \in DOMAIN m.list, i \in Ids : Covers(m.list[k], i) =>
       \E j \in 1 .. n : list[j].owner = m.list[k].owner /\ Covers(list[j], i)
  /\ \A S : Apart(list, S) => Apart(m.list, S)

LEMMA NoRangesLoaded == LoadedFrom(NoRanges, 0)
<1>1. <<>> \in Ranges /\ Len(<<>>) = 0 /\ DOMAIN <<>> = {}
  BY DEF Ranges
<1>2. Sane(<<>>) /\ \A S : Apart(<<>>, S)
  BY <1>1 DEF Sane, Apart
<1>3. NoRanges \in Manager
  <2>1. /\ NoRanges \in [list : Ranges, cur : Int, next_id : -1 .. LimitMax + 1,
                          fault : BOOLEAN]
        /\ NoRanges.list = <<>> /\ NoRanges.cur = 0
    BY <1>1, UnknownIs DEF NoRanges
  <2>2. 0 \in Freed .. Len(<<>>)
    BY <1>1 DEF Freed
  <2> QED  BY <1>2, <2>1, <2>2, ManagerIs
<1> QED  BY <1>1, <1>2, <1>3 DEF LoadedFrom, NoRanges

LEMMA OneLoaded ==
  ASSUME list \in Ranges, Sane(list), NEW n \in 1 .. Len(list), NEW m,
         LoadedFrom(m, n - 1)
  PROVE  LET r == list[n] IN LoadedFrom(addIDRange(m, r.min, r.max, r.owner), n)
<1> DEFINE r == list[n]
           e == addIDRange(m, r.min, r.max, r.owner)
<1>1. /\ r \in OneRange /\ r.min < r.max /\ n \in DOMAIN list
      /\ r.min \in 0 .. LimitMax /\ r.max \in Ids /\ r.owner \in Owner
  <2>1. n \in DOMAIN list /\ r \in OneRange
    BY DEF Ranges
  <2> QED  BY <2>1 DEF Sane, OneRange
<1>2. /\ m \in Manager /\ m.list \in Ranges /\ Sane(m.list)
  BY ManagerIs DEF LoadedFrom
<1>3. Added(m, e, r.min, r.max, r.owner)
  BY <1>1, <1>2, addIDRangeAdds
<1> HIDE DEF e
<1>4. /\ e \in Manager /\ e.list \in Ranges
      /\ Grown(m.list, e.list, r.min, r.max, r.owner)
  BY <1>3, ManagerIs DEF Added
<1>5. ASSUME NEW k \in DOMAIN e.list PROVE e.list[k].new
  <2>1. e.list[k].new \/ \E j \in DOMAIN m.list : Like(e.list[k], m.list[j])
    BY <1>1, <1>2, <1>4, GrownSane
  <2> QED  BY <2>1 DEF LoadedFrom, Like
<1>6. ASSUME NEW k \in DOMAIN e.list, NEW i \in Ids, Covers(e.list[k], i)
      PROVE  \E j \in 1 .. n :
               list[j].owner = e.list[k].owner /\ Covers(list[j], i)
  <2>1. \/ e.list[k].owner = r.owner /\ r.min < i /\ i <= r.max
        \/ \E j \in DOMAIN m.list :
             m.list[j].owner = e.list[k].owner /\ Covers(m.list[j], i)
    BY <1>1, <1>2, <1>4, <1>6, GrownCovers
  <2>2. CASE e.list[k].owner = r.owner /\ r.min < i /\ i <= r.max
    BY <2>2 DEF Covers
  <2>3. ASSUME NEW j \in DOMAIN m.list,
               m.list[j].owner = e.list[k].owner, Covers(m.list[j], i)
        PROVE  \E p \in 1 .. n :
                 list[p].owner = e.list[k].owner /\ Covers(list[p], i)
    <3>1. \E p \in 1 .. n - 1 :
            list[p].owner = m.list[j].owner /\ Covers(list[p], i)
      BY <2>3 DEF LoadedFrom
    <3> QED  BY <2>3, <3>1
  <2> QED  BY <2>1, <2>2, <2>3
<1>7. ASSUME NEW S, Apart(list, S) PROVE Apart(e.list, S)
  <2>1. ASSUME NEW i \in (r.min + 1 .. r.max) \ S, NEW k \in RangesOf(m.list, i)
        PROVE  FALSE
    <3>1. i \in Ids \ S /\ Covers(r, i) /\ k \in DOMAIN m.list /\ Covers(m.list[k], i)
      BY <1>1, <2>1, UnknownIs DEF RangesOf, Covers, Ids
    <3>2. PICK j \in 1 .. n - 1 : Covers(list[j], i)
      BY <3>1 DEF LoadedFrom
    <3>3. j \in DOMAIN list /\ j # n
      BY DEF Ranges
    <3> QED  BY <1>1, <1>7, <3>1, <3>2, <3>3 DEF Apart
  <2>2. \A i \in (r.min + 1 .. r.max) \ S : RangesOf(m.list, i) = {}
    BY <2>1
  <2>3. Apart(m.list, S)
    BY <1>7 DEF LoadedFrom
  <2> QED  BY <1>1, <1>2, <1>4, <2>2, <2>3, GrownApart
<1>8. LoadedFrom(e, n)
  BY <1>4, <1>5, <1>6, <1>7 DEF LoadedFrom
<1> QED  BY <1>8 DEF e

LEMMA LoadedFacts ==
  ASSUME list \in Ranges, Sane(list)
  PROVE  LoadedFrom(Loaded, Len(list))
<1> DEFINE N == Len(list)
           read(m, n) == LET r == list[n]
                         IN IF m.fault THEN m
                            ELSE addIDRange(m, r.min, r.max, r.owner)
           body(f) == [n \in 0 .. N |-> IF n = 0 THEN NoRanges ELSE read(f[n - 1], n)]
           after == CHOOSE f : f = body(f)
<1>1. Loaded = after[N]
  BY Zenon DEF Loaded
<1>2. N \in Nat /\ DOMAIN list = 1 .. N
  BY DEF Ranges
<1>3. ASSUME NEW m \in Manager, NEW n \in 1 .. N PROVE read(m, n) \in Manager
  <2>1. list[n] \in OneRange /\ list[n].min < list[n].max
    BY <1>2 DEF Ranges, Sane
  <2>2. Added(m, addIDRange(m, list[n].min, list[n].max, list[n].owner),
              list[n].min, list[n].max, list[n].owner)
    BY <2>1, addIDRangeAdds DEF OneRange
  <2> QED  BY <2>2 DEF Added
<1> HIDE DEF read
<1>4. \E f : f = body(f)
  <2> DEFINE step == [n \in 1 .. N |-> [m \in Manager |-> read(m, n)]]
  <2>1. step \in [1 .. N -> [Manager -> Manager]]
    BY <1>3
  <2>2. \A n \in 1 .. N, m \in Manager : step[n][m] = read(m, n)
    OBVIOUS
  <2>3. NoRanges \in Manager
    BY NoRangesLoaded DEF LoadedFrom
  <2> HIDE DEF step, N
  <2>4. PICK f \in [0 .. N -> Manager] :
          f[0] = NoRanges /\ \A j \in 1 .. N : f[j] = step[j][f[j - 1]]
    BY <1>2, <2>1, <2>3, LoopExists
  <2>5. ASSUME NEW n \in 0 .. N
        PROVE  f[n] = IF n = 0 THEN NoRanges ELSE read(f[n - 1], n)
    <3>1. n # 0 => n \in 1 .. N /\ n - 1 \in 0 .. N
      BY <1>2
    <3> QED  BY <2>2, <2>4, <3>1
  <2>6. f = body(f)
    BY <2>4, <2>5
  <2> QED  BY <2>6
<1>5. after = body(after)
  BY <1>4
<1> HIDE DEF after
<1>6. /\ after[0] = NoRanges
      /\ \A n \in 1 .. N : after[n] = read(after[n - 1], n)
  BY <1>2, <1>5
<1> DEFINE S == {n \in 0 .. N : LoadedFrom(after[n], n)}
<1>7. 0 \in S
  BY <1>2, <1>6, NoRangesLoaded
<1>8. ASSUME NEW n \in 1 .. N, n - 1 \in S PROVE n \in S
  <2>1. LoadedFrom(after[n - 1], n - 1) /\ after[n] = read(after[n - 1], n)
    BY <1>6, <1>8
  <2>2. CASE after[n - 1].fault
    <3>1. LoadedFrom(after[n - 1], n)
      BY <2>1 DEF LoadedFrom
    <3> QED  BY <2>1, <2>2, <3>1 DEF read
  <2>3. CASE ~after[n - 1].fault
    BY <2>1, <2>3, OneLoaded DEF read
  <2> QED  BY <2>2, <2>3
<1> HIDE DEF S
<1>9. \A n \in 1 .. N : n - 1 \in S => n \in S
  BY <1>8
<1>10. N \in S
  <2> HIDE DEF N
  <2>1. \A n \in 0 .. N : n \in S
    BY <1>2, <1>7, <1>9, UpTo
  <2> QED  BY <1>2, <2>1
<1> QED  BY <1>1, <1>10 DEF S

-----------------------------------------------------------------------------
(* The next id. *)

(* An answer of nextId: the list is as it was, and an id is an id.         *)
Answer(l) ==
  {g \in [mgr : Manager, id : {-1} \cup Ids] : g.mgr.list = l}

LEMMA MovedManager ==
  ASSUME NEW m \in Manager, NEW c \in Freed .. Len(m.list),
         NEW n \in -1 .. LimitMax + 1
  PROVE  /\ [m EXCEPT !.cur = c, !.next_id = n] \in Manager
         /\ [m EXCEPT !.cur = c, !.next_id = n].list = m.list
<1>1. /\ m \in [list : Ranges, cur : Int, next_id : -1 .. LimitMax + 1,
                fault : BOOLEAN]
      /\ Sane(m.list) /\ c \in Int
  BY ManagerIs DEF Ranges, Freed
<1> DEFINE e == [m EXCEPT !.cur = c, !.next_id = n]
<1>2. /\ e \in [list : Ranges, cur : Int, next_id : -1 .. LimitMax + 1,
                fault : BOOLEAN]
      /\ e.list = m.list /\ e.cur = c
  BY <1>1
<1> HIDE DEF e
<1>3. e \in Manager
  BY <1>1, <1>2, ManagerIs
<1> QED  BY <1>2, <1>3 DEF e

LEMMA handAnswers ==
  ASSUME NEW m \in Manager, NEW k \in DOMAIN m.list,
         NEW n \in Ids, n <= m.list[k].max
  PROVE  hand(m, k, n) \in Answer(m.list)
<1>1. m.list \in Seq(OneRange) /\ k \in Freed .. Len(m.list)
      /\ n + 1 \in -1 .. LimitMax + 1
  BY ManagerIs, UnknownIs DEF Ranges, Freed, Ids
<1>2. /\ [m EXCEPT !.cur = k, !.next_id = n + 1] \in Manager
      /\ [m EXCEPT !.cur = k, !.next_id = n + 1].list = m.list
  BY <1>1, MovedManager
<1> QED  BY <1>2 DEF hand, Answer

(* A pointer that was freed, or is NULL, is followed: no answer.           *)
LEMMA FaultAnswers ==
  ASSUME NEW m \in Manager
  PROVE  [mgr |-> [m EXCEPT !.fault = TRUE], id |-> -1] \in Answer(m.list)
<1>1. /\ m \in [list : Ranges, cur : Int, next_id : -1 .. LimitMax + 1,
                fault : BOOLEAN]
      /\ Sane(m.list) /\ m.cur \in Freed .. Len(m.list)
  BY ManagerIs
<1> DEFINE e == [m EXCEPT !.fault = TRUE]
<1>2. /\ e \in [list : Ranges, cur : Int, next_id : -1 .. LimitMax + 1,
                fault : BOOLEAN]
      /\ e.list = m.list /\ e.cur = m.cur
  BY <1>1
<1> HIDE DEF e
<1>3. e \in Manager
  BY <1>1, <1>2, ManagerIs
<1>4. [mgr |-> e, id |-> -1] \in Answer(m.list)
  BY <1>2, <1>3 DEF Answer
<1> QED  BY <1>4 DEF e

LEMMA NextOwnIs ==
  ASSUME NEW l \in Ranges, NEW c \in Int
  PROVE  NextOwn(l, c) = 0 \/ NextOwn(l, c) \in DOMAIN l
<1> DEFINE own == {j \in DOMAIN l : j >= c /\ l[j].owner = Me}
<1>1. own \in SUBSET Nat
  BY DEF Ranges
<1>2. CASE own = {}
  BY <1>2 DEF NextOwn
<1>3. CASE own # {}
  <2>1. First(own) \in own
    BY <1>1, <1>3, FirstIs
  <2> QED  BY <1>3, <2>1 DEF NextOwn
<1> QED  BY <1>2, <1>3

LEMMA ResearchIs ==
  ASSUME NEW l \in Ranges
  PROVE  Research(l) \in {0, Freed} \/ Research(l) \in DOMAIN l
<1> DEFINE over == {k \in DOMAIN l : l[k].used > Size(l[k])}
           room == {k \in DOMAIN l : k >= First(over) /\ l[k].owner = Me
                                     /\ l[k].used < Size(l[k])}
<1>1. room \in SUBSET Nat
  BY DEF Ranges
<1>2. Research(l) \in {0, Freed} \/ (room # {} /\ Research(l) = First(room))
  BY DEF Research
<1>3. room # {} => First(room) \in room
  BY <1>1, FirstIs
<1> QED  BY <1>2, <1>3

LEMMA nextIdAnswers ==
  ASSUME NEW m \in Manager
  PROVE  nextId(m) \in Answer(m.list)
<1> DEFINE k == NextOwn(m.list, m.cur)
           found == IF k < Len(m.list) THEN k + 1 ELSE Research(m.list)
           n == m.next_id
<1>1. /\ m \in [list : Ranges, cur : Int, next_id : -1 .. LimitMax + 1,
                fault : BOOLEAN]
      /\ Sane(m.list) /\ m.list \in Seq(OneRange) /\ m.list \in Ranges
      /\ n \in -1 .. LimitMax + 1
  BY ManagerIs DEF Ranges
<1>2. k = 0 \/ k \in DOMAIN m.list
  BY <1>1, NextOwnIs
<1>3. ASSUME NEW j \in DOMAIN m.list
      PROVE  /\ m.list[j].min + 1 \in Ids /\ m.list[j].min + 1 <= m.list[j].max
             /\ m.list[j].min \in 0 .. LimitMax /\ m.list[j].max \in Ids
             /\ hand(m, j, m.list[j].min + 1) \in Answer(m.list)
  <2>1. m.list[j] \in OneRange /\ m.list[j].min < m.list[j].max
    BY <1>1 DEF Sane
  <2>2. /\ m.list[j].min + 1 \in Ids /\ m.list[j].min + 1 <= m.list[j].max
        /\ m.list[j].min \in 0 .. LimitMax /\ m.list[j].max \in Ids
    BY <2>1, UnknownIs DEF OneRange, Ids
  <2> QED  BY <2>2, handAnswers
<1> HIDE DEF k
<1>4. CASE m.cur = Freed
  BY <1>4, FaultAnswers DEF nextId
<1>5. CASE m.cur # Freed /\ k = 0
  <2>1. 0 \in Freed .. Len(m.list)
    BY <1>1 DEF Freed
  <2>2. /\ [m EXCEPT !.cur = 0, !.next_id = n] \in Manager
        /\ [m EXCEPT !.cur = 0, !.next_id = n].list = m.list
    BY <1>1, <2>1, MovedManager
  <2>3. [m EXCEPT !.cur = 0] = [m EXCEPT !.cur = 0, !.next_id = n]
    BY <1>1
  <2>4. nextId(m) = [mgr |-> [m EXCEPT !.cur = 0], id |-> -1]
    BY <1>5 DEF nextId, k
  <2>5. [mgr |-> [m EXCEPT !.cur = 0], id |-> -1] \in Answer(m.list)
    BY <2>2, <2>3 DEF Answer
  <2> QED  BY <2>4, <2>5
<1>6. CASE m.cur # Freed /\ k # 0
  <2>0. k \in DOMAIN m.list
    BY <1>2, <1>6
  <2>1. CASE n <= m.list[k].min
    <3>1. nextId(m) = hand(m, k, m.list[k].min + 1)
      BY <1>6, <2>1 DEF nextId, k
    <3> QED  BY <1>3, <2>0, <3>1
  <2>2. CASE ~(n <= m.list[k].min) /\ n <= m.list[k].max
    <3>1. nextId(m) = hand(m, k, n)
      BY <1>6, <2>2 DEF nextId, k
    <3>2. n \in Ids
      BY <1>1, <1>3, <2>0, <2>2, UnknownIs DEF Ids
    <3> QED  BY <2>0, <2>2, <3>1, <3>2, handAnswers
  <2>3. CASE ~(n <= m.list[k].min) /\ ~(n <= m.list[k].max)
    <3>1. nextId(m) = IF found = Freed
                      THEN [mgr |-> [m EXCEPT !.fault = TRUE], id |-> -1]
                      ELSE IF found = 0
                      THEN [mgr |-> [m EXCEPT !.cur = 0, !.next_id = -1], id |-> -1]
                      ELSE hand(m, found, m.list[found].min + 1)
      BY <1>6, <2>3 DEF nextId, k
    <3>2. found \in {0, Freed} \/ found \in DOMAIN m.list
      <4>1. CASE k < Len(m.list)
        BY <1>1, <2>0, <4>1
      <4>2. CASE ~(k < Len(m.list))
        BY <1>1, <4>2, ResearchIs
      <4> QED  BY <4>1, <4>2
    <3> HIDE DEF found
    <3>3. CASE found = Freed
      BY <3>1, <3>3, FaultAnswers
    <3>4. CASE found # Freed /\ found = 0
      <4>1. 0 \in Freed .. Len(m.list) /\ -1 \in -1 .. LimitMax + 1
        BY <1>1, UnknownIs DEF Freed
      <4>2. /\ [m EXCEPT !.cur = 0, !.next_id = -1] \in Manager
            /\ [m EXCEPT !.cur = 0, !.next_id = -1].list = m.list
        BY <4>1, MovedManager
      <4>3. [mgr |-> [m EXCEPT !.cur = 0, !.next_id = -1], id |-> -1]
              \in Answer(m.list)
        BY <4>2 DEF Answer
      <4> QED  BY <3>1, <3>4, <4>3
    <3>5. CASE found # Freed /\ found # 0
      BY <1>3, <3>1, <3>2, <3>5
    <3> QED  BY <3>3, <3>4, <3>5
  <2> QED  BY <2>1, <2>2, <2>3
<1> QED  BY <1>4, <1>5, <1>6

(* newResId never answers with an id that is taken. *)
LEMMA newResIdAnswers ==
  ASSUME NEW m \in Manager, NEW taken
  PROVE  /\ newResId(m, taken) \in Answer(m.list)
         /\ newResId(m, taken).id = -1 \/ newResId(m, taken).id \notin taken
<1> DEFINE again(g) == IF g.id \in taken THEN nextId(g.mgr) ELSE g
           body(f) == [n \in 0 .. Tries |-> IF n = 0 THEN nextId(m) ELSE again(f[n - 1])]
           at == CHOOSE f : f = body(f)
           A == Answer(m.list)
           last == at[Tries]
<1>1. newResId(m, taken) =
        IF last.id \in taken THEN [last EXCEPT !.id = -1] ELSE last
  BY Zenon DEF newResId
<1>2. Tries \in Nat
  BY UnknownIs DEF Tries
<1>3. nextId(m) \in A
  BY nextIdAnswers
<1>4. ASSUME NEW g \in A PROVE again(g) \in A
  <2>1. g.mgr \in Manager /\ g.mgr.list = m.list
    BY DEF Answer
  <2> QED  BY <2>1, nextIdAnswers
<1> HIDE DEF again, A
<1>5. \E f : f = body(f)
  <2> DEFINE step == [n \in 1 .. Tries |-> [g \in A |-> again(g)]]
  <2>1. step \in [1 .. Tries -> [A -> A]]
    BY <1>4
  <2>2. \A n \in 1 .. Tries, g \in A : step[n][g] = again(g)
    OBVIOUS
  <2> HIDE DEF step
  <2>3. PICK f \in [0 .. Tries -> A] :
          f[0] = nextId(m) /\ \A j \in 1 .. Tries : f[j] = step[j][f[j - 1]]
    BY <1>2, <1>3, <2>1, LoopExists
  <2>4. ASSUME NEW n \in 0 .. Tries
        PROVE  f[n] = IF n = 0 THEN nextId(m) ELSE again(f[n - 1])
    <3>1. n # 0 => n \in 1 .. Tries /\ n - 1 \in 0 .. Tries
      BY <1>2
    <3> QED  BY <2>2, <2>3, <3>1
  <2>5. f = body(f)
    BY <2>3, <2>4
  <2> QED  BY <2>5
<1>6. at = body(at)
  BY <1>5
<1> HIDE DEF at
<1>7. at[0] = nextId(m) /\ \A n \in 1 .. Tries : at[n] = again(at[n - 1])
  BY <1>2, <1>6
<1> DEFINE S == {n \in 0 .. Tries : at[n] \in A}
<1>8. 0 \in S
  BY <1>2, <1>3, <1>7
<1>9. \A n \in 1 .. Tries : n - 1 \in S => n \in S
  BY <1>4, <1>7
<1> HIDE DEF S
<1>10. Tries \in S
  BY <1>2, <1>8, <1>9, UpTo
<1>11. last \in A
  BY <1>10 DEF S
<1> HIDE DEF last
<1>12. last \in [mgr : Manager, id : {-1} \cup Ids] /\ last.mgr.list = m.list
  BY <1>11 DEF A, Answer
<1>13. CASE last.id \in taken
  <2>1. [last EXCEPT !.id = -1] \in Answer(m.list) /\ [last EXCEPT !.id = -1].id = -1
    BY <1>12 DEF Answer
  <2> QED  BY <1>1, <1>13, <2>1
<1>14. CASE last.id \notin taken
  BY <1>1, <1>11, <1>14 DEF A
<1> QED  BY <1>13, <1>14

-----------------------------------------------------------------------------
(* The user's steps: types. *)

RangesInv == RangesTypeOK /\ Sane(list)

LEMMA mgrManager ==
  ASSUME RangesInv
  PROVE  mgr \in Manager /\ mgr.list = list /\ list \in Ranges
<1>1. list \in Ranges
  BY DEF RangesInv, RangesTypeOK, Ranges, OneRange
<1>2. /\ mgr \in [list : Ranges, cur : Int, next_id : -1 .. LimitMax + 1,
                  fault : BOOLEAN]
      /\ mgr.list = list /\ mgr.cur = cur
  BY <1>1 DEF RangesInv, RangesTypeOK, mgr, Freed, Ranges
<1>3. cur \in Freed .. Len(list) /\ Sane(list)
  BY DEF RangesInv, RangesTypeOK
<1> HIDE DEF mgr
<1> QED  BY <1>1, <1>2, <1>3, ManagerIs

LEMMA becomeTypes ==
  ASSUME NEW m \in Manager, become(m), reses' \subseteq Ids,
         crossed' \subseteq Ids,
         answer' \in -1 .. LimitMax /\ answer' # 0
  PROVE  RangesInv'
<1>1. /\ list' \in Ranges /\ next_id' \in -1 .. LimitMax + 1
      /\ fault' \in BOOLEAN /\ Sane(list') /\ cur' \in Freed .. Len(list')
  <2>1. /\ m \in [list : Ranges, cur : Int, next_id : -1 .. LimitMax + 1,
                  fault : BOOLEAN]
        /\ Sane(m.list) /\ m.cur \in Freed .. Len(m.list)
    BY ManagerIs
  <2>2. /\ list' = m.list /\ cur' = m.cur /\ next_id' = m.next_id
        /\ fault' = m.fault
    BY DEF become
  <2> QED  BY <2>1, <2>2
<1>2. (list \in Seq([min : 0 .. LimitMax, max : Ids, owner : Owner,
                   used : 0 .. Unknown, new : BOOLEAN, linked : BOOLEAN,
                   managed : BOOLEAN]))'
  BY <1>1 DEF Ranges, OneRange
<1>3. RangesTypeOK'
  BY <1>1, <1>2 DEF RangesTypeOK
<1> QED  BY <1>1, <1>3 DEF RangesInv

(* What the steps make of the manager. *)
LEMMA TakenIs ==
  ASSUME NEW lo \in 0 .. LimitMax, NEW hi \in Ids, NEW S
  PROVE  Taken(lo, hi, S) \subseteq Ids
<1>1. ASSUME NEW i \in lo + 1 .. hi PROVE i \in Ids
  BY UnknownIs DEF Ids
<1> QED  BY <1>1 DEF Taken

LEMMA newIDRangeDoes ==
  ASSUME RangesInv, NEW lo \in 0 .. LimitMax, NEW hi \in Ids, NEW o \in Owner,
         lo < hi, newIDRange(lo, hi, o)
  PROVE  /\ \E m \in Manager : /\ Added(mgr, m, lo, hi, o)
                               /\ become(updateNewIDRanges(m, reses))
         /\ UNCHANGED <<reses, answer>>
         /\ crossed' = crossed \cup Taken(lo, hi, {})
<1>1. Added(mgr, addIDRange(mgr, lo, hi, o), lo, hi, o)
  BY mgrManager, addIDRangeAdds
<1> QED  BY <1>1 DEF newIDRange, Cross, Added

LEMMA newIDRangeTypes ==
  ASSUME RangesInv, NEW lo \in 0 .. LimitMax, NEW hi \in Ids, NEW o \in Owner,
         lo < hi, newIDRange(lo, hi, o)
  PROVE  RangesInv'
<1>1. PICK m \in Manager : become(updateNewIDRanges(m, reses))
  BY newIDRangeDoes
<1>2. /\ reses' = reses /\ answer' = answer
      /\ crossed' = crossed \cup Taken(lo, hi, {})
  BY newIDRangeDoes
<1>3. reses \subseteq Ids /\ answer \in -1 .. LimitMax /\ answer # 0
  BY DEF RangesInv, RangesTypeOK
<1>4. updateNewIDRanges(m, reses) \in Manager
  BY <1>3, updateFacts
<1>5. crossed' \subseteq Ids
  BY <1>2, TakenIs DEF RangesInv, RangesTypeOK
<1> QED  BY <1>1, <1>2, <1>3, <1>4, <1>5, becomeTypes

(* The dialog ExtendIDRange: the range is as it was, or has the bounds     *)
(* asked for (0 keeps the lower one), and is counted.                      *)
ExtendsTo(e, k, lo, hi) ==
  /\ become([updateNewIDRanges(e, reses) EXCEPT !.fault = ~list[k].managed])
  /\ Len(e.list) = Len(list)
  /\ \A j \in DOMAIN list : j # k => e.list[j] = list[j]
  /\ \/ e.list[k] = list[k]
     \/ /\ e.list[k].new \/ Like(e.list[k], list[k])
        /\ e.list[k].max = hi
        /\ e.list[k].min = IF lo > 0 THEN lo ELSE list[k].min

LEMMA extendIDRangeDoes ==
  ASSUME RangesInv, NEW k \in DOMAIN list, NEW lo \in 0 .. LimitMax,
         NEW hi \in Ids, extendIDRange(k, lo, hi)
  PROVE  /\ \E e \in Manager : ExtendsTo(e, k, lo, hi)
         /\ UNCHANGED <<reses, answer>>
         /\ crossed' = crossed \cup Taken(lo, hi, {k})
<1>1. mgr \in Manager /\ mgr.list = list
  BY mgrManager
<1> DEFINE e == extend(mgr, k, lo, hi)
<1>2. /\ e \in Manager /\ Len(e.list) = Len(list)
      /\ \A j \in DOMAIN list : j # k => e.list[j] = list[j]
      /\ \/ e = mgr
         \/ /\ e.list[k].new \/ Like(e.list[k], list[k])
            /\ e.list[k].max = hi
            /\ e.list[k].min = IF lo > 0 THEN lo ELSE list[k].min
  BY <1>1, ExtendFacts
<1>3. /\ become([updateNewIDRanges(e, reses) EXCEPT !.fault = ~list[k].managed])
      /\ UNCHANGED <<reses, answer>>
      /\ crossed' = crossed \cup Taken(lo, hi, {k})
  BY DEF extendIDRange, Cross
<1> HIDE DEF e
<1>4. ExtendsTo(e, k, lo, hi)
  BY <1>1, <1>2, <1>3 DEF ExtendsTo
<1> QED  BY <1>2, <1>3, <1>4

(* A step may end the program: no other field depends on it.               *)
LEMMA FaultedManager ==
  ASSUME NEW m \in Manager, NEW b \in BOOLEAN
  PROVE  /\ [m EXCEPT !.fault = b] \in Manager
         /\ [m EXCEPT !.fault = b].list = m.list
<1>1. /\ m \in [list : Ranges, cur : Int, next_id : -1 .. LimitMax + 1,
                fault : BOOLEAN]
      /\ Sane(m.list) /\ m.cur \in Freed .. Len(m.list)
  BY ManagerIs
<1> DEFINE e == [m EXCEPT !.fault = b]
<1>2. /\ e \in [list : Ranges, cur : Int, next_id : -1 .. LimitMax + 1,
                fault : BOOLEAN]
      /\ e.list = m.list /\ e.cur = m.cur
  BY <1>1
<1> HIDE DEF e
<1>3. e \in Manager
  BY <1>1, <1>2, ManagerIs
<1> QED  BY <1>2, <1>3 DEF e

LEMMA extendIDRangeTypes ==
  ASSUME RangesInv, NEW k \in DOMAIN list, NEW lo \in 0 .. LimitMax,
         NEW hi \in Ids, extendIDRange(k, lo, hi)
  PROVE  RangesInv'
<1>1. PICK e \in Manager :
        become([updateNewIDRanges(e, reses) EXCEPT !.fault = ~list[k].managed])
  <2>1. PICK e \in Manager : ExtendsTo(e, k, lo, hi)
    BY extendIDRangeDoes
  <2> QED  BY <2>1 DEF ExtendsTo
<1>2. /\ reses' = reses /\ answer' = answer
      /\ crossed' = crossed \cup Taken(lo, hi, {k})
  BY extendIDRangeDoes
<1>3. reses \subseteq Ids /\ answer \in -1 .. LimitMax /\ answer # 0
  BY DEF RangesInv, RangesTypeOK
<1>4. [updateNewIDRanges(e, reses) EXCEPT !.fault = ~list[k].managed] \in Manager
  BY <1>3, updateFacts, FaultedManager
<1>5. crossed' \subseteq Ids
  BY <1>2, TakenIs DEF RangesInv, RangesTypeOK
<1> QED  BY <1>1, <1>2, <1>3, <1>4, <1>5, becomeTypes

LEMMA RecountedManager ==
  ASSUME NEW m \in Manager, NEW l, Recounted(m.list, l)
  PROVE  [m EXCEPT !.list = l] \in Manager /\ [m EXCEPT !.list = l].list = l
<1>1. /\ m \in [list : Ranges, cur : Int, next_id : -1 .. LimitMax + 1,
                fault : BOOLEAN]
      /\ m.cur \in Freed .. Len(m.list) /\ Sane(m.list)
  BY ManagerIs
<1>2. l \in Ranges /\ Len(l) = Len(m.list) /\ Sane(l)
  BY <1>1, RecountedKeeps DEF Recounted
<1> DEFINE e == [m EXCEPT !.list = l]
<1>3. /\ e \in [list : Ranges, cur : Int, next_id : -1 .. LimitMax + 1,
                fault : BOOLEAN]
      /\ e.list = l /\ e.cur = m.cur
  BY <1>1, <1>2
<1> HIDE DEF e
<1>4. e \in Manager
  BY <1>1, <1>2, <1>3, ManagerIs
<1> QED  BY <1>3, <1>4 DEF e

(* createRes: no id and the list as it was, or an id that was free, used.  *)
LEMMA createResDoes ==
  ASSUME RangesInv, createRes
  PROVE  /\ \E m \in Manager : become(m)
         /\ crossed' = crossed
         /\ \/ answer' = -1 /\ list' = list /\ reses' = reses
            \/ /\ answer' \in Ids \ reses
               /\ list' = useId(list, answer') /\ reses' = reses \cup {answer'}
<1>1. mgr \in Manager /\ mgr.list = list /\ list \in Ranges
  BY mgrManager
<1> DEFINE new == newResId(mgr, reses)
<1>2. /\ new \in [mgr : Manager, id : {-1} \cup Ids] /\ new.mgr.list = list
      /\ new.id = -1 \/ new.id \notin reses
  BY <1>1, newResIdAnswers DEF Answer
<1>3. /\ answer' = new.id /\ crossed' = crossed
      /\ IF new.id = -1
         THEN become(new.mgr) /\ UNCHANGED reses
         ELSE /\ become([new.mgr EXCEPT !.list = useId(@, new.id)])
              /\ reses' = reses \cup {new.id}
  BY DEF createRes
<1> HIDE DEF new
<1>4. CASE new.id = -1
  BY <1>2, <1>3, <1>4 DEF become
<1>5. CASE new.id # -1
  <2> DEFINE e == [new.mgr EXCEPT !.list = useId(list, new.id)]
  <2>1. new.id \in Ids \ reses /\ new.mgr \in Manager
    BY <1>2, <1>5
  <2>2. Recounted(new.mgr.list, useId(list, new.id))
    BY <1>1, <1>2, <2>1, CountFacts
  <2>3. e \in Manager /\ e.list = useId(list, new.id)
    BY <2>1, <2>2, RecountedManager
  <2>4. become(e)
    BY <1>2, <1>3, <1>5
  <2> HIDE DEF e
  <2> QED  BY <1>3, <1>5, <2>1, <2>3, <2>4 DEF become
<1> QED  BY <1>4, <1>5

LEMMA createResTypes ==
  ASSUME RangesInv, createRes
  PROVE  RangesInv'
<1>1. PICK m \in Manager : become(m)
  BY createResDoes
<1>2. reses \subseteq Ids /\ 0 \notin Ids
  BY DEF RangesInv, RangesTypeOK, Ids
<1>3. /\ \/ answer' = -1 \/ answer' \in Ids
      /\ reses' \subseteq Ids /\ crossed' \subseteq Ids
  BY <1>2, createResDoes DEF RangesInv, RangesTypeOK
<1>4. answer' \in -1 .. LimitMax /\ answer' # 0
  BY <1>3, UnknownIs DEF Ids
<1> QED  BY <1>1, <1>3, <1>4, becomeTypes

(* Steps that only change counts and resources. *)
LEMMA RecountTypes ==
  ASSUME RangesInv, Recounted(list, list'), reses' \subseteq Ids,
         UNCHANGED <<cur, next_id, answer, fault, crossed>>
  PROVE  RangesInv'
<1>1. mgr \in Manager /\ mgr.list = list
  BY mgrManager
<1> DEFINE e == [mgr EXCEPT !.list = list']
<1>2. e \in Manager
  BY <1>1, RecountedManager
<1>3. become(e)
  BY DEF become, mgr
<1>4. /\ answer' \in -1 .. LimitMax /\ answer' # 0
      /\ crossed' \subseteq Ids
  BY DEF RangesInv, RangesTypeOK
<1> HIDE DEF e
<1> QED  BY <1>2, <1>3, <1>4, becomeTypes

LEMMA removeResDoes ==
  ASSUME RangesInv, NEW i \in reses, removeRes(i)
  PROVE  /\ i \in Ids /\ list' = unuseId(list, i) /\ reses' = reses \ {i}
         /\ Recounted(list, list') /\ reses' \subseteq Ids
         /\ UNCHANGED <<cur, next_id, answer, fault, crossed>>
<1>1. list \in Ranges /\ i \in Ids /\ reses \subseteq Ids
  BY mgrManager DEF RangesInv, RangesTypeOK
<1> QED  BY <1>1, CountFacts DEF removeRes

LEMMA setResIdDoes ==
  ASSUME RangesInv, NEW i \in reses, NEW j \in Ids, setResId(i, j)
  PROVE  /\ i \in Ids /\ j \notin reses
         /\ list' = unuseId(useId(list, j), i)
         /\ reses' = (reses \ {i}) \cup {j}
         /\ Recounted(list, list') /\ reses' \subseteq Ids
         /\ UNCHANGED <<cur, next_id, answer, fault, crossed>>
<1>1. list \in Ranges /\ i \in Ids /\ reses \subseteq Ids
  BY mgrManager DEF RangesInv, RangesTypeOK
<1>2. Recounted(list, useId(list, j)) /\ useId(list, j) \in Ranges
  BY <1>1, CountFacts DEF Recounted
<1>3. Recounted(useId(list, j), unuseId(useId(list, j), i))
  BY <1>1, <1>2, CountFacts
<1>4. Recounted(list, unuseId(useId(list, j), i))
  BY <1>2, <1>3 DEF Recounted
<1> QED  BY <1>1, <1>4 DEF setResId

(* A restart. *)
LEMMA restartDoes ==
  ASSUME RangesInv, restart
  PROVE  /\ \E m \in Manager : /\ LoadedFrom(m, Len(list))
                               /\ become(updateNewIDRanges(m, reses))
         /\ reses' = reses /\ answer' = -1 /\ crossed' = crossed
<1>1. LoadedFrom(Loaded, Len(list))
  BY mgrManager, LoadedFacts DEF RangesInv
<1> QED  BY <1>1 DEF restart, LoadedFrom

LEMMA restartTypes ==
  ASSUME RangesInv, restart
  PROVE  RangesInv'
<1>1. PICK m \in Manager : become(updateNewIDRanges(m, reses))
  BY restartDoes
<1>2. /\ reses' = reses /\ answer' = -1 /\ reses \subseteq Ids
      /\ crossed' \subseteq Ids
  BY restartDoes DEF RangesInv, RangesTypeOK
<1>3. updateNewIDRanges(m, reses) \in Manager
  BY <1>2, updateFacts
<1>4. -1 \in -1 .. LimitMax
  BY UnknownIs
<1> QED  BY <1>1, <1>2, <1>3, <1>4, becomeTypes

LEMMA RangesInit_Types == RangesInit => RangesInv
<1> SUFFICES ASSUME RangesInit PROVE RangesInv
  OBVIOUS
<1>1. NoRanges \in Manager
  BY NoRangesLoaded DEF LoadedFrom
<1>2. /\ list = NoRanges.list /\ cur = NoRanges.cur
      /\ next_id = NoRanges.next_id /\ fault = NoRanges.fault
      /\ reses = {} /\ answer = -1 /\ crossed = {}
  BY DEF RangesInit, NoRanges
<1>3. /\ list \in Ranges /\ next_id \in -1 .. LimitMax + 1
      /\ fault \in BOOLEAN /\ Sane(list) /\ cur \in Freed .. Len(list)
  BY <1>1, <1>2, ManagerIs
<1>4. -1 \in -1 .. LimitMax
  BY UnknownIs
<1> QED  BY <1>2, <1>3, <1>4 DEF RangesInv, RangesTypeOK, Ranges, OneRange

LEMMA RangesNext_Types == RangesInv /\ [RangesNext]_rangesVars => RangesInv'
<1> SUFFICES ASSUME RangesInv, [RangesNext]_rangesVars PROVE RangesInv'
  OBVIOUS
<1>1. ASSUME NEW lo \in 0 .. LimitMax, NEW hi \in Ids, NEW o \in Owner,
             lo < hi, newIDRange(lo, hi, o)
      PROVE  RangesInv'
  BY <1>1, newIDRangeTypes
<1>2. ASSUME NEW k \in DOMAIN list, NEW lo \in 0 .. LimitMax, NEW hi \in Ids,
             extendIDRange(k, lo, hi)
      PROVE  RangesInv'
  BY <1>2, extendIDRangeTypes
<1>3. CASE createRes
  BY <1>3, createResTypes
<1>4. ASSUME NEW i \in reses, removeRes(i) PROVE RangesInv'
  BY <1>4, removeResDoes, RecountTypes
<1>5. ASSUME NEW i \in reses, NEW j \in Ids, setResId(i, j) PROVE RangesInv'
  BY <1>5, setResIdDoes, RecountTypes
<1>6. CASE restart
  BY <1>6, restartTypes
<1>7. CASE UNCHANGED rangesVars
  BY <1>7 DEF rangesVars, RangesInv, RangesTypeOK, Sane
<1> QED  BY <1>1, <1>2, <1>3, <1>4, <1>5, <1>6, <1>7 DEF RangesNext

(* Every field of the manager keeps its type, also when a range was        *)
(* followed after its deletion; no id is ever 0 or above the limit, and no *)
(* developer's care is needed for it.                                      *)
THEOREM RangesTypeCorrect == RangesSpec => []RangesTypeOK
<1>1. RangesInv => RangesTypeOK
  BY DEF RangesInv
<1> QED  BY <1>1, RangesInit_Types, RangesNext_Types, PTL DEF RangesSpec

(* Saving and loading never give an id to a developer who did not own it,  *)
(* whatever the list looks like: also when ranges overlap.                 *)
THEOREM RestartCorrect == RangesSpec => RestartNeverReassigns
<1>1. ASSUME RangesInv, restart, NEW i \in Ids
      PROVE  OwnersOf(list', i) \subseteq OwnersOf(list, i)
  <2>1. PICK m \in Manager : /\ LoadedFrom(m, Len(list))
                             /\ become(updateNewIDRanges(m, reses))
    BY <1>1, restartDoes
  <2>2. reses \subseteq Ids /\ list \in Ranges
    BY <1>1, mgrManager DEF RangesInv, RangesTypeOK
  <2>3. Recounted(m.list, list')
    BY <2>1, <2>2, updateFacts DEF become
  <2>4. ASSUME NEW k \in DOMAIN list', Covers(list'[k], i)
        PROVE  \E j \in DOMAIN list :
                 list[j].owner = list'[k].owner /\ Covers(list[j], i)
    <3>1. /\ k \in DOMAIN m.list /\ Covers(m.list[k], i)
          /\ m.list[k].owner = list'[k].owner
      BY <2>3, <2>4 DEF Recounted, Covers
    <3>2. PICK j \in 1 .. Len(list) :
            list[j].owner = m.list[k].owner /\ Covers(list[j], i)
      BY <2>1, <3>1 DEF LoadedFrom
    <3>3. DOMAIN list = 1 .. Len(list)
      BY <2>2 DEF Ranges
    <3> QED  BY <3>1, <3>2, <3>3
  <2> QED  BY <2>4 DEF OwnersOf, RangesOf
<1>2. RangesInv => [restart => \A i \in Ids :
                      OwnersOf(list', i) \subseteq OwnersOf(list, i)]_rangesVars
  BY <1>1
<1> QED  BY <1>2, RangesInit_Types, RangesNext_Types, PTL
         DEF RangesSpec, RestartNeverReassigns

-----------------------------------------------------------------------------
(* No two ranges have an id in common, and each counts its ids in use, but *)
(* for the ids a developer asked for although another range had them.      *)

KeptInv == Apart(list, crossed) /\ Counted(list, reses, crossed)

(* Exceptions may grow. *)
LEMMA MoreCrossed ==
  ASSUME NEW l \in Ranges, NEW ids, NEW S, NEW S2, S \subseteq S2
  PROVE  /\ Apart(l, S) => Apart(l, S2)
         /\ \A r : Clear(r, S2) => Clear(r, S)
BY DEF Apart, Clear

LEMMA newIDRangeKeeps ==
  ASSUME RangesInv, KeptInv, NEW lo \in 0 .. LimitMax, NEW hi \in Ids,
         NEW o \in Owner, lo < hi, newIDRange(lo, hi, o)
  PROVE  KeptInv'
<1>1. PICK m \in Manager : /\ Added(mgr, m, lo, hi, o)
                           /\ become(updateNewIDRanges(m, reses))
  BY newIDRangeDoes
<1>2. reses' = reses /\ crossed' = crossed \cup Taken(lo, hi, {})
  BY newIDRangeDoes
<1>3. /\ mgr.list = list /\ list \in Ranges /\ Sane(list) /\ reses \subseteq Ids
      /\ m.list \in Ranges /\ Grown(list, m.list, lo, hi, o)
  BY <1>1, mgrManager, ManagerIs DEF RangesInv, RangesTypeOK, Added
<1>4. Apart(m.list, crossed')
  <2>1. Apart(list, crossed')
    BY <1>2, <1>3, MoreCrossed DEF KeptInv
  <2>2. \A i \in (lo + 1 .. hi) \ crossed' : RangesOf(list, i) = {}
    BY <1>2 DEF Taken
  <2> QED  BY <1>3, <2>1, <2>2, GrownApart
<1>5. ASSUME NEW k \in DOMAIN m.list
      PROVE  \/ m.list[k].new \/ ~Clear(m.list[k], crossed')
             \/ m.list[k].used = Cardinality({i \in reses : Covers(m.list[k], i)})
  <2>1. CASE ~m.list[k].new /\ Clear(m.list[k], crossed')
    <3>1. PICK j \in DOMAIN list : Like(m.list[k], list[j])
      BY <1>3, <2>1, GrownSane
    <3>2. {i \in reses : Covers(m.list[k], i)} = {i \in reses : Covers(list[j], i)}
      BY <3>1 DEF Like, Covers
    <3>3. Clear(list[j], crossed)
      BY <1>2, <2>1, <3>1 DEF Like, Clear, Covers
    <3>4. list[j].used = Cardinality({i \in reses : Covers(list[j], i)})
      BY <3>3 DEF KeptInv, Counted
    <3> QED  BY <3>1, <3>2, <3>4 DEF Like
  <2> QED  BY <2>1
<1>6. Counted(list', reses, crossed') /\ Recounted(m.list, list')
  BY <1>1, <1>3, <1>5, updateFacts DEF become
<1>7. Apart(list', crossed')
  BY <1>3, <1>4, <1>6, RecountedKeeps
<1> QED  BY <1>2, <1>6, <1>7 DEF KeptInv

LEMMA extendIDRangeKeeps ==
  ASSUME RangesInv, KeptInv, NEW k \in DOMAIN list,
         NEW lo \in 0 .. LimitMax, NEW hi \in Ids, extendIDRange(k, lo, hi)
  PROVE  KeptInv'
<1>0. PICK e \in Manager : ExtendsTo(e, k, lo, hi)
  BY extendIDRangeDoes
<1>1. /\ become([updateNewIDRanges(e, reses) EXCEPT !.fault = ~list[k].managed])
      /\ Len(e.list) = Len(list)
      /\ \A j \in DOMAIN list : j # k => e.list[j] = list[j]
      /\ \/ e.list[k] = list[k]
         \/ /\ e.list[k].new \/ Like(e.list[k], list[k])
            /\ e.list[k].max = hi
            /\ e.list[k].min = IF lo > 0 THEN lo ELSE list[k].min
  BY <1>0 DEF ExtendsTo
<1>2. reses' = reses /\ crossed' = crossed \cup Taken(lo, hi, {k})
  BY extendIDRangeDoes
<1>3. /\ list \in Ranges /\ Sane(list) /\ reses \subseteq Ids /\ e.list \in Ranges
      /\ DOMAIN list = 1 .. Len(list) /\ DOMAIN e.list = DOMAIN list
  <2>1. /\ list \in Ranges /\ e.list \in Ranges
        /\ Sane(list) /\ reses \subseteq Ids
    BY mgrManager, ManagerIs DEF RangesInv, RangesTypeOK
  <2>2. \A l \in Ranges : DOMAIN l = 1 .. Len(l)
    BY DEF Ranges
  <2> QED  BY <1>1, <2>1, <2>2
<1>4. ASSUME NEW i \in Ids \ crossed', Covers(e.list[k], i), NEW j \in DOMAIN list, j # k,
             Covers(list[j], i)
      PROVE  FALSE
  <2>1. CASE e.list[k] = list[k]
    BY <1>2, <1>4, <2>1 DEF KeptInv, Apart
  <2>2. CASE e.list[k].max = hi /\ e.list[k].min = IF lo > 0 THEN lo ELSE list[k].min
    <3>1. list[k] \in OneRange /\ e.list[k] \in OneRange
      BY <1>3 DEF Ranges
    <3>2. i \in lo + 1 .. hi
      BY <1>4, <2>2, <3>1, UnknownIs DEF Covers, OneRange, Ids
    <3> QED  BY <1>2, <1>4, <3>2 DEF Taken, RangesOf
  <2> QED  BY <1>1, <2>1, <2>2
<1>5. Apart(e.list, crossed')
  <2> SUFFICES ASSUME NEW i \in Ids \ crossed', NEW j \in DOMAIN list, NEW n \in DOMAIN list,
                      Covers(e.list[j], i), Covers(e.list[n], i), j # n
               PROVE  FALSE
    BY <1>3 DEF Apart
  <2>1. CASE j # k /\ n # k
    BY <1>1, <1>2, <2>1 DEF KeptInv, Apart
  <2>2. CASE j = k
    BY <1>1, <1>4, <2>2
  <2>3. CASE n = k
    BY <1>1, <1>4, <2>3
  <2> QED  BY <2>1, <2>2, <2>3
<1>6. ASSUME NEW j \in DOMAIN e.list
      PROVE  \/ e.list[j].new \/ ~Clear(e.list[j], crossed')
             \/ e.list[j].used = Cardinality({i \in reses : Covers(e.list[j], i)})
  <2>1. e.list[j].new \/ Like(e.list[j], list[j])
    BY <1>1, <1>3 DEF Like
  <2>2. CASE Like(e.list[j], list[j]) /\ Clear(e.list[j], crossed')
    <3>1. {i \in reses : Covers(e.list[j], i)} = {i \in reses : Covers(list[j], i)}
      BY <2>2 DEF Like, Covers
    <3>2. Clear(list[j], crossed)
      BY <1>2, <2>2 DEF Like, Clear, Covers
    <3>3. list[j].used = Cardinality({i \in reses : Covers(list[j], i)})
      BY <1>3, <3>2 DEF KeptInv, Counted
    <3> QED  BY <2>2, <3>1, <3>3 DEF Like
  <2> QED  BY <2>1, <2>2
<1> DEFINE u == updateNewIDRanges(e, reses)
<1>7. u \in Manager /\ Counted(u.list, reses, crossed') /\ Recounted(e.list, u.list)
  BY <1>3, <1>6, updateFacts
<1>8. list' = u.list
  BY <1>1, <1>7, FaultedManager DEF become
<1>9. Apart(u.list, crossed')
  BY <1>3, <1>5, <1>7, RecountedKeeps
<1> HIDE DEF u
<1> QED  BY <1>2, <1>7, <1>8, <1>9 DEF KeptInv

LEMMA createResKeeps ==
  ASSUME RangesInv, KeptInv, createRes
  PROVE  KeptInv'
<1>1. list \in Ranges /\ reses \subseteq Ids
  BY mgrManager DEF RangesInv, RangesTypeOK
<1>0. crossed' = crossed
  BY createResDoes
<1>2. CASE answer' = -1 /\ list' = list /\ reses' = reses
  BY <1>0, <1>2 DEF KeptInv
<1>3. CASE /\ answer' \in Ids \ reses
           /\ list' = useId(list, answer') /\ reses' = reses \cup {answer'}
  <2>1. Counted(list', reses', crossed)
    BY <1>1, <1>3, UseCounts DEF KeptInv
  <2>2. Recounted(list, list')
    BY <1>1, <1>3, CountFacts
  <2>3. Apart(list', crossed)
    BY <1>1, <2>2, RecountedKeeps DEF KeptInv
  <2> QED  BY <1>0, <2>1, <2>3 DEF KeptInv
<1> QED  BY <1>2, <1>3, createResDoes

LEMMA removeResKeeps ==
  ASSUME RangesInv, KeptInv, NEW i \in reses, removeRes(i)
  PROVE  KeptInv'
<1>1. list \in Ranges /\ reses \subseteq Ids
  BY mgrManager DEF RangesInv, RangesTypeOK
<1>2. Counted(list', reses', crossed)
  BY <1>1, removeResDoes, UnuseCounts DEF KeptInv
<1>3. Apart(list', crossed)
  BY <1>1, removeResDoes, RecountedKeeps DEF KeptInv
<1>4. crossed' = crossed
  BY removeResDoes
<1> QED  BY <1>2, <1>3, <1>4 DEF KeptInv

LEMMA setResIdKeeps ==
  ASSUME RangesInv, KeptInv, NEW i \in reses, NEW j \in Ids, setResId(i, j)
  PROVE  KeptInv'
<1>1. list \in Ranges /\ reses \subseteq Ids /\ i \in Ids
  BY mgrManager DEF RangesInv, RangesTypeOK
<1>2. /\ j \notin reses /\ reses' = (reses \ {i}) \cup {j}
      /\ list' = unuseId(useId(list, j), i) /\ crossed' = crossed
  BY setResIdDoes
<1> DEFINE l == useId(list, j)
<1>3. Counted(l, reses \cup {j}, crossed)
  BY <1>1, <1>2, UseCounts DEF KeptInv
<1>4. Recounted(list, l) /\ l \in Ranges
  BY <1>1, CountFacts DEF Recounted
<1>5. Apart(l, crossed)
  BY <1>1, <1>4, RecountedKeeps DEF KeptInv
<1> HIDE DEF l
<1>6. Counted(unuseId(l, i), (reses \cup {j}) \ {i}, crossed)
  BY <1>1, <1>3, <1>4, <1>5, UnuseCounts
<1>7. (reses \cup {j}) \ {i} = reses'
  BY <1>2
<1>8. Apart(list', crossed)
  BY <1>1, setResIdDoes, RecountedKeeps DEF KeptInv
<1> QED  BY <1>2, <1>6, <1>7, <1>8 DEF KeptInv, l

LEMMA restartKeeps ==
  ASSUME RangesInv, KeptInv, restart
  PROVE  KeptInv'
<1>1. PICK m \in Manager : /\ LoadedFrom(m, Len(list))
                           /\ become(updateNewIDRanges(m, reses))
  BY restartDoes
<1>2. reses' = reses /\ crossed' = crossed /\ reses \subseteq Ids /\ m.list \in Ranges
  BY restartDoes, ManagerIs DEF RangesInv, RangesTypeOK
<1>3. Apart(m.list, crossed) /\ \A k \in DOMAIN m.list : m.list[k].new
  BY <1>1 DEF LoadedFrom, KeptInv
<1>4. Counted(list', reses, crossed) /\ Recounted(m.list, list')
  BY <1>1, <1>2, <1>3, updateFacts DEF become
<1>5. Apart(list', crossed)
  BY <1>2, <1>3, <1>4, RecountedKeeps
<1> QED  BY <1>2, <1>4, <1>5 DEF KeptInv

LEMMA RangesInit_Kept == RangesInit => KeptInv
BY DEF RangesInit, KeptInv, Apart, Counted

LEMMA RangesNext_Kept ==
  RangesInv /\ KeptInv /\ [RangesNext]_rangesVars => KeptInv'
<1> SUFFICES ASSUME RangesInv, KeptInv, [RangesNext]_rangesVars PROVE KeptInv'
  OBVIOUS
<1>1. ASSUME NEW lo \in 0 .. LimitMax, NEW hi \in Ids, NEW o \in Owner,
             lo < hi, newIDRange(lo, hi, o)
      PROVE  KeptInv'
  BY <1>1, newIDRangeKeeps
<1>2. ASSUME NEW k \in DOMAIN list, NEW lo \in 0 .. LimitMax, NEW hi \in Ids,
             extendIDRange(k, lo, hi)
      PROVE  KeptInv'
  BY <1>2, extendIDRangeKeeps
<1>3. CASE createRes
  BY <1>3, createResKeeps
<1>4. ASSUME NEW i \in reses, removeRes(i) PROVE KeptInv'
  BY <1>4, removeResKeeps
<1>5. ASSUME NEW i \in reses, NEW j \in Ids, setResId(i, j) PROVE KeptInv'
  BY <1>5, setResIdKeeps
<1>6. CASE restart
  BY <1>6, restartKeeps
<1>7. CASE UNCHANGED rangesVars
  BY <1>7 DEF rangesVars, KeptInv, Apart, Counted
<1> QED  BY <1>1, <1>2, <1>3, <1>4, <1>5, <1>6, <1>7 DEF RangesNext

(* The count shown for a range is the number of its ids in use, in any     *)
(* order of ranges, resources and restarts, whatever the developers ask    *)
(* for; but for ranges with an id that was asked for although another had  *)
(* it.                                                                     *)
THEOREM CountsCorrect == RangesSpec => []CountsExact
<1>1. KeptInv => CountsExact
  BY DEF KeptInv, Counted, Clear, CountsExact
<1>2. RangesInv /\ KeptInv /\ [RangesNext]_rangesVars => KeptInv'
  BY RangesNext_Kept
<1> QED  BY <1>1, <1>2, RangesInit_Types, RangesInit_Kept, RangesNext_Types, PTL
         DEF RangesSpec

(* No id is in two ranges that was not asked for although another range    *)
(* had it: ranges that overlap, however they are extended, combined and    *)
(* loaded, spread to no other id, and what addIDRange adds, joins or drops *)
(* stays inside what it was asked for.                                     *)
THEOREM DisjointCorrect == RangesSpec => []RangesDisjoint
<1>1. KeptInv => RangesDisjoint
  <2> SUFFICES ASSUME KeptInv, NEW i \in Ids \ crossed
               PROVE  Cardinality(RangesOf(list, i)) <= 1
    BY DEF RangesDisjoint
  <2>1. CASE RangesOf(list, i) = {}
    BY <2>1, FS_EmptySet
  <2>2. CASE RangesOf(list, i) # {}
    <3>1. PICK k : k \in RangesOf(list, i)
      BY <2>2
    <3>2. RangesOf(list, i) = {k}
      BY <3>1 DEF RangesOf, KeptInv, Apart
    <3>3. Cardinality({k}) = 1
      BY FS_Singleton
    <3> QED  BY <3>2, <3>3
  <2> QED  BY <2>1, <2>2
<1>2. RangesInv /\ KeptInv /\ [RangesNext]_rangesVars => KeptInv'
  BY RangesNext_Kept
<1> QED  BY <1>1, <1>2, RangesInit_Types, RangesInit_Kept, RangesNext_Types, PTL
         DEF RangesSpec

-----------------------------------------------------------------------------
(* What the dialog offers.                                                 *)

Pieces == [min : 0 .. LimitMax, max : 0 .. LimitMax]

(* An id lies in one of the pieces. *)
Has(s, i) == \E k \in DOMAIN s : Covers(s[k], i)

LEMMA PieceIs ==
  ASSUME NEW lo \in 0 .. LimitMax, NEW hi \in 0 .. LimitMax
  PROVE  /\ Piece(lo, hi) \in Pieces
         /\ Piece(lo, hi).min = lo /\ Piece(lo, hi).max = hi
         /\ \A i : Covers(Piece(lo, hi), i) <=> lo < i /\ i <= hi
BY DEF Piece, Pieces, Covers

LEMMA JoinHas ==
  ASSUME NEW s \in Seq(Pieces), NEW t \in Seq(Pieces)
  PROVE  /\ s \o t \in Seq(Pieces)
         /\ \A i : Has(s, i) \/ Has(t, i) => Has(s \o t, i)
<1>1. /\ s \o t \in Seq(Pieces) /\ Len(s) \in Nat /\ Len(t) \in Nat
      /\ DOMAIN s = 1 .. Len(s) /\ DOMAIN t = 1 .. Len(t)
      /\ DOMAIN (s \o t) = 1 .. Len(s) + Len(t)
      /\ \A k \in 1 .. Len(s) : (s \o t)[k] = s[k]
      /\ \A k \in 1 .. Len(t) : (s \o t)[Len(s) + k] = t[k]
  OBVIOUS
<1> DEFINE u == s \o t
<1> HIDE DEF u
<1>2. ASSUME NEW i, NEW k \in DOMAIN s, Covers(s[k], i) PROVE Has(u, i)
  <2>1. k \in DOMAIN u /\ u[k] = s[k]
    BY <1>1 DEF u
  <2> QED  BY <1>2, <2>1 DEF Has
<1>3. ASSUME NEW i, NEW k \in DOMAIN t, Covers(t[k], i) PROVE Has(u, i)
  <2>1. Len(s) + k \in DOMAIN u /\ u[Len(s) + k] = t[k]
    BY <1>1 DEF u
  <2> QED  BY <1>3, <2>1 DEF Has
<1>4. \A i : Has(s, i) \/ Has(t, i) => Has(u, i)
  BY <1>2, <1>3 DEF Has
<1> QED  BY <1>1, <1>4 DEF u

(* What is cut off at lo keeps its part in front of lo. *)
LEMMA CutOffIs ==
  ASSUME NEW free, free \in Seq(Pieces), NEW lo, lo \in 0 .. LimitMax
  PROVE  /\ CutOff(free, lo) \in Seq(Pieces)
         /\ \A k \in DOMAIN free, i \in Int : free[k].min < i /\ i <= lo => Has(CutOff(free, lo), i)
         /\ free = <<>> => CutOff(free, lo) = <<>>
<1> DEFINE N == Len(free)
           next(s, n) == IF free[n].min < lo THEN Append(s, Piece(free[n].min, lo)) ELSE s
           body(f) == [n \in 0 .. N |->
                        IF n = 0 THEN <<>>
                        ELSE IF free[n].min < lo
                        THEN Append(f[n - 1], Piece(free[n].min, lo)) ELSE f[n - 1]]
           of == CHOOSE f : f = body(f)
<1>1. CutOff(free, lo) = of[N]
  BY Zenon DEF CutOff
<1>2. N \in Nat /\ DOMAIN free = 1 .. N /\ <<>> \in Seq(Pieces)
  OBVIOUS
<1>3. ASSUME NEW n \in 1 .. N
      PROVE  /\ free[n].min \in 0 .. LimitMax /\ Piece(free[n].min, lo) \in Pieces
             /\ \A i : Covers(Piece(free[n].min, lo), i) <=> free[n].min < i /\ i <= lo
  <2>1. free[n] \in Pieces
    BY <1>2
  <2>2. free[n].min \in 0 .. LimitMax
    BY <2>1 DEF Pieces
  <2> QED  BY <2>2, PieceIs
<1>4. ASSUME NEW s \in Seq(Pieces), NEW n \in 1 .. N PROVE next(s, n) \in Seq(Pieces)
  BY <1>3
<1>5. \A f : body(f) = [n \in 0 .. N |-> IF n = 0 THEN <<>> ELSE next(f[n - 1], n)]
  OBVIOUS
<1> HIDE DEF next, body
<1>6. \E f : f = body(f)
  <2> DEFINE X == Seq(Pieces)
             none == <<>>
             step == [n \in 1 .. N |-> [s \in X |-> next(s, n)]]
  <2>0. N \in Nat /\ none \in X /\ \A s \in X, n \in 1 .. N : next(s, n) \in X
    BY <1>2, <1>4
  <2> HIDE DEF X, N, none
  <2>1. step \in [1 .. N -> [X -> X]]
    BY <2>0
  <2>2. \A n \in 1 .. N, s \in X : step[n][s] = next(s, n)
    OBVIOUS
  <2> HIDE DEF step
  <2>3. PICK f \in [0 .. N -> X] :
          f[0] = none /\ \A j \in 1 .. N : f[j] = step[j][f[j - 1]]
    <3>1. N \in Nat
      BY <2>0
    <3>2. none \in X
      BY <2>0
    <3> QED  BY ONLY <2>1, <3>1, <3>2, LoopExists
  <2>4. ASSUME NEW n \in 0 .. N
        PROVE  f[n] = IF n = 0 THEN <<>> ELSE next(f[n - 1], n)
    <3>1. n # 0 => n \in 1 .. N /\ n - 1 \in 0 .. N
      BY <2>0
    <3> QED  BY <2>2, <2>3, <3>1 DEF none
  <2>5. f = [n \in 0 .. N |-> IF n = 0 THEN <<>> ELSE next(f[n - 1], n)]
    BY <2>3, <2>4
  <2> QED  BY <1>5, <2>5
<1>7. of = body(of)
  BY <1>6
<1> HIDE DEF of
<1>8. of[0] = <<>> /\ \A n \in 1 .. N : of[n] = next(of[n - 1], n)
  <2>1. of = [n \in 0 .. N |-> IF n = 0 THEN <<>> ELSE next(of[n - 1], n)]
    BY <1>5, <1>7
  <2>2. \A n \in 0 .. N : of[n] = IF n = 0 THEN <<>> ELSE next(of[n - 1], n)
    BY <2>1
  <2>3. 0 \in 0 .. N /\ \A n \in 1 .. N : n \in 0 .. N /\ n # 0
    BY <1>2
  <2> QED  BY <2>2, <2>3
<1> DEFINE Good(n) == /\ of[n] \in Seq(Pieces)
                      /\ \A k \in 1 .. n, i \in Int : free[k].min < i /\ i <= lo => Has(of[n], i)
           S == {n \in 0 .. N : Good(n)}
<1>9. 0 \in S
  <2>1. of[0] \in Seq(Pieces)
    BY <1>2, <1>8
  <2>2. 1 .. 0 = {} /\ 0 \in 0 .. N
    BY <1>2
  <2>3. Good(0)
    BY <2>1, <2>2
  <2> QED  BY <2>2, <2>3
<1>10. ASSUME NEW n \in 1 .. N, n - 1 \in S PROVE n \in S
  <2> DEFINE s == of[n - 1]
             p == Piece(free[n].min, lo)
  <2>1. /\ s \in Seq(Pieces)
        /\ \A k \in 1 .. n - 1, i \in Int : free[k].min < i /\ i <= lo => Has(s, i)
    BY <1>10
  <2>2. of[n] = IF free[n].min < lo THEN Append(s, p) ELSE s
    BY <1>8 DEF next
  <2>3. p \in Pieces /\ free[n].min \in 0 .. LimitMax
        /\ \A i : Covers(p, i) <=> free[n].min < i /\ i <= lo
    BY <1>3
  <2> HIDE DEF s, p, S
  <2>4. CASE free[n].min < lo
    <3>1. of[n] = s \o <<p>> /\ <<p>> \in Seq(Pieces)
      <4>1. \A t \in Seq(Pieces), x \in Pieces :
              Append(t, x) = t \o <<x>> /\ <<x>> \in Seq(Pieces)
        OBVIOUS
      <4> QED  BY <2>1, <2>2, <2>3, <2>4, <4>1
    <3>2. of[n] \in Seq(Pieces) /\ \A i : Has(s, i) \/ Has(<<p>>, i) => Has(of[n], i)
      BY <2>1, <3>1, JoinHas
    <3>3. \A i : Covers(p, i) => Has(<<p>>, i)
      <4>1. 1 \in DOMAIN <<p>> /\ <<p>>[1] = p
        OBVIOUS
      <4> QED  BY <4>1 DEF Has
    <3>4. ASSUME NEW k \in 1 .. n, NEW i \in Int, free[k].min < i /\ i <= lo PROVE Has(of[n], i)
      <4>1. CASE k = n
        BY <2>3, <3>2, <3>3, <3>4, <4>1
      <4>2. CASE k # n
        <5>1. k \in 1 .. n - 1
          BY <1>2, <4>2
        <5> QED  BY <2>1, <3>2, <3>4, <5>1
      <4> QED  BY <4>1, <4>2
    <3> QED  BY <1>2, <3>2, <3>4 DEF S
  <2>5. CASE ~(free[n].min < lo)
    <3>1. of[n] = s
      BY <2>2, <2>5
    <3>2. ASSUME NEW k \in 1 .. n, NEW i \in Int, free[k].min < i /\ i <= lo PROVE Has(of[n], i)
      <4>1. CASE k = n
        <5> DEFINE m == free[n].min
        <5>1. m \in Int /\ lo \in Int /\ ~(m < lo) /\ m < i /\ i <= lo /\ i \in Int
          BY <2>3, <2>5, <3>2, <4>1
        <5> HIDE DEF m
        <5> QED  BY <5>1
      <4>2. CASE k # n
        <5>1. k \in 1 .. n - 1
          BY <1>2, <4>2
        <5> QED  BY <2>1, <3>1, <3>2, <5>1
      <4> QED  BY <4>1, <4>2
    <3> QED  BY <1>2, <2>1, <3>1, <3>2 DEF S
  <2> QED  BY <2>4, <2>5
<1> HIDE DEF S
<1>11. N \in S
  <2>1. \A n \in 1 .. N : n - 1 \in S => n \in S
    BY <1>10
  <2> HIDE DEF N
  <2>2. N \in Nat
    BY <1>2
  <2>3. \A n \in 0 .. N : n \in S
    BY <1>9, <2>1, <2>2, UpTo
  <2> QED  BY <2>2, <2>3
<1>12. free = <<>> => N = 0
  OBVIOUS
<1> QED  BY <1>1, <1>2, <1>8, <1>11, <1>12 DEF S

(* Every id that was in a piece and is not of the range still is in one.   *)
LEMMA excludeKeeps ==
  ASSUME NEW free \in Seq(Pieces), NEW lo \in 0 .. LimitMax,
         NEW hi \in 0 .. LimitMax, lo < hi
  PROVE  /\ excludeIDRange(free, lo, hi) \in Seq(Pieces)
         /\ \A i \in Int : Has(free, i) /\ ~(lo < i /\ i <= hi)
                           => Has(excludeIDRange(free, lo, hi), i)
<1> DEFINE ends == {k \in DOMAIN free : free[k].min >= hi \/ free[k].max > hi}
           n == IF ends = {} THEN Len(free) ELSE First(ends) - 1
           p == free[n + 1]
           left == CASE ends = {} -> <<>>
                     [] ends # {} /\ p.min >= hi -> <<p>>
                     [] ends # {} /\ p.min < hi /\ p.min >= lo -> <<Piece(hi, p.max)>>
                     [] ends # {} /\ p.min < lo ->
                          <<Piece(hi, p.max), Piece(p.min, lo)>>
           front == SubSeq(free, 1, n)
           cut == CutOff(front, lo)
           tail == SubSeq(free, n + 2, Len(free))
<1>1. excludeIDRange(free, lo, hi) = cut \o left \o tail
  BY DEF excludeIDRange
<1>2. Len(free) \in Nat /\ DOMAIN free = 1 .. Len(free)
  OBVIOUS
<1>3. /\ n \in 0 .. Len(free)
      /\ \A k \in 1 .. n : k \notin ends
      /\ ends = {} => n = Len(free)
      /\ ends # {} => n + 1 \in ends
  <2>1. CASE ends = {}
    BY <1>2, <2>1
  <2>2. CASE ends # {}
    <3> DEFINE e == First(ends)
    <3>1. ends \in SUBSET Nat
      BY <1>2
    <3>2. e \in ends /\ \A k \in ends : e <= k
      BY <2>2, <3>1, LeastExists DEF First
    <3>3. n = e - 1
      BY <2>2
    <3>4. e \in 1 .. Len(free)
      BY <1>2, <3>2
    <3> HIDE DEF e, ends, n
    <3> QED  BY <1>2, <2>2, <3>2, <3>3, <3>4
  <2> QED  BY <2>1, <2>2
<1> DEFINE N == Len(free)
<1> HIDE DEF ends, n
<1>len. n \in Nat /\ N \in Nat /\ n <= N /\ DOMAIN free = 1 .. N
  <2>1. N \in Nat /\ n \in 0 .. N /\ DOMAIN free = 1 .. N
    BY <1>2, <1>3
  <2> HIDE DEF N
  <2> QED  BY <2>1
<1> USE DEF n, ends
<1>4. \A k \in DOMAIN free : /\ free[k] \in Pieces
                             /\ free[k].min \in 0 .. LimitMax
                             /\ free[k].max \in 0 .. LimitMax
  <2>1. \A q \in Pieces : q.min \in 0 .. LimitMax /\ q.max \in 0 .. LimitMax
    BY DEF Pieces
  <2> QED  BY <2>1
<1>5. ASSUME NEW k \in 1 .. n, NEW i \in Int, Covers(free[k], i), ~(lo < i /\ i <= hi)
      PROVE  free[k].min < i /\ i <= lo
  <2>1. k \in DOMAIN free /\ k \notin ends
    BY <1>2, <1>3
  <2>2. free[k].max <= hi /\ free[k].max \in Int
    BY <1>4, <2>1
  <2> QED  BY <1>5, <2>2 DEF Covers
<1>6. ends # {} => n + 1 \in DOMAIN free /\ (p.min >= hi \/ p.max > hi)
  BY <1>3
<1> HIDE DEF ends, n
<1>7. /\ front \in Seq(Pieces) /\ DOMAIN front = 1 .. n
      /\ \A k \in 1 .. n : front[k] = free[k]
  <2>1. \A k \in 1 .. n : free[k] \in Pieces
    <3> HIDE DEF N
    <3>1. \A k \in 1 .. n : k \in DOMAIN free
      BY <1>len
    <3> QED  BY <3>1
  <2>2. /\ front \in Seq(Pieces) /\ Len(front) = IF 1 <= n THEN n - 1 + 1 ELSE 0
        /\ \A k \in 1 .. n - 1 + 1 : front[k] = free[1 + k - 1]
    BY <1>len, <2>1, SubSeqProperties
  <2> HIDE DEF front
  <2>3. n \in Nat /\ Len(front) = n /\ \A k \in 1 .. n : k \in 1 .. n - 1 + 1 /\ 1 + k - 1 = k
    BY <1>len, <2>2
  <2>4. DOMAIN front = 1 .. n
    BY <2>2, <2>3
  <2> QED  BY <2>2, <2>3, <2>4
<1>8. /\ tail \in Seq(Pieces)
      /\ \A k \in n + 2 .. Len(free) :
           k - (n + 1) \in DOMAIN tail /\ tail[k - (n + 1)] = free[k]
  <2>1. N \in Nat /\ n \in Nat /\ n + 2 \in Int
    <3> HIDE DEF N
    <3> QED  BY <1>len
  <2>2. \A k \in n + 2 .. N : free[k] \in Pieces
    <3> HIDE DEF N
    <3>1. \A k \in n + 2 .. N : k \in DOMAIN free
      BY <1>len
    <3> QED  BY <3>1
  <2>3. /\ tail \in Seq(Pieces) /\ Len(tail) = IF n + 2 <= N THEN N - (n + 2) + 1 ELSE 0
        /\ \A k \in 1 .. N - (n + 2) + 1 : tail[k] = free[n + 2 + k - 1]
    BY <2>1, <2>2, SubSeqProperties
  <2> HIDE DEF tail, N
  <2>4. ASSUME NEW k \in n + 2 .. N
        PROVE  k - (n + 1) \in DOMAIN tail /\ tail[k - (n + 1)] = free[k]
    <3>1. DOMAIN tail = 1 .. Len(tail)
      BY <2>3
    <3>2. k - (n + 1) \in 1 .. Len(tail) /\ k - (n + 1) \in 1 .. N - (n + 2) + 1
          /\ n + 2 + (k - (n + 1)) - 1 = k
      <4>1. Len(tail) = IF n + 2 <= N THEN N - (n + 2) + 1 ELSE 0
        BY <2>3
      <4> QED  BY <2>1, <4>1
    <3> QED  BY <2>3, <3>1, <3>2
  <2> QED  BY <2>3, <2>4 DEF N
<1> HIDE DEF front, tail, p
<1>9. /\ cut \in Seq(Pieces)
      /\ \A k \in 1 .. n, i \in Int : free[k].min < i /\ i <= lo => Has(cut, i)
  BY <1>7, CutOffIs
<1> HIDE DEF cut
<1>10. CASE ends = {}
  <2>1. left = <<>> /\ left \in Seq(Pieces)
    BY <1>10
  <2>2. ASSUME NEW i \in Int, Has(free, i), ~(lo < i /\ i <= hi) PROVE Has(cut, i)
    <3>1. PICK k \in DOMAIN free : Covers(free[k], i)
      BY <2>2 DEF Has
    <3>2. k \in 1 .. n
      BY <1>2, <1>3, <1>10
    <3> QED  BY <1>5, <1>9, <2>2, <3>1, <3>2
  <2> HIDE DEF left
  <2>3. /\ cut \o left \in Seq(Pieces)
        /\ \A i : Has(cut, i) => Has(cut \o left, i)
    BY <1>9, <2>1, JoinHas
  <2>4. /\ cut \o left \o tail \in Seq(Pieces)
        /\ \A i : Has(cut \o left, i) => Has(cut \o left \o tail, i)
    BY <1>8, <2>3, JoinHas
  <2> QED  BY <1>1, <2>2, <2>3, <2>4
<1>11. CASE ends # {}
  <2>1. /\ p \in Pieces /\ p.min \in 0 .. LimitMax /\ p.max \in 0 .. LimitMax
        /\ p.min >= hi \/ p.max > hi
    BY <1>4, <1>6, <1>11 DEF p
  <2> DEFINE above == Piece(hi, p.max)
             below == Piece(p.min, lo)
  <2>2. /\ above \in Pieces /\ \A i : Covers(above, i) <=> hi < i /\ i <= p.max
        /\ below \in Pieces /\ \A i : Covers(below, i) <=> p.min < i /\ i <= lo
    BY <2>1, PieceIs
  <2>3. /\ left \in Seq(Pieces)
        /\ \A i \in Int : Covers(p, i) /\ ~(lo < i /\ i <= hi) => Has(left, i)
    <3>1. CASE p.min >= hi
      <4>1. left = <<p>>
        BY <1>11, <2>1, <3>1
      <4> HIDE DEF left
      <4>2. left \in Seq(Pieces) /\ 1 \in DOMAIN left /\ left[1] = p
        BY <2>1, <4>1
      <4> QED  BY <4>2 DEF Has
    <3>2. CASE p.min < hi /\ p.min >= lo
      <4>1. left = <<above>>
        BY <1>11, <2>1, <3>2
      <4> HIDE DEF above, left
      <4>2. left \in Seq(Pieces) /\ 1 \in DOMAIN left /\ left[1] = above
        BY <2>2, <4>1
      <4>3. ASSUME NEW i \in Int, Covers(p, i), ~(lo < i /\ i <= hi)
            PROVE  Covers(above, i)
        BY <2>1, <2>2, <3>2, <4>3 DEF Covers
      <4> QED  BY <4>2, <4>3 DEF Has
    <3>3. CASE p.min < lo
      <4>1. left = <<above, below>>
        BY <1>11, <2>1, <3>3
      <4> HIDE DEF above, below, left
      <4>2. /\ left \in Seq(Pieces)
            /\ 1 \in DOMAIN left /\ left[1] = above
            /\ 2 \in DOMAIN left /\ left[2] = below
        BY <2>2, <4>1
      <4>3. ASSUME NEW i \in Int, Covers(p, i), ~(lo < i /\ i <= hi)
            PROVE  Covers(above, i) \/ Covers(below, i)
        BY <2>1, <2>2, <3>3, <4>3 DEF Covers
      <4> QED  BY <4>2, <4>3 DEF Has
    <3>4. p.min >= hi \/ (p.min < hi /\ p.min >= lo) \/ p.min < lo
      BY <2>1
    <3> HIDE DEF left
    <3> QED  BY <3>1, <3>2, <3>3, <3>4
  <2> HIDE DEF left
  <2>4. ASSUME NEW i \in Int, Has(free, i), ~(lo < i /\ i <= hi)
        PROVE  Has(cut, i) \/ Has(left, i) \/ Has(tail, i)
    <3>1. PICK k \in DOMAIN free : Covers(free[k], i)
      BY <2>4 DEF Has
    <3>2. CASE k \in 1 .. n
      BY <1>5, <1>9, <2>4, <3>1, <3>2
    <3>3. CASE k = n + 1
      BY <2>3, <2>4, <3>1, <3>3 DEF p
    <3>4. CASE k \in n + 2 .. Len(free)
      <4>1. k - (n + 1) \in DOMAIN tail /\ tail[k - (n + 1)] = free[k]
        BY <1>8, <3>4
      <4> QED  BY <3>1, <4>1 DEF Has
    <3>5. k \in 1 .. n \/ k = n + 1 \/ k \in n + 2 .. Len(free)
      <4> HIDE DEF N
      <4>1. k \in 1 .. N
        BY <1>len
      <4> QED  BY <1>len, <4>1 DEF N
    <3> QED  BY <3>2, <3>3, <3>4, <3>5
  <2>5. /\ cut \o left \in Seq(Pieces)
        /\ \A i : Has(cut, i) \/ Has(left, i) => Has(cut \o left, i)
    BY <1>9, <2>3, JoinHas
  <2>6. /\ cut \o left \o tail \in Seq(Pieces)
        /\ \A i : Has(cut \o left, i) \/ Has(tail, i) => Has(cut \o left \o tail, i)
    BY <1>8, <2>5, JoinHas
  <2> QED  BY <1>1, <2>4, <2>5, <2>6
<1> QED  BY <1>10, <1>11

(* A range inside the first piece, which ends behind it, splits that one.  *)
LEMMA excludeFirst ==
  ASSUME NEW free \in Seq(Pieces), NEW lo \in 0 .. LimitMax,
         NEW hi \in 0 .. LimitMax, lo < hi, hi < LimitMax,
         NEW least \in 0 .. lo, free # <<>>, free[1] = Piece(least, LimitMax)
  PROVE  /\ DOMAIN excludeIDRange(free, lo, hi) # {}
         /\ excludeIDRange(free, lo, hi)[1] = Piece(hi, LimitMax)
         /\ \A k \in DOMAIN excludeIDRange(free, lo, hi) :
              k # 1 => \/ excludeIDRange(free, lo, hi)[k] = Piece(least, lo)
                       \/ \E j \in DOMAIN free :
                            j # 1 /\ excludeIDRange(free, lo, hi)[k] = free[j]
<1> DEFINE ends == {k \in DOMAIN free : free[k].min >= hi \/ free[k].max > hi}
           n == IF ends = {} THEN Len(free) ELSE First(ends) - 1
           p == free[n + 1]
           left == CASE ends = {} -> <<>>
                     [] ends # {} /\ p.min >= hi -> <<p>>
                     [] ends # {} /\ p.min < hi /\ p.min >= lo -> <<Piece(hi, p.max)>>
                     [] ends # {} /\ p.min < lo ->
                          <<Piece(hi, p.max), Piece(p.min, lo)>>
           front == SubSeq(free, 1, n)
           cut == CutOff(front, lo)
           tail == SubSeq(free, n + 2, Len(free))
           rest == SubSeq(free, 2, Len(free))
<1>1. excludeIDRange(free, lo, hi) = cut \o left \o tail
  BY DEF excludeIDRange
<1>2. Len(free) \in Nat \ {0} /\ DOMAIN free = 1 .. Len(free) /\ 1 \in DOMAIN free
  OBVIOUS
<1>3. LimitMax \in Nat /\ free[1].min = least /\ free[1].max = LimitMax
  BY UnknownIs, PieceIs
<1>4. 1 \in ends /\ \A k \in ends : 1 <= k
  BY <1>2, <1>3
<1>5. First(ends) = 1
  <2>1. First(ends) \in ends /\ \A j \in ends : First(ends) <= j
    BY <1>4, Zenon DEF First
  <2>2. First(ends) <= 1 /\ 1 <= First(ends) /\ First(ends) \in Int
    BY <1>2, <1>4, <2>1
  <2> QED  BY <2>2
<1>6. ends # {} /\ n = 0
  BY <1>4, <1>5
<1>7. p.min = least /\ p.max = LimitMax
  BY <1>3, <1>6
<1>8. excludeIDRange(free, lo, hi) = left \o rest
  <2>1. front = <<>> /\ front \in Seq(Pieces) /\ tail = rest
    <3>1. SubSeq(free, 1, 0) = <<>>
      BY SubSeqEmpty
    <3>2. front = SubSeq(free, 1, 0) /\ tail = rest /\ <<>> \in Seq(Pieces)
      <4> HIDE DEF ends, n
      <4>1. n = 0 /\ n + 2 = 2
        BY <1>6
      <4> QED  BY <4>1
    <3> HIDE DEF front, tail, rest
    <3> QED  BY <3>1, <3>2
  <2>2. cut = <<>>
    BY <2>1, CutOffIs
  <2>3. left \in Seq(Pieces)
    <3>1. \A x \in 0 .. LimitMax, y \in 0 .. LimitMax : Piece(x, y) \in Pieces
      BY PieceIs
    <3>2. Piece(hi, LimitMax) \in Pieces /\ Piece(least, lo) \in Pieces /\ p \in Pieces
      BY <1>2, <1>3, <1>6, <3>1
    <3> HIDE DEF p, ends, n
    <3> QED  BY <1>6, <1>7, <3>2
  <2> HIDE DEF left, cut
  <2>4. cut \o left = left
    BY <2>2, <2>3
  <2> QED  BY <1>1, <2>1, <2>4
<1>9. /\ rest \in Seq(Pieces)
      /\ \A k \in DOMAIN rest : k + 1 \in DOMAIN free /\ k + 1 # 1
                               /\ rest[k] = free[k + 1]
  BY <1>2
<1>10. left = <<Piece(hi, LimitMax)>> \/ left = <<Piece(hi, LimitMax), Piece(least, lo)>>
  <2>1. ends # {} /\ p.min = least /\ p.max = LimitMax /\ least < hi
    BY <1>6, <1>7
  <2> HIDE DEF ends, p
  <2>2. CASE least < lo
    <3>1. left = <<Piece(hi, p.max), Piece(p.min, lo)>>
      BY <2>1, <2>2
    <3> QED  BY <2>1, <3>1
  <2>3. CASE least >= lo
    <3>1. left = <<Piece(hi, p.max)>>
      BY <2>1, <2>3
    <3> QED  BY <2>1, <3>1
  <2>4. least < lo \/ least >= lo
    OBVIOUS
  <2> HIDE DEF left
  <2> QED  BY <2>2, <2>3, <2>4
<1> DEFINE a == Piece(hi, LimitMax)
           b == Piece(least, lo)
<1>11. left = <<a>> \/ left = <<a, b>>
  BY <1>10
<1> HIDE DEF left, rest, a, b
<1> DEFINE e == left \o rest
<1>12. /\ DOMAIN e # {} /\ e[1] = a
       /\ \A k \in DOMAIN e : k # 1 => e[k] = b \/ \E j \in DOMAIN rest : e[k] = rest[j]
  <2>1. Len(rest) \in Nat /\ DOMAIN rest = 1 .. Len(rest)
    BY <1>9
  <2>2. CASE left = <<a>>
    <3>1. /\ DOMAIN e = 1 .. Len(rest) + 1 /\ e[1] = a
          /\ \A k \in DOMAIN e : k # 1 => e[k] = rest[k - 1]
      BY <1>9, <2>1, <2>2
    <3> HIDE DEF e
    <3>2. \A k \in DOMAIN e : k # 1 => k - 1 \in DOMAIN rest
      BY <2>1, <3>1
    <3> QED  BY <2>1, <3>1, <3>2
  <2>3. CASE left = <<a, b>>
    <3>1. /\ DOMAIN e = 1 .. Len(rest) + 2 /\ e[1] = a /\ e[2] = b
          /\ \A k \in DOMAIN e : k > 2 => e[k] = rest[k - 2]
      BY <1>9, <2>1, <2>3
    <3> HIDE DEF e
    <3>2. \A k \in DOMAIN e : k # 1 /\ k # 2 => k > 2 /\ k - 2 \in DOMAIN rest
      BY <2>1, <3>1
    <3> QED  BY <2>1, <3>1, <3>2
  <2> QED  BY <1>11, <2>2, <2>3
<1> HIDE DEF e
<1>13. \A k \in DOMAIN e : k # 1 => \/ e[k] = b
                                   \/ \E j \in DOMAIN free : j # 1 /\ e[k] = free[j]
  BY <1>9, <1>12
<1> QED  BY <1>8, <1>12, <1>13 DEF a, b, e

(* The pieces left when the first n ranges were taken out.                 *)
LeftOf(free, n) ==
  /\ free \in Seq(Pieces)
  /\ \A i \in Ids : (\A j \in 1 .. n : ~Covers(list[j], i)) => Has(free, i)

(* When the ranges are in order, the first piece is what is behind them,   *)
(* and the others are in front of its begin and in none of them.           *)
OnlyFree(free, n) ==
  /\ DOMAIN free # {}
  /\ free[1] = Piece(IF n = 0 THEN 0 ELSE list[n].max, LimitMax)
  /\ \A k \in DOMAIN free, i \in Ids :
       Covers(free[k], i) => \A j \in 1 .. n : ~Covers(list[j], i)
  /\ \A k \in DOMAIN free \ {1} : free[k].max <= free[1].min

LEMMA NothingTaken ==
  LeftOf(<<Piece(0, LimitMax)>>, 0) /\ OnlyFree(<<Piece(0, LimitMax)>>, 0)
<1>1. LimitMax \in Nat /\ 0 \in 0 .. LimitMax /\ LimitMax \in 0 .. LimitMax
  BY UnknownIs
<1> DEFINE a == Piece(0, LimitMax)
           s == <<a>>
<1>2. a \in Pieces /\ \A i : Covers(a, i) <=> 0 < i /\ i <= LimitMax
  BY <1>1, PieceIs
<1> HIDE DEF a
<1>3. s \in Seq(Pieces) /\ DOMAIN s = {1} /\ s[1] = a
  BY <1>2
<1> HIDE DEF s
<1>4. \A i \in Ids : 0 < i /\ i <= LimitMax
  BY <1>1 DEF Ids
<1>5. LeftOf(s, 0)
  BY <1>2, <1>3, <1>4 DEF LeftOf, Has
<1>6. 1 .. 0 = {}
  OBVIOUS
<1>7. OnlyFree(s, 0)
  BY <1>3, <1>6 DEF OnlyFree, a
<1> QED  BY <1>5, <1>7 DEF s, a

LEMMA OneTaken ==
  ASSUME list \in Ranges, Sane(list), NEW n \in 1 .. Len(list), NEW free,
         LeftOf(free, n - 1)
  PROVE  LeftOf(excludeIDRange(free, list[n].min, list[n].max), n)
<1> DEFINE lo == list[n].min
           hi == list[n].max
           e == excludeIDRange(free, lo, hi)
<1>1. /\ lo \in 0 .. LimitMax /\ hi \in 0 .. LimitMax /\ lo < hi
      /\ n \in Nat /\ n \in 1 .. n /\ \A j \in 1 .. n - 1 : j \in 1 .. n
  <2>1. list[n] \in OneRange /\ list[n].min < list[n].max
    BY DEF Ranges, Sane
  <2> QED  BY <2>1, UnknownIs DEF OneRange, Ids, Ranges
<1>2. free \in Seq(Pieces)
  BY DEF LeftOf
<1> HIDE DEF lo, hi
<1>3. /\ e \in Seq(Pieces)
      /\ \A i \in Int : Has(free, i) /\ ~(lo < i /\ i <= hi) => Has(e, i)
  BY <1>1, <1>2, excludeKeeps
<1> HIDE DEF e
<1>4. ASSUME NEW i \in Ids, \A j \in 1 .. n : ~Covers(list[j], i) PROVE Has(e, i)
  <2>1. Has(free, i) /\ i \in Int
    BY <1>1, <1>4 DEF LeftOf, Ids
  <2>2. ~(lo < i /\ i <= hi)
    BY <1>1, <1>4 DEF lo, hi, Covers
  <2> QED  BY <1>3, <2>1, <2>2
<1>5. LeftOf(e, n)
  BY <1>3, <1>4 DEF LeftOf
<1> QED  BY <1>5 DEF e, lo, hi

LEMMA OneTakenInOrder ==
  ASSUME list \in Ranges, Sane(list), InOrder, NEW n \in 1 .. Len(list), NEW free,
         LeftOf(free, n - 1), OnlyFree(free, n - 1)
  PROVE  OnlyFree(excludeIDRange(free, list[n].min, list[n].max), n)
<1> DEFINE lo == list[n].min
           hi == list[n].max
           least == IF n - 1 = 0 THEN 0 ELSE list[n - 1].max
           e == excludeIDRange(free, lo, hi)
<1>1. /\ lo \in 0 .. LimitMax /\ hi \in 0 .. LimitMax /\ lo < hi /\ hi < LimitMax
      /\ least \in 0 .. lo
      /\ \A j \in 1 .. n - 1 : list[j].max <= lo
  <2>1. n \in DOMAIN list /\ n \in Nat /\ DOMAIN list = 1 .. Len(list)
    BY DEF Ranges
  <2>2. list[n] \in OneRange /\ list[n].min < list[n].max
    BY DEF Ranges, Sane
  <2>3. list[n].max < LimitMax /\ \A j \in 1 .. n - 1 : list[j].max <= list[n].min
    BY <2>1 DEF InOrder
  <2>4. n # 1 => n - 1 \in 1 .. n - 1 /\ list[n - 1] \in OneRange
    BY <2>1 DEF Ranges
  <2>5. lo \in 0 .. LimitMax /\ hi \in 0 .. LimitMax
    BY <2>2, UnknownIs DEF OneRange, Ids
  <2>6. n # 1 => list[n - 1].max \in 0 .. lo
    BY <2>3, <2>4, <2>5, UnknownIs DEF OneRange, Ids
  <2>7. least \in 0 .. lo
    BY <2>1, <2>5, <2>6
  <2> QED  BY <2>2, <2>3, <2>5, <2>7
<1>2. /\ free \in Seq(Pieces) /\ free # <<>> /\ free[1] = Piece(least, LimitMax)
      /\ 1 \in DOMAIN free
  <2>1. free \in Seq(Pieces) /\ DOMAIN free # {}
    BY DEF LeftOf, OnlyFree
  <2>2. free # <<>> /\ 1 \in DOMAIN free
    BY <2>1
  <2> QED  BY <2>1, <2>2 DEF OnlyFree
<1> HIDE DEF lo, hi, least
<1>3. /\ DOMAIN e # {}
      /\ e[1] = Piece(hi, LimitMax)
      /\ \A k \in DOMAIN e :
           k # 1 => \/ e[k] = Piece(least, lo)
                    \/ \E j \in DOMAIN free : j # 1 /\ e[k] = free[j]
  BY <1>1, <1>2, excludeFirst
<1> HIDE DEF e
<1>4. LimitMax \in Nat /\ \A i \in Ids : i \in Int /\ 0 < i /\ i <= LimitMax
  BY UnknownIs DEF Ids
<1>5. /\ \A i : Covers(free[1], i) <=> least < i /\ i <= LimitMax
      /\ \A i : Covers(Piece(hi, LimitMax), i) <=> hi < i /\ i <= LimitMax
      /\ \A i : Covers(Piece(least, lo), i) <=> least < i /\ i <= lo
      /\ free[1].min = least /\ Piece(hi, LimitMax).min = hi
      /\ Piece(least, lo).max = lo
  BY <1>1, <1>2, <1>4, PieceIs
<1>6. \A i : Covers(list[n], i) <=> lo < i /\ i <= hi
  BY DEF Covers, lo, hi
<1>7. \A k \in DOMAIN free \ {1} : free[k].max \in Int /\ free[k].max <= least
  <2>1. \A k \in DOMAIN free : free[k] \in Pieces
    BY <1>2
  <2> QED  BY <1>5, <2>1 DEF OnlyFree, Pieces
<1>8. ASSUME NEW k \in DOMAIN e, NEW i \in Ids, Covers(e[k], i)
      PROVE  /\ \E j \in DOMAIN free : Covers(free[j], i)
             /\ ~Covers(list[n], i)
  <2>1. CASE k = 1
    <3>1. hi < i /\ i <= LimitMax
      BY <1>3, <1>5, <1>8, <2>1
    <3>2. least < i
      BY <1>1, <1>4, <3>1
    <3>3. Covers(free[1], i) /\ ~Covers(list[n], i)
      BY <1>1, <1>4, <1>5, <1>6, <3>1, <3>2
    <3> QED  BY <1>2, <3>3
  <2>2. CASE e[k] = Piece(least, lo)
    <3>1. least < i /\ i <= lo
      BY <1>5, <1>8, <2>2
    <3>2. Covers(free[1], i) /\ ~Covers(list[n], i)
      BY <1>1, <1>4, <1>5, <1>6, <3>1
    <3> QED  BY <1>2, <3>2
  <2>3. CASE \E j \in DOMAIN free : j # 1 /\ e[k] = free[j]
    <3>1. PICK j \in DOMAIN free : j # 1 /\ e[k] = free[j]
      BY <2>3
    <3>2. i <= free[j].max /\ free[j].max \in Int /\ free[j].max <= least
      BY <1>7, <1>8, <3>1 DEF Covers
    <3>3. ~Covers(list[n], i)
      BY <1>1, <1>4, <1>6, <3>2
    <3> QED  BY <1>8, <3>1, <3>3
  <2> QED  BY <1>3, <2>1, <2>2, <2>3
<1>9. ASSUME NEW k \in DOMAIN e, NEW i \in Ids, Covers(e[k], i), NEW j \in 1 .. n
      PROVE  ~Covers(list[j], i)
  <2>1. CASE j = n
    BY <1>8, <1>9, <2>1
  <2>2. CASE j # n
    <3>1. j \in 1 .. n - 1
      BY <2>2 DEF Ranges
    <3> QED  BY <1>8, <1>9, <3>1 DEF OnlyFree
  <2> QED  BY <2>1, <2>2
<1>10. ASSUME NEW k \in DOMAIN e \ {1} PROVE e[k].max <= e[1].min
  <2>1. CASE e[k] = Piece(least, lo)
    BY <1>1, <1>3, <1>5, <2>1
  <2>2. CASE \E j \in DOMAIN free : j # 1 /\ e[k] = free[j]
    <3>1. e[k].max \in Int /\ e[k].max <= least
      BY <1>7, <2>2
    <3>2. e[1].min = hi
      BY <1>3, <1>5
    <3> QED  BY <1>1, <3>1, <3>2
  <2> QED  BY <1>3, <2>1, <2>2
<1>11. n # 0 /\ hi = list[n].max
  BY DEF Ranges, hi
<1>12. OnlyFree(e, n)
  BY <1>3, <1>9, <1>10, <1>11 DEF OnlyFree
<1> QED  BY <1>12 DEF e, lo, hi

LEMMA FreeFacts ==
  ASSUME list \in Ranges, Sane(list)
  PROVE  /\ LeftOf(getFreeIDRanges(list), Len(list))
         /\ InOrder => OnlyFree(getFreeIDRanges(list), Len(list))
<1> DEFINE N == Len(list)
           all == <<Piece(0, LimitMax)>>
           X == Seq(Pieces)
           take(s, n) == excludeIDRange(s, list[n].min, list[n].max)
           body(f) == [n \in 0 .. N |-> IF n = 0 THEN all ELSE take(f[n - 1], n)]
           after == CHOOSE f : f = body(f)
<1>1. getFreeIDRanges(list) = after[N]
  BY Zenon DEF getFreeIDRanges
<1>2. N \in Nat /\ DOMAIN list = 1 .. N
  BY DEF Ranges
<1>3. all \in X
  BY NothingTaken DEF LeftOf
<1>4. ASSUME NEW s \in X, NEW n \in 1 .. N PROVE take(s, n) \in X
  <2>1. list[n] \in OneRange /\ list[n].min < list[n].max
    BY <1>2 DEF Ranges, Sane
  <2>2. list[n].min \in 0 .. LimitMax /\ list[n].max \in 0 .. LimitMax
    BY <2>1, UnknownIs DEF OneRange, Ids
  <2> QED  BY <2>1, <2>2, excludeKeeps
<1> HIDE DEF take, all, X
<1>5. \E f : f = body(f)
  <2> DEFINE step == [n \in 1 .. N |-> [s \in X |-> take(s, n)]]
  <2>1. step \in [1 .. N -> [X -> X]]
    BY <1>4
  <2>2. \A n \in 1 .. N, s \in X : step[n][s] = take(s, n)
    OBVIOUS
  <2> HIDE DEF step, N
  <2>3. PICK f \in [0 .. N -> X] :
          f[0] = all /\ \A j \in 1 .. N : f[j] = step[j][f[j - 1]]
    BY <1>2, <1>3, <2>1, LoopExists
  <2>4. ASSUME NEW n \in 0 .. N
        PROVE  f[n] = IF n = 0 THEN all ELSE take(f[n - 1], n)
    <3>1. n # 0 => n \in 1 .. N /\ n - 1 \in 0 .. N
      BY <1>2
    <3> QED  BY <2>2, <2>3, <3>1
  <2>5. f = body(f)
    BY <2>3, <2>4
  <2> QED  BY <2>5
<1>6. after = body(after)
  BY <1>5
<1> HIDE DEF after
<1>7. after[0] = all /\ \A n \in 1 .. N : after[n] = take(after[n - 1], n)
  BY <1>2, <1>6
<1> DEFINE Good(s, n) == LeftOf(s, n) /\ (InOrder => OnlyFree(s, n))
           S == {n \in 0 .. N : Good(after[n], n)}
<1>8. 0 \in S
  BY <1>2, <1>7, NothingTaken DEF all
<1>9. ASSUME NEW n \in 1 .. N, n - 1 \in S PROVE n \in S
  <2>1. Good(after[n - 1], n - 1)
    BY <1>9
  <2>2. LeftOf(after[n], n)
    BY <1>7, <2>1, OneTaken DEF take
  <2>3. InOrder => OnlyFree(after[n], n)
    BY <1>7, <2>1, OneTakenInOrder DEF take
  <2> QED  BY <1>2, <2>2, <2>3
<1>10. N \in S
  <2> HIDE DEF S, N
  <2>1. \A n \in 1 .. N : n - 1 \in S => n \in S
    BY <1>9
  <2>2. \A n \in 0 .. N : n \in S
    BY <1>2, <1>8, <2>1, UpTo
  <2> QED  BY <1>2, <2>2
<1> QED  BY <1>1, <1>10

(* What the dialog NewIDRange offers, after any ranges, restarts and       *)
(* resources: every id that is in no range; and when the ranges are in     *)
(* order and end before the limit, no other.                               *)
THEOREM FreeIdsCorrect == RangesSpec => []FreeIdsOffered
<1>1. RangesInv => FreeIdsOffered
  <2> SUFFICES ASSUME RangesInv, NEW i \in Ids
               PROVE  /\ RangesOf(list, i) = {} => Offered(i)
                      /\ InOrder /\ Offered(i) => RangesOf(list, i) = {}
    BY DEF FreeIdsOffered
  <2>1. list \in Ranges /\ Sane(list)
    BY mgrManager DEF RangesInv
  <2>2. /\ LeftOf(getFreeIDRanges(list), Len(list))
        /\ InOrder => OnlyFree(getFreeIDRanges(list), Len(list))
    BY <2>1, FreeFacts
  <2>3. DOMAIN list = 1 .. Len(list)
    BY <2>1 DEF Ranges
  <2>4. Offered(i) <=> Has(getFreeIDRanges(list), i)
    BY DEF Offered, Has
  <2>5. RangesOf(list, i) = {} <=> \A j \in 1 .. Len(list) : ~Covers(list[j], i)
    BY <2>3 DEF RangesOf
  <2>6. RangesOf(list, i) = {} => Offered(i)
    BY <2>2, <2>4, <2>5 DEF LeftOf
  <2>7. InOrder /\ Offered(i) => RangesOf(list, i) = {}
    BY <2>2, <2>4, <2>5 DEF OnlyFree, Has
  <2> QED  BY <2>6, <2>7
<1> QED  BY <1>1, RangesInit_Types, RangesNext_Types, PTL DEF RangesSpec
=============================================================================
