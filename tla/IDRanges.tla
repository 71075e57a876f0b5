------------------------------- MODULE IDRanges -------------------------------
(***************************************************************************)
(* IDRangeManager with the editor it serves: the ids a project may use are *)
(* cut into ranges, each owned by one developer, and an editor that needs  *)
(* an id for a new resource takes the next one of the current developer's  *)
(* ranges.  A range (min, max] holds min+1 .. max.                         *)
(*                                                                         *)
(* list is the chain of ranges from IDRangeManager::header along next.     *)
(* The prev pointer of a range is either unset or its predecessor (linked  *)
(* tells which), and one branch of addIDRange leaves the manager pointer   *)
(* of the new range unset (managed).  cur is the place of cur_idrange in   *)
(* list, 0 for NULL, and Freed when that range was deleted.  fault records *)
(* a NULL, unset or freed pointer that was followed: the program ends.     *)
(*                                                                         *)
(* combineKeepsBoth and the like, each before the definition it resembles, *)
(* are slips a change of this code could make.                             *)
(***************************************************************************)
EXTENDS Integers, FiniteSets, SequencesExt

CONSTANTS
  LimitMax,    (* ids are 1 .. LimitMax; limit_min is 0                    *)
  Owner, Me,   (* developers, and the current one                          *)
  MaxRanges,   (* bound: ranges in the list                                *)
  MaxCrossed   (* bound: ids asked for that another range has              *)

ASSUME RangesAssumption ==
  /\ LimitMax \in Nat \ {0} /\ LimitMax < 2^16
  /\ IsFiniteSet(Owner) /\ Me \in Owner
  /\ MaxRanges \in Nat /\ MaxCrossed \in Nat

VARIABLES
  list, cur, next_id,  (* the manager                                      *)
  reses,               (* ids of the editor's resources                    *)
  answer,              (* what the last newResId returned, -1 for no id    *)
  fault,
  crossed              (* history: ids asked for that another range had    *)

mgr == [list |-> list, cur |-> cur, next_id |-> next_id, fault |-> fault]
rangesVars == <<list, cur, next_id, reses, answer, fault, crossed>>

Freed == -1
Ids == 1 .. LimitMax
First(S) == CHOOSE k \in S : \A j \in S : k <= j

-----------------------------------------------------------------------------
(* One range.  used is an unsigned short with the mark 0xFFFF for a range  *)
(* that was never counted.                                                 *)

Unknown == 2^16 - 1
Covers(r, i) == r.min < i /\ i <= r.max
Size(r) == r.max - r.min

Increment(u) == IF u = Unknown THEN 1 ELSE u + 1
Decrement(u) == IF u = 0 THEN Unknown - 1 ELSE u - 1

NewRange(lo, hi, o) ==
  [min |-> lo, max |-> hi, owner |-> o, used |-> Unknown, new |-> TRUE,
   linked |-> FALSE, managed |-> TRUE]

(* IDRange::extend on the k-th range; a bound of 0 leaves the old one.     *)
extend(m, k, lo, hi) ==
  LET r == m.list[k]
      taken == \/ lo > 0 /\ r.linked /\ lo < m.list[k - 1].max
               \/ k < Len(m.list) /\ hi > m.list[k + 1].min
      low == IF lo > 0 THEN lo ELSE r.min
      changed == low # r.min \/ hi # r.max
  IN IF taken \/ low >= hi THEN m
     ELSE [m EXCEPT !.list[k] = [r EXCEPT !.min = low, !.max = hi,
                                          !.new = @ \/ changed]]

insertRange(m, k, r) ==
  [m EXCEPT !.list = InsertAt(@, k, r), !.cur = IF @ >= k THEN @ + 1 ELSE @]

(* A combination that extends the predecessor and forgets to delete.       *)
combineKeepsBoth(m, k) ==
  [m EXCEPT !.list[k - 1].max = m.list[k].max, !.list[k - 1].new = TRUE]

(* A combination that leaves the current range out of account.             *)
combineKeepsCur(m, k) == [m EXCEPT !.list = RemoveAt(@, k)]

(* The combination of a range with its predecessor: the predecessor is not *)
(* extended, because it still has its successor, which is then deleted;    *)
(* the pointer behind the deleted one is followed without a test.          *)
combine(m, k) ==
  [extend(m, k - 1, m.list[k - 1].min, m.list[k].max) EXCEPT
     !.list = RemoveAt(@, k),
     !.cur = IF @ = k THEN Freed ELSE IF @ > k THEN @ - 1 ELSE @,
     !.fault = k = Len(m.list)]

-----------------------------------------------------------------------------
(* IDRangeManager::addIDRange. *)

(* The place where the loop stops: the first range that begins behind the  *)
(* new one, except that from the third on the one before must end in front *)
(* of it.  0: the end of the list.                                         *)
Place(m, lo, hi) ==
  LET stops == {k \in DOMAIN m.list :
                  hi <= m.list[k].min /\ (k <= 2 \/ m.list[k - 1].max <= lo)}
  IN IF stops = {} THEN 0 ELSE CHOOSE k \in stops : \A j \in stops : k <= j

Joins(m, k, hi, o) == o = m.list[k].owner /\ hi = m.list[k].min

(* In front of the first or the second range: always to the head.          *)
addAtHead(m, k, lo, hi, o) ==
  IF Joins(m, k, hi, o) THEN extend(m, k, lo, m.list[k].max)
  ELSE insertRange(m, 1, NewRange(lo, hi, o))

addBetween(m, k, lo, hi, o) ==
  LET before == m.list[k - 1]
      mine == o = before.owner
      low == IF ~mine /\ before.max = lo THEN before.max + 1 ELSE lo
      between == [NewRange(low, hi, o) EXCEPT !.linked = TRUE, !.managed = FALSE]
  IN IF Joins(m, k, hi, o)
     THEN IF mine THEN combine(m, k) ELSE extend(m, k, lo, m.list[k].max)
     ELSE IF low >= hi THEN m
     ELSE [insertRange(m, k, between) EXCEPT !.list[k + 1].linked = TRUE,
                                             !.list[k + 1].managed = TRUE]

addAtEnd(m, lo, hi, o) ==
  LET n == Len(m.list)
      before == m.list[n]
      meets == before.max >= lo
      low == IF meets THEN before.max + 1 ELSE lo
  IN IF meets /\ before.owner = o
     THEN extend(m, n, before.min, IF hi > before.max THEN hi ELSE before.max)
     ELSE IF low >= hi THEN m
     ELSE insertRange(m, n + 1, [NewRange(low, hi, o) EXCEPT !.linked = TRUE])

addIDRange(m, lo, hi, o) ==
  LET k == Place(m, lo, hi)
  IN IF m.list = <<>> THEN insertRange(m, 1, NewRange(lo, hi, o))
     ELSE IF k = 0 THEN addAtEnd(m, lo, hi, o)
     ELSE IF k <= 2 THEN addAtHead(m, k, lo, hi, o)
     ELSE addBetween(m, k, lo, hi, o)

-----------------------------------------------------------------------------
(* getFreeIDRanges, the list of the dialog NewIDRange.                     *)

(* excludeIDRange: the pieces that end at hi or before are cut off at lo,  *)
(* or erased; the first that goes on behind hi ends the loop, and so does  *)
(* one that begins there.                                                  *)
Piece(lo, hi) == [min |-> lo, max |-> hi]

CutOff(free, lo) ==
  LET of[n \in 0 .. Len(free)] ==
        IF n = 0 THEN <<>>
        ELSE IF free[n].min < lo THEN Append(of[n - 1], Piece(free[n].min, lo))
        ELSE of[n - 1]
  IN of[Len(free)]

(* A slip: what is left above the range is dropped. *)
excludeDropsUpper(free, lo, hi) == CutOff(free, lo)

excludeIDRange(free, lo, hi) ==
  LET ends == {k \in DOMAIN free : free[k].min >= hi \/ free[k].max > hi}
      n == IF ends = {} THEN Len(free) ELSE First(ends) - 1
      p == free[n + 1]
      left == CASE ends = {} -> <<>>
                [] ends # {} /\ p.min >= hi -> <<p>>
                [] ends # {} /\ p.min < hi /\ p.min >= lo -> <<Piece(hi, p.max)>>
                [] ends # {} /\ p.min < lo -> <<Piece(hi, p.max), Piece(p.min, lo)>>
  IN CutOff(SubSeq(free, 1, n), lo) \o left \o SubSeq(free, n + 2, Len(free))

getFreeIDRanges(l) ==
  LET after[n \in 0 .. Len(l)] ==
        IF n = 0 THEN <<Piece(0, LimitMax)>>
        ELSE excludeIDRange(after[n - 1], l[n].min, l[n].max)
  IN after[Len(l)]

-----------------------------------------------------------------------------
(* Counting. *)

(* updateIDRangeManager: the ranges that are new or changed are counted.   *)
updateNewIDRanges(m, ids) ==
  [m EXCEPT !.list = [k \in DOMAIN @ |->
     IF ~@[k].new THEN @[k]
     ELSE [@[k] EXCEPT !.used = Cardinality({i \in ids : Covers(m.list[k], i)}),
                       !.new = FALSE]]]

(* getIDRangeById: the first range that covers the id. *)
RangesOf(l, i) == {k \in DOMAIN l : Covers(l[k], i)}

useId(l, i) ==
  IF RangesOf(l, i) = {} THEN l
  ELSE [l EXCEPT ![First(RangesOf(l, i))].used = Increment(@)]
unuseId(l, i) ==
  IF RangesOf(l, i) = {} THEN l
  ELSE [l EXCEPT ![First(RangesOf(l, i))].used = Decrement(@)]

-----------------------------------------------------------------------------
(* IDRangeManager::nextId for the current developer: the manager it leaves *)
(* and the id, -1 for none.                                                *)

(* get_next_idrange: the next own range from the k-th on, 0 if none.       *)
NextOwn(l, k) ==
  LET own == {j \in DOMAIN l : j >= k /\ l[j].owner = Me}
  IN IF own = {} THEN 0 ELSE First(own)

(* The search after the last range: it starts at a range whose             *)
(* unusedCount, which is used - size, is positive, then looks for an own   *)
(* range with room, and follows NULL when there is no own range left.      *)
(* 0: none; Freed: a NULL pointer was followed.                            *)
Research(l) ==
  LET over == {k \in DOMAIN l : l[k].used > Size(l[k])}
      room == {k \in DOMAIN l : k >= First(over) /\ l[k].owner = Me
                                /\ l[k].used < Size(l[k])}
  IN IF over = {} THEN 0
     ELSE IF room # {} THEN First(room)
     ELSE IF l[Len(l)].owner = Me THEN 0
     ELSE Freed

hand(m, k, n) ==
  [mgr |-> [m EXCEPT !.cur = k, !.next_id = n + 1], id |-> n]

nextId(m) ==
  LET k == NextOwn(m.list, m.cur)
      found == IF k < Len(m.list) THEN k + 1 ELSE Research(m.list)
      n == m.next_id
  IN IF m.cur = Freed
     THEN [mgr |-> [m EXCEPT !.fault = TRUE], id |-> -1]
     ELSE IF k = 0 THEN [mgr |-> [m EXCEPT !.cur = 0], id |-> -1]
     ELSE IF n <= m.list[k].min THEN hand(m, k, m.list[k].min + 1)
     ELSE IF n <= m.list[k].max THEN hand(m, k, n)
     ELSE IF found = Freed
     THEN [mgr |-> [m EXCEPT !.fault = TRUE], id |-> -1]
     ELSE IF found = 0
     THEN [mgr |-> [m EXCEPT !.cur = 0, !.next_id = -1], id |-> -1]
     ELSE hand(m, found, m.list[found].min + 1)

(* newResId calls nextId until the id is free or there is none, and gives  *)
(* up after 65535 calls; Tries calls are as many for the ids of the model. *)
Tries == 4 * LimitMax

newResId(m, taken) ==
  LET at[n \in 0 .. Tries] ==
        IF n = 0 THEN nextId(m)
        ELSE LET got == at[n - 1]
             IN IF got.id \in taken THEN nextId(got.mgr) ELSE got
      last == at[Tries]
  IN IF last.id \in taken THEN [last EXCEPT !.id = -1] ELSE last

-----------------------------------------------------------------------------
(* The user's steps. *)

become(m) ==
  /\ list' = m.list /\ cur' = m.cur /\ next_id' = m.next_id /\ fault' = m.fault

RangesInit ==
  /\ list = <<>> /\ cur = 0 /\ next_id = -1
  /\ reses = {}
  /\ answer = -1
  /\ fault = FALSE /\ crossed = {}

(* Ids asked for that a range other than those of S has.                   *)
Taken(lo, hi, S) == {i \in lo + 1 .. hi : ~ RangesOf(list, i) \subseteq S}

Cross(lo, hi, S) ==
  /\ crossed' = crossed \cup Taken(lo, hi, S)
  /\ Cardinality(crossed') <= MaxCrossed

(* The dialog NewIDRange, opened from the list of ranges or by newResId.   *)
(* It shows the free ranges and takes any other.                           *)
newIDRange(lo, hi, o) ==
  /\ ~fault
  /\ Cross(lo, hi, {})
  /\ LET m == addIDRange(mgr, lo, hi, o)
     IN /\ Len(m.list) <= MaxRanges
        /\ become(updateNewIDRanges(m, reses))
  /\ UNCHANGED <<reses, answer>>

(* The dialog ExtendIDRange on the k-th range. *)
extendIDRange(k, lo, hi) ==
  LET r == list[k]
      least == IF r.linked THEN list[k - 1].max ELSE 0
      most == IF k < Len(list) THEN list[k + 1].min ELSE LimitMax
      m == extend(mgr, k, lo, hi)
  IN /\ ~fault
     /\ least <= lo /\ lo < hi /\ hi <= most
     /\ Cross(lo, hi, {k})
     /\ become([updateNewIDRanges(m, reses) EXCEPT !.fault = ~r.managed])
     /\ UNCHANGED <<reses, answer>>

(* createRes: a resource with a new id.  When there is none newResId opens *)
(* the dialog; a developer who fills it in gets the next call.             *)
createRes ==
  /\ ~fault
  /\ UNCHANGED crossed
  /\ LET new == newResId(mgr, reses)
     IN /\ answer' = new.id
        /\ IF new.id = -1
           THEN /\ become(new.mgr)
                /\ UNCHANGED reses
           ELSE /\ become([new.mgr EXCEPT !.list = useId(@, new.id)])
                /\ reses' = reses \cup {new.id}

(* A removal that is not counted. *)
removeResUncounted(i) ==
  /\ ~fault
  /\ i \in reses
  /\ reses' = reses \ {i}
  /\ UNCHANGED <<list, cur, next_id, answer, fault, crossed>>

removeRes(i) ==
  /\ ~fault
  /\ i \in reses
  /\ reses' = reses \ {i}
  /\ list' = unuseId(list, i)
  /\ UNCHANGED <<cur, next_id, answer, fault, crossed>>

setResId(i, j) ==
  /\ ~fault
  /\ i \in reses /\ j \in Ids \ reses
  /\ reses' = (reses \ {i}) \cup {j}
  /\ list' = unuseId(useId(list, j), i)
  /\ UNCHANGED <<cur, next_id, answer, fault, crossed>>

(* saveIDRangeInfo, and loadIDRanageInfo in the next session: the ranges   *)
(* are added again in the order of the list and counted.                   *)
NoRanges == [list |-> <<>>, cur |-> 0, next_id |-> -1, fault |-> FALSE]

(* A load that gives every range to the developer who loads. *)
LoadedAsMine ==
  LET after[n \in 0 .. Len(list)] ==
        IF n = 0 THEN NoRanges
        ELSE LET m == after[n - 1]
                 r == list[n]
             IN IF m.fault THEN m ELSE addIDRange(m, r.min, r.max, Me)
  IN after[Len(list)]

Loaded ==
  LET after[n \in 0 .. Len(list)] ==
        IF n = 0 THEN NoRanges
        ELSE LET m == after[n - 1]
                 r == list[n]
             IN IF m.fault THEN m ELSE addIDRange(m, r.min, r.max, r.owner)
  IN after[Len(list)]

restart ==
  /\ ~fault
  /\ become(updateNewIDRanges(Loaded, reses))
  /\ answer' = -1
  /\ UNCHANGED <<reses, crossed>>

RangesNext ==
  \/ \E lo \in 0 .. LimitMax, hi \in Ids, o \in Owner :
       lo < hi /\ newIDRange(lo, hi, o)
  \/ \E k \in DOMAIN list, lo \in 0 .. LimitMax, hi \in Ids :
       extendIDRange(k, lo, hi)
  \/ createRes
  \/ \E i \in reses : removeRes(i) \/ \E j \in Ids : setResId(i, j)
  \/ restart

RangesSpec == RangesInit /\ [][RangesNext]_rangesVars

-----------------------------------------------------------------------------
(* Properties. *)

RangesTypeOK ==
  /\ list \in Seq([min : 0 .. LimitMax, max : Ids, owner : Owner,
                   used : 0 .. Unknown, new : BOOLEAN, linked : BOOLEAN,
                   managed : BOOLEAN])
  /\ cur \in Freed .. Len(list)
  /\ next_id \in -1 .. LimitMax + 1
  /\ reses \subseteq Ids
  /\ answer \in -1 .. LimitMax /\ answer # 0
  /\ fault \in BOOLEAN /\ crossed \subseteq Ids

(* The count shown for a range is the number of its ids in use, whatever   *)
(* order ranges and resources came in and after every restart; but for the *)
(* ranges with an id that was asked for although another range had it: use *)
(* and release of such an id are counted in the first of them only.        *)
CountsExact ==
  ~fault => \A k \in DOMAIN list :
    (\A i \in crossed : ~ Covers(list[k], i)) =>
      list[k].used = Cardinality({i \in reses : Covers(list[k], i)})

(* newidrange.cpp, id_range_doc: "The different developer uses different   *)
(* ID range."  No id lies in two ranges that was not asked for although    *)
(* another one had it, whatever is inserted, extended, combined and loaded *)
(* around the ids that were.                                               *)
RangesDisjoint == \A i \in Ids \ crossed : Cardinality(RangesOf(list, i)) <= 1

(* A restart may forget an id of a range that touches another one, but it  *)
(* never gives an id to a developer who did not own it.                    *)
OwnersOf(l, i) == {l[k].owner : k \in RangesOf(l, i)}

RestartNeverReassigns ==
  [][restart => \A i \in Ids :
       OwnersOf(list', i) \subseteq OwnersOf(list, i)]_rangesVars

(* The dialog offers every id that is in no range; and nothing else while  *)
(* the ranges are in order and end before the limit.                       *)
Offered(i) ==
  \E k \in DOMAIN getFreeIDRanges(list) : Covers(getFreeIDRanges(list)[k], i)
InOrder ==
  \A k \in DOMAIN list :
    list[k].max < LimitMax /\ \A j \in 1 .. k - 1 : list[j].max <= list[k].min

FreeIdsOffered ==
  \A i \in Ids : /\ RangesOf(list, i) = {} => Offered(i)
                 /\ InOrder /\ Offered(i) => RangesOf(list, i) = {}

-----------------------------------------------------------------------------
(* What the help text and the labels of the program say, and the code does *)
(* not do.                                                                 *)

(* newidrange.cpp, the label of the list: "Usable range".                  *)
FreeRangesUsable == \A i \in Ids : Offered(i) => RangesOf(list, i) = {}

(* newidrange.cpp, id_range_doc: a developer has "an ID range only for     *)
(* itself".  An id handed out is in a range of the current developer.      *)
AnswerOwned ==
  [][createRes /\ answer' # -1 => Me \in OwnersOf(list, answer')]_rangesVars

(* newidrange.cpp, id_range_doc: "If miniStudio doesn't find any ID range  *)
(* for current developmer, it will ask".  It asks only when no id of the   *)
(* developer's ranges is free.                                             *)
AskedOnlyWhenFull ==
  [][createRes /\ ~fault' /\ answer' = -1 =>
       \A i \in Ids : Me \in OwnersOf(list, i) => i \in reses]_rangesVars
=============================================================================
