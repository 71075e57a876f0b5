----------------------------- MODULE UIEdit_proofs -----------------------------
(***************************************************************************)
(* Theorems about one form, for any controls, containers and images and    *)
(* any length of its history.                                              *)
(***************************************************************************)
EXTENDS UIEdit, FiniteSetTheorems, SequenceTheorems, WellFoundedInduction, TLAPS

-----------------------------------------------------------------------------
(* Two facts about the natural numbers and sequences. *)

LEMMA Reaches ==
  ASSUME NEW n \in Nat, NEW S, 0 \in S,
         \A k \in 0 .. n - 1 : k \in S => k + 1 \in S
  PROVE  \A k \in 0 .. n : k \in S
<1> DEFINE left == (0 .. n) \ S
           initials == {0 .. k : k \in left}
<1> SUFFICES ASSUME left # {} PROVE FALSE
  OBVIOUS
<1>1. initials \subseteq FiniteSubsetsOf(Nat) /\ initials # {}
  <2>1. \A k \in left : IsFiniteSet(0 .. k) /\ 0 .. k \subseteq Nat
    BY FS_Interval
  <2> QED  BY <2>1 DEF FiniteSubsetsOf
<1>2. PICK K \in initials :
        \A J \in initials : <<J, K>> \notin StrictSubsetOrdering(Nat)
  BY <1>1, WFMin, FS_StrictSubsetOrderingWellFounded
<1>3. PICK k \in left : K = 0 .. k
  OBVIOUS
<1>4. k \in 1 .. n /\ k - 1 \in 0 .. n - 1 /\ (k - 1) + 1 = k
  <2>1. k \in 0 .. n /\ k # 0
    BY <1>3
  <2> QED  BY <2>1
<1>5. k - 1 \in left
  BY <1>3, <1>4
<1>6. /\ 0 .. (k - 1) \subseteq 0 .. k /\ 0 .. k \subseteq Nat
      /\ k \in 0 .. k /\ k \notin 0 .. (k - 1)
  BY <1>4
<1>7. <<0 .. (k - 1), K>> \in StrictSubsetOrdering(Nat)
  BY <1>3, <1>6 DEF StrictSubsetOrdering
<1> QED
  BY <1>2, <1>5, <1>7

LEMMA ElementsOf ==
  ASSUME NEW S, NEW s \in Seq(S)
  PROVE  /\ Elements(s) = {s[i] : i \in 1 .. Len(s)}
         /\ Elements(s) \subseteq S
         /\ \A x \in S : Elements(Append(s, x)) = Elements(s) \cup {x}
         /\ IsFiniteSet(Elements(s))
<1>1. /\ Elements(s) = {s[i] : i \in 1 .. Len(s)} /\ Len(s) \in Nat
      /\ \A i \in 1 .. Len(s) : s[i] \in S
  BY DEF Elements
<1>2. ASSUME NEW x \in S PROVE Elements(Append(s, x)) = Elements(s) \cup {x}
  <2>1. /\ Append(s, x) \in Seq(S) /\ Len(Append(s, x)) = Len(s) + 1
        /\ \A i \in 1 .. Len(s) : Append(s, x)[i] = s[i]
        /\ Append(s, x)[Len(s) + 1] = x
    BY AppendProperties
  <2>2. Elements(Append(s, x)) = {Append(s, x)[i] : i \in 1 .. Len(s) + 1}
    BY <2>1 DEF Elements
  <2>3. \A y \in Elements(Append(s, x)) : y \in Elements(s) \cup {x}
    BY <2>1, <2>2, <1>1
  <2>4. \A y \in Elements(s) : y \in Elements(Append(s, x))
    <3> SUFFICES ASSUME NEW i \in 1 .. Len(s) PROVE s[i] \in Elements(Append(s, x))
      BY <1>1
    <3>1. i \in 1 .. Len(s) + 1 /\ Append(s, x)[i] = s[i]
      BY <1>1, <2>1
    <3> QED  BY <3>1, <2>2
  <2>5. x \in Elements(Append(s, x))
    <3>1. Len(s) + 1 \in 1 .. Len(s) + 1
      BY <1>1
    <3> QED  BY <3>1, <2>1, <2>2
  <2> QED  BY <2>3, <2>4, <2>5
<1>3. IsFiniteSet(Elements(s))
  <2> DEFINE g == [i \in 1 .. Len(s) |-> s[i]]
  <2>1. g \in Surjection(1 .. Len(s), Elements(s))
    BY <1>1 DEF Surjection
  <2>2. IsFiniteSet(1 .. Len(s))
    BY <1>1, FS_Interval
  <2> QED  BY <2>1, <2>2, FS_Surjection
<1> QED  BY <1>1, <1>2, <1>3

-----------------------------------------------------------------------------
(* Trees.  A tree says of every control which owners list it: one, or none *)
(* while it is off the form.                                               *)

Tree == [Control -> SUBSET Owner]
TreeOf(f) == [c \in Control |-> {o \in Owner : c \in Elements(f.kids[o])}]
Single(t) == \A c \in Control : \A o, p \in t[c] : o = p

Kids(t, S) == {c \in Control : t[c] \cap S # {}}

Under(t, S) ==
  S \cup {c \in Control :
            \A T \in SUBSET Control : Kids(t, S \cup T) \subseteq T => c \in T}
Top(t) == Under(t, {Base})

(* The least set with S and all children. *)
LEMMA UnderClosed ==
  ASSUME NEW t, NEW S
  PROVE  S \subseteq Under(t, S) /\ Kids(t, Under(t, S)) \subseteq Under(t, S)
<1> SUFFICES ASSUME NEW c \in Control, NEW o \in Under(t, S), o \in t[c],
                    NEW T \in SUBSET Control, Kids(t, S \cup T) \subseteq T
             PROVE  c \in T
  BY DEF Under, Kids
<1>1. o \in S \cup T
  BY DEF Under
<1> QED  BY <1>1 DEF Kids

LEMMA UnderLeast ==
  ASSUME NEW t, NEW S, NEW Y, S \subseteq Y, Kids(t, Y) \subseteq Y
  PROVE  Under(t, S) \subseteq Y
<1>1. Kids(t, S \cup (Y \cap Control)) \subseteq Y \cap Control
  BY DEF Kids
<1> SUFFICES ASSUME NEW x \in Under(t, S) PROVE x \in Y
  OBVIOUS
<1>2. x \in S \/ x \in Y \cap Control
  <2>1. S \cup (Y \cap Control) \subseteq Y /\ Y \cap Control \in SUBSET Control
    OBVIOUS
  <2> QED  BY <1>1 DEF Under
<1> QED  BY <1>2

(* Whoever is under S is of S, or the child of somebody under S. *)
LEMMA UnderParent ==
  ASSUME NEW t, NEW S, NEW c \in Under(t, S) \ S
  PROVE  c \in Control /\ \E o \in t[c] : o \in Under(t, S)
<1> DEFINE Y == S \cup Kids(t, Under(t, S))
<1>1. Y \subseteq Under(t, S)
  BY UnderClosed
<1>2. Kids(t, Y) \subseteq Y
  BY <1>1 DEF Kids
<1>3. c \in Y
  BY <1>2, UnderLeast
<1> QED  BY <1>3 DEF Kids

LEMMA UnderGrows ==
  ASSUME NEW t, NEW u, NEW S, NEW R, S \subseteq Under(u, R),
         \A c \in Control : t[c] \subseteq u[c]
  PROVE  Under(t, S) \subseteq Under(u, R)
<1>1. Kids(t, Under(u, R)) \subseteq Kids(u, Under(u, R))
  BY DEF Kids
<1> QED  BY <1>1, UnderClosed, UnderLeast

LEMMA UnderSubset ==
  ASSUME NEW t, NEW S, S \subseteq Control \cup {Base}
  PROVE  Under(t, S) \subseteq Control \cup {Base}
  BY DEF Under

(* Below, as the program computes it, is what is under S in the form's     *)
(* tree.                                                                   *)
LEMMA BelowIsUnder ==
  ASSUME NEW f, f.kids \in [Owner -> Seq(Control)], NEW S, S \subseteq Control \cup {Base}
  PROVE  Below(f, S) = Under(TreeOf(f), S)
<1>1. ASSUME NEW T PROVE ChildrenOf(f, T) = Kids(TreeOf(f), T)
  <2>1. \A o \in Owner : Elements(f.kids[o]) \subseteq Control
    BY ElementsOf
  <2> QED  BY <2>1 DEF ChildrenOf, Kids, TreeOf
<1> DEFINE t == TreeOf(f)
           NoGap(T) == Kids(t, S \cup T) \cap Container \subseteq T
           inner == {o \in Container : \A T \in SUBSET Container : NoGap(T) => o \in T}
           B == S \cup Kids(t, S \cup inner)
<1>2. Below(f, S) = B
  BY <1>1 DEF Below
<1>3. Container \subseteq Control /\ Owner = Container \cup {Base} /\ Base \notin Control
  BY FormAssumption DEF Owner
<1>4. \A c \in Control : t[c] \subseteq Owner
  BY DEF TreeOf
<1>5. inner \subseteq Under(t, S)
  <2>1. NoGap(Under(t, S) \cap Container)
    <3>1. S \cup (Under(t, S) \cap Container) \subseteq Under(t, S)
      BY UnderClosed
    <3> QED  BY <3>1, UnderClosed DEF Kids
  <2> QED  BY <2>1
<1>6. B \subseteq Under(t, S)
  <2>1. S \cup inner \subseteq Under(t, S)
    BY <1>5, UnderClosed
  <2> QED  BY <2>1, UnderClosed DEF Kids
<1>7. Kids(t, S \cup inner) \cap Container \subseteq inner
  <2> SUFFICES ASSUME NEW o \in Container, NEW p \in S \cup inner, p \in t[o],
                      NEW T \in SUBSET Container, NoGap(T)
               PROVE  o \in T
    BY <1>3 DEF Kids
  <2>1. p \in S \cup T
    OBVIOUS
  <2> QED  BY <2>1, <1>3 DEF Kids
<1>8. Kids(t, B) \subseteq B
  <2> SUFFICES ASSUME NEW c \in Control, NEW p \in B, p \in t[c] PROVE c \in B
    BY DEF Kids
  <2>1. p \in S \/ p \in inner
    <3>1. CASE p \in S
      BY <3>1
    <3>2. CASE p \notin S
      <4>1. p \in Kids(t, S \cup inner) /\ p \in Owner /\ p \in Control
        BY <3>2, <1>4 DEF Kids
      <4>2. p \in Container
        BY <4>1, <1>3
      <4> QED  BY <4>1, <4>2, <1>7
    <3> QED  BY <3>1, <3>2
  <2> QED  BY <2>1 DEF Kids
<1>9. Under(t, S) \subseteq B
  <2>1. S \subseteq B
    OBVIOUS
  <2> HIDE DEF B
  <2> QED  BY <1>8, <2>1, UnderLeast
<1> QED  BY <1>2, <1>6, <1>9

-----------------------------------------------------------------------------
(* Moving one control. *)

(* x is t with c somewhere else, or nowhere. *)
Alike(t, x, c) == \A d \in Control \ {c} : x[d] = t[d]

LEMMA AlikeExcept ==
  ASSUME NEW t \in Tree, NEW c \in Control, NEW P \in SUBSET Owner
  PROVE  /\ [t EXCEPT ![c] = P] \in Tree
         /\ [t EXCEPT ![c] = P][c] = P
         /\ Alike(t, [t EXCEPT ![c] = P], c)
         /\ Alike([t EXCEPT ![c] = P], t, c)
  BY DEF Tree, Alike

(* x is t with c at p. *)
Hung(t, x, c, p) ==
  x \in Tree /\ x[c] = {p} /\ Alike(t, x, c) /\ Alike(x, t, c)

LEMMA PutAt ==
  ASSUME NEW t \in Tree, NEW c \in Control, NEW p \in Owner
  PROVE  Hung(t, [t EXCEPT ![c] = {p}], c, p)
BY DEF Tree, Alike, Hung

LEMMA Rehung ==
  ASSUME NEW t, NEW x, NEW c \in Control, NEW R, Alike(t, x, c),
         c \in Under(t, R), c \in Under(x, R)
  PROVE  Under(x, R) = Under(t, R)
<1>1. Kids(t, Under(x, R)) \subseteq Under(x, R)
  <2> SUFFICES ASSUME NEW d \in Kids(t, Under(x, R)), d # c
               PROVE  d \in Under(x, R)
    OBVIOUS
  <2>1. d \in Kids(x, Under(x, R))
    BY DEF Kids, Alike
  <2> QED  BY <2>1, UnderClosed
<1>2. Kids(x, Under(t, R)) \subseteq Under(t, R)
  <2> SUFFICES ASSUME NEW d \in Kids(x, Under(t, R)), d # c
               PROVE  d \in Under(t, R)
    OBVIOUS
  <2>1. d \in Kids(t, Under(t, R))
    BY DEF Kids, Alike
  <2> QED  BY <2>1, UnderClosed
<1>3. R \subseteq Under(t, R) /\ R \subseteq Under(x, R)
  BY UnderClosed
<1>4. Under(t, R) \subseteq Under(x, R)
  BY <1>1, <1>3, UnderLeast
<1>5. Under(x, R) \subseteq Under(t, R)
  BY <1>2, <1>3, UnderLeast
<1> QED  BY <1>4, <1>5

LEMMA Around ==
  ASSUME NEW t, NEW x, NEW c \in Control, NEW R, Alike(t, x, c)
  PROVE  Under(t, R) \ Under(t, {c}) \subseteq Under(x, R)
<1> DEFINE Y == Under(x, R) \cup Under(t, {c})
<1>1. R \subseteq Y /\ c \in Y
  BY UnderClosed
<1>2. Kids(t, Y) \subseteq Y
  <2> SUFFICES ASSUME NEW d \in Control, NEW o \in Y, o \in t[d], d # c
               PROVE  d \in Y
    BY <1>1 DEF Kids
  <2>1. CASE o \in Under(x, R)
    <3>1. d \in Kids(x, Under(x, R))
      BY <2>1 DEF Kids, Alike
    <3> QED  BY <3>1, UnderClosed
  <2>2. CASE o \in Under(t, {c})
    <3>1. d \in Kids(t, Under(t, {c}))
      BY <2>2 DEF Kids
    <3> QED  BY <3>1, UnderClosed
  <2> QED  BY <2>1, <2>2
<1> HIDE DEF Y
<1>3. Under(t, R) \subseteq Y
  BY <1>1, <1>2, UnderLeast
<1> QED  BY <1>3 DEF Y

(* What hangs off a control that is off the form is off the form. *)
LEMMA Apart ==
  ASSUME NEW t \in Tree, Single(t), NEW c \in Control, c \notin Top(t)
  PROVE  Under(t, {c}) \cap Top(t) = {}
<1> DEFINE Y == Top(t) \ Under(t, {c})
<1>1. Base \in Y
  <2>1. Base \notin Under(t, {c})
    BY FormAssumption DEF Under
  <2>2. Base \in Top(t)
    BY UnderClosed DEF Top
  <2> QED  BY <2>1, <2>2
<1>2. Kids(t, Y) \subseteq Y
  <2> SUFFICES ASSUME NEW d \in Control, NEW o \in Y, o \in t[d] PROVE d \in Y
    BY DEF Kids
  <2>1. d \in Top(t)
    <3>1. d \in Kids(t, Top(t))
      BY DEF Kids
    <3> QED  BY <3>1, UnderClosed DEF Top
  <2>2. d \notin Under(t, {c})
    <3> SUFFICES ASSUME d \in Under(t, {c}) PROVE FALSE
      OBVIOUS
    <3>1. d \in Under(t, {c}) \ {c}
      BY <2>1
    <3>2. PICK p \in t[d] : p \in Under(t, {c})
      BY <3>1, UnderParent
    <3>3. p = o
      BY <3>2 DEF Single
    <3> QED  BY <3>2, <3>3
  <2> QED  BY <2>1, <2>2
<1> HIDE DEF Y
<1>3. {Base} \subseteq Y
  BY <1>1
<1>4. Top(t) \subseteq Y
  BY <1>2, <1>3, UnderLeast DEF Top
<1> QED  BY <1>4 DEF Y

(* No control of the form is below itself. *)
LEMMA NoCycle ==
  ASSUME NEW t \in Tree, Single(t), NEW c \in Control, c \in Top(t),
         NEW o \in t[c]
  PROVE  o \notin Under(t, {c})
<1> SUFFICES ASSUME o \in Under(t, {c}) PROVE FALSE
  OBVIOUS
<1> DEFINE Y == Top(t) \ Under(t, {c})
<1>1. {Base} \subseteq Y
  <2>1. Base \notin Under(t, {c})
    BY FormAssumption DEF Under
  <2>2. Base \in Top(t)
    BY UnderClosed DEF Top
  <2> QED  BY <2>1, <2>2
<1>2. Kids(t, Y) \subseteq Y
  <2> SUFFICES ASSUME NEW d \in Control, NEW p \in Y, p \in t[d] PROVE d \in Y
    BY DEF Kids
  <2>1. d \in Top(t)
    <3>1. d \in Kids(t, Top(t))
      BY DEF Kids
    <3> QED  BY <3>1, UnderClosed DEF Top
  <2>2. d # c
    BY DEF Single
  <2>3. d \notin Under(t, {c})
    <3> SUFFICES ASSUME d \in Under(t, {c}) PROVE FALSE
      OBVIOUS
    <3>1. d \in Under(t, {c}) \ {c}
      BY <2>2
    <3>2. PICK q \in t[d] : q \in Under(t, {c})
      BY <3>1, UnderParent
    <3>3. q = p
      BY <3>2 DEF Single
    <3> QED  BY <3>2, <3>3
  <2> QED  BY <2>1, <2>3
<1> HIDE DEF Y
<1>3. Top(t) \subseteq Y
  BY <1>1, <1>2, UnderLeast DEF Top
<1>4. c \in Under(t, {c})
  BY UnderClosed
<1> QED  BY <1>3, <1>4 DEF Y

(* c is taken off x, of which t is what is left; and the other way round   *)
(* c is put on t.                                                          *)
TakenOff(x, t, c) ==
  /\ x \in Tree /\ t \in Tree /\ Single(x) /\ Single(t)
  /\ Alike(x, t, c) /\ Alike(t, x, c)
  /\ t[c] = {} /\ c \in Top(x)

(* The tops of the trees with and without c, of which only what is below c  *)
(* is different.                                                           *)
TopTakenOff(x, t, c) ==
  /\ Under(t, {c}) = Under(x, {c})
  /\ Top(t) = Top(x) \ Under(x, {c})
  /\ Under(x, {c}) \subseteq Top(x)
  /\ \A o \in x[c] : o \in Top(t)

LEMMA TakenOffTop ==
  ASSUME NEW x, NEW t, NEW c \in Control, TakenOff(x, t, c)
  PROVE  TopTakenOff(x, t, c)
<1>1. Under(t, {c}) = Under(x, {c})
  <2>1. c \in Under(t, {c}) /\ c \in Under(x, {c})
    BY UnderClosed
  <2> QED  BY <2>1, Rehung DEF TakenOff
<1>2. Top(t) \subseteq Top(x)
  <2>1. \A d \in Control : t[d] \subseteq x[d]
    BY DEF TakenOff, Alike
  <2>2. {Base} \subseteq Under(x, {Base})
    BY UnderClosed
  <2> QED  BY <2>1, <2>2, UnderGrows DEF Top
<1>3. c \notin Top(t)
  <2>1. c # Base
    BY FormAssumption
  <2> QED  BY <2>1, UnderParent DEF TakenOff, Top
<1>4. Under(t, {c}) \cap Top(t) = {}
  BY <1>3, Apart DEF TakenOff
<1>5. Top(x) \ Under(x, {c}) \subseteq Top(t)
  BY Around DEF TakenOff, Top
<1>6. Under(x, {c}) \subseteq Top(x)
  <2>1. {c} \subseteq Top(x)
    BY DEF TakenOff
  <2>2. Kids(x, Top(x)) \subseteq Top(x)
    BY UnderClosed DEF Top
  <2> QED  BY <2>1, <2>2, UnderLeast
<1>7. \A o \in x[c] : o \in Top(t)
  <2> SUFFICES ASSUME NEW o \in x[c] PROVE o \in Top(t)
    OBVIOUS
  <2>1. o \notin Under(x, {c})
    BY NoCycle DEF TakenOff
  <2>2. c \in Under(x, {Base}) \ {Base}
    BY FormAssumption DEF TakenOff, Top
  <2>3. PICK p \in x[c] : p \in Under(x, {Base})
    BY <2>2, UnderParent
  <2>4. p = o
    BY <2>3 DEF TakenOff, Single
  <2> QED  BY <1>5, <2>1, <2>3, <2>4 DEF Top
<1> QED  BY <1>1, <1>2, <1>4, <1>5, <1>6, <1>7 DEF TopTakenOff

(* The same for a control dragged inside the form. *)
LEMMA MovedTop ==
  ASSUME NEW t \in Tree, Single(t), NEW c \in Control, c \in Top(t),
         NEW p \in Top(t) \ Under(t, {c}), p \in Owner,
         NEW x, Hung(t, x, c, p), NEW R, Base \in R
  PROVE  /\ x \in Tree /\ Single(x) /\ c \in Top(x)
         /\ Under(x, R) = Under(t, R) /\ Top(x) = Top(t)
         /\ Under(x, {c}) = Under(t, {c})
         /\ \A o \in t[c] : o \in Top(x) \ Under(x, {c})
<1>1. x \in Tree /\ x[c] = {p} /\ Alike(t, x, c) /\ Alike(x, t, c)
  BY DEF Hung
<1>2. Single(x)
  BY <1>1 DEF Single, Alike
<1>3. c \in Top(x)
  <2>1. p \in Top(x)
    BY <1>1, Around DEF Top
  <2>2. c \in Kids(x, Top(x))
    BY <1>1, <2>1 DEF Kids
  <2> QED  BY <2>2, UnderClosed DEF Top
<1>4. \A u : Top(u) \subseteq Under(u, R)
  <2> SUFFICES ASSUME NEW u PROVE Top(u) \subseteq Under(u, R)
    OBVIOUS
  <2>1. {Base} \subseteq Under(u, R)
    BY UnderClosed
  <2> QED  BY <2>1, UnderClosed, UnderLeast DEF Top
<1>5. Under(x, R) = Under(t, R)
  BY <1>1, <1>3, <1>4, Rehung
<1>6. Top(x) = Top(t)
  BY <1>1, <1>3, Rehung DEF Top
<1>7. Under(x, {c}) = Under(t, {c})
  <2>1. c \in Under(t, {c}) /\ c \in Under(x, {c})
    BY UnderClosed
  <2> QED  BY <1>1, <2>1, Rehung
<1>8. ASSUME NEW o \in t[c] PROVE o \in Top(x) \ Under(x, {c})
  <2>1. o \notin Under(t, {c})
    BY NoCycle
  <2>2. c \in Under(t, {Base}) \ {Base}
    BY FormAssumption DEF Top
  <2>3. PICK q \in t[c] : q \in Under(t, {Base})
    BY <2>2, UnderParent
  <2>4. q = o
    BY <2>3 DEF Single
  <2> QED  BY <1>6, <1>7, <2>1, <2>3, <2>4 DEF Top
<1> QED  BY <1>1, <1>2, <1>3, <1>5, <1>6, <1>7, <1>8

-----------------------------------------------------------------------------
(* A control without a place and without children gets a place. *)

Bare(t, c) == t[c] = {} /\ \A d \in Control : c \notin t[d]

LEMMA LeafAdded ==
  ASSUME NEW t \in Tree, NEW c \in Control, Bare(t, c),
         NEW p \in Owner \ {c}, NEW x, Hung(t, x, c, p), NEW R, c \notin R
  PROVE  /\ Under(x, R) = Under(t, R) \cup {d \in {c} : p \in Under(t, R)}
         /\ c \notin Under(t, R)
<1>1. x \in Tree /\ x[c] = {p} /\ Alike(t, x, c) /\ Alike(x, t, c)
  BY DEF Hung
<1>2. c \notin Under(t, R)
  BY UnderParent DEF Bare
<1>3. Under(t, R) \subseteq Under(x, R)
  <2>1. \A d \in Control : t[d] \subseteq x[d]
    BY <1>1 DEF Bare, Alike
  <2>2. R \subseteq Under(x, R)
    BY UnderClosed
  <2> QED  BY <2>1, <2>2, UnderGrows
<1> DEFINE Y == Under(t, R) \cup {d \in {c} : p \in Under(t, R)}
<1>4. R \subseteq Y
  BY UnderClosed
<1>5. Kids(x, Y) \subseteq Y
  <2> SUFFICES ASSUME NEW d \in Control, NEW o \in Y, o \in x[d] PROVE d \in Y
    BY DEF Kids
  <2>1. CASE d = c
    BY <1>1, <2>1
  <2>2. CASE d # c
    <3>1. o \in t[d] /\ o # c
      BY <1>1, <2>2 DEF Alike, Bare
    <3>2. d \in Kids(t, Under(t, R))
      BY <3>1 DEF Kids
    <3> QED  BY <3>2, UnderClosed
  <2> QED  BY <2>1, <2>2
<1>6. Y \subseteq Under(x, R)
  <2> SUFFICES ASSUME p \in Under(t, R) PROVE c \in Under(x, R)
    BY <1>3
  <2>1. c \in Kids(x, Under(x, R))
    BY <1>1, <1>3 DEF Kids
  <2> QED  BY <2>1, UnderClosed
<1>7. Under(x, R) \subseteq Y
  <2> HIDE DEF Y
  <2> QED  BY <1>4, <1>5, UnderLeast
<1> QED  BY <1>2, <1>6, <1>7

-----------------------------------------------------------------------------
(* What a command does to a tree.                                          *)

(* The command finds the tree y as it left it, and makes x of it.          *)
Edge(cmd, x, y) ==
  /\ cmd.on \in Control
  /\ cmd.kind = "ADD" =>
       /\ y[cmd.on] = {cmd.at} /\ cmd.at \in Owner \cap Top(y)
       /\ x = [y EXCEPT ![cmd.on] = {}]
  /\ cmd.kind = "DELETE" =>
       /\ y[cmd.on] = {} /\ cmd.at \in Owner \cap Top(y)
       /\ x = [y EXCEPT ![cmd.on] = {cmd.at}]
  /\ cmd.kind = "SET" =>
       /\ cmd.on \in Top(y) /\ cmd.at = Base
       /\ x = y
  /\ cmd.kind = "MOVE" =>
       /\ cmd.on \in Top(y) /\ cmd.at \in Owner \cap (Top(y) \ Under(y, {cmd.on}))
       /\ x = [y EXCEPT ![cmd.on] = {cmd.at}]
  /\ cmd.kind \in {"ADD", "DELETE", "SET", "MOVE"}

(* The command that is left after cmd was executed on y. *)
Reversed(rev, cmd, y) ==
  /\ rev.on = cmd.on
  /\ cmd.kind = "ADD" => rev.kind = "DELETE" /\ rev.at = cmd.at
  /\ cmd.kind = "DELETE" => rev.kind = "ADD" /\ rev.at = cmd.at
  /\ cmd.kind = "SET" => rev.kind = "SET" /\ rev.at = cmd.at
  /\ cmd.kind = "MOVE" => rev.kind = "MOVE" /\ rev.at \in y[cmd.on]

Held(cmd) == cmd.kind \in {"ADD", "DELETE"}

LEMMA EdgeOff ==
  ASSUME NEW cmd, NEW x, NEW y \in Tree, Single(y), Edge(cmd, x, y), cmd.kind = "ADD"
  PROVE  TakenOff(y, x, cmd.on)
<1> DEFINE c == cmd.on
<1>1. c \in Control /\ x = [y EXCEPT ![c] = {}] /\ y[c] = {cmd.at} /\ cmd.at \in Top(y)
  BY DEF Edge
<1>2. x \in Tree /\ x[c] = {} /\ Alike(y, x, c) /\ Alike(x, y, c)
  <2>1. {} \in SUBSET Owner
    OBVIOUS
  <2> HIDE DEF c
  <2> QED  BY <1>1, <2>1, AlikeExcept
<1>3. Single(x)
  BY <1>2 DEF Single, Alike
<1>4. c \in Top(y)
  <2>1. c \in Kids(y, Top(y))
    BY <1>1 DEF Kids
  <2> QED  BY <2>1, UnderClosed DEF Top
<1> QED  BY <1>2, <1>3, <1>4 DEF TakenOff

LEMMA EdgeOn ==
  ASSUME NEW cmd, NEW x, NEW y \in Tree, Single(y), Edge(cmd, x, y), cmd.kind = "DELETE"
  PROVE  TakenOff(x, y, cmd.on)
<1> DEFINE c == cmd.on
<1>1. c \in Control /\ x = [y EXCEPT ![c] = {cmd.at}] /\ y[c] = {} /\ cmd.at \in Top(y)
      /\ cmd.at \in Owner
  BY DEF Edge
<1>2. x \in Tree /\ x[c] = {cmd.at} /\ Alike(y, x, c) /\ Alike(x, y, c)
  BY <1>1 DEF Tree, Alike
<1>3. Single(x)
  BY <1>2 DEF Single, Alike
<1>4. c \in Top(x)
  <2>1. \A d \in Control : y[d] \subseteq x[d]
    BY <1>1, <1>2 DEF Alike
  <2>2. {Base} \subseteq Under(x, {Base})
    BY UnderClosed
  <2>3. cmd.at \in Top(x)
    <3>1. Under(y, {Base}) \subseteq Under(x, {Base})
      BY <2>1, <2>2, UnderGrows
    <3> QED  BY <1>1, <3>1 DEF Top
  <2>4. c \in Kids(x, Top(x))
    BY <1>1, <1>2, <2>3 DEF Kids
  <2> QED  BY <2>4, UnderClosed DEF Top
<1> QED  BY <1>1, <1>2, <1>3, <1>4 DEF TakenOff

LEMMA EdgeTree ==
  ASSUME NEW cmd, NEW x, NEW y \in Tree, Single(y), Edge(cmd, x, y)
  PROVE  x \in Tree /\ Single(x)
<1>1. CASE cmd.kind = "ADD"
  BY <1>1, EdgeOff DEF TakenOff
<1>2. CASE cmd.kind = "DELETE"
  BY <1>2, EdgeOn DEF TakenOff
<1>3. CASE cmd.kind = "SET"
  BY <1>3 DEF Edge
<1>4. CASE cmd.kind = "MOVE"
  <2>1. /\ cmd.on \in Control /\ x = [y EXCEPT ![cmd.on] = {cmd.at}]
        /\ cmd.at \in Owner /\ cmd.at \in Top(y) \ Under(y, {cmd.on})
        /\ cmd.on \in Top(y)
    BY <1>4 DEF Edge
  <2>2. Hung(y, x, cmd.on, cmd.at)
    BY <2>1, PutAt
  <2>3. Base \in {Base}
    OBVIOUS
  <2> QED  BY <2>1, <2>2, <2>3, MovedTop
<1> QED  BY <1>1, <1>2, <1>3, <1>4 DEF Edge

(* Executing what is left undoes the command. *)
LEMMA EdgeBack ==
  ASSUME NEW cmd, NEW rev, NEW x, NEW y \in Tree, Single(y), Edge(cmd, x, y),
         Reversed(rev, cmd, y)
  PROVE  Edge(rev, y, x)
<1> DEFINE c == cmd.on
<1>1. CASE cmd.kind = "ADD"
  <2>1. /\ c \in Control /\ x = [y EXCEPT ![c] = {}] /\ y[c] = {cmd.at}
        /\ cmd.at \in Owner
        /\ rev.on = c /\ rev.kind = "DELETE" /\ rev.at = cmd.at
    BY <1>1 DEF Edge, Reversed
  <2>2. TakenOff(y, x, c)
    BY <1>1, EdgeOff
  <2>3. cmd.at \in Top(x) /\ x[c] = {}
    BY <2>1, <2>2, TakenOffTop DEF TakenOff, TopTakenOff
  <2>4. y = [x EXCEPT ![c] = {cmd.at}]
    BY <2>1 DEF Tree
  <2> QED  BY <2>1, <2>3, <2>4 DEF Edge
<1>2. CASE cmd.kind = "DELETE"
  <2>1. /\ c \in Control /\ x = [y EXCEPT ![c] = {cmd.at}] /\ y[c] = {}
        /\ cmd.at \in Owner /\ cmd.at \in Top(y)
        /\ rev.on = c /\ rev.kind = "ADD" /\ rev.at = cmd.at
    BY <1>2 DEF Edge, Reversed
  <2>2. TakenOff(x, y, c)
    BY <1>2, EdgeOn
  <2>3. cmd.at \in Top(x) /\ x[c] = {cmd.at}
    <3>1. Top(y) \subseteq Top(x)
      <4>1. cmd.on \in Control /\ TakenOff(x, y, cmd.on)
        BY <2>1, <2>2
      <4>2. Top(y) = Top(x) \ Under(x, {cmd.on})
        BY <4>1, TakenOffTop DEF TopTakenOff
      <4> QED  BY <4>2
    <3>2. x[c] = {cmd.at}
      BY <2>1 DEF Tree
    <3> QED  BY <2>1, <3>1, <3>2
  <2>4. y = [x EXCEPT ![c] = {}]
    BY <2>1 DEF Tree
  <2> QED  BY <2>1, <2>3, <2>4 DEF Edge
<1>3. CASE cmd.kind = "SET"
  BY <1>3 DEF Edge, Reversed
<1>4. CASE cmd.kind = "MOVE"
  <2>1. /\ c \in Control /\ x = [y EXCEPT ![c] = {cmd.at}] /\ c \in Top(y)
        /\ cmd.at \in Owner /\ cmd.at \in Top(y) \ Under(y, {c})
        /\ rev.on = c /\ rev.kind = "MOVE" /\ rev.at \in y[c]
    BY <1>4 DEF Edge, Reversed
  <2>2. c \in Top(x) /\ rev.at \in Top(x) \ Under(x, {c})
    <3>1. Hung(y, x, c, cmd.at)
      BY <2>1, PutAt
    <3>2. Base \in {Base}
      OBVIOUS
    <3> QED  BY <2>1, <3>1, <3>2, MovedTop
  <2>3. y = [x EXCEPT ![c] = {rev.at}]
    <3>1. y[c] = {rev.at}
      BY <2>1 DEF Single
    <3> QED  BY <2>1, <3>1 DEF Tree
  <2>4. rev.at \in Owner
    BY <2>1 DEF Tree
  <2> QED  BY <2>1, <2>2, <2>3, <2>4 DEF Edge
<1> QED  BY <1>1, <1>2, <1>3, <1>4 DEF Edge

LEMMA TopUnder ==
  ASSUME NEW t, NEW R, Base \in R
  PROVE  Top(t) \subseteq Under(t, R)
<1>1. {Base} \subseteq Under(t, R)
  BY UnderClosed
<1> QED  BY <1>1, UnderClosed, UnderLeast DEF Top

(* What is on the form or held does not change by executing commands.      *)
LEMMA EdgeLive ==
  ASSUME NEW cmd, NEW x, NEW y \in Tree, Single(y), Edge(cmd, x, y),
         NEW R, Base \in R, Held(cmd) => cmd.on \in R
  PROVE  /\ Under(x, R) = Under(y, R)
         /\ cmd.on \in Under(y, R) /\ cmd.at \in Under(y, R)
<1> DEFINE c == cmd.on
<1>1. R \subseteq Under(x, R) /\ R \subseteq Under(y, R) /\ Top(y) \subseteq Under(y, R)
  BY UnderClosed, TopUnder
<1>2. CASE Held(cmd)
  <2>1. /\ c \in Control /\ cmd.at \in Top(y)
        /\ Alike(y, x, c)
    BY <1>2, AlikeExcept DEF Edge, Held
  <2>2. c \in Under(x, R) /\ c \in Under(y, R)
    BY <1>1, <1>2
  <2>3. Under(x, R) = Under(y, R)
    BY <2>1, <2>2, Rehung
  <2> QED  BY <1>1, <2>1, <2>2, <2>3
<1>3. CASE cmd.kind = "SET"
  BY <1>1, <1>3 DEF Edge
<1>4. CASE cmd.kind = "MOVE"
  <2>1. /\ c \in Control /\ x = [y EXCEPT ![c] = {cmd.at}] /\ c \in Top(y)
        /\ cmd.at \in Owner /\ cmd.at \in Top(y) \ Under(y, {c})
    BY <1>4 DEF Edge
  <2>2. c \in Top(x)
    <3>1. Hung(y, x, c, cmd.at)
      BY <2>1, PutAt
    <3> QED  BY <2>1, <3>1, MovedTop
  <2>3. c \in Under(x, R) /\ c \in Under(y, R)
    BY <2>1, <2>2, TopUnder
  <2>4. Alike(y, x, c)
    BY <2>1 DEF Tree, Alike
  <2>5. Under(x, R) = Under(y, R)
    BY <2>1, <2>3, <2>4, Rehung
  <2> QED  BY <1>1, <2>1, <2>5
<1> QED  BY <1>2, <1>3, <1>4 DEF Edge, Held

(* A new leaf elsewhere is no matter to a command. *)
LEMMA EdgeLeaf ==
  ASSUME NEW cmd, NEW x \in Tree, NEW y \in Tree, Edge(cmd, x, y),
         NEW c \in Control, Bare(x, c), Bare(y, c), NEW p \in Owner \ {c}
  PROVE  Edge(cmd, [x EXCEPT ![c] = {p}], [y EXCEPT ![c] = {p}])
<1> DEFINE d == cmd.on
           u == [x EXCEPT ![c] = {p}]
           v == [y EXCEPT ![c] = {p}]
<1>1. u \in Tree /\ v \in Tree /\ u[c] = {p} /\ v[c] = {p}
      /\ Alike(x, u, c) /\ Alike(y, v, c)
  BY AlikeExcept
<1>2. c # Base
  BY FormAssumption
<1>3. c \notin Top(y) /\ Top(y) \subseteq Top(v)
  <2>1. Hung(y, v, c, p) /\ c \notin {Base}
    BY <1>2, PutAt
  <2> HIDE DEF v
  <2> QED  BY <2>1, LeafAdded DEF Top
<1>4. d \in Control /\ d # c
  <2>1. CASE cmd.kind = "ADD"
    BY <2>1 DEF Edge, Bare
  <2>2. CASE cmd.kind = "DELETE"
    <3>1. x[d] = {cmd.at} /\ d \in Control
      BY <2>2 DEF Edge, Tree
    <3> QED  BY <3>1 DEF Bare
  <2>3. CASE cmd.kind \in {"SET", "MOVE"}
    BY <1>3, <2>3 DEF Edge
  <2> QED  BY <2>1, <2>2, <2>3 DEF Edge
<1>5. Under(v, {d}) \subseteq Under(y, {d}) \cup {c}
  <2>1. Hung(y, v, c, p) /\ c \notin {d}
    BY <1>4, PutAt
  <2> HIDE DEF v, d
  <2> QED  BY <2>1, LeafAdded
<1>6. v[d] = y[d] /\ u[d] = x[d]
  BY <1>1, <1>4 DEF Alike
<1>7. ASSUME NEW P \in SUBSET Owner, x = [y EXCEPT ![d] = P]
      PROVE  u = [v EXCEPT ![d] = P]
  BY <1>4, <1>7 DEF Tree
<1>8. CASE cmd.kind = "ADD"
  <2>1. u = [v EXCEPT ![d] = {}]
    BY <1>7, <1>8 DEF Edge
  <2> QED  BY <1>3, <1>4, <1>6, <1>8, <2>1 DEF Edge
<1>9. CASE cmd.kind = "DELETE"
  <2>1. u = [v EXCEPT ![d] = {cmd.at}]
    BY <1>7, <1>9 DEF Edge
  <2> QED  BY <1>3, <1>4, <1>6, <1>9, <2>1 DEF Edge
<1>10. CASE cmd.kind = "SET"
  BY <1>3, <1>4, <1>10 DEF Edge
<1>11. CASE cmd.kind = "MOVE"
  <2>1. u = [v EXCEPT ![d] = {cmd.at}]
    BY <1>7, <1>11 DEF Edge
  <2>2. cmd.at \in Top(v) \ Under(v, {d})
    <3>1. cmd.at \in Top(y) \ Under(y, {d})
      BY <1>11 DEF Edge
    <3> QED  BY <1>3, <1>5, <3>1
  <2> QED  BY <1>3, <1>4, <1>11, <2>1, <2>2 DEF Edge
<1> QED  BY <1>8, <1>9, <1>10, <1>11 DEF Edge

-----------------------------------------------------------------------------
(* A legal history: the trees the form had, or would have, one command     *)
(* after the other.  Every command of p, the undone ones f included, leads *)
(* from one to the next; what is not in B was never created.               *)

Between(p, f, W, B) ==
  /\ \A k \in 0 .. Len(p) + Len(f) :
       W[k] \in Tree /\ Single(W[k]) /\ \A c \in Control \ B : Bare(W[k], c)
  /\ \A k \in 1 .. Len(p) : Edge(p[k], W[k - 1], W[k])
  /\ \A k \in 1 .. Len(f) : Edge(f[k], W[Len(p) + k], W[Len(p) + k - 1])

Legal(p, f, t, B) == \E W : Between(p, f, W, B) /\ W[Len(p)] = t

LEMMA EdgeBorn ==
  ASSUME NEW cmd, NEW x \in Tree, NEW y \in Tree, Edge(cmd, x, y),
         NEW B, \A c \in Control \ B : Bare(x, c) /\ Bare(y, c)
  PROVE  cmd.on \in B
<1> DEFINE d == cmd.on
<1>1. CASE cmd.kind = "ADD"
  BY <1>1 DEF Edge, Bare
<1>2. CASE cmd.kind = "DELETE"
  <2>1. x[d] = {cmd.at} /\ d \in Control
    BY <1>2 DEF Edge, Tree
  <2> QED  BY <2>1 DEF Bare
<1>3. CASE cmd.kind \in {"SET", "MOVE"}
  <2>1. d \in Top(y) /\ d \in Control /\ d # Base
    BY <1>3, FormAssumption DEF Edge
  <2>2. \E o \in y[d] : TRUE
    BY <2>1, UnderParent DEF Top
  <2> QED  BY <2>1, <2>2 DEF Bare
<1> QED  BY <1>1, <1>2, <1>3 DEF Edge

LEMMA LegalUndo ==
  ASSUME NEW S, NEW p \in Seq(S), NEW f \in Seq(S), p # <<>>,
         NEW t, NEW B, Legal(p, f, t, B)
  PROVE  /\ t \in Tree /\ Single(t)
         /\ \E x \in Tree :
              /\ Edge(p[Len(p)], x, t)
              /\ \A rev \in S : Reversed(rev, p[Len(p)], t)
                   => Legal(SubSeq(p, 1, Len(p) - 1), <<rev>> \o f, x, B)
<1> DEFINE n == Len(p)
           m == Len(f)
<1>0. /\ n \in Nat \ {0} /\ m \in Nat
      /\ \A k \in 1 .. n : p[k] \in S
      /\ \A k \in 1 .. m : f[k] \in S
  BY EmptySeq, LenProperties, ElementOfSeq
<1>1. PICK W : Between(p, f, W, B) /\ W[n] = t
  BY DEF Legal
<1>2. /\ \A k \in 0 .. n + m :
           W[k] \in Tree /\ Single(W[k]) /\ \A c \in Control \ B : Bare(W[k], c)
      /\ \A k \in 1 .. n : Edge(p[k], W[k - 1], W[k])
      /\ \A k \in 1 .. m : Edge(f[k], W[n + k], W[n + k - 1])
  BY <1>1 DEF Between
<1>3. /\ n \in 0 .. n + m /\ n - 1 \in 0 .. n + m /\ n \in 1 .. n
  BY <1>0
<1>4. t \in Tree /\ Single(t) /\ W[n - 1] \in Tree /\ Edge(p[n], W[n - 1], t)
  BY <1>1, <1>2, <1>3
<1>5. ASSUME NEW rev \in S, Reversed(rev, p[n], t)
      PROVE  Legal(SubSeq(p, 1, n - 1), <<rev>> \o f, W[n - 1], B)
  <2> DEFINE q == SubSeq(p, 1, n - 1)
             g == <<rev>> \o f
  <2>1. Edge(rev, t, W[n - 1])
    BY <1>4, <1>5, EdgeBack
  <2>2. /\ q \in Seq(S) /\ Len(q) = n - 1
        /\ \A k \in 1 .. n - 1 : q[k] = p[k]
    <3>1. \A k \in 1 .. n - 1 : p[k] \in S
      BY <1>0
    <3> HIDE DEF n
    <3>2. n \in Int /\ 1 \in Int /\ n - 1 \in Int
      BY <1>0
    <3>3. /\ SubSeq(p, 1, n - 1) \in Seq(S)
          /\ Len(SubSeq(p, 1, n - 1)) = IF 1 <= n - 1 THEN n - 1 - 1 + 1 ELSE 0
          /\ \A k \in 1 .. n - 1 - 1 + 1 : SubSeq(p, 1, n - 1)[k] = p[1 + k - 1]
      BY <3>1, <3>2, SubSeqProperties
    <3> QED  BY <1>0, <3>3
  <2>3. /\ Len(g) = m + 1 /\ g[1] = rev
        /\ \A k \in 2 .. m + 1 : g[k] = f[k - 1]
    BY <1>0
  <2> HIDE DEF q, g
  <2>4. ASSUME NEW k \in 1 .. Len(q) PROVE Edge(q[k], W[k - 1], W[k])
    <3>1. k \in 1 .. n - 1 /\ k \in 1 .. n
      BY <1>0, <2>2
    <3> QED  BY <1>2, <2>2, <3>1
  <2>5. ASSUME NEW k \in 1 .. Len(g) PROVE Edge(g[k], W[Len(q) + k], W[Len(q) + k - 1])
    <3>1. CASE k = 1
      <4>1. Len(q) + k = n /\ Len(q) + k - 1 = n - 1
        BY <1>0, <2>2, <3>1
      <4> QED  BY <1>1, <2>1, <2>3, <3>1, <4>1
    <3>2. CASE k # 1
      <4>1. /\ k \in 2 .. m + 1 /\ k - 1 \in 1 .. m
            /\ Len(q) + k = n + (k - 1) /\ Len(q) + k - 1 = n + (k - 1) - 1
        BY <1>0, <2>2, <2>3, <3>2
      <4> QED  BY <1>2, <2>3, <4>1
    <3> QED  BY <3>1, <3>2
  <2>6. ASSUME NEW k \in 0 .. Len(q) + Len(g) PROVE k \in 0 .. n + m
    BY <1>0, <2>2, <2>3
  <2>7. Between(q, g, W, B)
    <3> HIDE DEF n, m
    <3> QED  BY <1>2, <2>4, <2>5, <2>6 DEF Between
  <2> QED  BY <2>2, <2>7 DEF Legal, q, g
<1> QED  BY <1>4, <1>5

LEMMA LegalRedo ==
  ASSUME NEW S, NEW p \in Seq(S), NEW f \in Seq(S), f # <<>>,
         NEW t, NEW B, Legal(p, f, t, B)
  PROVE  /\ t \in Tree /\ Single(t)
         /\ \E x \in Tree :
              /\ Edge(Head(f), x, t)
              /\ \A rev \in S : Reversed(rev, Head(f), t)
                   => Legal(Append(p, rev), Tail(f), x, B)
<1> DEFINE n == Len(p)
           m == Len(f)
<1>0. /\ n \in Nat /\ m \in Nat \ {0} /\ Head(f) = f[1]
      /\ \A k \in 1 .. n : p[k] \in S
      /\ \A k \in 1 .. m : f[k] \in S
  BY EmptySeq, LenProperties, ElementOfSeq
<1>1. PICK W : Between(p, f, W, B) /\ W[n] = t
  BY DEF Legal
<1>2. /\ \A k \in 0 .. n + m :
           W[k] \in Tree /\ Single(W[k]) /\ \A c \in Control \ B : Bare(W[k], c)
      /\ \A k \in 1 .. n : Edge(p[k], W[k - 1], W[k])
      /\ \A k \in 1 .. m : Edge(f[k], W[n + k], W[n + k - 1])
  BY <1>1 DEF Between
<1>3. /\ n \in 0 .. n + m /\ n + 1 \in 0 .. n + m /\ 1 \in 1 .. m /\ n + 1 - 1 = n
  BY <1>0
<1>4. t \in Tree /\ Single(t) /\ W[n + 1] \in Tree /\ Edge(f[1], W[n + 1], t)
  BY <1>1, <1>2, <1>3
<1>5. ASSUME NEW rev \in S, Reversed(rev, f[1], t)
      PROVE  Legal(Append(p, rev), Tail(f), W[n + 1], B)
  <2> DEFINE q == Append(p, rev)
             g == Tail(f)
  <2>1. Edge(rev, t, W[n + 1])
    BY <1>4, <1>5, EdgeBack
  <2>2. /\ Len(q) = n + 1 /\ q[n + 1] = rev
        /\ \A k \in 1 .. n : q[k] = p[k]
    BY AppendProperties
  <2>3. Len(g) = m - 1 /\ \A k \in 1 .. m - 1 : g[k] = f[k + 1]
    BY <1>0, HeadTailProperties
  <2> HIDE DEF q, g
  <2>4. ASSUME NEW k \in 1 .. Len(q) PROVE Edge(q[k], W[k - 1], W[k])
    <3>1. CASE k = n + 1
      <4>1. k - 1 = n
        BY <1>0, <3>1
      <4> QED  BY <1>1, <2>1, <2>2, <3>1, <4>1
    <3>2. CASE k # n + 1
      <4>1. k \in 1 .. n
        BY <1>0, <2>2, <3>2
      <4> QED  BY <1>2, <2>2, <4>1
    <3> QED  BY <3>1, <3>2
  <2>5. ASSUME NEW k \in 1 .. Len(g) PROVE Edge(g[k], W[Len(q) + k], W[Len(q) + k - 1])
    <3>1. /\ k \in 1 .. m - 1 /\ k + 1 \in 1 .. m
          /\ Len(q) + k = n + (k + 1) /\ Len(q) + k - 1 = n + (k + 1) - 1
      BY <1>0, <2>2, <2>3
    <3> QED  BY <1>2, <2>3, <3>1
  <2>6. ASSUME NEW k \in 0 .. Len(q) + Len(g) PROVE k \in 0 .. n + m
    BY <1>0, <2>2, <2>3
  <2>7. Between(q, g, W, B)
    <3> HIDE DEF n, m
    <3> QED  BY <1>2, <2>4, <2>5, <2>6 DEF Between
  <2> QED  BY <2>2, <2>7 DEF Legal, q, g
<1> QED  BY <1>0, <1>4, <1>5

(* A push: off is 1 when the history was full and forgets its oldest.      *)
LEMMA LegalPush ==
  ASSUME NEW S, NEW p \in Seq(S), NEW f \in Seq(S), NEW t, NEW B, Legal(p, f, t, B),
         NEW q \in Seq(S), q = p \/ (p # <<>> /\ q = Tail(p)),
         NEW u \in Tree, Single(u), NEW C, B \subseteq C,
         \A c \in Control \ C : Bare(u, c),
         NEW cmd \in S, Edge(cmd, t, u)
  PROVE  Legal(Append(q, cmd), <<>>, u, C)
<1> DEFINE n == Len(p)
           m == Len(f)
           off == n - Len(q)
<1>0. /\ n \in Nat /\ m \in Nat /\ Len(q) \in Nat /\ off \in {0, 1}
      /\ \A k \in 1 .. Len(q) : q[k] = p[k + off]
  <2>1. CASE q = p
    BY <2>1, LenProperties
  <2>2. CASE p # <<>> /\ q = Tail(p)
    BY <2>2, LenProperties, HeadTailProperties
  <2> QED  BY <2>1, <2>2
<1>1. PICK W : Between(p, f, W, B) /\ W[n] = t
  BY DEF Legal
<1>2. /\ \A k \in 0 .. n + m :
           W[k] \in Tree /\ Single(W[k]) /\ \A c \in Control \ B : Bare(W[k], c)
      /\ \A k \in 1 .. n : Edge(p[k], W[k - 1], W[k])
  BY <1>1 DEF Between
<1> DEFINE r == Append(q, cmd)
           V == [k \in 0 .. Len(q) + 1 |-> IF k = Len(q) + 1 THEN u ELSE W[k + off]]
<1>3. /\ Len(r) = Len(q) + 1 /\ r[Len(q) + 1] = cmd
      /\ \A k \in 1 .. Len(q) : r[k] = q[k]
  BY AppendProperties
<1>4. V[Len(q) + 1] = u /\ \A k \in 0 .. Len(q) : V[k] = W[k + off]
  BY <1>0
<1>5. Len(q) + off = n
  BY <1>0
<1> HIDE DEF V, r, off
<1>6. ASSUME NEW k \in 0 .. Len(r) + 0
      PROVE  V[k] \in Tree /\ Single(V[k]) /\ \A c \in Control \ C : Bare(V[k], c)
  <2>1. CASE k = Len(q) + 1
    BY <1>4, <2>1
  <2>2. CASE k # Len(q) + 1
    <3>1. k \in 0 .. Len(q) /\ k + off \in 0 .. n + m
      BY <1>0, <1>3, <1>5, <2>2
    <3> QED  BY <1>2, <1>4, <3>1
  <2> QED  BY <2>1, <2>2
<1>7. ASSUME NEW k \in 1 .. Len(r) PROVE Edge(r[k], V[k - 1], V[k])
  <2>1. CASE k = Len(q) + 1
    <3>1. k - 1 = Len(q) /\ Len(q) \in 0 .. Len(q)
      BY <1>0, <2>1
    <3>2. V[k - 1] = t
      BY <1>1, <1>4, <1>5, <3>1
    <3> QED  BY <1>3, <1>4, <2>1, <3>2
  <2>2. CASE k # Len(q) + 1
    <3>1. /\ k \in 1 .. Len(q) /\ k + off \in 1 .. n /\ k \in 0 .. Len(q)
          /\ k - 1 \in 0 .. Len(q) /\ (k - 1) + off = (k + off) - 1
      BY <1>0, <1>3, <1>5, <2>2
    <3> QED  BY <1>0, <1>2, <1>3, <1>4, <3>1
  <2> QED  BY <2>1, <2>2
<1>8. Between(r, <<>>, V, C)
  <2>1. Len(<<>>) = 0 /\ 1 .. 0 = {}
    OBVIOUS
  <2> QED  BY <1>6, <1>7, <2>1 DEF Between
<1>9. V[Len(r)] = u
  BY <1>3, <1>4
<1> QED  BY <1>8, <1>9 DEF Legal, r

(* A control pasted where it cannot be seen is in all the trees at once.   *)
LEMMA LegalLeaf ==
  ASSUME NEW S, NEW p \in Seq(S), NEW f \in Seq(S), NEW t, NEW B, Legal(p, f, t, B),
         NEW c \in Control \ B, NEW o \in Owner, o \in B \cup {Base}
  PROVE  Legal(p, f, [t EXCEPT ![c] = {o}], B \cup {c})
<1> DEFINE N == Len(p) + Len(f)
           Leaf(x) == [x EXCEPT ![c] = {o}]
<1>0. Len(p) \in 0 .. N /\ Len(p) \in Nat /\ Len(f) \in Nat /\ o # c
  BY LenProperties, FormAssumption
<1>1. PICK W : Between(p, f, W, B) /\ W[Len(p)] = t
  BY DEF Legal
<1> DEFINE V == [k \in 0 .. N |-> Leaf(W[k])]
<1>2. \A k \in 0 .. N : V[k] = Leaf(W[k])
  OBVIOUS
<1> HIDE DEF V
<1>3. ASSUME NEW k \in 0 .. N
      PROVE  /\ V[k] \in Tree /\ Single(V[k])
             /\ \A d \in Control \ (B \cup {c}) : Bare(V[k], d)
  <2>1. /\ W[k] \in Tree /\ Single(W[k]) /\ \A d \in Control \ B : Bare(W[k], d)
    BY <1>1 DEF Between
  <2>2. V[k] = [W[k] EXCEPT ![c] = {o}]
    BY <1>2
  <2>3. V[k] \in Tree /\ V[k][c] = {o} /\ Alike(W[k], V[k], c)
    BY <2>1, <2>2 DEF Tree, Alike
  <2>4. Single(V[k])
    BY <2>1, <2>3 DEF Single, Alike
  <2>5. ASSUME NEW d \in Control \ (B \cup {c}) PROVE Bare(V[k], d)
    <3>1. o # d /\ d # c
      BY FormAssumption
    <3> QED  BY <2>1, <2>3, <3>1 DEF Bare, Alike
  <2> QED  BY <2>3, <2>4, <2>5
<1>4. ASSUME NEW cmd, NEW i \in 0 .. N, NEW j \in 0 .. N, Edge(cmd, W[i], W[j])
      PROVE  Edge(cmd, V[i], V[j])
  <2>1. W[i] \in Tree /\ Bare(W[i], c) /\ W[j] \in Tree /\ Bare(W[j], c)
    BY <1>1 DEF Between
  <2>2. o \in Owner \ {c}
    BY <1>0
  <2>3. Edge(cmd, [W[i] EXCEPT ![c] = {o}], [W[j] EXCEPT ![c] = {o}])
    BY <1>4, <2>1, <2>2, EdgeLeaf
  <2> QED  BY <1>2, <2>3
<1>5. ASSUME NEW k \in 1 .. Len(p) PROVE Edge(p[k], V[k - 1], V[k])
  <2>1. k \in 0 .. N /\ k - 1 \in 0 .. N
    BY <1>0
  <2> QED  BY <1>1, <1>4, <2>1 DEF Between
<1>6. ASSUME NEW k \in 1 .. Len(f) PROVE Edge(f[k], V[Len(p) + k], V[Len(p) + k - 1])
  <2>1. Len(p) + k \in 0 .. N /\ Len(p) + k - 1 \in 0 .. N
    BY <1>0
  <2> QED  BY <1>1, <1>4, <2>1 DEF Between
<1>7. Between(p, f, V, B \cup {c})
  BY <1>3, <1>5, <1>6 DEF Between
<1>8. V[Len(p)] = [t EXCEPT ![c] = {o}]
  BY <1>0, <1>1, <1>2
<1> QED  BY <1>7, <1>8 DEF Legal

(* Every command of the history is about controls that are on the form or  *)
(* held.                                                                   *)
LEMMA LegalLive ==
  ASSUME NEW S, NEW p \in Seq(S), NEW f \in Seq(S), NEW t, NEW B, Legal(p, f, t, B),
         NEW R, Base \in R, \A cmd \in Elements(p \o f) : Held(cmd) => cmd.on \in R
  PROVE  \A cmd \in Elements(p \o f) :
           /\ cmd.on \in Under(t, R) /\ cmd.at \in Under(t, R)
           /\ cmd.on \in B
<1> DEFINE n == Len(p)
           m == Len(f)
           all == p \o f
<1>0. n \in Nat /\ m \in Nat
  BY LenProperties
<1>1. /\ all \in Seq(S) /\ Len(all) = n + m
      /\ \A k \in 1 .. n : all[k] = p[k]
      /\ \A k \in 1 .. m : all[n + k] = f[k]
  BY <1>0, ConcatProperties
<1>2. Elements(all) = {all[k] : k \in 1 .. n + m}
  BY <1>1 DEF Elements
<1> HIDE DEF all, n, m
<1>3. PICK W : Between(p, f, W, B) /\ W[n] = t
  BY DEF Legal, n
<1>4. /\ \A k \in 0 .. n + m :
           W[k] \in Tree /\ Single(W[k]) /\ \A c \in Control \ B : Bare(W[k], c)
      /\ \A k \in 1 .. n : Edge(p[k], W[k - 1], W[k])
      /\ \A k \in 1 .. m : Edge(f[k], W[n + k], W[n + k - 1])
  BY <1>3 DEF Between, n, m
<1>5. ASSUME NEW k \in 1 .. n + m
      PROVE  Edge(all[k], W[k - 1], W[k]) \/ Edge(all[k], W[k], W[k - 1])
  <2>1. CASE k <= n
    BY <1>0, <1>1, <1>4, <2>1
  <2>2. CASE ~(k <= n)
    <3>1. PICK j \in 1 .. m : k = n + j
      <4>1. k - n \in 1 .. m /\ n + (k - n) = k
        BY <1>0, <2>2
      <4> QED  BY <4>1
    <3>2. all[k] = f[j] /\ Edge(f[j], W[n + j], W[n + j - 1])
      BY <1>1, <1>4, <3>1
    <3>3. n + j = k /\ n + j - 1 = k - 1
      BY <1>0, <3>1
    <3>4. Edge(f[j], W[k], W[k - 1])
      BY ONLY <3>2, <3>3
    <3> QED  BY <3>2, <3>4
  <2> QED  BY <2>1, <2>2
<1>6. \A cmd \in Elements(all) : Held(cmd) => cmd.on \in R
  BY DEF all
<1>7. ASSUME NEW k \in 1 .. n + m
      PROVE  /\ Under(W[k], R) = Under(W[k - 1], R)
             /\ all[k].on \in Under(W[k], R) /\ all[k].at \in Under(W[k], R)
             /\ all[k].on \in B
  <2>1. k \in 0 .. n + m /\ k - 1 \in 0 .. n + m
    BY <1>0
  <2>2. Held(all[k]) => all[k].on \in R
    BY <1>2, <1>6
  <2>3. /\ W[k] \in Tree /\ Single(W[k]) /\ W[k - 1] \in Tree /\ Single(W[k - 1])
        /\ \A c \in Control \ B : Bare(W[k], c) /\ Bare(W[k - 1], c)
    BY <1>4, <2>1
  <2>4. CASE Edge(all[k], W[k - 1], W[k])
    BY <2>2, <2>3, <2>4, EdgeLive, EdgeBorn
  <2>5. CASE Edge(all[k], W[k], W[k - 1])
    BY <2>2, <2>3, <2>5, EdgeLive, EdgeBorn
  <2> QED  BY <1>5, <2>4, <2>5
<1>8. \A k \in 0 .. n + m : Under(W[k], R) = Under(W[0], R)
  <2> DEFINE same == {k \in 0 .. n + m : Under(W[k], R) = Under(W[0], R)}
  <2>1. 0 \in same
    BY <1>0
  <2>2. ASSUME NEW k \in 0 .. (n + m) - 1, k \in same PROVE k + 1 \in same
    <3>1. k + 1 \in 1 .. n + m /\ (k + 1) - 1 = k /\ k + 1 \in 0 .. n + m
      BY <1>0
    <3>2. Under(W[k + 1], R) = Under(W[k], R)
      BY <1>7, <3>1
    <3> QED  BY <2>2, <3>1, <3>2
  <2>3. n + m \in Nat
    BY <1>0
  <2> HIDE DEF same
  <2>4. \A k \in 0 .. n + m : k \in same
    BY <2>1, <2>2, <2>3, Reaches
  <2> QED  BY <2>4 DEF same
<1>9. Under(t, R) = Under(W[0], R)
  <2>1. n \in 0 .. n + m
    BY <1>0
  <2> QED  BY <1>3, <1>8, <2>1
<1>10. ASSUME NEW k \in 1 .. n + m
       PROVE  /\ all[k].on \in Under(t, R) /\ all[k].at \in Under(t, R)
              /\ all[k].on \in B
  <2>1. k \in 0 .. n + m
    BY <1>0
  <2> QED  BY <1>7, <1>8, <1>9, <2>1
<1>11. ASSUME NEW cmd \in Elements(all)
       PROVE  cmd.on \in Under(t, R) /\ cmd.at \in Under(t, R) /\ cmd.on \in B
  BY <1>2, <1>10
<1> QED  BY <1>11 DEF all

-----------------------------------------------------------------------------
(* Reference counts.  h says how many references to a control are held by  *)
(* commands, or by a handler between two calls; F is what was deleted, B   *)
(* what was ever created.  An instance is alive if it is held, or below    *)
(* one that is, or on the form.                                            *)

Roots(h) == {Base} \cup {c \in Control : h[c] > 0}
Live(t, h) == Under(t, Roots(h))

Acyclic(t) == \A c \in Control : \A o \in t[c] : o \notin Under(t, {c})

Shape(t, B) ==
  /\ t \in Tree /\ Single(t) /\ Acyclic(t) /\ B \subseteq Control
  /\ \A c \in Control \ B : Bare(t, c)

Counted(t, h, ref, F, B) ==
  /\ Shape(t, B)
  /\ h \in [Control -> Nat] /\ ref \in [Control -> Int]
  /\ \A c \in Control \ B : h[c] = 0
  /\ F = B \ Live(t, h)
  /\ \A c \in B : ref[c] = (IF t[c] \subseteq F THEN 0 ELSE 1) + h[c]

LEMMA LiveBorn ==
  ASSUME NEW t, NEW h, NEW B, Shape(t, B), \A c \in Control \ B : h[c] = 0
  PROVE  /\ Live(t, h) \subseteq B \cup {Base}
         /\ Base \in Live(t, h)
         /\ Kids(t, Live(t, h)) \subseteq Live(t, h)
         /\ \A c \in Control : \A o \in t[c] : o \in B \cup {Base}
<1>1. Roots(h) \subseteq B \cup {Base}
  BY DEF Roots
<1>2. Kids(t, B \cup {Base}) \subseteq B \cup {Base}
  BY DEF Kids, Shape, Bare
<1>3. Live(t, h) \subseteq B \cup {Base}
  BY <1>1, <1>2, UnderLeast DEF Live
<1>4. Base \in Live(t, h) /\ Kids(t, Live(t, h)) \subseteq Live(t, h)
  BY UnderClosed DEF Live, Roots
<1>5. \A c \in Control : \A o \in t[c] : o \in B \cup {Base}
  BY FormAssumption DEF Shape, Tree, Bare, Owner
<1> QED  BY <1>3, <1>4, <1>5

(* A root that is alive without being one may be added. *)
LEMMA RootsGrow ==
  ASSUME NEW t, NEW R, NEW S, S \subseteq Under(t, R)
  PROVE  Under(t, R \cup S) = Under(t, R)
<1>1. R \subseteq Under(t, R) /\ Kids(t, Under(t, R)) \subseteq Under(t, R)
  BY UnderClosed
<1>2. Under(t, R \cup S) \subseteq Under(t, R)
  BY <1>1, UnderLeast
<1>3. R \subseteq Under(t, R \cup S) /\ Kids(t, Under(t, R \cup S)) \subseteq Under(t, R \cup S)
  <2>1. R \cup S \subseteq Under(t, R \cup S)
    BY UnderClosed
  <2> QED  BY <2>1, UnderClosed
<1>4. Under(t, R) \subseteq Under(t, R \cup S)
  BY <1>3, UnderLeast
<1> QED  BY <1>2, <1>4

(* A command, or a handler, takes a reference. *)
LEMMA CountHold ==
  ASSUME NEW t, NEW h, NEW ref, NEW F, NEW B, Counted(t, h, ref, F, B),
         NEW c \in B \ F
  PROVE  Counted(t, [h EXCEPT ![c] = @ + 1], [ref EXCEPT ![c] = @ + 1], F, B)
<1> DEFINE k == [h EXCEPT ![c] = @ + 1]
           r == [ref EXCEPT ![c] = @ + 1]
<1>1. /\ c \in Control /\ B \subseteq Control
      /\ h \in [Control -> Nat] /\ ref \in [Control -> Int]
      /\ F = B \ Live(t, h)
  BY DEF Counted, Shape
<1>2. k \in [Control -> Nat] /\ r \in [Control -> Int]
  BY <1>1
<1>3. Roots(k) = Roots(h) \cup {c}
  BY <1>1 DEF Roots
<1>4. Live(t, k) = Live(t, h)
  <2>1. {c} \subseteq Under(t, Roots(h))
    BY <1>1 DEF Live
  <2>2. Under(t, Roots(h) \cup {c}) = Under(t, Roots(h))
    BY <2>1, RootsGrow
  <2> QED  BY <1>3, <2>2 DEF Live
<1>5. \A d \in Control \ B : k[d] = 0
  BY <1>1 DEF Counted
<1>6. \A d \in B : r[d] = (IF t[d] \subseteq F THEN 0 ELSE 1) + k[d]
  <2> SUFFICES ASSUME NEW d \in B
               PROVE  r[d] = (IF t[d] \subseteq F THEN 0 ELSE 1) + k[d]
    OBVIOUS
  <2>1. ref[d] = (IF t[d] \subseteq F THEN 0 ELSE 1) + h[d] /\ h[d] \in Nat
    BY <1>1 DEF Counted
  <2> QED  BY <1>1, <2>1
<1> QED  BY <1>1, <1>2, <1>4, <1>5, <1>6 DEF Counted

(* The controls of S are taken off their owners; the handler holds them.   *)
Off(t, S) == [c \in Control |-> IF c \in S THEN {} ELSE t[c]]
More(h, S) == [c \in Control |-> IF c \in S THEN h[c] + 1 ELSE h[c]]

LEMMA CountTakeOff ==
  ASSUME NEW t, NEW h, NEW ref, NEW F, NEW B, Counted(t, h, ref, F, B),
         NEW S, S \subseteq B, \A c \in S : ~(t[c] \subseteq F)
  PROVE  Counted(Off(t, S), More(h, S), ref, F, B)
<1> DEFINE x == Off(t, S)
           k == More(h, S)
<1>0. /\ x = [c \in Control |-> IF c \in S THEN {} ELSE t[c]]
      /\ k = [c \in Control |-> IF c \in S THEN h[c] + 1 ELSE h[c]]
  BY DEF Off, More
<1> HIDE DEF x, k
<1> USE <1>0
<1>1. /\ t \in Tree /\ Single(t) /\ Acyclic(t) /\ B \subseteq Control
      /\ h \in [Control -> Nat] /\ ref \in [Control -> Int]
      /\ F = B \ Live(t, h)
      /\ \A c \in Control \ B : Bare(t, c)
      /\ \A c \in Control \ B : h[c] = 0
  BY DEF Counted, Shape
<1>2. x \in Tree /\ Single(x) /\ k \in [Control -> Nat]
  BY <1>1 DEF Tree, Single
<1>3. \A c \in Control \ B : Bare(x, c) /\ k[c] = 0
  BY <1>1 DEF Bare
<1>4. Acyclic(x)
  <2> SUFFICES ASSUME NEW c \in Control, NEW o \in x[c], o \in Under(x, {c}) PROVE FALSE
    BY DEF Acyclic
  <2>1. {c} \subseteq Under(t, {c})
    BY UnderClosed
  <2>2. Under(x, {c}) \subseteq Under(t, {c})
    BY <2>1, UnderGrows
  <2> QED  BY <1>1, <2>2 DEF Acyclic
<1>5. Roots(k) = Roots(h) \cup S
  BY <1>1 DEF Roots
<1>6. S \subseteq Live(t, h)
  <2> SUFFICES ASSUME NEW c \in S PROVE c \in Live(t, h)
    OBVIOUS
  <2>1. PICK o \in t[c] : o \notin F
    OBVIOUS
  <2>2. o \in Live(t, h) /\ Kids(t, Live(t, h)) \subseteq Live(t, h)
    <3>1. Shape(t, B)
      BY DEF Counted
    <3>2. o \in B \cup {Base} /\ Base \in Live(t, h)
      BY <1>1, <3>1, LiveBorn
    <3> QED  BY <1>1, <2>1, <3>1, <3>2, LiveBorn
  <2> QED  BY <1>1, <2>2 DEF Kids
<1>7. Under(t, Roots(k)) = Live(t, h)
  <2>1. S \subseteq Under(t, Roots(h))
    BY <1>6 DEF Live
  <2>2. Under(t, Roots(h) \cup S) = Under(t, Roots(h))
    BY <2>1, RootsGrow
  <2> QED  BY <1>5, <2>2 DEF Live
<1>8. Under(x, Roots(k)) = Under(t, Roots(k))
  <2>1. Under(x, Roots(k)) \subseteq Under(t, Roots(k))
    <3>1. Roots(k) \subseteq Under(t, Roots(k))
      BY UnderClosed
    <3> QED  BY <3>1, UnderGrows
  <2>2. S \subseteq Roots(k) /\ Roots(k) \subseteq Under(x, Roots(k))
    BY <1>5, UnderClosed
  <2>3. Kids(t, Under(x, Roots(k))) \subseteq Under(x, Roots(k))
    <3> SUFFICES ASSUME NEW d \in Control, NEW o \in Under(x, Roots(k)), o \in t[d], d \notin S
                 PROVE  d \in Under(x, Roots(k))
      BY <2>2 DEF Kids
    <3>1. d \in Kids(x, Under(x, Roots(k)))
      BY DEF Kids
    <3> QED  BY <3>1, UnderClosed
  <2>4. Under(t, Roots(k)) \subseteq Under(x, Roots(k))
    BY <2>2, <2>3, UnderLeast
  <2> QED  BY <2>1, <2>4
<1>9. F = B \ Live(x, k)
  BY <1>1, <1>7, <1>8 DEF Live
<1>10. \A c \in B : ref[c] = (IF x[c] \subseteq F THEN 0 ELSE 1) + k[c]
  <2> SUFFICES ASSUME NEW c \in B
               PROVE  ref[c] = (IF x[c] \subseteq F THEN 0 ELSE 1) + k[c]
    OBVIOUS
  <2>1. ref[c] = (IF t[c] \subseteq F THEN 0 ELSE 1) + h[c] /\ h[c] \in Nat
    BY <1>1 DEF Counted
  <2>2. CASE c \in S
    <3>1. x[c] = {} /\ k[c] = h[c] + 1
      BY <1>1, <2>2
    <3> QED  BY <2>1, <2>2, <3>1
  <2>3. CASE c \notin S
    BY <1>1, <2>1, <2>3
  <2> QED  BY <2>2, <2>3
<1> QED  BY <1>1, <1>2, <1>3, <1>4, <1>9, <1>10 DEF Counted, Shape, x, k

(* A control that ends up on the form closes no cycle.                     *)
LEMMA AcyclicOn ==
  ASSUME NEW t \in Tree, NEW x \in Tree, Single(t), Single(x), Acyclic(t),
         NEW c \in Control, NEW p \in Top(t), x[c] = {p}, Alike(t, x, c),
         c \in Top(x), Top(t) \subseteq Top(x)
  PROVE  Acyclic(x)
<1> SUFFICES ASSUME NEW d \in Control, NEW o \in x[d], o \in Under(x, {d}) PROVE FALSE
  BY DEF Acyclic
<1>1. d \notin Top(x)
  BY NoCycle
<1>2. d # c /\ o \in t[d]
  BY <1>1 DEF Alike
<1>3. Under(t, {d}) \cap Top(t) = {}
  BY <1>1, Apart
<1>4. Kids(x, Under(t, {d})) \subseteq Under(t, {d})
  <2> SUFFICES ASSUME NEW e \in Control, NEW y \in Under(t, {d}), y \in x[e]
               PROVE  e \in Under(t, {d})
    BY DEF Kids
  <2>1. e # c
    BY <1>3
  <2>2. e \in Kids(t, Under(t, {d}))
    BY <2>1 DEF Kids, Alike
  <2> QED  BY <2>2, UnderClosed
<1>5. {d} \subseteq Under(t, {d})
  BY UnderClosed
<1>6. Under(x, {d}) \subseteq Under(t, {d})
  BY <1>4, <1>5, UnderLeast
<1> QED  BY <1>2, <1>6 DEF Acyclic

(* A control that is held is put on the form; the holder lets go.          *)
LEMMA CountPutOn ==
  ASSUME NEW t, NEW h, NEW ref, NEW F, NEW B, Counted(t, h, ref, F, B),
         NEW c \in B, t[c] = {}, h[c] > 0, NEW p \in Owner, p \in Top(t),
         NEW x, Hung(t, x, c, p)
  PROVE  Counted(x, [h EXCEPT ![c] = @ - 1], ref, F, B)
<1> DEFINE k == [h EXCEPT ![c] = @ - 1]
<1>1. /\ t \in Tree /\ Single(t) /\ Acyclic(t) /\ B \subseteq Control
      /\ h \in [Control -> Nat] /\ ref \in [Control -> Int]
      /\ F = B \ Live(t, h) /\ c \in Control
      /\ \A d \in Control \ B : Bare(t, d)
      /\ \A d \in Control \ B : h[d] = 0
  BY DEF Counted, Shape
<1>2. x \in Tree /\ x[c] = {p} /\ Alike(t, x, c) /\ Alike(x, t, c)
  BY DEF Hung
<1>3. Single(x) /\ k \in [Control -> Nat]
  BY <1>1, <1>2 DEF Single, Alike
<1>4. c \in Top(x) /\ Top(t) \subseteq Top(x)
  <2>1. \A d \in Control : t[d] \subseteq x[d]
    BY <1>2 DEF Alike
  <2>2. {Base} \subseteq Under(x, {Base})
    BY UnderClosed
  <2>3. Under(t, {Base}) \subseteq Under(x, {Base})
    BY <2>1, <2>2, UnderGrows
  <2>4. c \in Kids(x, Top(x))
    BY <1>1, <1>2, <2>3 DEF Kids, Top
  <2> QED  BY <2>3, <2>4, UnderClosed DEF Top
<1>5. TakenOff(x, t, c)
  BY <1>1, <1>2, <1>3, <1>4 DEF TakenOff
<1>6. Top(t) = Top(x) \ Under(x, {c}) /\ Under(t, {c}) = Under(x, {c})
  <2> HIDE <1>1, <1>2, <1>3, <1>4
  <2>1. c \in Control /\ TakenOff(x, t, c)
    BY <1>1, <1>5
  <2>2. TopTakenOff(x, t, c)
    BY ONLY <2>1, TakenOffTop
  <2> QED  BY <2>2 DEF TopTakenOff
<1>7. \A d \in Control \ B : Bare(x, d) /\ k[d] = 0
  <2>1. p \in B \cup {Base}
    <3>1. Shape(t, B)
      BY DEF Counted
    <3>2. Top(t) \subseteq Live(t, h)
      BY TopUnder DEF Live, Roots
    <3>3. Live(t, h) \subseteq B \cup {Base}
      BY <1>1, <3>1, LiveBorn
    <3> QED  BY <3>2, <3>3
  <2>2. \A d \in Control \ B : d # p /\ d # c
    BY <2>1, FormAssumption
  <2> QED  BY <1>1, <1>2, <2>2 DEF Bare, Alike
<1>8. Acyclic(x)
  BY <1>1, <1>2, <1>3, <1>4, AcyclicOn
<1>9. Live(x, k) = Live(t, h)
  <2>1. Roots(h) = Roots(k) \cup {c}
    <3>1. \A d \in Control : h[d] > 0 <=> k[d] > 0 \/ d = c
      BY <1>1
    <3> QED  BY <1>1, <3>1 DEF Roots
  <2>2. {c} \subseteq Under(x, Roots(k))
    <3>1. Base \in Roots(k)
      BY DEF Roots
    <3> QED  BY <1>4, <3>1, TopUnder
  <2>3. Under(x, Roots(h)) = Under(x, Roots(k))
    <3>1. Under(x, Roots(k) \cup {c}) = Under(x, Roots(k))
      BY <2>2, RootsGrow
    <3> QED  BY <2>1, <3>1
  <2>4. c \in Under(x, Roots(h)) /\ c \in Under(t, Roots(h))
    BY <2>1, UnderClosed
  <2>5. Under(x, Roots(h)) = Under(t, Roots(h))
    BY <1>1, <1>2, <2>4, Rehung
  <2> QED  BY <2>3, <2>5 DEF Live
<1>10. \A d \in B : ref[d] = (IF x[d] \subseteq F THEN 0 ELSE 1) + k[d]
  <2> SUFFICES ASSUME NEW d \in B
               PROVE  ref[d] = (IF x[d] \subseteq F THEN 0 ELSE 1) + k[d]
    OBVIOUS
  <2>1. ref[d] = (IF t[d] \subseteq F THEN 0 ELSE 1) + h[d] /\ h[d] \in Nat
    BY <1>1 DEF Counted
  <2>2. CASE d = c
    <3>1. p \notin F
      <4>1. Top(t) \subseteq Live(t, h)
        BY TopUnder DEF Live, Roots
      <4> QED  BY <1>1, <4>1
    <3>2. x[d] = {p} /\ t[d] = {} /\ k[d] = h[d] - 1
      BY <1>1, <1>2, <2>2
    <3>3. ~(x[d] \subseteq F) /\ t[d] \subseteq F
      BY <3>1, <3>2
    <3> QED  BY <2>1, <3>2, <3>3
  <2>3. CASE d # c
    BY <1>1, <1>2, <2>1, <2>3 DEF Alike
  <2> QED  BY <2>2, <2>3
<1> QED  BY <1>1, <1>2, <1>3, <1>7, <1>8, <1>9, <1>10 DEF Counted, Shape

(* A control is dragged from one place on the form to another.             *)
LEMMA CountMove ==
  ASSUME NEW t, NEW h, NEW ref, NEW F, NEW B, Counted(t, h, ref, F, B),
         NEW c \in Control, c \in Top(t), NEW p \in Top(t) \ Under(t, {c}), p \in Owner,
         NEW x, Hung(t, x, c, p)
  PROVE  Counted(x, h, ref, F, B)
<1>1. /\ t \in Tree /\ Single(t) /\ Acyclic(t) /\ B \subseteq Control
      /\ h \in [Control -> Nat] /\ ref \in [Control -> Int]
      /\ F = B \ Live(t, h)
      /\ \A d \in Control \ B : Bare(t, d)
      /\ \A d \in Control \ B : h[d] = 0
      /\ Shape(t, B)
  BY DEF Counted, Shape
<1>2. x \in Tree /\ x[c] = {p} /\ Alike(t, x, c) /\ Alike(x, t, c)
  BY DEF Hung
<1>3. Base \in Roots(h)
  BY DEF Roots
<1>4. /\ Single(x) /\ c \in Top(x) /\ Top(x) = Top(t)
      /\ Under(x, Roots(h)) = Under(t, Roots(h))
  <2>1. Hung(t, x, c, p)
    BY <1>2 DEF Hung
  <2>2. /\ t \in Tree /\ Single(t) /\ c \in Control /\ c \in Top(t)
        /\ p \in Top(t) \ Under(t, {c}) /\ p \in Owner
    BY <1>1
  <2> QED  BY ONLY <1>3, <2>1, <2>2, MovedTop
<1>5. Top(t) \subseteq Live(t, h) /\ Live(t, h) \subseteq B \cup {Base}
  BY <1>1, <1>3, TopUnder, LiveBorn DEF Live
<1>6. Acyclic(x)
  BY <1>1, <1>2, <1>4, AcyclicOn
<1>7. \A d \in Control \ B : Bare(x, d)
  <2>1. \A d \in Control \ B : d # p /\ d # c
    BY <1>5, FormAssumption
  <2> QED  BY <1>1, <1>2, <2>1 DEF Bare, Alike
<1>8. p \notin F /\ ~(t[c] \subseteq F)
  <2>1. c \in Under(t, {Base}) \ {Base}
    BY FormAssumption DEF Top
  <2>2. \E o \in t[c] : o \in Top(t)
    BY <2>1, UnderParent DEF Top
  <2> QED  BY <1>1, <1>5, <2>2
<1>9. \A d \in B : ref[d] = (IF x[d] \subseteq F THEN 0 ELSE 1) + h[d]
  <2> SUFFICES ASSUME NEW d \in B
               PROVE  ref[d] = (IF x[d] \subseteq F THEN 0 ELSE 1) + h[d]
    OBVIOUS
  <2>1. ref[d] = (IF t[d] \subseteq F THEN 0 ELSE 1) + h[d]
    BY DEF Counted
  <2>2. x[d] \subseteq F <=> t[d] \subseteq F
    BY <1>1, <1>2, <1>8 DEF Alike
  <2> QED  BY <2>1, <2>2
<1>10. Live(x, h) = Live(t, h)
  BY <1>4 DEF Live
<1> QED  BY <1>1, <1>2, <1>4, <1>6, <1>7, <1>9, <1>10 DEF Counted, Shape

(* A new control under one that is alive: its parent holds it.             *)
LEMMA CountLeaf ==
  ASSUME NEW t, NEW h, NEW ref, NEW F, NEW B, Counted(t, h, ref, F, B),
         NEW c \in Control \ B, NEW p \in Owner, p \in Live(t, h),
         NEW x, Hung(t, x, c, p)
  PROVE  Counted(x, h, [ref EXCEPT ![c] = 1], F, B \cup {c})
<1> DEFINE r == [ref EXCEPT ![c] = 1]
<1>1. /\ t \in Tree /\ Single(t) /\ Acyclic(t) /\ B \subseteq Control
      /\ h \in [Control -> Nat] /\ ref \in [Control -> Int]
      /\ F = B \ Live(t, h)
      /\ \A d \in Control \ B : Bare(t, d)
      /\ \A d \in Control \ B : h[d] = 0
      /\ Shape(t, B)
  BY DEF Counted, Shape
<1>2. x \in Tree /\ x[c] = {p} /\ Alike(t, x, c) /\ Alike(x, t, c)
  BY DEF Hung
<1>3. p \in B \cup {Base} /\ p # c
  <2>1. Live(t, h) \subseteq B \cup {Base}
    BY <1>1, LiveBorn
  <2> QED  BY <2>1, FormAssumption
<1>4. Single(x) /\ r \in [Control -> Int]
  BY <1>1, <1>2 DEF Single, Alike
<1>5. ASSUME NEW R, c \notin R
      PROVE  Under(x, R) = Under(t, R) \cup {d \in {c} : p \in Under(t, R)}
  <2>1. Bare(t, c) /\ p \in Owner \ {c} /\ Hung(t, x, c, p)
    BY <1>1, <1>2, <1>3 DEF Hung
  <2> QED  BY <1>1, <1>5, <2>1, LeafAdded
<1>6. Live(x, h) = Live(t, h) \cup {c}
  <2>1. c \notin Roots(h)
    BY <1>1, FormAssumption DEF Roots
  <2>2. Under(x, Roots(h)) = Under(t, Roots(h)) \cup {d \in {c} : p \in Under(t, Roots(h))}
    BY <1>5, <2>1
  <2> QED  BY <2>2 DEF Live
<1>7. F = (B \cup {c}) \ Live(x, h)
  BY <1>1, <1>6
<1>8. \A d \in Control \ (B \cup {c}) : Bare(x, d)
  <2>1. \A d \in Control \ (B \cup {c}) : d # p /\ d # c
    BY <1>3, FormAssumption
  <2> QED  BY <1>1, <1>2, <2>1 DEF Bare, Alike
<1>9. Acyclic(x)
  <2> SUFFICES ASSUME NEW d \in Control, NEW o \in x[d], o \in Under(x, {d}) PROVE FALSE
    BY DEF Acyclic
  <2>1. CASE d = c
    <3>1. Kids(x, {c}) = {}
      BY <1>1, <1>2, <1>3 DEF Kids, Bare, Alike
    <3>2. Under(x, {c}) \subseteq {c}
      BY <3>1, UnderLeast
    <3> QED  BY <1>2, <1>3, <2>1, <3>2
  <2>2. CASE d # c
    <3>1. o \in t[d] /\ o # c
      BY <1>1, <1>2, <2>2 DEF Bare, Alike
    <3>2. o \in Under(t, {d})
      BY <1>5, <2>2, <3>1
    <3> QED  BY <1>1, <3>1, <3>2 DEF Acyclic
  <2> QED  BY <2>1, <2>2
<1>10. \A d \in B \cup {c} : r[d] = (IF x[d] \subseteq F THEN 0 ELSE 1) + h[d]
  <2> SUFFICES ASSUME NEW d \in B \cup {c}
               PROVE  r[d] = (IF x[d] \subseteq F THEN 0 ELSE 1) + h[d]
    OBVIOUS
  <2>1. CASE d = c
    <3>1. ~(x[d] \subseteq F) /\ h[d] = 0 /\ r[d] = 1
      BY <1>1, <1>2, <2>1
    <3> QED  BY <3>1
  <2>2. CASE d # c
    <3>1. ref[d] = (IF t[d] \subseteq F THEN 0 ELSE 1) + h[d]
      BY <2>2 DEF Counted
    <3>2. x[d] = t[d] /\ r[d] = ref[d]
      BY <1>1, <1>2, <2>2 DEF Alike
    <3> QED  BY <3>1, <3>2
  <2> QED  BY <2>1, <2>2
<1> QED  BY <1>1, <1>2, <1>4, <1>7, <1>8, <1>9, <1>10 DEF Counted, Shape

(* The holders of the controls of S let go.  The controls are off the      *)
(* form, or there is one and it may be on it.                              *)
Dying(t, ref, S) ==
  {c \in Control : \A D \in SUBSET Control :
     {d \in S \cup Kids(t, D) : ref[d] = 1} \subseteq D => c \in D}
Less(k, S) == [c \in Control |-> k[c] - IF c \in S THEN 1 ELSE 0]

LEMMA CountRelease ==
  ASSUME NEW t, NEW k, NEW ref, NEW F, NEW B, Counted(t, k, ref, F, B),
         NEW S, S \subseteq B, \A c \in S : k[c] > 0,
         (\A c \in S : t[c] \subseteq F) \/ (\E c \in S : S = {c})
  PROVE  /\ Counted(t, Less(k, S), Less(ref, S \cup Kids(t, Dying(t, ref, S))),
                    F \cup Dying(t, ref, S), B)
         /\ S \cap F = {} /\ Dying(t, ref, S) \subseteq Control
<1> DEFINE dead == Dying(t, ref, S)
           h == Less(k, S)
           r == Less(ref, S \cup Kids(t, dead))
<1>0. /\ dead = {c \in Control : \A D \in SUBSET Control :
                     {d \in S \cup Kids(t, D) : ref[d] = 1} \subseteq D => c \in D}
      /\ h = [c \in Control |-> k[c] - IF c \in S THEN 1 ELSE 0]
      /\ r = [c \in Control |->
                       ref[c] - IF c \in S \cup Kids(t, dead) THEN 1 ELSE 0]
  BY DEF Dying, Less
<1> HIDE DEF dead, h, r
<1> USE <1>0
<1> DEFINE Last(D) == {d \in S \cup Kids(t, D) : ref[d] = 1}
           L == Live(t, k)
           M == Live(t, h)
<1>1. /\ t \in Tree /\ Single(t) /\ Acyclic(t) /\ B \subseteq Control
      /\ k \in [Control -> Nat] /\ ref \in [Control -> Int]
      /\ F = B \ L
      /\ \A d \in Control \ B : Bare(t, d)
      /\ \A d \in Control \ B : k[d] = 0
      /\ Shape(t, B)
      /\ \A c \in B : ref[c] = (IF t[c] \subseteq F THEN 0 ELSE 1) + k[c]
  BY DEF Counted, Shape
<1>2. /\ h \in [Control -> Nat] /\ r \in [Control -> Int]
      /\ \A c \in Control : h[c] = k[c] - IF c \in S THEN 1 ELSE 0
  BY <1>1
<1>3. /\ L \subseteq B \cup {Base} /\ Base \in L /\ Kids(t, L) \subseteq L
      /\ \A c \in Control : \A o \in t[c] : o \in B \cup {Base}
  BY <1>1, LiveBorn
<1>4. Roots(k) \subseteq L /\ S \subseteq L
  <2>1. Roots(k) \subseteq Live(t, k)
    BY UnderClosed DEF Live
  <2> QED  BY <1>1, <2>1 DEF Roots
<1>5. dead \subseteq L /\ dead \subseteq B
  <2>1. Last(L \cap Control) \subseteq L \cap Control
    <3>1. Kids(t, L \cap Control) \subseteq Kids(t, L)
      BY DEF Kids
    <3> QED  BY <1>1, <1>3, <1>4, <3>1 DEF Kids
  <2>2. dead \subseteq L \cap Control
    <3> HIDE DEF L
    <3> QED  BY <2>1
  <2> QED  BY <1>3, <2>2, FormAssumption
<1>6. Last(dead) \subseteq dead
  <2> SUFFICES ASSUME NEW d \in Last(dead), NEW D \in SUBSET Control, Last(D) \subseteq D
               PROVE  d \in D
    BY <1>1 DEF Kids
  <2>1. dead \subseteq D
    OBVIOUS
  <2>2. Kids(t, dead) \subseteq Kids(t, D)
    BY <2>1 DEF Kids
  <2> QED  BY <2>2
<1>7. dead \subseteq Last(dead)
  <2>1. Last(Last(dead)) \subseteq Last(dead)
    <3>1. Kids(t, Last(dead)) \subseteq Kids(t, dead)
      BY <1>6 DEF Kids
    <3> QED  BY <3>1
  <2>2. Last(dead) \in SUBSET Control
    BY <1>1 DEF Kids
  <2> QED  BY <2>1, <2>2
<1>8. ASSUME NEW c \in dead
      PROVE  ref[c] = 1 /\ (c \in S \/ \E o \in t[c] : o \in dead)
  <2>1. c \in Last(dead)
    BY <1>7
  <2> QED  BY ONLY <2>1 DEF Kids
<1> HIDE DEF Last
<1>9. ASSUME NEW c \in B, NEW o \in t[c], o \in L PROVE ref[c] = 1 + k[c]
  BY <1>1, <1>9
<1>10. ASSUME NEW c \in dead PROVE h[c] = 0
  <2>1. c \in B /\ c \in Control /\ k[c] \in Nat
    BY <1>1, <1>5
  <2>2. CASE c \in S
    <3>1. h[c] = k[c] - 1 /\ k[c] <= ref[c] /\ ref[c] = 1 /\ k[c] > 0
      BY <1>1, <1>2, <1>8, <2>1, <2>2
    <3> QED  BY <2>1, <3>1
  <2>3. CASE c \notin S
    <3>1. ref[c] = 1 + k[c]
      BY <1>5, <1>8, <1>9, <2>1, <2>3
    <3> QED  BY <1>2, <1>8, <2>1, <2>3, <3>1
  <2> QED  BY <2>2, <2>3
<1>11. M \subseteq L \ dead
  <2> DEFINE Y == L \ dead
  <2>1. Roots(h) \subseteq Y
    <3>1. Base \in Y
      BY <1>3, <1>5, FormAssumption, <1>1
    <3>2. \A c \in Control : h[c] > 0 => k[c] > 0
      BY <1>1, <1>2
    <3>3. \A c \in Control : h[c] > 0 => c \notin dead
      BY <1>10
    <3> QED  BY <1>4, <3>1, <3>2, <3>3 DEF Roots
  <2>2. Kids(t, Y) \subseteq Y
    <3> SUFFICES ASSUME NEW c \in Control, NEW o \in Y, o \in t[c], c \in dead
                 PROVE  FALSE
      BY <1>3 DEF Kids
    <3>1. c \in B /\ ref[c] = 1 + k[c] /\ ref[c] = 1 /\ k[c] \in Nat
      BY <1>1, <1>5, <1>8, <1>9
    <3>2. c \notin S
      BY <3>1
    <3>3. PICK q \in t[c] : q \in dead
      BY <1>8, <3>2
    <3> QED  BY <1>1, <3>3 DEF Single
  <2> HIDE DEF Y
  <2>3. Under(t, Roots(h)) \subseteq Y
    BY <2>1, <2>2, UnderLeast
  <2> QED  BY <2>3 DEF Live, Y
<1>12. /\ L \ dead \subseteq M
       /\ \A c \in B : r[c] = (IF t[c] \subseteq F \cup dead THEN 0 ELSE 1) + h[c]
  <2>1. CASE \A c \in S : t[c] \subseteq F
    <3> DEFINE X == (L \ M) \ dead
    <3>1. ASSUME NEW c \in X PROVE \E o \in t[c] : o \in X
      <4>0. /\ Base \in M /\ Roots(h) \subseteq M /\ Kids(t, M) \subseteq M
        <5>1. Roots(h) \subseteq Live(t, h) /\ Kids(t, Live(t, h)) \subseteq Live(t, h)
          BY UnderClosed DEF Live
        <5> QED  BY <5>1 DEF Roots
      <4>1. c \in B /\ c \in Control /\ k[c] \in Nat /\ h[c] = 0
        BY <1>1, <1>2, <1>3, <4>0 DEF Roots
      <4>2. CASE c \in S
        <5>1. ref[c] = k[c] /\ k[c] = 1
          BY <1>1, <1>2, <2>1, <4>1, <4>2
        <5>2. c \in Last(dead)
          BY <4>2, <5>1 DEF Last
        <5> QED  BY <1>6, <5>2
      <4>3. CASE c \notin S
        <5>1. k[c] = 0
          BY <1>2, <4>1, <4>3
        <5>2. c \in Under(t, Roots(k)) \ Roots(k)
          BY <4>1, <5>1, FormAssumption DEF Live, Roots
        <5>3. PICK o \in t[c] : o \in L
          BY <5>2, UnderParent DEF Live
        <5>4. ref[c] = 1
          BY <1>9, <4>1, <5>1, <5>3
        <5>5. o \notin dead
          <6> SUFFICES ASSUME o \in dead PROVE FALSE
            OBVIOUS
          <6>1. c \in Last(dead)
            BY <4>1, <5>4 DEF Last, Kids
          <6> QED  BY <1>6, <6>1
        <5>6. o \notin M
          BY <4>0, <4>1 DEF Kids
        <5> QED  BY <5>3, <5>5, <5>6
      <4> QED  BY <4>2, <4>3
    <3>2. Roots(k) \subseteq L \ X
      <4> SUFFICES ASSUME NEW c \in Roots(k), c \in X PROVE FALSE
        BY <1>4
      <4>1. Roots(h) \subseteq M
        <5>1. Roots(h) \subseteq Live(t, h)
          BY UnderClosed DEF Live
        <5> QED  BY <5>1
      <4>2. c \in Control /\ k[c] > 0 /\ ~(h[c] > 0) /\ c \in B
        BY <1>3, <4>1, FormAssumption DEF Roots
      <4>3. c \in S
        BY <1>1, <1>2, <4>2
      <4>4. ref[c] = k[c] /\ k[c] = 1
        BY <1>1, <1>2, <2>1, <4>2, <4>3
      <4>5. c \in Last(dead)
        BY <4>3, <4>4 DEF Last
      <4> QED  BY <1>6, <4>5
    <3>3. Kids(t, L \ X) \subseteq L \ X
      <4> SUFFICES ASSUME NEW c \in Control, NEW o \in L \ X, o \in t[c], c \in X
                   PROVE  FALSE
        BY <1>3 DEF Kids
      <4>1. PICK q \in t[c] : q \in X
        BY <3>1
      <4> QED  BY <1>1, <4>1 DEF Single
    <3>4. L \subseteq L \ X
      <4> HIDE DEF X
      <4>1. Under(t, Roots(k)) \subseteq L \ X
        BY <3>2, <3>3, UnderLeast
      <4> QED  BY <4>1 DEF Live
    <3>5. L \ dead \subseteq M
      BY <3>4
    <3>6. ASSUME NEW c \in B
          PROVE  r[c] = (IF t[c] \subseteq F \cup dead THEN 0 ELSE 1) + h[c]
      <4>1. /\ c \in Control /\ k[c] \in Nat /\ F \cap dead = {}
            /\ r[c] = ref[c] - IF c \in S \cup Kids(t, dead) THEN 1 ELSE 0
            /\ ref[c] = (IF t[c] \subseteq F THEN 0 ELSE 1) + k[c]
            /\ h[c] = k[c] - IF c \in S THEN 1 ELSE 0
        BY <1>1, <1>2, <1>5
      <4>2. CASE c \in S
        BY <2>1, <4>1, <4>2
      <4>3. CASE c \notin S /\ c \in Kids(t, dead)
        <5>1. PICK o \in dead : o \in t[c]
          BY <4>3 DEF Kids
        <5>2. ~(t[c] \subseteq F) /\ t[c] \subseteq F \cup dead
          BY <1>1, <4>1, <5>1 DEF Single
        <5> QED  BY <4>1, <4>3, <5>2
      <4>4. CASE c \notin S /\ c \notin Kids(t, dead)
        <5>1. t[c] \subseteq F <=> t[c] \subseteq F \cup dead
          BY <4>1, <4>4 DEF Kids
        <5> QED  BY <4>1, <4>4, <5>1
      <4> QED  BY <4>2, <4>3, <4>4
    <3> QED  BY <3>5, <3>6
  <2>2. CASE ~(\A c \in S : t[c] \subseteq F)
    <3>1. PICK c \in S : S = {c} /\ ~(t[c] \subseteq F)
      BY <2>2
    <3>2. PICK p \in t[c] : p \in L
      BY <1>1, <1>3, <3>1
    <3>3. c \in B /\ c \in Control /\ k[c] \in Nat \ {0} /\ ref[c] = 1 + k[c]
      BY <1>1, <1>9, <3>1, <3>2
    <3>4. dead = {}
      <4>1. Kids(t, {}) = {}
        BY DEF Kids
      <4>2. Last({}) \subseteq {}
        BY <3>1, <3>3, <4>1 DEF Last
      <4>3. dead \subseteq {}
        BY <4>2 DEF Last
      <4> QED  BY <4>3
    <3>5. Roots(k) = Roots(h) \cup {c}
      <4>1. \A d \in Control : k[d] > 0 <=> (h[d] > 0 \/ d = c)
        BY <1>1, <1>2, <3>1, <3>3
      <4> QED  BY <3>3, <4>1 DEF Roots
    <3>6. L \subseteq M \cup Under(t, {c})
      <4> DEFINE Y == M \cup Under(t, {c})
      <4>1. Roots(k) \subseteq Y
        <5>1. Roots(h) \subseteq Under(t, Roots(h)) /\ {c} \subseteq Under(t, {c})
          BY UnderClosed
        <5> QED  BY <3>5, <5>1 DEF Live
      <4>2. Kids(t, Y) \subseteq Y
        <5>1. Kids(t, Live(t, h)) \subseteq Live(t, h) /\ Kids(t, Under(t, {c})) \subseteq Under(t, {c})
          BY UnderClosed DEF Live
        <5> QED  BY <5>1 DEF Kids
      <4> HIDE DEF Y
      <4>3. Under(t, Roots(k)) \subseteq Y
        BY <4>1, <4>2, UnderLeast
      <4> QED  BY <4>3 DEF Live, Y
    <3>7. p \in M
      <4>1. p \notin Under(t, {c})
        BY <1>1, <3>2, <3>3 DEF Acyclic
      <4> QED  BY <3>2, <3>6, <4>1
    <3>8. {c} \subseteq Under(t, Roots(h))
      <4>1. Kids(t, Live(t, h)) \subseteq Live(t, h)
        BY UnderClosed DEF Live
      <4>2. c \in Kids(t, M)
        BY <3>2, <3>3, <3>7 DEF Kids
      <4> QED  BY <4>1, <4>2 DEF Live
    <3>9. L = M
      <4>1. Under(t, Roots(h) \cup {c}) = Under(t, Roots(h))
        BY <3>8, RootsGrow
      <4> QED  BY <3>5, <4>1 DEF Live
    <3>10. ASSUME NEW d \in B
           PROVE  r[d] = (IF t[d] \subseteq F \cup dead THEN 0 ELSE 1) + h[d]
      <4>1. /\ d \in Control /\ k[d] \in Nat /\ F \cup dead = F
            /\ r[d] = ref[d] - IF d \in S \cup Kids(t, dead) THEN 1 ELSE 0
            /\ ref[d] = (IF t[d] \subseteq F THEN 0 ELSE 1) + k[d]
            /\ h[d] = k[d] - IF d \in S THEN 1 ELSE 0
        BY <1>1, <1>2, <3>4
      <4>2. Kids(t, dead) = {}
        BY <3>4 DEF Kids
      <4> QED  BY <4>1, <4>2
    <3> QED  BY <3>9, <3>10
  <2> QED  BY <2>1, <2>2
<1>13. F \cup dead = B \ M
  BY <1>1, <1>5, <1>11, <1>12
<1>14. \A d \in Control \ B : h[d] = 0
  BY <1>1, <1>2
<1>15. S \cap F = {}
  BY <1>1, <1>4
<1> QED  BY <1>1, <1>2, <1>5, <1>12, <1>13, <1>14, <1>15 DEF Counted, dead, h, r

-----------------------------------------------------------------------------
(* The references commands hold.                                           *)

HeldBy(R, c) == {cmd \in R : cmd.on = c /\ Held(cmd)}
HoldCount(R) == [c \in Control |-> Cardinality(HeldBy(R, c))]

LEMMA HoldType ==
  ASSUME NEW R, IsFiniteSet(R)
  PROVE  /\ HoldCount(R) \in [Control -> Nat]
         /\ \A c \in Control : HoldCount(R)[c] > 0 <=> HeldBy(R, c) # {}
<1>1. ASSUME NEW c \in Control
      PROVE  /\ Cardinality(HeldBy(R, c)) \in Nat
             /\ Cardinality(HeldBy(R, c)) > 0 <=> HeldBy(R, c) # {}
  <2>1. IsFiniteSet(HeldBy(R, c))
    BY FS_Subset DEF HeldBy
  <2>2. Cardinality(HeldBy(R, c)) = 0 <=> HeldBy(R, c) = {}
    BY <2>1, FS_EmptySet
  <2>3. Cardinality(HeldBy(R, c)) \in Nat
    BY <2>1, FS_CardinalityType
  <2> QED  BY <2>2, <2>3
<1> QED  BY <1>1 DEF HoldCount

LEMMA HoldAdded ==
  ASSUME NEW R, IsFiniteSet(R), NEW cmd, cmd \notin R, cmd.on \in Control, Held(cmd)
  PROVE  HoldCount(R \cup {cmd}) = [HoldCount(R) EXCEPT ![cmd.on] = @ + 1]
<1>1. ASSUME NEW c \in Control
      PROVE  HoldCount(R \cup {cmd})[c] =
               IF c = cmd.on THEN HoldCount(R)[c] + 1 ELSE HoldCount(R)[c]
  <2>1. CASE c = cmd.on
    <3>1. HeldBy(R \cup {cmd}, c) = HeldBy(R, c) \cup {cmd} /\ cmd \notin HeldBy(R, c)
      BY <2>1 DEF HeldBy
    <3>2. IsFiniteSet(HeldBy(R, c))
      BY FS_Subset DEF HeldBy
    <3>3. Cardinality(HeldBy(R, c) \cup {cmd}) = Cardinality(HeldBy(R, c)) + 1
      BY <3>1, <3>2, FS_AddElement
    <3> QED  BY <2>1, <3>1, <3>3 DEF HoldCount
  <2>2. CASE c # cmd.on
    <3>1. HeldBy(R \cup {cmd}, c) = HeldBy(R, c)
      BY <2>2 DEF HeldBy
    <3> QED  BY <2>2, <3>1 DEF HoldCount
  <2> QED  BY <2>1, <2>2
<1> QED  BY <1>1 DEF HoldCount

LEMMA HoldSame ==
  ASSUME NEW R, NEW cmd, ~Held(cmd)
  PROVE  HoldCount(R \cup {cmd}) = HoldCount(R)
<1>1. \A c : HeldBy(R \cup {cmd}, c) = HeldBy(R, c)
  BY DEF HeldBy
<1> QED  BY <1>1 DEF HoldCount

(* A command gives way to the one its execution leaves. *)
LEMMA HoldReversed ==
  ASSUME NEW R, IsFiniteSet(R), NEW cmd, NEW rev, cmd \notin R, rev \notin R,
         rev.on = cmd.on, cmd.on \in Control, Held(rev) <=> Held(cmd)
  PROVE  HoldCount(R \cup {rev}) = HoldCount(R \cup {cmd})
<1>1. CASE Held(cmd)
  <2>1. HoldCount(R \cup {cmd}) = [HoldCount(R) EXCEPT ![cmd.on] = @ + 1]
    BY <1>1, HoldAdded
  <2>2. HoldCount(R \cup {rev}) = [HoldCount(R) EXCEPT ![rev.on] = @ + 1]
    BY <1>1, HoldAdded
  <2> QED  BY <2>1, <2>2
<1>2. CASE ~Held(cmd)
  BY <1>2, HoldSame
<1> QED  BY <1>1, <1>2

-----------------------------------------------------------------------------
(* What the operators of UIEdit do to a form.                              *)

FormSet ==
  [kids : [Owner -> Seq(Control)], loc : [Control -> Loc], img : [Control -> Field],
   ref : [Control -> Int], use : [Image -> Nat],
   freed : SUBSET Control, fault : BOOLEAN]

NoTwins(f) ==
  \A o \in Owner : \A i, j \in DOMAIN f.kids[o] :
    f.kids[o][i] = f.kids[o][j] => i = j

LEMMA OneMore ==
  ASSUME NEW s \in Seq(Control), NEW c \in Control, c \notin Elements(s),
         \A i, j \in DOMAIN s : s[i] = s[j] => i = j
  PROVE  \A i, j \in DOMAIN Append(s, c) : Append(s, c)[i] = Append(s, c)[j] => i = j
<1>1. /\ Len(s) \in Nat /\ DOMAIN s = 1 .. Len(s)
      /\ DOMAIN Append(s, c) = 1 .. Len(s) + 1
      /\ Append(s, c)[Len(s) + 1] = c
      /\ \A i \in 1 .. Len(s) : Append(s, c)[i] = s[i] /\ s[i] # c
  BY AppendProperties DEF Elements
<1> QED  BY <1>1

LEMMA UnlinkedSeq ==
  ASSUME NEW s \in Seq(Control), NEW c \in Control,
         \A i, j \in DOMAIN s : s[i] = s[j] => i = j
  PROVE  /\ Unlinked(s, c) \in Seq(Control)
         /\ Elements(Unlinked(s, c)) = Elements(s) \ {c}
         /\ \A i, j \in DOMAIN Unlinked(s, c) :
              Unlinked(s, c)[i] = Unlinked(s, c)[j] => i = j
<1>1. CASE c \notin Elements(s)
  BY <1>1 DEF Unlinked
<1>2. CASE c \in Elements(s)
  <2> DEFINE k == CHOOSE k \in DOMAIN s : s[k] = c
             n == Len(s)
             a == SubSeq(s, 1, k - 1)
             b == SubSeq(s, k + 1, n)
  <2>1. k \in DOMAIN s /\ s[k] = c
    BY <1>2 DEF Elements
  <2>2. Unlinked(s, c) = a \o b
    BY <1>2 DEF Unlinked
  <2> HIDE DEF k
  <2>3. n \in Nat /\ DOMAIN s = 1 .. n /\ k \in 1 .. n /\ \A i \in 1 .. n : s[i] \in Control
    BY <2>1
  <2> HIDE DEF n
  <2>4. /\ a \in Seq(Control) /\ Len(a) = k - 1
        /\ \A i \in 1 .. k - 1 : a[i] = s[i]
    <3>1. \A i \in 1 .. k - 1 : s[i] \in Control
      BY <2>3
    <3> QED  BY <2>3, <3>1, SubSeqProperties
  <2>5. /\ b \in Seq(Control) /\ Len(b) = n - k
        /\ \A i \in 1 .. n - k : b[i] = s[k + i]
    <3>1. \A i \in k + 1 .. n : s[i] \in Control
      BY <2>3
    <3>2. k + 1 \in Int /\ n \in Int
      BY <2>3
    <3>3. /\ b \in Seq(Control)
          /\ Len(b) = IF k + 1 <= n THEN n - (k + 1) + 1 ELSE 0
          /\ \A i \in 1 .. n - (k + 1) + 1 : b[i] = s[(k + 1) + i - 1]
      BY <3>1, <3>2, SubSeqProperties
    <3>4. ASSUME NEW i \in 1 .. n - k PROVE b[i] = s[k + i]
      <4>1. i \in 1 .. n - (k + 1) + 1 /\ (k + 1) + i - 1 = k + i
        BY <2>3
      <4> QED  BY <3>3, <4>1
    <3>5. Len(b) = n - k
      BY <2>3, <3>3
    <3> QED  BY <3>3, <3>4, <3>5
  <2> HIDE DEF a, b
  <2> DEFINE u == a \o b
  <2>6. /\ u \in Seq(Control) /\ Len(u) = n - 1 /\ DOMAIN u = 1 .. n - 1
        /\ \A i \in 1 .. n - 1 : u[i] = IF i < k THEN s[i] ELSE s[i + 1]
    <3>1. /\ u \in Seq(Control) /\ Len(u) = Len(a) + Len(b)
          /\ \A i \in 1 .. Len(a) + Len(b) :
               u[i] = IF i <= Len(a) THEN a[i] ELSE b[i - Len(a)]
      <4>1. a \in Seq(Control) /\ b \in Seq(Control)
        BY <2>4, <2>5
      <4> QED  BY ONLY <4>1, ConcatProperties
    <3> HIDE DEF u
    <3>2. Len(u) = n - 1 /\ DOMAIN u = 1 .. n - 1
      BY <2>3, <2>4, <2>5, <3>1
    <3>3. ASSUME NEW i \in 1 .. n - 1
          PROVE  u[i] = IF i < k THEN s[i] ELSE s[i + 1]
      <4>1. CASE i < k
        <5>1. i \in 1 .. k - 1 /\ i <= Len(a) /\ i \in 1 .. Len(a) + Len(b)
          BY <2>3, <2>4, <2>5, <4>1
        <5> QED  BY <2>4, <3>1, <4>1, <5>1
      <4>2. CASE ~(i < k)
        <5>1. /\ i - (k - 1) \in 1 .. n - k /\ ~(i <= Len(a))
              /\ i \in 1 .. Len(a) + Len(b) /\ k + (i - (k - 1)) = i + 1
          BY <2>3, <2>4, <2>5, <4>2
        <5> QED  BY <2>4, <2>5, <3>1, <4>2, <5>1
      <4> QED  BY <4>1, <4>2
    <3> QED  BY <3>1, <3>2, <3>3
  <2> HIDE DEF u
  <2>7. \A i, j \in 1 .. n : s[i] = s[j] => i = j
    BY <2>3
  <2>8. ASSUME NEW i \in 1 .. n - 1, NEW j \in 1 .. n - 1, u[i] = u[j] PROVE i = j
    <3> DEFINE v(q) == IF q < k THEN q ELSE q + 1
    <3>1. v(i) \in 1 .. n /\ v(j) \in 1 .. n /\ u[i] = s[v(i)] /\ u[j] = s[v(j)]
      BY <2>3, <2>6
    <3>2. v(i) = v(j)
      BY <2>7, <2>8, <3>1
    <3> QED  BY <2>3, <3>2
  <2>9. Elements(u) = Elements(s) \ {c}
    <3>1. ASSUME NEW x \in Elements(u) PROVE x \in Elements(s) \ {c}
      <4>1. PICK i \in 1 .. n - 1 : x = u[i]
        BY <2>6 DEF Elements
      <4>2. CASE i < k
        <5>1. i \in 1 .. n /\ x = s[i] /\ i # k
          BY <2>3, <2>6, <4>1, <4>2
        <5> QED  BY <2>1, <2>3, <2>7, <5>1 DEF Elements
      <4>3. CASE ~(i < k)
        <5>1. i + 1 \in 1 .. n /\ x = s[i + 1] /\ i + 1 # k
          BY <2>3, <2>6, <4>1, <4>3
        <5> QED  BY <2>1, <2>3, <2>7, <5>1 DEF Elements
      <4> QED  BY <4>2, <4>3
    <3>2. ASSUME NEW x \in Elements(s) \ {c} PROVE x \in Elements(u)
      <4>1. PICK i \in 1 .. n : x = s[i]
        BY <2>3 DEF Elements
      <4>2. i # k
        BY <2>1, <4>1
      <4>3. CASE i < k
        <5>1. i \in 1 .. n - 1 /\ u[i] = x
          BY <2>3, <2>6, <4>1, <4>3
        <5> QED  BY <2>6, <5>1 DEF Elements
      <4>4. CASE ~(i < k)
        <5>1. i - 1 \in 1 .. n - 1 /\ ~(i - 1 < k) /\ (i - 1) + 1 = i
          BY <2>3, <4>2, <4>4
        <5>2. u[i - 1] = x
          BY <2>6, <4>1, <5>1
        <5> QED  BY <2>6, <5>1, <5>2 DEF Elements
      <4> QED  BY <4>3, <4>4
    <3> QED  BY <3>1, <3>2
  <2>10. Unlinked(s, c) = u
    BY <2>2 DEF u
  <2> QED  BY <2>6, <2>8, <2>9, <2>10
<1> QED  BY <1>1, <1>2

LEMMA Inserted ==
  ASSUME NEW f \in FormSet, NoTwins(f), NEW p \in Owner, NEW c \in Control,
         p \notin TreeOf(f)[c]
  PROVE  LET g == insert(f, p, c) IN
         /\ g \in FormSet /\ NoTwins(g)
         /\ TreeOf(g) = [TreeOf(f) EXCEPT ![c] = @ \cup {p}]
         /\ g.loc = f.loc /\ g.img = f.img /\ g.ref = f.ref /\ g.use = f.use
         /\ g.freed = f.freed /\ g.fault = f.fault
<1> DEFINE g == insert(f, p, c)
           kids == [f.kids EXCEPT ![p] = Append(f.kids[p], c)]
<1>1. /\ f.kids \in [Owner -> Seq(Control)] /\ f.kids[p] \in Seq(Control)
      /\ c \notin Elements(f.kids[p])
  BY DEF FormSet, TreeOf
<1>2. kids \in [Owner -> Seq(Control)]
  BY <1>1
<1>3. g = [f EXCEPT !.kids = kids]
  BY DEF insert, FormSet
<1> HIDE DEF kids
<1>4. /\ g \in FormSet /\ g.kids = kids
      /\ g.loc = f.loc /\ g.img = f.img /\ g.ref = f.ref /\ g.use = f.use
      /\ g.freed = f.freed /\ g.fault = f.fault
  BY <1>2, <1>3 DEF FormSet
<1>5. kids[p] = Append(f.kids[p], c) /\ \A o \in Owner \ {p} : kids[o] = f.kids[o]
  BY <1>1 DEF kids
<1> HIDE DEF g
<1>6. NoTwins(g)
  <2> SUFFICES ASSUME NEW o \in Owner
               PROVE  \A i, j \in DOMAIN kids[o] : kids[o][i] = kids[o][j] => i = j
    BY <1>4 DEF NoTwins
  <2>1. CASE o = p
    <3>1. \A i, j \in DOMAIN f.kids[p] : f.kids[p][i] = f.kids[p][j] => i = j
      BY DEF NoTwins
    <3> DEFINE s == f.kids[p]
    <3>2. \A i, j \in DOMAIN Append(s, c) : Append(s, c)[i] = Append(s, c)[j] => i = j
      <4> HIDE DEF s
      <4> QED  BY <1>1, <3>1, OneMore DEF s
    <3> QED  BY <1>5, <2>1, <3>2
  <2>2. CASE o # p
    BY <1>5, <2>2 DEF NoTwins
  <2> QED  BY <2>1, <2>2
<1>7. Elements(kids[p]) = Elements(f.kids[p]) \cup {c}
  BY <1>1, <1>5, ElementsOf
<1>8. TreeOf(g) = [TreeOf(f) EXCEPT ![c] = @ \cup {p}]
  <2> SUFFICES ASSUME NEW d \in Control
               PROVE  TreeOf(g)[d] = IF d = c THEN TreeOf(f)[d] \cup {p} ELSE TreeOf(f)[d]
    BY DEF TreeOf
  <2>1. TreeOf(g)[d] = {o \in Owner : d \in Elements(kids[o])}
    BY <1>4 DEF TreeOf
  <2>2. TreeOf(f)[d] = {o \in Owner : d \in Elements(f.kids[o])}
    BY DEF TreeOf
  <2> QED  BY <1>5, <1>7, <2>1, <2>2
<1> QED  BY <1>4, <1>6, <1>8 DEF g

LEMMA Removed ==
  ASSUME NEW f \in FormSet, NoTwins(f), NEW p \in Owner, NEW c \in Control
  PROVE  LET g == remove(f, p, c) IN
         /\ g \in FormSet /\ NoTwins(g)
         /\ TreeOf(g) = [TreeOf(f) EXCEPT ![c] = @ \ {p}]
         /\ g.loc = f.loc /\ g.img = f.img /\ g.ref = f.ref /\ g.use = f.use
         /\ g.freed = f.freed /\ g.fault = f.fault
<1> DEFINE g == remove(f, p, c)
           kids == [f.kids EXCEPT ![p] = Unlinked(f.kids[p], c)]
<1>1. /\ f.kids \in [Owner -> Seq(Control)] /\ f.kids[p] \in Seq(Control)
      /\ \A i, j \in DOMAIN f.kids[p] : f.kids[p][i] = f.kids[p][j] => i = j
  BY DEF FormSet, NoTwins
<1>2. /\ Unlinked(f.kids[p], c) \in Seq(Control)
      /\ Elements(Unlinked(f.kids[p], c)) = Elements(f.kids[p]) \ {c}
      /\ \A i, j \in DOMAIN Unlinked(f.kids[p], c) :
           Unlinked(f.kids[p], c)[i] = Unlinked(f.kids[p], c)[j] => i = j
  BY <1>1, UnlinkedSeq
<1>3. kids \in [Owner -> Seq(Control)]
  BY <1>1, <1>2
<1>4. g = [f EXCEPT !.kids = kids]
  BY DEF remove, FormSet
<1> HIDE DEF kids
<1>5. /\ g \in FormSet /\ g.kids = kids
      /\ g.loc = f.loc /\ g.img = f.img /\ g.ref = f.ref /\ g.use = f.use
      /\ g.freed = f.freed /\ g.fault = f.fault
  BY <1>3, <1>4 DEF FormSet
<1>6. kids[p] = Unlinked(f.kids[p], c) /\ \A o \in Owner \ {p} : kids[o] = f.kids[o]
  BY <1>1 DEF kids
<1> HIDE DEF g
<1>7. NoTwins(g)
  <2> SUFFICES ASSUME NEW o \in Owner
               PROVE  \A i, j \in DOMAIN kids[o] : kids[o][i] = kids[o][j] => i = j
    BY <1>5 DEF NoTwins
  <2>1. CASE o = p
    BY <1>2, <1>6, <2>1
  <2>2. CASE o # p
    BY <1>6, <2>2 DEF NoTwins
  <2> QED  BY <2>1, <2>2
<1>8. TreeOf(g) = [TreeOf(f) EXCEPT ![c] = @ \ {p}]
  <2> SUFFICES ASSUME NEW d \in Control
               PROVE  TreeOf(g)[d] = IF d = c THEN TreeOf(f)[d] \ {p} ELSE TreeOf(f)[d]
    BY DEF TreeOf
  <2>1. TreeOf(g)[d] = {o \in Owner : d \in Elements(kids[o])}
    BY <1>5 DEF TreeOf
  <2>2. TreeOf(f)[d] = {o \in Owner : d \in Elements(f.kids[o])}
    BY DEF TreeOf
  <2> QED  BY <1>2, <1>6, <2>1, <2>2
<1> QED  BY <1>5, <1>7, <1>8 DEF g

(* A form, the references to its controls that somebody holds, and the     *)
(* controls created so far.                                                *)
Sound(f, h, B) ==
  /\ f \in FormSet /\ NoTwins(f)
  /\ Counted(TreeOf(f), h, f.ref, f.freed, B)

LEMMA FormTree ==
  ASSUME NEW f \in FormSet
  PROVE  /\ TreeOf(f) \in Tree
         /\ \A T : ChildrenOf(f, T) = Kids(TreeOf(f), T)
         /\ Below(f, {Base}) = Top(TreeOf(f))
         /\ \A c \in Control : Below(f, {c}) = Under(TreeOf(f), {c})
<1>1. f.kids \in [Owner -> Seq(Control)]
  BY DEF FormSet
<1>2. TreeOf(f) \in Tree
  BY DEF TreeOf, Tree
<1>3. ASSUME NEW T PROVE ChildrenOf(f, T) = Kids(TreeOf(f), T)
  <2>1. \A o \in Owner : Elements(f.kids[o]) \subseteq Control
    BY <1>1, ElementsOf
  <2> QED  BY <2>1 DEF ChildrenOf, Kids, TreeOf
<1>4. {Base} \subseteq Control \cup {Base}
  OBVIOUS
<1>5. Below(f, {Base}) = Top(TreeOf(f))
  BY <1>1, <1>4, BelowIsUnder DEF Top
<1>6. ASSUME NEW c \in Control PROVE Below(f, {c}) = Under(TreeOf(f), {c})
  <2>1. {c} \subseteq Control \cup {Base}
    OBVIOUS
  <2> QED  BY <1>1, <2>1, BelowIsUnder
<1> QED  BY <1>2, <1>3, <1>5, <1>6

LEMMA Referenced ==
  ASSUME NEW f \in FormSet, NEW c \in Control
  PROVE  LET g == addRef(f, c) IN
         /\ g \in FormSet
         /\ g.kids = f.kids /\ TreeOf(g) = TreeOf(f) /\ (NoTwins(f) => NoTwins(g))
         /\ g.ref = [f.ref EXCEPT ![c] = @ + 1]
         /\ g.loc = f.loc /\ g.img = f.img /\ g.use = f.use
         /\ g.freed = f.freed /\ g.fault = f.fault
<1> DEFINE g == addRef(f, c)
           ref == [f.ref EXCEPT ![c] = @ + 1]
<1>1. ref \in [Control -> Int]
  BY DEF FormSet
<1>2. g = [f EXCEPT !.ref = ref]
  BY DEF addRef, FormSet
<1> HIDE DEF ref
<1>3. /\ g \in FormSet /\ g.kids = f.kids /\ g.ref = ref
      /\ g.loc = f.loc /\ g.img = f.img /\ g.use = f.use
      /\ g.freed = f.freed /\ g.fault = f.fault
  BY <1>1, <1>2 DEF FormSet
<1> HIDE DEF g
<1> QED  BY <1>3 DEF g, ref, TreeOf, NoTwins

(* release does what the counts say. *)
LEMMA Released ==
  ASSUME NEW f, NEW k, NEW B, Sound(f, k, B),
         NEW S, S \subseteq B, \A c \in S : k[c] > 0,
         (\A c \in S : TreeOf(f)[c] \subseteq f.freed) \/ (\E c \in S : S = {c})
  PROVE  LET g == release(f, S) IN
         /\ Sound(g, Less(k, S), B)
         /\ g.kids = f.kids /\ TreeOf(g) = TreeOf(f) /\ NoTwins(g)
         /\ g.loc = f.loc /\ g.img = f.img /\ g.use = f.use /\ g.fault = f.fault
<1> DEFINE t == TreeOf(f)
           ref == f.ref
           F == f.freed
           dead == Dying(t, ref, S)
           h == Less(k, S)
           r == Less(ref, S \cup Kids(t, dead))
           g == release(f, S)
<1>1. f \in FormSet /\ NoTwins(f) /\ Counted(t, k, ref, F, B)
  BY DEF Sound
<1>2. \A T : ChildrenOf(f, T) = Kids(t, T)
  BY <1>1, FormTree
<1>3. g = [f EXCEPT !.ref = r,
                    !.freed = F \cup dead, !.fault = f.fault \/ S \cap F # {}]
  <2>1. dead = {c \in Control : \A D \in SUBSET Control :
                 {d \in S \cup ChildrenOf(f, D) : f.ref[d] = 1} \subseteq D => c \in D}
    BY <1>2 DEF Dying
  <2>2. ChildrenOf(f, dead) = Kids(t, dead)
    BY <1>2
  <2> HIDE DEF dead, t
  <2> QED  BY <1>1, <2>1, <2>2 DEF release, FormSet, Less
<1>4. Counted(t, h, r, F \cup dead, B) /\ S \cap F = {} /\ dead \subseteq Control
  BY <1>1, CountRelease
<1> HIDE DEF dead, h, t
<1>5. r \in [Control -> Int]
  BY <1>4 DEF Counted
<1>6. f.fault \in BOOLEAN
  BY <1>1 DEF FormSet
<1>7. (f.fault \/ S \cap F # {}) = f.fault
  BY <1>4, <1>6
<1>8. g = [f EXCEPT !.ref = r, !.freed = F \cup dead, !.fault = f.fault]
  BY <1>3, <1>7
<1> HIDE DEF r, g
<1>9. /\ g \in FormSet /\ g.kids = f.kids /\ g.ref = r /\ g.freed = F \cup dead
      /\ g.loc = f.loc /\ g.img = f.img /\ g.use = f.use /\ g.fault = f.fault
  <2>1. F \cup dead \in SUBSET Control
    BY <1>1, <1>4 DEF FormSet
  <2> QED  BY <1>1, <1>5, <1>6, <1>8, <2>1 DEF FormSet
<1>10. TreeOf(g) = t /\ NoTwins(g)
  BY <1>1, <1>9 DEF TreeOf, NoTwins, t
<1>11. Sound(g, h, B)
  BY <1>4, <1>9, <1>10 DEF Sound
<1> QED  BY <1>9, <1>10, <1>11 DEF h, g, t

(* The commands of a sequence are all different. *)
Distinct(s) == \A i, j \in DOMAIN s : s[i] = s[j] => i = j

LEMMA Destroyed ==
  ASSUME NEW f, NEW B, NEW R, IsFiniteSet(R), NEW cmd \in CommandType, cmd \notin R,
         Sound(f, HoldCount(R \cup {cmd}), B), Held(cmd) => cmd.on \in B
  PROVE  LET g == Destroy(f, cmd) IN
         /\ Sound(g, HoldCount(R), B)
         /\ g.kids = f.kids /\ TreeOf(g) = TreeOf(f)
         /\ g.loc = f.loc /\ g.img = f.img /\ g.use = f.use
         /\ f.fault => g.fault
<1> DEFINE c == cmd.on
           k == HoldCount(R \cup {cmd})
<1>0. c \in Control /\ cmd.kind \in {"ADD", "DELETE", "MOVE", "SET"}
  BY DEF CommandType
<1>1. CASE Held(cmd)
  <2>1. Destroy(f, cmd) = release(f, {c})
    BY <1>0, <1>1 DEF Destroy, Held
  <2>2. k = [HoldCount(R) EXCEPT ![c] = @ + 1] /\ HoldCount(R) \in [Control -> Nat]
    BY <1>0, <1>1, HoldAdded, HoldType
  <2>3. Less(k, {c}) = HoldCount(R)
    <3> HIDE DEF k
    <3>1. \A d \in Control : Less(k, {c})[d] = HoldCount(R)[d]
      BY <1>0, <2>2 DEF Less
    <3> QED  BY <2>2, <3>1 DEF Less
  <2>4. k[c] > 0
    <3> HIDE DEF k
    <3> QED  BY <1>0, <2>2
  <2> HIDE DEF k, c
  <2>5. {c} \subseteq B /\ \A d \in {c} : k[d] > 0
    BY <1>1, <2>4 DEF c
  <2>6. \E d \in {c} : {c} = {d}
    OBVIOUS
  <2>7. Sound(f, k, B)
    BY DEF k
  <2>8. LET g == release(f, {c}) IN
        /\ Sound(g, Less(k, {c}), B)
        /\ g.kids = f.kids /\ TreeOf(g) = TreeOf(f) /\ NoTwins(g)
        /\ g.loc = f.loc /\ g.img = f.img /\ g.use = f.use /\ g.fault = f.fault
    BY <2>5, <2>6, <2>7, Released
  <2> QED  BY <2>1, <2>3, <2>8 DEF c
<1>2. CASE cmd.kind = "MOVE"
  <2>1. Destroy(f, cmd) = f /\ ~Held(cmd)
    BY <1>2 DEF Destroy, Held
  <2> QED  BY <2>1, HoldSame
<1>3. CASE cmd.kind = "SET"
  <2> DEFINE g == [f EXCEPT !.fault = f.fault \/ c \in f.freed]
  <2>1. Destroy(f, cmd) = g /\ ~Held(cmd)
    BY <1>3 DEF Destroy, Held
  <2>2. f \in FormSet
    BY DEF Sound
  <2>3. /\ g \in FormSet /\ g.kids = f.kids /\ g.ref = f.ref /\ g.freed = f.freed
        /\ g.loc = f.loc /\ g.img = f.img /\ g.use = f.use
        /\ f.fault => g.fault
    <3> DEFINE b == f.fault \/ c \in f.freed
    <3>1. b \in BOOLEAN
      OBVIOUS
    <3>2. f.fault => b
      OBVIOUS
    <3> HIDE DEF b
    <3>3. g = [f EXCEPT !.fault = b]
      BY DEF b
    <3> QED  BY <2>2, <3>1, <3>2, <3>3 DEF FormSet
  <2> HIDE DEF g
  <2>4. TreeOf(g) = TreeOf(f) /\ (NoTwins(f) => NoTwins(g))
    BY <2>3 DEF TreeOf, NoTwins
  <2>5. HoldCount(R \cup {cmd}) = HoldCount(R)
    BY <2>1, HoldSame
  <2>6. Sound(g, HoldCount(R), B)
    BY <2>3, <2>4, <2>5 DEF Sound
  <2> QED  BY <2>1, <2>3, <2>4, <2>6
<1> QED  BY <1>0, <1>1, <1>2, <1>3 DEF Held

(* The forms between one destructor and the next.                          *)
Steps(a, f, cmds) ==
  /\ a[0] = f /\ a[Len(cmds)] = DestroyAll(f, cmds)
  /\ \A n \in 1 .. Len(cmds) : a[n] = Destroy(a[n - 1], cmds[n])

LEMMA DestroySteps ==
  ASSUME NEW f, NEW cmds, Len(cmds) \in Nat
  PROVE  \E a : Steps(a, f, cmds)
<1> DEFINE N == Len(cmds)
           Is(g, m) == g = [n \in 0 .. m |->
                              IF n = 0 THEN f ELSE Destroy(g[n - 1], cmds[n])]
           S == {m \in 0 .. N : \E g : Is(g, m)}
<1>1. 0 \in S
  <2> DEFINE g == [n \in 0 .. 0 |-> f]
  <2>1. Is(g, 0)
    <3>1. \A n \in 0 .. 0 : f = IF n = 0 THEN f ELSE Destroy(g[n - 1], cmds[n])
      OBVIOUS
    <3> QED  BY <3>1
  <2>2. 0 \in 0 .. N
    OBVIOUS
  <2> HIDE DEF Is, g
  <2> QED  BY <2>1, <2>2
<1>2. ASSUME NEW m \in 0 .. N - 1, m \in S PROVE m + 1 \in S
  <2>1. PICK g : Is(g, m)
    BY <1>2
  <2> DEFINE h == [n \in 0 .. m + 1 |-> IF n = m + 1 THEN Destroy(g[m], cmds[m + 1]) ELSE g[n]]
  <2>2. ASSUME NEW n \in 0 .. m + 1
        PROVE  h[n] = IF n = 0 THEN f ELSE Destroy(h[n - 1], cmds[n])
    <3>1. CASE n = m + 1
      <4>1. n - 1 = m /\ m \in 0 .. m + 1 /\ m # m + 1 /\ n # 0
        BY <3>1
      <4>2. h[m] = g[m] /\ h[n] = Destroy(g[m], cmds[m + 1])
        BY <3>1, <4>1
      <4> QED  BY <3>1, <4>1, <4>2
    <3>2. CASE n # m + 1
      <4>1. n \in 0 .. m
        BY <3>2
      <4>2. g[n] = IF n = 0 THEN f ELSE Destroy(g[n - 1], cmds[n])
        BY <2>1, <4>1
      <4>3. h[n] = g[n]
        BY <3>2
      <4>4. n # 0 => h[n - 1] = g[n - 1]
        <5> SUFFICES ASSUME n # 0 PROVE h[n - 1] = g[n - 1]
          OBVIOUS
        <5>1. n - 1 \in 0 .. m + 1 /\ n - 1 # m + 1
          BY <4>1
        <5> QED  BY <5>1
      <4> HIDE DEF h
      <4> QED  BY <4>2, <4>3, <4>4
    <3> QED  BY <3>1, <3>2
  <2>3. Is(h, m + 1)
    <3>1. h = [n \in 0 .. m + 1 |-> h[n]]
      OBVIOUS
    <3> HIDE DEF h
    <3> QED  BY <2>2, <3>1
  <2>4. m + 1 \in 0 .. N
    OBVIOUS
  <2> HIDE DEF Is, h
  <2> QED  BY <2>3, <2>4
<1>3. N \in S
  <2>1. N \in Nat /\ N \in 0 .. N
    OBVIOUS
  <2> HIDE DEF S, N
  <2>2. \A m \in 0 .. N : m \in S
    BY <1>1, <1>2, <2>1, Reaches
  <2> QED  BY <2>1, <2>2
<1>4. \E g : Is(g, N)
  BY <1>3
<1> DEFINE a == CHOOSE g : Is(g, N)
<1>5. Is(a, N)
  <2> HIDE DEF Is
  <2> QED  BY <1>4
<1>6. DestroyAll(f, cmds) = a[N]
  BY DEF DestroyAll
<1> HIDE DEF a
<1>7. a[0] = f /\ \A n \in 1 .. N : a[n] = Destroy(a[n - 1], cmds[n])
  BY <1>5
<1> QED  BY <1>6, <1>7 DEF Steps

(* A push, and the end of the panel, destroy commands that are all         *)
(* different, and none that stays.                                         *)
LEMMA AllDestroyed ==
  ASSUME NEW f, NEW B, NEW R, IsFiniteSet(R), NEW cmds \in Seq(CommandType),
         Distinct(cmds), Elements(cmds) \cap R = {},
         \A cmd \in Elements(cmds) : Held(cmd) => cmd.on \in B,
         Sound(f, HoldCount(R \cup Elements(cmds)), B)
  PROVE  LET g == DestroyAll(f, cmds) IN
         /\ Sound(g, HoldCount(R), B)
         /\ g.kids = f.kids /\ TreeOf(g) = TreeOf(f)
         /\ g.loc = f.loc /\ g.img = f.img /\ g.use = f.use
         /\ f.fault => g.fault
<1> DEFINE N == Len(cmds)
           Left(n) == R \cup {cmds[i] : i \in n + 1 .. N}
           Good(g, n) == /\ Sound(g, HoldCount(Left(n)), B)
                         /\ g.kids = f.kids /\ TreeOf(g) = TreeOf(f)
                         /\ g.loc = f.loc /\ g.img = f.img /\ g.use = f.use
                         /\ f.fault => g.fault
<1>1. /\ N \in Nat /\ DOMAIN cmds = 1 .. N
      /\ \A n \in 1 .. N : cmds[n] \in CommandType /\ cmds[n] \in Elements(cmds)
      /\ Elements(cmds) = {cmds[i] : i \in 1 .. N}
  BY DEF Elements
<1>2. PICK a : /\ a[0] = f /\ a[N] = DestroyAll(f, cmds)
               /\ \A n \in 1 .. N : a[n] = Destroy(a[n - 1], cmds[n])
  <2>1. Len(cmds) \in Nat
    BY <1>1
  <2>2. \E a : Steps(a, f, cmds)
    BY <2>1, DestroySteps
  <2> QED  BY <2>2 DEF Steps
<1>3. Left(0) = R \cup Elements(cmds) /\ Left(N) = R
  <2>1. N + 1 .. N = {} /\ 0 + 1 = 1
    BY <1>1
  <2> QED  BY <1>1, <2>1
<1>4. ASSUME NEW n \in 0 .. N - 1
      PROVE  /\ Left(n) = Left(n + 1) \cup {cmds[n + 1]}
             /\ cmds[n + 1] \notin Left(n + 1)
             /\ IsFiniteSet(Left(n + 1))
  <2>1. /\ n + 1 \in 1 .. N
        /\ n + 1 .. N = ((n + 1) + 1 .. N) \cup {n + 1}
    BY <1>1
  <2>2. Left(n) = Left(n + 1) \cup {cmds[n + 1]}
    BY <2>1
  <2>3. cmds[n + 1] \notin Left(n + 1)
    <3>1. cmds[n + 1] \notin R
      BY <1>1, <2>1
    <3>2. ASSUME NEW i \in (n + 1) + 1 .. N PROVE cmds[i] # cmds[n + 1]
      <4>1. i \in 1 .. N /\ i # n + 1
        BY <1>1
      <4> QED  BY <1>1, <2>1, <4>1 DEF Distinct
    <3> QED  BY <3>1, <3>2
  <2>4. IsFiniteSet(Left(n + 1))
    <3>1. IsFiniteSet(Elements(cmds))
      BY ElementsOf
    <3>2. IsFiniteSet(R \cup Elements(cmds))
      BY <3>1, FS_Union
    <3>3. Left(n + 1) \subseteq R \cup Elements(cmds)
      BY <1>1
    <3> QED  BY <3>2, <3>3, FS_Subset
  <2> QED  BY <2>2, <2>3, <2>4
<1> DEFINE S == {n \in 0 .. N : Good(a[n], n)}
<1>5. 0 \in S
  BY <1>1, <1>2, <1>3
<1>6. ASSUME NEW n \in 0 .. N - 1, n \in S PROVE n + 1 \in S
  <2>1. /\ n + 1 \in 1 .. N /\ n + 1 \in 0 .. N /\ (n + 1) - 1 = n
    BY <1>1
  <2>2. a[n + 1] = Destroy(a[n], cmds[n + 1])
    BY <1>2, <2>1
  <2>3. Good(a[n], n)
    BY <1>6
  <2>4. /\ cmds[n + 1] \in CommandType
        /\ Held(cmds[n + 1]) => cmds[n + 1].on \in B
    BY <1>1, <2>1
  <2>5. Sound(a[n], HoldCount(Left(n + 1) \cup {cmds[n + 1]}), B)
    BY <1>4, <2>3
  <2>6. LET g == Destroy(a[n], cmds[n + 1]) IN
        /\ Sound(g, HoldCount(Left(n + 1)), B)
        /\ g.kids = a[n].kids /\ TreeOf(g) = TreeOf(a[n])
        /\ g.loc = a[n].loc /\ g.img = a[n].img /\ g.use = a[n].use
        /\ a[n].fault => g.fault
    <3>1. IsFiniteSet(Left(n + 1)) /\ cmds[n + 1] \notin Left(n + 1)
      BY <1>4
    <3> HIDE DEF Left
    <3> QED  BY <2>4, <2>5, <3>1, Destroyed
  <2>7. Good(a[n + 1], n + 1)
    <3> HIDE DEF Left
    <3> QED  BY <2>2, <2>3, <2>6
  <2> HIDE DEF Good
  <2> QED  BY <2>1, <2>7
<1>7. N \in S
  <2>1. N \in 0 .. N
    BY <1>1
  <2> HIDE DEF S, N
  <2>2. \A n \in 0 .. N : n \in S
    BY <1>1, <1>5, <1>6, Reaches
  <2> QED  BY <2>1, <2>2
<1>8. Good(DestroyAll(f, cmds), N)
  BY <1>2, <1>7
<1> HIDE DEF Left
<1> QED  BY <1>3, <1>8

-----------------------------------------------------------------------------
(* Use counts.                                                             *)

LEMMA ShowingType ==
  ASSUME NEW f, NEW S, S \subseteq Control, NEW i
  PROVE  Showing(f, S, i) \in Nat
<1>1. {c \in S : f.img[c] = i} \subseteq Control
  OBVIOUS
<1>2. IsFiniteSet({c \in S : f.img[c] = i})
  BY <1>1, FS_Subset, FormAssumption
<1> QED  BY <1>2, FS_CardinalityType DEF Showing

LEMMA ShowingSplit ==
  ASSUME NEW f, NEW S, NEW T, S \subseteq Control, T \subseteq Control,
         S \cap T = {}, NEW i
  PROVE  Showing(f, S \cup T, i) = Showing(f, S, i) + Showing(f, T, i)
<1> DEFINE X == {c \in S : f.img[c] = i}
           Y == {c \in T : f.img[c] = i}
<1>1. IsFiniteSet(X) /\ IsFiniteSet(Y)
  <2>1. X \subseteq Control /\ Y \subseteq Control
    OBVIOUS
  <2> HIDE DEF X, Y
  <2> QED  BY <2>1, FS_Subset, FormAssumption
<1>2. X \cap Y = {} /\ {c \in S \cup T : f.img[c] = i} = X \cup Y
  OBVIOUS
<1>3. Showing(f, S \cup T, i) = Cardinality(X \cup Y)
      /\ Showing(f, S, i) = Cardinality(X) /\ Showing(f, T, i) = Cardinality(Y)
  BY <1>2 DEF Showing
<1>4. Cardinality(X) \in Nat /\ Cardinality(Y) \in Nat
  BY <1>1, FS_CardinalityType
<1> HIDE DEF X, Y
<1>5. Cardinality(X \cup Y) = Cardinality(X) + Cardinality(Y) - Cardinality(X \cap Y)
  BY <1>1, FS_Union
<1>6. Cardinality(X \cap Y) = 0
  BY <1>2, FS_EmptySet
<1> QED  BY <1>3, <1>4, <1>5, <1>6

(* Nobody but c is shown otherwise. *)
LEMMA ShowingChanged ==
  ASSUME NEW f, NEW g, NEW S, S \subseteq Control, NEW c \in S,
         \A d \in Control \ {c} : g.img[d] = f.img[d], NEW i
  PROVE  /\ g.img[c] = i /\ f.img[c] = i => Showing(g, S, i) = Showing(f, S, i)
         /\ g.img[c] # i /\ f.img[c] # i => Showing(g, S, i) = Showing(f, S, i)
         /\ g.img[c] = i /\ f.img[c] # i => Showing(g, S, i) = Showing(f, S, i) + 1
         /\ g.img[c] # i /\ f.img[c] = i => Showing(f, S, i) = Showing(g, S, i) + 1
<1> DEFINE X == {d \in S : f.img[d] = i}
           Y == {d \in S : g.img[d] = i}
<1>1. IsFiniteSet(X) /\ IsFiniteSet(Y)
  <2>1. X \subseteq Control /\ Y \subseteq Control
    OBVIOUS
  <2> HIDE DEF X, Y
  <2> QED  BY <2>1, FS_Subset, FormAssumption
<1>2. Showing(f, S, i) = Cardinality(X) /\ Showing(g, S, i) = Cardinality(Y)
  BY DEF Showing
<1>3. /\ g.img[c] = i /\ f.img[c] = i => X = Y
      /\ g.img[c] # i /\ f.img[c] # i => X = Y
      /\ g.img[c] = i /\ f.img[c] # i => Y = X \cup {c} /\ c \notin X
      /\ g.img[c] # i /\ f.img[c] = i => X = Y \cup {c} /\ c \notin Y
  OBVIOUS
<1> HIDE DEF X, Y
<1>4. /\ c \notin X => Cardinality(X \cup {c}) = Cardinality(X) + 1
      /\ c \notin Y => Cardinality(Y \cup {c}) = Cardinality(Y) + 1
  BY <1>1, FS_AddElement
<1> QED  BY <1>2, <1>3, <1>4

OnForm(f) == Top(TreeOf(f)) \ {Base}
Covered(f) == \A i \in images : f.use[i] >= Showing(f, OnForm(f), i)

LEMMA OnFormType == ASSUME NEW f PROVE OnForm(f) \subseteq Control
BY UnderSubset DEF OnForm, Top

LEMMA UseIncreased ==
  ASSUME NEW f \in FormSet, NEW c \in Control
  PROVE  LET g == incUseOfRefReses(f, c)
             below == Under(TreeOf(f), {c})
         IN
         /\ g \in FormSet /\ g.kids = f.kids /\ g.loc = f.loc /\ g.img = f.img
         /\ g.ref = f.ref /\ g.freed = f.freed /\ g.fault = f.fault
         /\ below \subseteq Control
         /\ \A i \in Image : i \in images =>
              g.use[i] = f.use[i] + Showing(f, below, i)
         /\ \A i \in Image : i \notin images => g.use[i] = f.use[i]
<1> DEFINE g == incUseOfRefReses(f, c)
           below == Under(TreeOf(f), {c})
           u == [i \in Image |->
                   IF i \in images THEN f.use[i] + Showing(f, below, i) ELSE f.use[i]]
<1>1. Below(f, {c}) = below
  BY FormTree
<1>2. below \subseteq Control
  BY DEF Under
<1>3. g = [f EXCEPT !.use = u]
  <2> HIDE DEF below
  <2> QED  BY <1>1 DEF incUseOfRefReses, FormSet
<1>4. u \in [Image -> Nat]
  <2>1. \A i \in Image : f.use[i] \in Nat /\ Showing(f, below, i) \in Nat
    <3> HIDE DEF below
    <3> QED  BY <1>2, ShowingType DEF FormSet
  <2> HIDE DEF below
  <2> QED  BY <2>1
<1>5. \A i \in Image : u[i] = IF i \in images THEN f.use[i] + Showing(f, below, i)
                              ELSE f.use[i]
  OBVIOUS
<1> HIDE DEF u, below
<1>6. /\ g \in FormSet /\ g.use = u /\ g.kids = f.kids /\ g.loc = f.loc /\ g.img = f.img
      /\ g.ref = f.ref /\ g.freed = f.freed /\ g.fault = f.fault
  BY <1>3, <1>4 DEF FormSet
<1> HIDE DEF g
<1> QED  BY <1>2, <1>5, <1>6 DEF g, below

LEMMA UseDecreased ==
  ASSUME NEW f \in FormSet, NEW c \in Control
  PROVE  LET g == decUseOfRefReses(f, c)
             below == Under(TreeOf(f), {c})
         IN
         /\ g \in FormSet /\ g.kids = f.kids /\ g.loc = f.loc /\ g.img = f.img
         /\ g.ref = f.ref /\ g.freed = f.freed /\ g.fault = f.fault
         /\ below \subseteq Control
         /\ \A i \in Image : g.use[i] >= f.use[i] - Showing(f, below, i)
<1> DEFINE g == decUseOfRefReses(f, c)
           below == Under(TreeOf(f), {c})
           u == [i \in Image |->
                   IF i \notin images THEN f.use[i]
                   ELSE IF f.use[i] < Showing(f, below, i) THEN 0
                   ELSE f.use[i] - Showing(f, below, i)]
<1>1. Below(f, {c}) = below
  BY FormTree
<1>2. below \subseteq Control
  BY DEF Under
<1>3. g = [f EXCEPT !.use = u]
  <2> HIDE DEF below
  <2> QED  BY <1>1 DEF decUseOfRefReses, FormSet
<1>4. \A i \in Image : f.use[i] \in Nat /\ Showing(f, below, i) \in Nat
  <2> HIDE DEF below
  <2> QED  BY <1>2, ShowingType DEF FormSet
<1> HIDE DEF below
<1>5. u \in [Image -> Nat]
  <2> SUFFICES ASSUME NEW i \in Image
               PROVE  (IF i \notin images THEN f.use[i]
                       ELSE IF f.use[i] < Showing(f, below, i) THEN 0
                       ELSE f.use[i] - Showing(f, below, i)) \in Nat
    OBVIOUS
  <2> DEFINE a == f.use[i]
             b == Showing(f, below, i)
  <2>1. a \in Nat /\ b \in Nat
    BY <1>4
  <2> HIDE DEF a, b
  <2>2. (IF i \notin images THEN a ELSE IF a < b THEN 0 ELSE a - b) \in Nat
    BY <2>1
  <2> QED  BY <2>2 DEF a, b
<1>6. \A i \in Image : u[i] >= f.use[i] - Showing(f, below, i)
  <2> SUFFICES ASSUME NEW i \in Image PROVE u[i] >= f.use[i] - Showing(f, below, i)
    OBVIOUS
  <2> DEFINE a == f.use[i]
             b == Showing(f, below, i)
  <2>1. a \in Nat /\ b \in Nat
    BY <1>4
  <2>2. u[i] = IF i \notin images THEN a ELSE IF a < b THEN 0 ELSE a - b
    OBVIOUS
  <2> HIDE DEF a, b, u
  <2>3. u[i] >= a - b
    BY <2>1, <2>2
  <2> QED  BY <2>3 DEF a, b
<1> HIDE DEF u
<1>7. /\ g \in FormSet /\ g.use = u /\ g.kids = f.kids /\ g.loc = f.loc /\ g.img = f.img
      /\ g.ref = f.ref /\ g.freed = f.freed /\ g.fault = f.fault
  BY <1>3, <1>5 DEF FormSet
<1> HIDE DEF g
<1> QED  BY <1>2, <1>6, <1>7 DEF g, below

LEMMA UsedOnce ==
  ASSUME NEW f \in FormSet, NEW i
  PROVE  LET g == use(f, i) IN
         /\ g \in FormSet /\ g.kids = f.kids /\ g.loc = f.loc /\ g.img = f.img
         /\ g.ref = f.ref /\ g.freed = f.freed /\ g.fault = f.fault
         /\ \A j \in Image : g.use[j] = IF j = i /\ i \in images THEN f.use[j] + 1
                                        ELSE f.use[j]
<1> DEFINE g == use(f, i)
           u == [j \in Image |-> IF j = i /\ i \in images THEN f.use[j] + 1 ELSE f.use[j]]
<1>1. u \in [Image -> Nat]
  BY DEF FormSet
<1>2. g = [f EXCEPT !.use = u]
  BY DEF use, FormSet
<1>3. \A j \in Image : u[j] = IF j = i /\ i \in images THEN f.use[j] + 1 ELSE f.use[j]
  OBVIOUS
<1> HIDE DEF u
<1>4. /\ g \in FormSet /\ g.use = u /\ g.kids = f.kids /\ g.loc = f.loc /\ g.img = f.img
      /\ g.ref = f.ref /\ g.freed = f.freed /\ g.fault = f.fault
  BY <1>1, <1>2 DEF FormSet
<1> HIDE DEF g
<1> QED  BY <1>3, <1>4 DEF g

LEMMA UnusedOnce ==
  ASSUME NEW f \in FormSet, NEW i
  PROVE  LET g == unuse(f, i) IN
         /\ g \in FormSet /\ g.kids = f.kids /\ g.loc = f.loc /\ g.img = f.img
         /\ g.ref = f.ref /\ g.freed = f.freed /\ g.fault = f.fault
         /\ \A j \in Image :
              g.use[j] = IF j = i /\ i \in images /\ f.use[j] > 0 THEN f.use[j] - 1
                         ELSE f.use[j]
<1> DEFINE g == unuse(f, i)
           u == [j \in Image |-> IF j = i /\ i \in images /\ f.use[j] > 0
                                 THEN f.use[j] - 1 ELSE f.use[j]]
<1>1. u \in [Image -> Nat]
  BY DEF FormSet
<1>2. g = [f EXCEPT !.use = u]
  BY DEF unuse, FormSet
<1>3. \A j \in Image : u[j] = IF j = i /\ i \in images /\ f.use[j] > 0
                              THEN f.use[j] - 1 ELSE f.use[j]
  OBVIOUS
<1> HIDE DEF u
<1>4. /\ g \in FormSet /\ g.use = u /\ g.kids = f.kids /\ g.loc = f.loc /\ g.img = f.img
      /\ g.ref = f.ref /\ g.freed = f.freed /\ g.fault = f.fault
  BY <1>1, <1>2 DEF FormSet
<1> HIDE DEF g
<1> QED  BY <1>3, <1>4 DEF g

LEMMA ImageWritten ==
  ASSUME NEW f \in FormSet, NEW c \in Control, NEW value \in Field
  PROVE  LET g == [f EXCEPT !.img[c] = value] IN
         /\ g \in FormSet /\ g.kids = f.kids /\ g.loc = f.loc /\ g.use = f.use
         /\ g.ref = f.ref /\ g.freed = f.freed /\ g.fault = f.fault
         /\ g.img = [f.img EXCEPT ![c] = value]
<1> DEFINE m == [f.img EXCEPT ![c] = value]
           g == [f EXCEPT !.img[c] = value]
<1>1. m \in [Control -> Field]
  BY DEF FormSet
<1>2. g = [f EXCEPT !.img = m]
  BY DEF FormSet
<1> HIDE DEF m
<1>3. /\ g \in FormSet /\ g.kids = f.kids /\ g.loc = f.loc /\ g.use = f.use
      /\ g.ref = f.ref /\ g.freed = f.freed /\ g.fault = f.fault /\ g.img = m
  BY <1>1, <1>2 DEF FormSet
<1> HIDE DEF g
<1> QED  BY <1>3 DEF g, m

(* A field set or cleaned leaves no image with too small a use count.      *)
LEMMA ImageCleaned ==
  ASSUME NEW f \in FormSet, NEW c \in Control, images \subseteq Image
  PROVE  LET g == cleanField(f, c) IN
         /\ g \in FormSet /\ g.kids = f.kids /\ g.loc = f.loc
         /\ g.ref = f.ref /\ g.freed = f.freed /\ g.fault = f.fault
         /\ g.img = [f.img EXCEPT ![c] = Default]
         /\ Covered(f) /\ c \in OnForm(f) => Covered(g)
<1> DEFINE g == cleanField(f, c)
<1>1. Default \in Field
  BY DEF Field
<1>2. /\ g \in FormSet /\ g.kids = f.kids /\ g.loc = f.loc /\ g.use = f.use
      /\ g.ref = f.ref /\ g.freed = f.freed /\ g.fault = f.fault
      /\ g.img = [f.img EXCEPT ![c] = Default]
  BY <1>1, ImageWritten DEF cleanField
<1> HIDE DEF g
<1>3. ASSUME Covered(f), c \in OnForm(f), NEW i \in images
      PROVE  g.use[i] >= Showing(g, OnForm(g), i)
  <2>1. OnForm(g) = OnForm(f) /\ OnForm(f) \subseteq Control
    BY <1>2, OnFormType DEF OnForm, TreeOf
  <2>2. g.img[c] = Default /\ \A d \in Control \ {c} : g.img[d] = f.img[d]
    BY <1>2 DEF FormSet
  <2>3. g.img[c] # i /\ i \in Image
    BY <2>2, FormAssumption
  <2>4. Showing(g, OnForm(f), i) \in Nat /\ Showing(f, OnForm(f), i) \in Nat
    BY <2>1, ShowingType
  <2>5. \/ Showing(g, OnForm(f), i) = Showing(f, OnForm(f), i)
        \/ Showing(f, OnForm(f), i) = Showing(g, OnForm(f), i) + 1
    BY <1>3, <2>1, <2>2, <2>3, ShowingChanged
  <2>6. g.use[i] = f.use[i] /\ f.use[i] >= Showing(f, OnForm(f), i) /\ f.use[i] \in Nat
    BY <1>2, <1>3, <2>3 DEF Covered, FormSet
  <2> QED  BY <2>1, <2>4, <2>5, <2>6
<1> QED  BY <1>2, <1>3 DEF Covered, g

LEMMA ImageSet ==
  ASSUME NEW f \in FormSet, NEW c \in Control, NEW value \in Field, images \subseteq Image
  PROVE  LET g == setField(f, c, value) IN
         /\ g \in FormSet /\ g.kids = f.kids /\ g.loc = f.loc
         /\ g.ref = f.ref /\ g.freed = f.freed /\ g.fault = f.fault
         /\ g.img = [f.img EXCEPT ![c] = value]
         /\ Covered(f) /\ c \in OnForm(f) => Covered(g)
<1> DEFINE g == setField(f, c, value)
           old == f.img[c]
           set == [f EXCEPT !.img[c] = value]
           same == value = old \/ value \notin Image
<1>1. /\ set \in FormSet /\ set.kids = f.kids /\ set.loc = f.loc /\ set.use = f.use
      /\ set.ref = f.ref /\ set.freed = f.freed /\ set.fault = f.fault
      /\ set.img = [f.img EXCEPT ![c] = value]
  BY ImageWritten
<1>2. g = IF same THEN set ELSE use(unuse(set, old), value)
  BY DEF setField
<1> HIDE DEF set, g
<1>3. /\ g \in FormSet /\ g.kids = f.kids /\ g.loc = f.loc
      /\ g.ref = f.ref /\ g.freed = f.freed /\ g.fault = f.fault
      /\ g.img = [f.img EXCEPT ![c] = value]
      /\ same => g.use = f.use
      /\ ~same => \A j \in Image :
           g.use[j] = IF j = value /\ value \in images THEN f.use[j] + 1
                      ELSE IF j = old /\ old \in images /\ f.use[j] > 0 THEN f.use[j] - 1
                      ELSE f.use[j]
  <2>1. CASE same
    BY <1>1, <1>2, <2>1
  <2>2. CASE ~same
    <3> DEFINE mid == unuse(set, old)
    <3>1. /\ mid \in FormSet /\ mid.kids = set.kids /\ mid.loc = set.loc /\ mid.img = set.img
          /\ mid.ref = set.ref /\ mid.freed = set.freed /\ mid.fault = set.fault
          /\ \A j \in Image :
               mid.use[j] = IF j = old /\ old \in images /\ set.use[j] > 0
                            THEN set.use[j] - 1 ELSE set.use[j]
      <4> HIDE DEF old
      <4> QED  BY <1>1, UnusedOnce
    <3> HIDE DEF mid
    <3>2. /\ g \in FormSet /\ g.kids = mid.kids /\ g.loc = mid.loc /\ g.img = mid.img
          /\ g.ref = mid.ref /\ g.freed = mid.freed /\ g.fault = mid.fault
          /\ \A j \in Image :
               g.use[j] = IF j = value /\ value \in images THEN mid.use[j] + 1
                          ELSE mid.use[j]
      <4>1. g = use(mid, value)
        BY <1>2, <2>2 DEF mid
      <4> QED  BY <3>1, <4>1, UsedOnce
    <3>3. value # old
      BY <2>2
    <3> HIDE DEF old
    <3> QED  BY <1>1, <2>2, <3>1, <3>2, <3>3
  <2> QED  BY <2>1, <2>2
<1>4. ASSUME Covered(f), c \in OnForm(f), NEW i \in images
      PROVE  g.use[i] >= Showing(g, OnForm(g), i)
  <2>1. OnForm(g) = OnForm(f) /\ OnForm(f) \subseteq Control
    BY <1>3, OnFormType DEF OnForm, TreeOf
  <2>2. g.img[c] = value /\ \A d \in Control \ {c} : g.img[d] = f.img[d]
    BY <1>3 DEF FormSet
  <2> DEFINE n == Showing(f, OnForm(f), i)
             m == Showing(g, OnForm(f), i)
             u == f.use[i]
             v == g.use[i]
  <2>3. n \in Nat /\ m \in Nat /\ i \in Image
    BY <2>1, ShowingType
  <2>4. /\ value = i /\ old = i => m = n
        /\ value # i /\ old # i => m = n
        /\ value = i /\ old # i => m = n + 1
        /\ value # i /\ old = i => n = m + 1
    BY <1>4, <2>1, <2>2, ShowingChanged
  <2>5. u \in Nat /\ u >= n
    BY <1>3, <1>4, <2>3 DEF Covered, FormSet
  <2>6. CASE same
    <3>1. v = u
      BY <1>3, <2>6
    <3>2. m <= n
      <4> HIDE DEF m, n
      <4> QED  BY <2>3, <2>4, <2>6
    <3> HIDE DEF m, n, u, v
    <3>3. v >= m
      BY <2>3, <2>5, <3>1, <3>2
    <3> QED  BY <2>1, <3>3 DEF m, v
  <2>7. CASE ~same
    <3>1. v = IF i = value THEN u + 1 ELSE IF i = old /\ u > 0 THEN u - 1 ELSE u
      BY <1>3, <2>3, <2>7
    <3> HIDE DEF m, n, u, v, old
    <3>2. v >= m
      BY <2>3, <2>4, <2>5, <3>1
    <3> QED  BY <2>1, <3>2 DEF m, v
  <2> QED  BY <2>6, <2>7
<1> QED  BY <1>3, <1>4 DEF Covered, g

-----------------------------------------------------------------------------
(* Taking a control off the form, putting it back, dragging it.            *)

LEMMA KidsOnly ==
  ASSUME NEW f, NEW g, g.kids = f.kids
  PROVE  TreeOf(g) = TreeOf(f) /\ (NoTwins(f) => NoTwins(g)) /\ OnForm(g) = OnForm(f)
BY DEF TreeOf, NoTwins, OnForm

LEMMA LessMore ==
  ASSUME NEW h \in [Control -> Nat], NEW c \in Control
  PROVE  /\ Less([h EXCEPT ![c] = @ + 1], {c}) = h
         /\ [[h EXCEPT ![c] = @ + 1] EXCEPT ![c] = @ - 1] = h
         /\ [h EXCEPT ![c] = @ + 1][c] > 0
<1> DEFINE k == [h EXCEPT ![c] = @ + 1]
<1>1. k \in [Control -> Nat] /\ k[c] = h[c] + 1 /\ \A d \in Control \ {c} : k[d] = h[d]
  OBVIOUS
<1> HIDE DEF k
<1>2. \A d \in Control : k[d] - (IF d \in {c} THEN 1 ELSE 0) = h[d]
  BY <1>1
<1>3. Less(k, {c}) = h
  BY <1>2 DEF Less
<1>4. [k EXCEPT ![c] = k[c] - 1] = h
  <2>1. \A d \in Control : [k EXCEPT ![c] = k[c] - 1][d] = h[d]
    BY <1>1
  <2> QED  BY <1>1, <2>1
<1>5. k[c] > 0
  BY <1>1
<1> QED  BY <1>3, <1>4, <1>5 DEF k

(* What taking c off the form f makes of it.                               *)
Taken(f, g, h, B, c) ==
  /\ Sound(g, h, B)
  /\ TreeOf(g) = [TreeOf(f) EXCEPT ![c] = {}]
  /\ g.loc = f.loc /\ g.img = f.img /\ g.fault = f.fault
  /\ Covered(f) => Covered(g)

LEMMA TakenFrom ==
  ASSUME NEW f, NEW h, NEW B, Sound(f, h, B), NEW c \in Control, NEW p \in Owner,
         TreeOf(f)[c] = {p}, p \in Top(TreeOf(f)), images \subseteq Image
  PROVE  Taken(f, release(decUseOfRefReses(remove(f, p, c), c), {c}), h, B, c)
<1> DEFINE t == TreeOf(f)
           x == [t EXCEPT ![c] = {}]
           f1 == remove(f, p, c)
           f2 == decUseOfRefReses(f1, c)
           g == release(f2, {c})
           k == [h EXCEPT ![c] = @ + 1]
<1>1. /\ f \in FormSet /\ NoTwins(f) /\ Counted(t, h, f.ref, f.freed, B)
      /\ t \in Tree /\ Single(t) /\ h \in [Control -> Nat] /\ B \subseteq Control
      /\ \A d \in Control \ B : Bare(t, d) /\ h[d] = 0
      /\ f.freed = B \ Live(t, h) /\ Shape(t, B)
  BY DEF Sound, Counted, Shape
<1>2. c \in B
  BY <1>1 DEF Bare
<1>3. x \in Tree /\ x[c] = {} /\ Alike(t, x, c) /\ Alike(x, t, c)
  BY <1>1 DEF Tree, Alike
<1>4. /\ f1 \in FormSet /\ NoTwins(f1) /\ TreeOf(f1) = x
      /\ f1.loc = f.loc /\ f1.img = f.img /\ f1.ref = f.ref /\ f1.use = f.use
      /\ f1.freed = f.freed /\ f1.fault = f.fault
  <2>1. /\ f1 \in FormSet /\ NoTwins(f1) /\ TreeOf(f1) = [t EXCEPT ![c] = @ \ {p}]
        /\ f1.loc = f.loc /\ f1.img = f.img /\ f1.ref = f.ref /\ f1.use = f.use
        /\ f1.freed = f.freed /\ f1.fault = f.fault
    BY <1>1, Removed
  <2>2. t[c] \ {p} = {}
    OBVIOUS
  <2> QED  BY <2>1, <2>2
<1>5. /\ f2 \in FormSet /\ f2.kids = f1.kids /\ f2.loc = f1.loc /\ f2.img = f1.img
      /\ f2.ref = f1.ref /\ f2.freed = f1.freed /\ f2.fault = f1.fault
      /\ Under(x, {c}) \subseteq Control
      /\ \A i \in Image : f2.use[i] >= f1.use[i] - Showing(f1, Under(x, {c}), i)
  <2> HIDE DEF f1
  <2> QED  BY <1>4, UseDecreased
<1>6. Top(t) \subseteq Live(t, h)
  BY TopUnder DEF Live, Roots
<1>7. Counted(x, k, f.ref, f.freed, B)
  <2>1. Off(t, {c}) = x /\ More(h, {c}) = k
    BY <1>1 DEF Tree, Off, More
  <2>2. {c} \subseteq B /\ \A d \in {c} : ~(t[d] \subseteq f.freed)
    BY <1>1, <1>2, <1>6
  <2> HIDE DEF t
  <2>3. Counted(Off(t, {c}), More(h, {c}), f.ref, f.freed, B)
    BY <1>1, <2>2, CountTakeOff
  <2> QED  BY <2>1, <2>3
<1>8. TreeOf(f2) = x /\ NoTwins(f2) /\ Sound(f2, k, B)
  <2> HIDE DEF x, k, f1, f2
  <2>1. TreeOf(f2) = x /\ NoTwins(f2)
    BY <1>4, <1>5, KidsOnly
  <2> QED  BY <1>4, <1>5, <1>7, <2>1 DEF Sound
<1>9. Less(k, {c}) = h /\ k[c] > 0
  BY <1>1, LessMore
<1>10. /\ Sound(g, h, B) /\ TreeOf(g) = x
       /\ g.loc = f.loc /\ g.img = f.img /\ g.fault = f.fault /\ g.use = f2.use
  <2> HIDE DEF f1, f2, k, x
  <2>1. {c} \subseteq B /\ \A d \in {c} : k[d] > 0
    BY <1>2, <1>9
  <2>2. \E d \in {c} : {c} = {d}
    OBVIOUS
  <2>3. LET r == release(f2, {c}) IN
        /\ Sound(r, Less(k, {c}), B)
        /\ r.kids = f2.kids /\ TreeOf(r) = TreeOf(f2) /\ NoTwins(r)
        /\ r.loc = f2.loc /\ r.img = f2.img /\ r.use = f2.use /\ r.fault = f2.fault
    BY <1>8, <2>1, <2>2, Released
  <2> QED  BY <1>4, <1>5, <1>8, <1>9, <2>3
<1> HIDE DEF f1, f2, g, k
<1>11. ASSUME Covered(f), NEW i \in images
       PROVE  g.use[i] >= Showing(g, OnForm(g), i)
  <2>1. TakenOff(t, x, c)
    <3>1. c \in Top(t)
      <4>1. c \in Kids(t, Top(t))
        BY DEF Kids
      <4> QED  BY <4>1, UnderClosed DEF Top
    <3>2. Single(x)
      BY <1>1, <1>3 DEF Single, Alike
    <3> QED  BY <1>1, <1>3, <3>1, <3>2 DEF TakenOff
  <2> HIDE DEF x, t
  <2>2. /\ Under(x, {c}) = Under(t, {c}) /\ Top(x) = Top(t) \ Under(t, {c})
        /\ Under(t, {c}) \subseteq Top(t)
    <3>1. TopTakenOff(t, x, c)
      BY ONLY <2>1, c \in Control, TakenOffTop
    <3> QED  BY <3>1 DEF TopTakenOff
  <2> DEFINE below == Under(x, {c})
  <2>3. /\ OnForm(f) = OnForm(g) \cup below /\ OnForm(g) \cap below = {}
        /\ OnForm(g) \subseteq Control /\ below \subseteq Control
    <3>1. OnForm(f) = Top(t) \ {Base} /\ OnForm(g) = Top(x) \ {Base}
      BY <1>10 DEF OnForm, t
    <3>2. below \subseteq Control /\ Base \notin Control /\ OnForm(g) \subseteq Control
      BY <1>5, FormAssumption, OnFormType
    <3> QED  BY <2>2, <3>1, <3>2
  <2> HIDE DEF below
  <2>4. Showing(f, OnForm(g) \cup below, i) = Showing(f, OnForm(g), i) + Showing(f, below, i)
    BY <2>3, ShowingSplit
  <2>5. Showing(g, OnForm(g), i) = Showing(f, OnForm(g), i)
        /\ Showing(f1, below, i) = Showing(f, below, i)
    BY <1>4, <1>10 DEF Showing
  <2>6. Showing(f, OnForm(g), i) \in Nat /\ Showing(f, below, i) \in Nat /\ i \in Image
    BY <2>3, ShowingType
  <2>7. g.use[i] >= f.use[i] - Showing(f, below, i) /\ f.use[i] \in Nat
    BY <1>1, <1>4, <1>5, <1>10, <2>5, <2>6 DEF FormSet, below
  <2>8. f.use[i] >= Showing(f, OnForm(f), i)
    BY <1>11 DEF Covered
  <2>9. g.use[i] \in Nat
    BY <1>10, <2>6 DEF Sound, FormSet
  <2> QED  BY <2>3, <2>4, <2>5, <2>6, <2>7, <2>8, <2>9
<1> QED  BY <1>10, <1>11 DEF Taken, Covered, g, f2, f1, t, x

LEMMA PutBack ==
  ASSUME NEW f, NEW h, NEW B, Sound(f, h, B), NEW c \in Control, NEW p \in Owner,
         TreeOf(f)[c] = {}, p \in Top(TreeOf(f)), h[c] > 0, images \subseteq Image
  PROVE  LET g == insert(addRef(incUseOfRefReses(f, c), c), p, c) IN
         /\ Sound(g, h, B)
         /\ TreeOf(g) = [TreeOf(f) EXCEPT ![c] = {p}]
         /\ g.loc = f.loc /\ g.img = f.img /\ g.fault = f.fault
         /\ Covered(f) => Covered(g)
<1> DEFINE t == TreeOf(f)
           x == [t EXCEPT ![c] = {p}]
           f1 == incUseOfRefReses(f, c)
           f2 == addRef(f1, c)
           g == insert(f2, p, c)
           k == [h EXCEPT ![c] = @ + 1]
<1>1. /\ f \in FormSet /\ NoTwins(f) /\ Counted(t, h, f.ref, f.freed, B)
      /\ t \in Tree /\ Single(t) /\ h \in [Control -> Nat] /\ B \subseteq Control
      /\ \A d \in Control \ B : Bare(t, d) /\ h[d] = 0
      /\ f.freed = B \ Live(t, h) /\ Shape(t, B)
  BY DEF Sound, Counted, Shape
<1>2. c \in B \ f.freed
  <2>1. c \in B /\ c \in Roots(h)
    BY <1>1 DEF Roots
  <2>2. Roots(h) \subseteq Live(t, h)
    BY UnderClosed DEF Live
  <2> QED  BY <1>1, <2>1, <2>2
<1>3. Hung(t, x, c, p)
  BY <1>1, PutAt
<1>4. x \in Tree /\ x[c] = {p} /\ Alike(t, x, c) /\ Alike(x, t, c)
  BY <1>3 DEF Hung
<1>5. /\ f1 \in FormSet /\ f1.kids = f.kids /\ f1.loc = f.loc /\ f1.img = f.img
      /\ f1.ref = f.ref /\ f1.freed = f.freed /\ f1.fault = f.fault
      /\ Under(t, {c}) \subseteq Control
      /\ \A i \in Image : i \in images => f1.use[i] = f.use[i] + Showing(f, Under(t, {c}), i)
  BY <1>1, UseIncreased
<1> HIDE DEF f1
<1>6. /\ f2 \in FormSet /\ f2.kids = f.kids /\ f2.loc = f.loc /\ f2.img = f.img
      /\ f2.ref = [f.ref EXCEPT ![c] = @ + 1] /\ f2.freed = f.freed /\ f2.fault = f.fault
      /\ f2.use = f1.use
  BY <1>5, Referenced
<1>7. TreeOf(f2) = t /\ NoTwins(f2)
  BY <1>1, <1>6, KidsOnly
<1> HIDE DEF f2
<1>8. Counted(t, k, f2.ref, f2.freed, B)
  <2>1. Counted(t, [h EXCEPT ![c] = @ + 1], [f.ref EXCEPT ![c] = @ + 1], f.freed, B)
    <3> HIDE DEF t, k
    <3> QED  BY <1>1, <1>2, CountHold
  <2> QED  BY <1>6, <2>1
<1>9. k[c] > 0 /\ [k EXCEPT ![c] = @ - 1] = h
  BY <1>1, LessMore
<1>10. /\ g \in FormSet /\ NoTwins(g) /\ TreeOf(g) = x
       /\ g.loc = f.loc /\ g.img = f.img /\ g.ref = f2.ref /\ g.use = f1.use
       /\ g.freed = f2.freed /\ g.fault = f.fault
  <2>1. p \notin TreeOf(f2)[c]
    BY <1>7
  <2>2. /\ g \in FormSet /\ NoTwins(g)
        /\ TreeOf(g) = [TreeOf(f2) EXCEPT ![c] = @ \cup {p}]
        /\ g.loc = f2.loc /\ g.img = f2.img /\ g.ref = f2.ref /\ g.use = f2.use
        /\ g.freed = f2.freed /\ g.fault = f2.fault
    BY <1>6, <1>7, <2>1, Inserted
  <2>3. t[c] \cup {p} = {p}
    OBVIOUS
  <2> QED  BY <1>6, <1>7, <2>2, <2>3
<1> HIDE DEF g, x, k
<1>11. Counted(x, [k EXCEPT ![c] = @ - 1], f2.ref, f2.freed, B)
  <2>1. c \in B /\ t[c] = {} /\ p \in Top(t)
    BY <1>2
  <2> HIDE DEF t
  <2> QED  BY <1>3, <1>8, <1>9, <2>1, CountPutOn
<1>12. Sound(g, h, B)
  BY <1>9, <1>10, <1>11 DEF Sound
<1>13. ASSUME Covered(f), NEW i \in images
       PROVE  g.use[i] >= Showing(g, OnForm(g), i)
  <2>1. TakenOff(x, t, c)
    <3>1. \A d \in Control : t[d] \subseteq x[d]
      BY <1>4 DEF Alike
    <3>2. {Base} \subseteq Under(x, {Base})
      BY UnderClosed
    <3>3. Under(t, {Base}) \subseteq Under(x, {Base})
      BY <3>1, <3>2, UnderGrows
    <3>4. p \in Top(x)
      BY <3>3 DEF Top
    <3>5. c \in Kids(x, Top(x))
      BY <1>4, <3>4 DEF Kids
    <3>6. c \in Top(x)
      BY <3>5, UnderClosed DEF Top
    <3>7. Single(x)
      BY <1>1, <1>4 DEF Single, Alike
    <3> QED  BY <1>1, <1>4, <3>6, <3>7 DEF TakenOff
  <2> HIDE DEF t
  <2>2. /\ Under(t, {c}) = Under(x, {c}) /\ Top(t) = Top(x) \ Under(x, {c})
        /\ Under(x, {c}) \subseteq Top(x)
    <3>1. TopTakenOff(x, t, c)
      BY ONLY <2>1, c \in Control, TakenOffTop
    <3> QED  BY <3>1 DEF TopTakenOff
  <2> DEFINE below == Under(t, {c})
  <2>3. /\ OnForm(g) = OnForm(f) \cup below /\ OnForm(f) \cap below = {}
        /\ OnForm(f) \subseteq Control /\ below \subseteq Control
    <3>1. OnForm(f) = Top(t) \ {Base} /\ OnForm(g) = Top(x) \ {Base}
      BY <1>10 DEF OnForm, t
    <3>2. below \subseteq Control /\ Base \notin Control /\ OnForm(f) \subseteq Control
      BY <1>5, FormAssumption, OnFormType
    <3> QED  BY <2>2, <3>1, <3>2
  <2> HIDE DEF below
  <2>4. Showing(f, OnForm(f) \cup below, i) = Showing(f, OnForm(f), i) + Showing(f, below, i)
    BY <2>3, ShowingSplit
  <2>5. Showing(g, OnForm(g), i) = Showing(f, OnForm(g), i)
    BY <1>10 DEF Showing
  <2>6. Showing(f, OnForm(f), i) \in Nat /\ Showing(f, below, i) \in Nat /\ i \in Image
    BY <2>3, ShowingType
  <2>7. g.use[i] = f.use[i] + Showing(f, below, i) /\ f.use[i] \in Nat
    BY <1>1, <1>5, <1>10, <2>6 DEF FormSet, below
  <2>8. f.use[i] >= Showing(f, OnForm(f), i)
    BY <1>13 DEF Covered
  <2> QED  BY <2>3, <2>4, <2>5, <2>6, <2>7, <2>8
<1> QED  BY <1>10, <1>12, <1>13 DEF Covered, g, f2, f1, t, x

LEMMA MovedTo ==
  ASSUME NEW f, NEW h, NEW B, Sound(f, h, B), NEW c \in Control, NEW q \in Owner,
         TreeOf(f)[c] = {q}, c \in Top(TreeOf(f)), NEW p \in Owner \ {q},
         p \in Top(TreeOf(f)) \ Under(TreeOf(f), {c})
  PROVE  LET g == insert(remove(f, q, c), p, c) IN
         /\ Sound(g, h, B)
         /\ TreeOf(g) = [TreeOf(f) EXCEPT ![c] = {p}]
         /\ g.loc = f.loc /\ g.img = f.img /\ g.fault = f.fault /\ g.use = f.use
         /\ OnForm(g) = OnForm(f)
<1> DEFINE t == TreeOf(f)
           x == [t EXCEPT ![c] = {p}]
           f1 == remove(f, q, c)
           g == insert(f1, p, c)
<1>1. /\ f \in FormSet /\ NoTwins(f) /\ Counted(t, h, f.ref, f.freed, B)
      /\ t \in Tree /\ Single(t)
  BY DEF Sound, Counted, Shape
<1>2. Hung(t, x, c, p)
  BY <1>1, PutAt
<1>3. /\ f1 \in FormSet /\ NoTwins(f1) /\ TreeOf(f1) = [t EXCEPT ![c] = @ \ {q}]
      /\ f1.loc = f.loc /\ f1.img = f.img /\ f1.ref = f.ref /\ f1.use = f.use
      /\ f1.freed = f.freed /\ f1.fault = f.fault
  BY <1>1, Removed
<1> HIDE DEF f1
<1>4. TreeOf(f1)[c] = {} /\ [TreeOf(f1) EXCEPT ![c] = {p}] = x
  BY <1>1, <1>3 DEF Tree
<1>5. /\ g \in FormSet /\ NoTwins(g) /\ TreeOf(g) = x
      /\ g.loc = f.loc /\ g.img = f.img /\ g.ref = f.ref /\ g.use = f.use
      /\ g.freed = f.freed /\ g.fault = f.fault
  <2>1. p \notin TreeOf(f1)[c]
    BY <1>4
  <2>2. /\ g \in FormSet /\ NoTwins(g)
        /\ TreeOf(g) = [TreeOf(f1) EXCEPT ![c] = @ \cup {p}]
        /\ g.loc = f1.loc /\ g.img = f1.img /\ g.ref = f1.ref /\ g.use = f1.use
        /\ g.freed = f1.freed /\ g.fault = f1.fault
    <3>1. f1 \in FormSet /\ NoTwins(f1)
      BY <1>3
    <3> QED  BY ONLY <3>1, <2>1, p \in Owner, c \in Control, Inserted
  <2>3. TreeOf(f1)[c] \cup {p} = {p}
    BY <1>4
  <2> QED  BY <1>3, <1>4, <2>2, <2>3
<1> HIDE DEF g, x
<1>6. c \in Top(t) /\ p \in Top(t) \ Under(t, {c}) /\ p \in Owner /\ Base \in {Base}
  OBVIOUS
<1>7. Counted(x, h, f.ref, f.freed, B)
  <2> HIDE DEF t
  <2> QED  BY <1>1, <1>2, <1>6, CountMove
<1>8. Top(x) = Top(t)
  <2> HIDE DEF t
  <2> QED  BY <1>1, <1>2, <1>6, MovedTop
<1> QED  BY <1>5, <1>7, <1>8 DEF Sound, OnForm, g, f1, t, x

(* A new control, drawn or pasted, below an instance that is alive.        *)
LEMMA Placed ==
  ASSUME NEW f, NEW h, NEW B, Sound(f, h, B), NEW c \in Control \ B, NEW p \in Owner,
         p \in Live(TreeOf(f), h), NEW l \in Loc, NEW i \in Field
  PROVE  LET g == [insert(f, p, c) EXCEPT !.ref[c] = 1, !.loc[c] = l, !.img[c] = i] IN
         /\ Sound(g, h, B \cup {c})
         /\ TreeOf(g) = [TreeOf(f) EXCEPT ![c] = {p}]
         /\ g.img = [f.img EXCEPT ![c] = i] /\ g.loc = [f.loc EXCEPT ![c] = l]
         /\ g.use = f.use /\ g.fault = f.fault /\ g.freed = f.freed
         /\ OnForm(g) = OnForm(f) \cup {d \in {c} : p \in Top(TreeOf(f))}
         /\ c \notin OnForm(f)
<1> DEFINE t == TreeOf(f)
           x == [t EXCEPT ![c] = {p}]
           f1 == insert(f, p, c)
           ref == [f1.ref EXCEPT ![c] = 1]
           loc == [f1.loc EXCEPT ![c] = l]
           img == [f1.img EXCEPT ![c] = i]
           g == [f1 EXCEPT !.ref[c] = 1, !.loc[c] = l, !.img[c] = i]
<1>1. /\ f \in FormSet /\ NoTwins(f) /\ Counted(t, h, f.ref, f.freed, B)
      /\ Shape(t, B) /\ t \in Tree /\ Bare(t, c) /\ B \subseteq Control
      /\ \A d \in Control \ B : h[d] = 0
  BY DEF Sound, Counted, Shape
<1>2. p # c
  <2>1. p \in B \cup {Base}
    BY <1>1, LiveBorn
  <2> QED  BY <2>1, FormAssumption
<1>3. Hung(t, x, c, p)
  BY <1>1, PutAt
<1>4. /\ f1 \in FormSet /\ NoTwins(f1) /\ TreeOf(f1) = x
      /\ f1.loc = f.loc /\ f1.img = f.img /\ f1.ref = f.ref /\ f1.use = f.use
      /\ f1.freed = f.freed /\ f1.fault = f.fault
  <2>1. t[c] = {}
    BY <1>1 DEF Bare
  <2>2. p \notin TreeOf(f)[c]
    BY <2>1
  <2>3. /\ f1 \in FormSet /\ NoTwins(f1)
        /\ TreeOf(f1) = [t EXCEPT ![c] = @ \cup {p}]
        /\ f1.loc = f.loc /\ f1.img = f.img /\ f1.ref = f.ref /\ f1.use = f.use
        /\ f1.freed = f.freed /\ f1.fault = f.fault
    BY <1>1, <2>2, Inserted
  <2>4. t[c] \cup {p} = {p}
    BY <2>1
  <2> QED  BY <2>3, <2>4
<1> HIDE DEF f1
<1>5. ref \in [Control -> Int] /\ loc \in [Control -> Loc] /\ img \in [Control -> Field]
  BY <1>4 DEF FormSet
<1>6. /\ ref = [f.ref EXCEPT ![c] = 1] /\ img = [f.img EXCEPT ![c] = i]
      /\ loc = [f.loc EXCEPT ![c] = l]
  BY <1>4
<1>7. g = [f1 EXCEPT !.ref = ref, !.loc = loc, !.img = img]
  BY DEF ref, loc, img
<1> HIDE DEF ref, loc, img, g
<1>8. /\ g \in FormSet /\ g.kids = f1.kids /\ g.img = img /\ g.ref = ref /\ g.loc = loc
      /\ g.use = f.use /\ g.fault = f.fault /\ g.freed = f.freed
  BY <1>4, <1>5, <1>7 DEF FormSet
<1>9. TreeOf(g) = x /\ NoTwins(g)
  BY <1>4, <1>8, KidsOnly
<1>10. Counted(x, h, [f.ref EXCEPT ![c] = 1], f.freed, B \cup {c})
  <2> HIDE DEF t, x
  <2>1. p \in Live(t, h)
    BY DEF t
  <2> QED  BY <1>1, <1>3, <2>1, CountLeaf
<1>11. Sound(g, h, B \cup {c})
  BY <1>6, <1>8, <1>9, <1>10 DEF Sound
<1>12. Top(x) = Top(t) \cup {d \in {c} : p \in Top(t)} /\ c \notin Top(t)
  <2>1. c \notin {Base}
    BY FormAssumption
  <2> HIDE DEF t, x
  <2> QED  BY <1>1, <1>2, <1>3, <2>1, LeafAdded DEF Top
<1>13. c # Base
  BY FormAssumption
<1>14. OnForm(g) = OnForm(f) \cup {d \in {c} : p \in Top(TreeOf(f))} /\ c \notin OnForm(f)
  BY <1>9, <1>12, <1>13 DEF OnForm
<1> QED  BY <1>6, <1>8, <1>9, <1>11, <1>14 DEF g, f1, x, t

LEMMA ShowingOne ==
  ASSUME NEW f, NEW c \in Control, NEW i
  PROVE  Showing(f, {c}, i) = IF f.img[c] = i THEN 1 ELSE 0
<1>1. CASE f.img[c] = i
  <2>1. {d \in {c} : f.img[d] = i} = {c}
    BY <1>1
  <2> QED  BY <1>1, <2>1, FS_Singleton DEF Showing
<1>2. CASE f.img[c] # i
  <2>1. {d \in {c} : f.img[d] = i} = {}
    BY <1>2
  <2> QED  BY <1>2, <2>1, FS_EmptySet DEF Showing
<1> QED  BY <1>1, <1>2

(* The control just drawn: it shows no image, its command holds it. *)
Drawn(f, p, c, l) == addRef([insert(f, p, c) EXCEPT !.ref[c] = 1, !.loc[c] = l], c)
DrawnAt(f, g, c, p, l, h, B) ==
  /\ Sound(g, [h EXCEPT ![c] = @ + 1], B \cup {c})
  /\ TreeOf(g) = [TreeOf(f) EXCEPT ![c] = {p}]
  /\ g.img = f.img /\ g.loc = [f.loc EXCEPT ![c] = l] /\ g.fault = f.fault
  /\ Covered(f) => Covered(g)

LEMMA Created ==
  ASSUME NEW f, NEW h, NEW B, Sound(f, h, B), NEW c \in Control \ B, NEW p \in Owner,
         p \in Top(TreeOf(f)), NEW l \in Loc, f.img[c] = Default, images \subseteq Image
  PROVE  DrawnAt(f, Drawn(f, p, c, l), c, p, l, h, B)
<1> DEFINE f1 == insert(f, p, c)
           made == [f1 EXCEPT !.ref[c] = 1, !.loc[c] = l]
           full == [f1 EXCEPT !.ref[c] = 1, !.loc[c] = l, !.img[c] = Default]
           g == addRef(made, c)
<1>1. /\ f \in FormSet /\ NoTwins(f) /\ Counted(TreeOf(f), h, f.ref, f.freed, B)
      /\ Shape(TreeOf(f), B) /\ TreeOf(f) \in Tree /\ Bare(TreeOf(f), c)
      /\ h \in [Control -> Nat] /\ c \in Control
  BY DEF Sound, Counted, Shape
<1>2. p \in Live(TreeOf(f), h)
  BY TopUnder DEF Live, Roots
<1>3. /\ Sound(full, h, B \cup {c})
      /\ TreeOf(full) = [TreeOf(f) EXCEPT ![c] = {p}]
      /\ full.img = [f.img EXCEPT ![c] = Default] /\ full.loc = [f.loc EXCEPT ![c] = l]
      /\ full.use = f.use /\ full.fault = f.fault /\ full.freed = f.freed
      /\ OnForm(full) = OnForm(f) \cup {d \in {c} : p \in Top(TreeOf(f))}
      /\ c \notin OnForm(f)
  <2>1. Default \in Field
    BY DEF Field
  <2> QED  BY ONLY Sound(f, h, B), c \in Control \ B, p \in Owner, l \in Loc, <1>2, <2>1,
                   Placed
<1>4. full = made
  <2>1. f1 \in FormSet /\ f1.img = f.img
    <3>1. p \notin TreeOf(f)[c]
      BY <1>1 DEF Bare
    <3> QED  BY <1>1, <3>1, Inserted
  <2> HIDE DEF f1
  <2>2. [f1.img EXCEPT ![c] = Default] = f1.img
    BY <2>1 DEF FormSet
  <2> DEFINE ref == [f1.ref EXCEPT ![c] = 1]
             loc == [f1.loc EXCEPT ![c] = l]
  <2>3. full = [f1 EXCEPT !.ref = ref, !.loc = loc, !.img = f1.img]
    BY <2>2
  <2>4. made = [f1 EXCEPT !.ref = ref, !.loc = loc]
    OBVIOUS
  <2> HIDE DEF ref, loc, full, made
  <2> QED  BY <2>1, <2>3, <2>4 DEF FormSet
<1>5. full.img = f.img
  BY <1>1, <1>3 DEF FormSet
<1> HIDE DEF full, made, f1
<1>6. full \in FormSet /\ NoTwins(full)
      /\ Counted(TreeOf(full), h, full.ref, full.freed, B \cup {c})
  BY <1>3 DEF Sound
<1>7. /\ g \in FormSet /\ TreeOf(g) = TreeOf(full) /\ NoTwins(g)
      /\ g.ref = [full.ref EXCEPT ![c] = @ + 1] /\ g.kids = full.kids
      /\ g.img = f.img /\ g.use = full.use /\ g.loc = full.loc
      /\ g.freed = full.freed /\ g.fault = full.fault
  BY <1>1, <1>4, <1>5, <1>6, Referenced
<1> HIDE DEF g
<1>8. Counted(TreeOf(full), [h EXCEPT ![c] = @ + 1], [full.ref EXCEPT ![c] = @ + 1],
              full.freed, B \cup {c})
  <2>1. full.freed \subseteq B
    BY <1>1, <1>3 DEF Counted
  <2>2. c \in (B \cup {c}) \ full.freed
    BY <2>1
  <2> QED  BY <1>6, <2>2, CountHold
<1>9. Sound(g, [h EXCEPT ![c] = @ + 1], B \cup {c})
  BY <1>7, <1>8 DEF Sound
<1>10. ASSUME Covered(f), NEW j \in images
       PROVE  g.use[j] >= Showing(g, OnForm(g), j)
  <2>1. OnForm(g) = OnForm(f) \cup {c} /\ OnForm(f) \cap {c} = {}
    <3>1. OnForm(g) = OnForm(full)
      BY <1>7, KidsOnly
    <3> QED  BY <1>3, <3>1
  <2>2. Showing(g, OnForm(g), j) = Showing(f, OnForm(g), j)
    BY <1>7 DEF Showing
  <2>3. {c} \subseteq Control /\ OnForm(f) \subseteq Control
    BY OnFormType
  <2>4. Showing(f, OnForm(f) \cup {c}, j) = Showing(f, OnForm(f), j) + Showing(f, {c}, j)
    BY <2>1, <2>3, ShowingSplit
  <2>5. Showing(f, {c}, j) = 0
    <3>1. f.img[c] # j
      BY FormAssumption
    <3> QED  BY <3>1, ShowingOne
  <2>6. Showing(f, OnForm(f), j) \in Nat
    BY <2>3, ShowingType
  <2>7. g.use[j] = f.use[j] /\ f.use[j] \in Nat
    BY <1>1, <1>3, <1>7 DEF FormSet
  <2>8. f.use[j] >= Showing(f, OnForm(f), j)
    BY <1>10 DEF Covered
  <2> QED  BY <2>1, <2>2, <2>4, <2>5, <2>6, <2>7, <2>8
<1>11. Drawn(f, p, c, l) = g
  BY DEF Drawn, g, made, f1
<1>12. Covered(f) => Covered(g)
  BY <1>10 DEF Covered
<1> QED  BY <1>3, <1>4, <1>7, <1>9, <1>11, <1>12 DEF DrawnAt

(* The control just pasted: its image is used once more. *)
PastedForm(f, p, c, l, i) ==
  incUseOfRefReses([insert(f, p, c) EXCEPT !.ref[c] = 1, !.loc[c] = l, !.img[c] = i], c)
PastedAt(f, g, c, p, l, i, h, B) ==
  /\ Sound(g, h, B \cup {c})
  /\ TreeOf(g) = [TreeOf(f) EXCEPT ![c] = {p}]
  /\ g.img = [f.img EXCEPT ![c] = i] /\ g.loc = [f.loc EXCEPT ![c] = l]
  /\ g.fault = f.fault /\ g.freed = f.freed
  /\ Covered(f) => Covered(g)

LEMMA Pasted ==
  ASSUME NEW f, NEW h, NEW B, Sound(f, h, B), NEW c \in Control \ B, NEW p \in Owner,
         p \in Live(TreeOf(f), h), NEW l \in Loc, NEW i \in Field, images \subseteq Image
  PROVE  PastedAt(f, PastedForm(f, p, c, l, i), c, p, l, i, h, B)
<1> DEFINE made == [insert(f, p, c) EXCEPT !.ref[c] = 1, !.loc[c] = l, !.img[c] = i]
           g == incUseOfRefReses(made, c)
           below == Under(TreeOf(made), {c})
<1>1. /\ Sound(made, h, B \cup {c})
      /\ TreeOf(made) = [TreeOf(f) EXCEPT ![c] = {p}]
      /\ made.img = [f.img EXCEPT ![c] = i] /\ made.loc = [f.loc EXCEPT ![c] = l]
      /\ made.use = f.use /\ made.fault = f.fault /\ made.freed = f.freed
      /\ OnForm(made) = OnForm(f) \cup {d \in {c} : p \in Top(TreeOf(f))}
      /\ c \notin OnForm(f)
  BY Placed
<1>2. f \in FormSet
  BY DEF Sound
<1> HIDE DEF made
<1>3. made \in FormSet /\ NoTwins(made)
      /\ Counted(TreeOf(made), h, made.ref, made.freed, B \cup {c})
  BY <1>1 DEF Sound
<1>4. /\ g \in FormSet /\ g.kids = made.kids /\ g.loc = made.loc /\ g.img = made.img
      /\ g.ref = made.ref /\ g.freed = made.freed /\ g.fault = made.fault
      /\ below \subseteq Control
      /\ \A j \in Image : j \in images => g.use[j] = made.use[j] + Showing(made, below, j)
  BY <1>3, UseIncreased
<1> HIDE DEF g
<1>5. TreeOf(g) = TreeOf(made) /\ NoTwins(g) /\ OnForm(g) = OnForm(made)
  BY <1>3, <1>4, KidsOnly
<1>6. Sound(g, h, B \cup {c})
  BY <1>3, <1>4, <1>5 DEF Sound
<1>7. ASSUME Covered(f), NEW j \in images
      PROVE  g.use[j] >= Showing(g, OnForm(g), j)
  <2>1. {c} \subseteq Control /\ OnForm(f) \subseteq Control /\ j \in Image
    BY OnFormType
  <2>2. /\ Showing(made, below, j) = Showing(made, {c}, j) + Showing(made, below \ {c}, j)
        /\ Showing(made, {c}, j) \in Nat /\ Showing(made, below \ {c}, j) \in Nat
    <3>1. c \in below
      BY UnderClosed
    <3>2. /\ below = {c} \cup (below \ {c}) /\ {c} \cap (below \ {c}) = {}
          /\ below \ {c} \subseteq Control
      BY <1>4, <3>1
    <3> HIDE DEF below
    <3>3. Showing(made, {c} \cup (below \ {c}), j)
            = Showing(made, {c}, j) + Showing(made, below \ {c}, j)
      BY <2>1, <3>2, ShowingSplit
    <3> QED  BY <2>1, <3>2, <3>3, ShowingType
  <2>3. Showing(made, OnForm(f), j) = Showing(f, OnForm(f), j)
        /\ Showing(f, OnForm(f), j) \in Nat
    <3>1. \A d \in OnForm(f) : made.img[d] = f.img[d]
      BY <1>1, <1>2, <2>1 DEF FormSet
    <3>2. {d \in OnForm(f) : made.img[d] = j} = {d \in OnForm(f) : f.img[d] = j}
      BY <3>1
    <3>3. Showing(made, OnForm(f), j) = Showing(f, OnForm(f), j)
      BY <3>2 DEF Showing
    <3> QED  BY <2>1, <3>3, ShowingType
  <2>4. Showing(g, OnForm(g), j) = Showing(made, OnForm(made), j)
    BY <1>4, <1>5 DEF Showing
  <2>5. Showing(made, OnForm(made), j)
          \in {Showing(made, OnForm(f), j), Showing(made, OnForm(f), j) + Showing(made, {c}, j)}
    <3>1. OnForm(f) \cap {c} = {}
      BY <1>1
    <3>2. Showing(made, OnForm(f) \cup {c}, j)
            = Showing(made, OnForm(f), j) + Showing(made, {c}, j)
      BY <2>1, <3>1, ShowingSplit
    <3>3. OnForm(made) = OnForm(f) \/ OnForm(made) = OnForm(f) \cup {c}
      BY <1>1
    <3> QED  BY <3>2, <3>3
  <2>6. g.use[j] = f.use[j] + Showing(made, below, j) /\ f.use[j] \in Nat
    BY <1>1, <1>2, <1>4, <2>1 DEF FormSet
  <2>7. f.use[j] >= Showing(f, OnForm(f), j)
    BY <1>7 DEF Covered
  <2> QED  BY <2>2, <2>3, <2>4, <2>5, <2>6, <2>7
<1>8. PastedForm(f, p, c, l, i) = g
  BY DEF PastedForm, g, made
<1>9. Covered(f) => Covered(g)
  BY <1>7 DEF Covered
<1> QED  BY <1>1, <1>4, <1>5, <1>6, <1>8, <1>9 DEF PastedAt

LEMMA SoundShape ==
  ASSUME NEW f, NEW h, NEW B, Sound(f, h, B)
  PROVE  /\ f \in FormSet /\ f.freed \subseteq B /\ B \subseteq Control
         /\ TreeOf(f) \in Tree /\ Single(TreeOf(f))
         /\ \A c \in Control \ B : Bare(TreeOf(f), c)
BY DEF Sound, Counted, Shape

LEMMA ParentIs ==
  ASSUME NEW f, Single(TreeOf(f)), NEW c \in Control, c \in Top(TreeOf(f))
  PROVE  /\ ParentOf(f, c) \in Owner /\ TreeOf(f)[c] = {ParentOf(f, c)}
         /\ ParentOf(f, c) \in Top(TreeOf(f))
<1> DEFINE t == TreeOf(f)
<1>1. c \in Under(t, {Base}) \ {Base}
  BY FormAssumption DEF Top
<1>2. PICK o \in t[c] : o \in Top(t)
  <2> HIDE DEF t
  <2> QED  BY <1>1, UnderParent DEF Top
<1>3. o \in Owner /\ c \in Elements(f.kids[o])
  BY <1>2 DEF TreeOf
<1>4. ParentOf(f, c) \in Owner /\ c \in Elements(f.kids[ParentOf(f, c)])
  BY <1>3 DEF ParentOf
<1>5. ParentOf(f, c) \in t[c]
  BY <1>4 DEF TreeOf
<1>6. ParentOf(f, c) = o
  BY <1>2, <1>5 DEF Single
<1> HIDE DEF t
<1>7. t[c] = {o}
  BY <1>2 DEF Single, t
<1> QED  BY <1>2, <1>3, <1>6, <1>7 DEF t

LEMMA LocWritten ==
  ASSUME NEW f \in FormSet, NEW c \in Control, NEW l \in Loc
  PROVE  LET g == [f EXCEPT !.loc[c] = l] IN
         /\ g \in FormSet /\ g.kids = f.kids /\ g.img = f.img /\ g.use = f.use
         /\ g.ref = f.ref /\ g.freed = f.freed /\ g.fault = f.fault
         /\ g.loc = [f.loc EXCEPT ![c] = l]
<1> DEFINE m == [f.loc EXCEPT ![c] = l]
<1>1. m \in [Control -> Loc]
  BY DEF FormSet
<1>2. [f EXCEPT !.loc[c] = l] = [f EXCEPT !.loc = m]
  OBVIOUS
<1> HIDE DEF m
<1>3. [f EXCEPT !.loc = m] \in FormSet
  BY <1>1 DEF FormSet
<1> QED  BY <1>1, <1>2, <1>3 DEF FormSet, m

(* g keeps what f promises, whatever its fields and its tree became. *)
Kept(f, g, h, B) ==
  /\ Sound(g, h, B)
  /\ g.fault = f.fault
  /\ Covered(f) => Covered(g)
  /\ \A d \in Control \ B : g.img[d] = f.img[d]

(* A form of which only locations differ. *)
LEMMA KeptPlace ==
  ASSUME NEW f, NEW h, NEW B, Sound(f, h, B), NEW c \in Control, NEW l \in Loc
  PROVE  LET g == [f EXCEPT !.loc[c] = l] IN
         /\ Kept(f, g, h, B) /\ TreeOf(g) = TreeOf(f) /\ g.use = f.use
         /\ g.img = f.img /\ OnForm(g) = OnForm(f)
         /\ g.loc = [f.loc EXCEPT ![c] = l]
<1> DEFINE g == [f EXCEPT !.loc[c] = l]
<1>1. f \in FormSet /\ NoTwins(f) /\ Counted(TreeOf(f), h, f.ref, f.freed, B)
  BY DEF Sound
<1>2. /\ g \in FormSet /\ g.kids = f.kids /\ g.img = f.img /\ g.use = f.use
      /\ g.ref = f.ref /\ g.freed = f.freed /\ g.fault = f.fault
      /\ g.loc = [f.loc EXCEPT ![c] = l]
  BY <1>1, LocWritten
<1> HIDE DEF g
<1>3. TreeOf(g) = TreeOf(f) /\ NoTwins(g) /\ OnForm(g) = OnForm(f)
  BY <1>1, <1>2, KidsOnly
<1>4. Sound(g, h, B)
  BY <1>1, <1>2, <1>3 DEF Sound
<1>5. Covered(f) => Covered(g)
  BY <1>2, <1>3 DEF Covered, Showing
<1> QED  BY <1>2, <1>3, <1>4, <1>5 DEF Kept, g

(* A form of which only an image field and use counts differ. *)
LEMMA KeptImage ==
  ASSUME NEW f, NEW h, NEW B, Sound(f, h, B), NEW c \in Control, NEW g \in FormSet,
         g.kids = f.kids, g.ref = f.ref, g.freed = f.freed, g.fault = f.fault,
         \A d \in Control \ {c} : g.img[d] = f.img[d],
         Covered(f) => Covered(g), c \in B
  PROVE  Kept(f, g, h, B) /\ TreeOf(g) = TreeOf(f)
<1>1. f \in FormSet /\ NoTwins(f) /\ Counted(TreeOf(f), h, f.ref, f.freed, B)
  BY DEF Sound
<1>2. TreeOf(g) = TreeOf(f) /\ NoTwins(g)
  BY <1>1, KidsOnly
<1>3. Sound(g, h, B)
  BY <1>1, <1>2 DEF Sound
<1> QED  BY <1>2, <1>3 DEF Kept

-----------------------------------------------------------------------------
(* Executing a command.                                                    *)

(* The value of a property command is a field, that of a move a location.  *)
CmdSet ==
  {cmd \in CommandType : /\ cmd.kind = "SET" => cmd.val \in Field
                         /\ cmd.kind = "MOVE" => cmd.val \in Loc}

(* What execute does with cmd on f, of which it makes the tree x.          *)
Executes(e, f, cmd, x, h, B) ==
  /\ e.cmd \in CmdSet /\ e.cmd.id = cmd.id /\ (Held(e.cmd) <=> Held(cmd))
  /\ Reversed(e.cmd, cmd, TreeOf(f))
  /\ TreeOf(e.form) = x
  /\ Kept(f, e.form, h, B)

LEMMA ExecutedAdd ==
  ASSUME NEW f, NEW h, NEW B, Sound(f, h, B), images \subseteq Image,
         NEW cmd \in CmdSet, NEW x, Edge(cmd, x, TreeOf(f)), cmd.kind = "ADD"
  PROVE  Executes(executeAdd(f, cmd), f, cmd, x, h, B)
<1> DEFINE c == cmd.on
           p == cmd.at
           g == release(decUseOfRefReses(remove(f, p, c), c), {c})
           rev == [cmd EXCEPT !.kind = "DELETE"]
<1>1. /\ c \in Control /\ p \in Owner /\ TreeOf(f)[c] = {p} /\ p \in Top(TreeOf(f))
      /\ x = [TreeOf(f) EXCEPT ![c] = {}]
  BY DEF Edge
<1>2. /\ Sound(g, h, B) /\ TreeOf(g) = [TreeOf(f) EXCEPT ![c] = {}]
      /\ g.img = f.img /\ g.fault = f.fault /\ (Covered(f) => Covered(g))
  <2> HIDE DEF c, p
  <2>1. Taken(f, g, h, B, c)
    BY <1>1, TakenFrom
  <2> HIDE DEF g
  <2> QED  BY <2>1 DEF Taken
<1>3. rev \in CmdSet /\ rev.id = cmd.id /\ rev.kind = "DELETE" /\ rev.on = c /\ rev.at = p
  BY DEF CmdSet, CommandType
<1>4. executeAdd(f, cmd) = [form |-> g, cmd |-> rev]
  BY DEF executeAdd
<1> HIDE DEF g, rev
<1>5. Kept(f, g, h, B)
  BY <1>2 DEF Kept
<1>6. Reversed(rev, cmd, TreeOf(f)) /\ (Held(rev) <=> Held(cmd))
  BY <1>3 DEF Reversed, Held
<1> QED  BY <1>1, <1>2, <1>3, <1>4, <1>5, <1>6 DEF Executes

LEMMA ExecutedDelete ==
  ASSUME NEW f, NEW h, NEW B, Sound(f, h, B), images \subseteq Image,
         NEW cmd \in CmdSet, NEW x, Edge(cmd, x, TreeOf(f)), cmd.kind = "DELETE",
         h[cmd.on] > 0
  PROVE  Executes(executeDelete(f, cmd), f, cmd, x, h, B)
<1> DEFINE c == cmd.on
           p == cmd.at
           g == insert(addRef(incUseOfRefReses(f, c), c), p, c)
           rev == [cmd EXCEPT !.kind = "ADD"]
<1>1. /\ c \in Control /\ p \in Owner /\ TreeOf(f)[c] = {} /\ p \in Top(TreeOf(f))
      /\ x = [TreeOf(f) EXCEPT ![c] = {p}] /\ h[c] > 0
  BY DEF Edge
<1>2. /\ Sound(g, h, B) /\ TreeOf(g) = [TreeOf(f) EXCEPT ![c] = {p}]
      /\ g.img = f.img /\ g.fault = f.fault /\ (Covered(f) => Covered(g))
  <2> HIDE DEF c, p
  <2> QED  BY <1>1, PutBack
<1>3. rev \in CmdSet /\ rev.id = cmd.id /\ rev.kind = "ADD" /\ rev.on = c /\ rev.at = p
  BY DEF CmdSet, CommandType
<1>4. executeDelete(f, cmd) = [form |-> g, cmd |-> rev]
  BY DEF executeDelete
<1> HIDE DEF g, rev
<1>5. Kept(f, g, h, B)
  BY <1>2 DEF Kept
<1>6. Reversed(rev, cmd, TreeOf(f)) /\ (Held(rev) <=> Held(cmd))
  BY <1>3 DEF Reversed, Held
<1> QED  BY <1>1, <1>2, <1>3, <1>4, <1>5, <1>6 DEF Executes

LEMMA FieldWritten ==
  ASSUME NEW f, NEW h, NEW B, Sound(f, h, B), images \subseteq Image,
         NEW c \in Control, c \in Top(TreeOf(f)), NEW v \in Field
  PROVE  /\ Kept(f, setField(f, c, v), h, B) /\ TreeOf(setField(f, c, v)) = TreeOf(f)
         /\ Kept(f, cleanField(f, c), h, B) /\ TreeOf(cleanField(f, c)) = TreeOf(f)
         /\ c \in B
<1>1. f \in FormSet /\ Shape(TreeOf(f), B) /\ \A d \in Control \ B : Bare(TreeOf(f), d)
  BY DEF Sound, Counted, Shape
<1>2. c \in OnForm(f)
  BY FormAssumption DEF OnForm
<1>3. c \in B
  <2>1. ParentOf(f, c) \in TreeOf(f)[c]
    BY <1>1, ParentIs DEF Shape
  <2> QED  BY <1>1, <2>1 DEF Bare
<1>4. Kept(f, setField(f, c, v), h, B) /\ TreeOf(setField(f, c, v)) = TreeOf(f)
  <2> DEFINE g == setField(f, c, v)
  <2>1. /\ g \in FormSet /\ g.kids = f.kids /\ g.ref = f.ref /\ g.freed = f.freed
        /\ g.fault = f.fault /\ g.img = [f.img EXCEPT ![c] = v]
        /\ Covered(f) => Covered(g)
    BY <1>1, <1>2, ImageSet
  <2> HIDE DEF g
  <2>2. \A d \in Control \ {c} : g.img[d] = f.img[d]
    BY <1>1, <2>1 DEF FormSet
  <2>3. Kept(f, g, h, B) /\ TreeOf(g) = TreeOf(f)
    <3>1. /\ g \in FormSet /\ g.kids = f.kids /\ g.ref = f.ref /\ g.freed = f.freed
          /\ g.fault = f.fault
      BY <2>1
    <3>2. Covered(f) => Covered(g)
      BY <2>1
    <3> QED  BY ONLY Sound(f, h, B), c \in Control, <1>3, <2>2, <3>1, <3>2, KeptImage
  <2> QED  BY <2>3 DEF g
<1>5. Kept(f, cleanField(f, c), h, B) /\ TreeOf(cleanField(f, c)) = TreeOf(f)
  <2> DEFINE g == cleanField(f, c)
  <2>1. /\ g \in FormSet /\ g.kids = f.kids /\ g.ref = f.ref /\ g.freed = f.freed
        /\ g.fault = f.fault /\ g.img = [f.img EXCEPT ![c] = Default]
        /\ Covered(f) => Covered(g)
    BY <1>1, <1>2, ImageCleaned
  <2> HIDE DEF g
  <2>2. \A d \in Control \ {c} : g.img[d] = f.img[d]
    BY <1>1, <2>1 DEF FormSet
  <2>3. Kept(f, g, h, B) /\ TreeOf(g) = TreeOf(f)
    <3>1. /\ g \in FormSet /\ g.kids = f.kids /\ g.ref = f.ref /\ g.freed = f.freed
          /\ g.fault = f.fault
      BY <2>1
    <3>2. Covered(f) => Covered(g)
      BY <2>1
    <3> QED  BY ONLY Sound(f, h, B), c \in Control, <1>3, <2>2, <3>1, <3>2, KeptImage
  <2> QED  BY <2>3 DEF g
<1> QED  BY <1>3, <1>4, <1>5

Written(f, g, c, v) == g.loc = f.loc /\ g.img = [f.img EXCEPT ![c] = v]

LEMMA FieldValues ==
  ASSUME NEW f \in FormSet, NEW c \in Control, NEW v \in Field, images \subseteq Image
  PROVE  Written(f, setField(f, c, v), c, v) /\ Written(f, cleanField(f, c), c, Default)
<1>1. /\ setField(f, c, v).loc = f.loc
      /\ setField(f, c, v).img = [f.img EXCEPT ![c] = v]
  BY ImageSet
<1>2. /\ cleanField(f, c).loc = f.loc
      /\ cleanField(f, c).img = [f.img EXCEPT ![c] = Default]
  BY ImageCleaned
<1> QED  BY <1>1, <1>2 DEF Written

LEMMA ExecutedSet ==
  ASSUME NEW f, NEW h, NEW B, Sound(f, h, B), images \subseteq Image,
         NEW cmd \in CmdSet, NEW x, Edge(cmd, x, TreeOf(f)), cmd.kind = "SET"
  PROVE  Executes(executeSet(f, cmd), f, cmd, x, h, B)
<1> DEFINE c == cmd.on
           g == IF cmd.val = Default THEN cleanField(f, c) ELSE setField(f, c, cmd.val)
           rev == [cmd EXCEPT !.val = f.img[c]]
<1>1. /\ c \in Control /\ c \in Top(TreeOf(f)) /\ cmd.val \in Field
      /\ x = TreeOf(f)
  BY DEF Edge, CmdSet
<1>2. Kept(f, g, h, B) /\ TreeOf(g) = TreeOf(f)
  <2>1. /\ Kept(f, setField(f, c, cmd.val), h, B)
        /\ TreeOf(setField(f, c, cmd.val)) = TreeOf(f)
        /\ Kept(f, cleanField(f, c), h, B) /\ TreeOf(cleanField(f, c)) = TreeOf(f)
    <3> HIDE DEF c
    <3> QED  BY <1>1, FieldWritten
  <2> QED  BY <2>1
<1>3. f.img[c] \in Field
  BY <1>1 DEF Sound, FormSet
<1>4. /\ rev \in CmdSet /\ rev.id = cmd.id /\ rev.kind = "SET" /\ rev.on = c
      /\ rev.at = cmd.at
  BY <1>3 DEF CmdSet, CommandType
<1>5. executeSet(f, cmd) = [form |-> g, cmd |-> rev]
  BY DEF executeSet
<1> HIDE DEF g, rev
<1>6. Reversed(rev, cmd, TreeOf(f)) /\ (Held(rev) <=> Held(cmd))
  BY <1>4 DEF Reversed, Held
<1> QED  BY <1>1, <1>2, <1>4, <1>5, <1>6 DEF Executes

(* Dragged to a place and a container. *)
DragTo(f, c, p, l) ==
  IF p = ParentOf(f, c) THEN [f EXCEPT !.loc[c] = l]
  ELSE insert(remove([f EXCEPT !.loc[c] = l], ParentOf(f, c), c), p, c)

DragsTo(f, g, c, p, l, h, B) ==
  /\ Kept(f, g, h, B) /\ TreeOf(g) = [TreeOf(f) EXCEPT ![c] = {p}]
  /\ g.loc = [f.loc EXCEPT ![c] = l] /\ g.img = f.img

LEMMA Dragged ==
  ASSUME NEW f, NEW h, NEW B, Sound(f, h, B), NEW c \in Control, c \in Top(TreeOf(f)),
         NEW p \in Owner, p \in Top(TreeOf(f)) \ Under(TreeOf(f), {c}), NEW l \in Loc
  PROVE  DragsTo(f, DragTo(f, c, p, l), c, p, l, h, B)
<1> SUFFICES /\ Kept(f, DragTo(f, c, p, l), h, B)
             /\ TreeOf(DragTo(f, c, p, l)) = [TreeOf(f) EXCEPT ![c] = {p}]
             /\ DragTo(f, c, p, l).loc = [f.loc EXCEPT ![c] = l]
             /\ DragTo(f, c, p, l).img = f.img
  BY DEF DragsTo
<1> DEFINE t == TreeOf(f)
           cur == ParentOf(f, c)
           placed == [f EXCEPT !.loc[c] = l]
           g == insert(remove(placed, cur, c), p, c)
<1>1. t \in Tree /\ Single(t)
  BY DEF Sound, Counted, Shape
<1>2. cur \in Owner /\ t[c] = {cur}
  BY <1>1, ParentIs
<1>3. /\ Kept(f, placed, h, B) /\ TreeOf(placed) = t /\ placed.use = f.use
      /\ placed.img = f.img /\ OnForm(placed) = OnForm(f)
      /\ placed.loc = [f.loc EXCEPT ![c] = l]
  BY KeptPlace
<1>4. Sound(placed, h, B) /\ placed.fault = f.fault
  BY <1>3 DEF Kept
<1> HIDE DEF placed, cur
<1>5. CASE p = cur
  <2>1. [t EXCEPT ![c] = {p}] = t
    BY <1>1, <1>2, <1>5 DEF Tree
  <2>2. DragTo(f, c, p, l) = placed
    BY <1>5 DEF DragTo, placed, cur
  <2> QED  BY <1>3, <2>1, <2>2
<1>6. CASE p # cur
  <2>1. /\ Sound(g, h, B) /\ TreeOf(g) = [TreeOf(placed) EXCEPT ![c] = {p}]
        /\ g.img = placed.img /\ g.fault = placed.fault /\ g.use = placed.use
        /\ OnForm(g) = OnForm(placed) /\ g.loc = placed.loc
    <3>1. /\ TreeOf(placed)[c] = {cur} /\ c \in Top(TreeOf(placed))
          /\ p \in Owner \ {cur}
          /\ p \in Top(TreeOf(placed)) \ Under(TreeOf(placed), {c})
      BY <1>2, <1>3, <1>6
    <3> QED  BY <1>2, <1>4, <3>1, MovedTo
  <2> HIDE DEF g
  <2>2. Covered(f) => Covered(g)
    BY <1>3, <2>1 DEF Covered, Showing
  <2>3. Kept(f, g, h, B)
    BY <1>3, <1>4, <2>1, <2>2 DEF Kept
  <2>4. TreeOf(g) = [t EXCEPT ![c] = {p}]
    BY <1>3, <2>1
  <2>5. DragTo(f, c, p, l) = g
    BY <1>6 DEF DragTo, g, placed, cur
  <2> QED  BY <1>3, <2>1, <2>3, <2>4, <2>5
<1> QED  BY <1>5, <1>6

LEMMA ExecutedMove ==
  ASSUME NEW f, NEW h, NEW B, Sound(f, h, B), images \subseteq Image,
         NEW cmd \in CmdSet, NEW x, Edge(cmd, x, TreeOf(f)), cmd.kind = "MOVE"
  PROVE  Executes(executeMove(f, cmd), f, cmd, x, h, B)
<1> DEFINE c == cmd.on
           cur == ParentOf(f, c)
           placed == [f EXCEPT !.loc[c] = cmd.val]
           g == IF cmd.at = cur THEN placed ELSE insert(remove(placed, cur, c), cmd.at, c)
           rev == [cmd EXCEPT !.val = f.loc[c], !.at = cur]
<1>1. /\ c \in Control /\ c \in Top(TreeOf(f)) /\ cmd.val \in Loc
      /\ cmd.at \in Owner /\ cmd.at \in Top(TreeOf(f)) \ Under(TreeOf(f), {c})
      /\ x = [TreeOf(f) EXCEPT ![c] = {cmd.at}]
  BY DEF Edge, CmdSet
<1>2. Kept(f, g, h, B) /\ TreeOf(g) = x
  <2> HIDE DEF c
  <2>1. g = DragTo(f, c, cmd.at, cmd.val)
    BY DEF DragTo
  <2> HIDE DEF g
  <2>2. DragsTo(f, g, c, cmd.at, cmd.val, h, B)
    BY <1>1, <2>1, Dragged
  <2> QED  BY <1>1, <2>2 DEF DragsTo
<1>3. f.loc[c] \in Loc
  BY <1>1 DEF Sound, FormSet
<1>4. cur \in Owner /\ TreeOf(f)[c] = {cur}
  <2>1. Single(TreeOf(f))
    BY DEF Sound, Counted, Shape
  <2> HIDE DEF c
  <2> QED  BY <1>1, <2>1, ParentIs
<1> HIDE DEF cur
<1>5. /\ rev \in CmdSet /\ rev.id = cmd.id /\ rev.kind = "MOVE" /\ rev.on = c
      /\ rev.at = cur
  BY <1>3, <1>4 DEF CmdSet, CommandType
<1>6. executeMove(f, cmd) = [form |-> g, cmd |-> rev]
  BY DEF executeMove, cur
<1> HIDE DEF g, rev
<1>7. Reversed(rev, cmd, TreeOf(f)) /\ (Held(rev) <=> Held(cmd))
  BY <1>4, <1>5 DEF Reversed, Held
<1> QED  BY <1>2, <1>5, <1>6, <1>7 DEF Executes

LEMMA Executed ==
  ASSUME NEW f, NEW h, NEW B, Sound(f, h, B), images \subseteq Image,
         NEW cmd \in CmdSet, NEW x, Edge(cmd, x, TreeOf(f)),
         Held(cmd) => h[cmd.on] > 0
  PROVE  Executes(execute(f, cmd), f, cmd, x, h, B)
<1>1. cmd.kind \in {"ADD", "DELETE", "SET", "MOVE"}
  BY DEF Edge
<1>2. CASE cmd.kind = "ADD"
  BY <1>2, ExecutedAdd DEF execute
<1>3. CASE cmd.kind = "DELETE"
  <2>1. h[cmd.on] > 0
    BY <1>3 DEF Held
  <2> QED  BY <1>3, <2>1, ExecutedDelete DEF execute
<1>4. CASE cmd.kind = "SET"
  BY <1>4, ExecutedSet DEF execute
<1>5. CASE cmd.kind = "MOVE"
  BY <1>5, ExecutedMove DEF execute
<1> QED  BY <1>1, <1>2, <1>3, <1>4, <1>5

-----------------------------------------------------------------------------
(* The commands of a history are numbered by the pushes: no number twice.  *)

Numbered(s, n) ==
  \A i \in DOMAIN s : /\ s[i].id \in 1 .. n
                      /\ \A j \in DOMAIN s : s[i].id = s[j].id => i = j

(* new is line, with rev in the place of cmd. *)
Replaced(line, new, m, cmd, rev) ==
  /\ Len(new) = Len(line) /\ m \in 1 .. Len(line)
  /\ line[m] = cmd /\ new[m] = rev
  /\ \A i \in 1 .. Len(line) : i # m => new[i] = line[i]

LEMMA LineUndo ==
  ASSUME NEW S, NEW p \in Seq(S), NEW f \in Seq(S), p # <<>>, NEW rev \in S
  PROVE  LET q == SubSeq(p, 1, Len(p) - 1)
             g == <<rev>> \o f
         IN /\ p[Len(p)] \in S /\ q \in Seq(S) /\ g \in Seq(S)
            /\ p \o f \in Seq(S) /\ q \o g \in Seq(S)
            /\ Replaced(p \o f, q \o g, Len(p), p[Len(p)], rev)
<1> DEFINE q == SubSeq(p, 1, Len(p) - 1)
           g == <<rev>> \o f
<1>1. Len(p) \in Nat \ {0} /\ Len(f) \in Nat
  BY EmptySeq, LenProperties
<1>2. \A i \in 1 .. Len(p) : p[i] \in S
  BY ElementOfSeq
<1>3. /\ q \in Seq(S) /\ Len(q) = Len(p) - 1
      /\ \A i \in 1 .. Len(p) - 1 : q[i] = p[i]
  <2>1. /\ q \in Seq(S)
        /\ Len(q) = IF 1 <= Len(p) - 1 THEN (Len(p) - 1) - 1 + 1 ELSE 0
        /\ \A i \in 1 .. (Len(p) - 1) - 1 + 1 : q[i] = p[1 + i - 1]
    <3>1. /\ 1 \in Int /\ Len(p) - 1 \in Int
          /\ \A i \in 1 .. Len(p) - 1 : p[i] \in S
      BY <1>1, <1>2
    <3> QED  BY ONLY <3>1, SubSeqProperties DEF q
  <2> HIDE DEF q
  <2>2. (Len(p) - 1) - 1 + 1 = Len(p) - 1 /\ \A i \in 1 .. Len(p) - 1 : 1 + i - 1 = i
    BY <1>1
  <2>3. Len(q) = Len(p) - 1
    <3>1. Len(q) = IF 1 <= Len(p) - 1 THEN (Len(p) - 1) - 1 + 1 ELSE 0
      BY <2>1
    <3> DEFINE m == Len(p)
    <3>2. m \in Nat \ {0}
      BY <1>1
    <3> HIDE DEF m
    <3>3. (IF 1 <= m - 1 THEN (m - 1) - 1 + 1 ELSE 0) = m - 1
      BY <3>2
    <3> QED  BY <3>1, <3>3 DEF m
  <2>4. \A i \in 1 .. Len(p) - 1 : q[i] = p[1 + i - 1]
    BY <2>1, <2>2
  <2> QED  BY <2>1, <2>2, <2>3, <2>4
<1>4. /\ g \in Seq(S) /\ Len(g) = Len(f) + 1 /\ g[1] = rev
      /\ \A i \in 1 .. Len(f) : g[i + 1] = f[i]
  <2>1. <<rev>> \in Seq(S) /\ Len(<<rev>>) = 1 /\ <<rev>>[1] = rev
    OBVIOUS
  <2>2. /\ g \in Seq(S) /\ Len(g) = 1 + Len(f)
        /\ \A i \in 1 .. 1 + Len(f) : g[i] = IF i <= 1 THEN <<rev>>[i] ELSE f[i - 1]
    BY <2>1, ConcatProperties
  <2> HIDE DEF g
  <2> QED  BY <1>1, <2>1, <2>2
<1> HIDE DEF q, g
<1>5. /\ p \o f \in Seq(S) /\ Len(p \o f) = Len(p) + Len(f)
      /\ \A i \in 1 .. Len(p) + Len(f) :
           (p \o f)[i] = IF i <= Len(p) THEN p[i] ELSE f[i - Len(p)]
  BY ConcatProperties
<1>6. /\ q \o g \in Seq(S) /\ Len(q \o g) = Len(q) + Len(g)
      /\ \A i \in 1 .. Len(q) + Len(g) :
           (q \o g)[i] = IF i <= Len(q) THEN q[i] ELSE g[i - Len(q)]
  BY <1>3, <1>4, ConcatProperties
<1> DEFINE line == p \o f
           new == q \o g
<1> HIDE DEF line, new
<1>7. Replaced(line, new, Len(p), p[Len(p)], rev)
  <2>1. Len(new) = Len(line) /\ Len(line) = Len(p) + Len(f) /\ Len(p) \in 1 .. Len(line)
    BY <1>1, <1>3, <1>4, <1>5, <1>6 DEF line, new
  <2>2. line[Len(p)] = p[Len(p)]
    BY <1>1, <1>5 DEF line
  <2>3. new[Len(p)] = rev
    <3>1. Len(p) \in 1 .. Len(q) + Len(g) /\ ~(Len(p) <= Len(q)) /\ Len(p) - Len(q) = 1
      BY <1>1, <1>3, <1>4
    <3> QED  BY <1>4, <1>6, <3>1 DEF new
  <2>4. ASSUME NEW i \in 1 .. Len(line), i # Len(p) PROVE new[i] = line[i]
    <3>1. CASE i < Len(p)
      <4>1. i \in 1 .. Len(q) + Len(g) /\ i <= Len(q) /\ i \in 1 .. Len(p) - 1
            /\ i \in 1 .. Len(p) + Len(f) /\ i <= Len(p)
        BY <1>1, <1>3, <1>4, <2>1, <3>1
      <4> QED  BY <1>3, <1>5, <1>6, <4>1 DEF line, new
    <3>2. CASE i > Len(p)
      <4> DEFINE k == i - Len(p)
      <4>1. k \in 1 .. Len(f) /\ k + 1 = i - Len(q) /\ ~(i <= Len(q)) /\ ~(i <= Len(p))
            /\ i \in 1 .. Len(q) + Len(g) /\ i \in 1 .. Len(p) + Len(f)
        BY <1>1, <1>3, <1>4, <2>1, <3>2
      <4>2. new[i] = g[k + 1]
        BY <1>6, <4>1 DEF new
      <4>3. line[i] = f[k]
        BY <1>5, <4>1 DEF line
      <4> QED  BY <1>4, <4>1, <4>2, <4>3
    <3> QED  BY <1>1, <2>1, <2>4, <3>1, <3>2
  <2> QED  BY <2>1, <2>2, <2>3, <2>4 DEF Replaced
<1> QED  BY <1>1, <1>2, <1>3, <1>4, <1>5, <1>6, <1>7 DEF line, new, q, g

LEMMA LineRedo ==
  ASSUME NEW S, NEW p \in Seq(S), NEW f \in Seq(S), f # <<>>, NEW rev \in S
  PROVE  LET q == Append(p, rev)
             g == Tail(f)
         IN /\ Head(f) \in S /\ q \in Seq(S) /\ g \in Seq(S)
            /\ p \o f \in Seq(S) /\ q \o g \in Seq(S)
            /\ Replaced(p \o f, q \o g, Len(p) + 1, Head(f), rev)
<1> DEFINE q == Append(p, rev)
           g == Tail(f)
<1>1. Len(p) \in Nat /\ Len(f) \in Nat \ {0} /\ Head(f) = f[1]
  BY EmptySeq, LenProperties
<1>2. /\ q \in Seq(S) /\ Len(q) = Len(p) + 1 /\ q[Len(p) + 1] = rev
      /\ \A i \in 1 .. Len(p) : q[i] = p[i]
  BY AppendProperties
<1>3. /\ Head(f) \in S /\ g \in Seq(S) /\ Len(g) = Len(f) - 1
      /\ \A i \in 1 .. Len(g) : g[i] = f[i + 1]
  BY HeadTailProperties
<1> HIDE DEF q, g
<1>5. /\ p \o f \in Seq(S) /\ Len(p \o f) = Len(p) + Len(f)
      /\ \A i \in 1 .. Len(p) + Len(f) :
           (p \o f)[i] = IF i <= Len(p) THEN p[i] ELSE f[i - Len(p)]
  BY ConcatProperties
<1>6. /\ q \o g \in Seq(S) /\ Len(q \o g) = Len(q) + Len(g)
      /\ \A i \in 1 .. Len(q) + Len(g) :
           (q \o g)[i] = IF i <= Len(q) THEN q[i] ELSE g[i - Len(q)]
  BY <1>2, <1>3, ConcatProperties
<1> DEFINE line == p \o f
           new == q \o g
<1> HIDE DEF line, new
<1>7. Replaced(line, new, Len(p) + 1, Head(f), rev)
  <2>1. Len(new) = Len(line) /\ Len(line) = Len(p) + Len(f)
        /\ Len(p) + 1 \in 1 .. Len(line)
    BY <1>1, <1>2, <1>3, <1>5, <1>6 DEF line, new
  <2>2. line[Len(p) + 1] = Head(f)
    <3>1. Len(p) + 1 \in 1 .. Len(p) + Len(f) /\ ~(Len(p) + 1 <= Len(p))
          /\ (Len(p) + 1) - Len(p) = 1
      BY <1>1
    <3> QED  BY <1>1, <1>5, <3>1 DEF line
  <2>3. new[Len(p) + 1] = rev
    <3>1. Len(p) + 1 \in 1 .. Len(q) + Len(g) /\ Len(p) + 1 <= Len(q)
      BY <1>1, <1>2, <1>3
    <3> QED  BY <1>2, <1>6, <3>1 DEF new
  <2>4. ASSUME NEW i \in 1 .. Len(line), i # Len(p) + 1 PROVE new[i] = line[i]
    <3>1. CASE i <= Len(p)
      <4>1. i \in 1 .. Len(q) + Len(g) /\ i <= Len(q) /\ i \in 1 .. Len(p)
            /\ i \in 1 .. Len(p) + Len(f)
        BY <1>1, <1>2, <1>3, <2>1, <3>1
      <4> QED  BY <1>2, <1>5, <1>6, <3>1, <4>1 DEF line, new
    <3>2. CASE i > Len(p) + 1
      <4> DEFINE k == i - Len(q)
      <4>1. k \in 1 .. Len(g) /\ k + 1 = i - Len(p) /\ ~(i <= Len(q)) /\ ~(i <= Len(p))
            /\ i \in 1 .. Len(q) + Len(g) /\ i \in 1 .. Len(p) + Len(f)
        BY <1>1, <1>2, <1>3, <2>1, <3>2
      <4>2. new[i] = g[k]
        BY <1>6, <4>1 DEF new
      <4>3. line[i] = f[k + 1]
        BY <1>5, <4>1 DEF line
      <4> QED  BY <1>3, <4>1, <4>2, <4>3
    <3> QED  BY <1>1, <2>1, <2>4, <3>1, <3>2
  <2> QED  BY <2>1, <2>2, <2>3, <2>4 DEF Replaced
<1> QED  BY <1>1, <1>2, <1>3, <1>5, <1>6, <1>7 DEF line, new, q, g

(* The commands of new are those of line, with rev in the place of cmd.    *)
OneChanged(line, new, cmd, rev) ==
  \E R : /\ IsFiniteSet(R) /\ cmd \notin R /\ rev \notin R
         /\ Elements(line) = R \cup {cmd} /\ Elements(new) = R \cup {rev}

LEMMA ReplacedNumbered ==
  ASSUME NEW S, NEW line \in Seq(S), NEW new \in Seq(S), NEW n, Numbered(line, n),
         NEW m, NEW cmd, NEW rev, Replaced(line, new, m, cmd, rev), rev.id = cmd.id
  PROVE  Numbered(new, n) /\ OneChanged(line, new, cmd, rev)
<1> DEFINE N == Len(line)
           R == {line[i] : i \in (1 .. N) \ {m}}
<1>1. /\ DOMAIN line = 1 .. N /\ DOMAIN new = 1 .. N /\ N \in Nat /\ m \in 1 .. N
      /\ line[m] = cmd /\ new[m] = rev
      /\ \A i \in 1 .. N : i # m => new[i] = line[i]
  BY LenProperties DEF Replaced
<1>2. \A i \in 1 .. N : /\ line[i].id \in 1 .. n
                        /\ \A j \in 1 .. N : line[i].id = line[j].id => i = j
  BY <1>1 DEF Numbered
<1> HIDE DEF N
<1>3. \A i \in 1 .. N : new[i].id = line[i].id
  BY <1>1
<1>4. Numbered(new, n)
  BY <1>1, <1>2, <1>3 DEF Numbered
<1>5. cmd \notin R /\ rev \notin R
  <2>1. \A r \in R : r.id # cmd.id
    BY <1>1, <1>2
  <2> QED  BY <2>1
<1>6. Elements(line) = R \cup {cmd}
  BY <1>1 DEF Elements
<1>7. Elements(new) = R \cup {rev}
  BY <1>1 DEF Elements
<1>8. IsFiniteSet(R)
  <2>1. IsFiniteSet(Elements(line))
    BY ElementsOf
  <2>2. R \subseteq Elements(line)
    BY <1>6
  <2> QED  BY <2>1, <2>2, FS_Subset
<1> HIDE DEF R
<1> QED  BY <1>4, <1>5, <1>6, <1>7, <1>8 DEF OneChanged

LEMMA ElementsConcat ==
  ASSUME NEW S, NEW p \in Seq(S), NEW f \in Seq(S)
  PROVE  /\ Elements(p \o f) = Elements(p) \cup Elements(f)
         /\ p \o f \in Seq(S)
<1> DEFINE line == p \o f
<1>1. /\ line \in Seq(S) /\ Len(line) = Len(p) + Len(f)
      /\ \A i \in 1 .. Len(p) + Len(f) :
           line[i] = IF i <= Len(p) THEN p[i] ELSE f[i - Len(p)]
      /\ Len(p) \in Nat /\ Len(f) \in Nat
  BY ConcatProperties, LenProperties
<1> HIDE DEF line
<1>2. /\ Elements(line) = {line[i] : i \in 1 .. Len(p) + Len(f)}
      /\ Elements(p) = {p[i] : i \in 1 .. Len(p)}
      /\ Elements(f) = {f[i] : i \in 1 .. Len(f)}
  BY <1>1, ElementsOf
<1>3. Elements(line) \subseteq Elements(p) \cup Elements(f)
  <2> SUFFICES ASSUME NEW i \in 1 .. Len(p) + Len(f)
               PROVE  line[i] \in Elements(p) \cup Elements(f)
    BY <1>2
  <2>1. CASE i <= Len(p)
    <3>1. i \in 1 .. Len(p)
      BY <1>1, <2>1
    <3> QED  BY <1>1, <1>2, <2>1, <3>1
  <2>2. CASE ~(i <= Len(p))
    <3>1. i - Len(p) \in 1 .. Len(f)
      BY <1>1, <2>2
    <3> QED  BY <1>1, <1>2, <2>2, <3>1
  <2> QED  BY <2>1, <2>2
<1>4. Elements(p) \subseteq Elements(line)
  <2> SUFFICES ASSUME NEW i \in 1 .. Len(p) PROVE p[i] \in Elements(line)
    BY <1>2
  <2>1. i \in 1 .. Len(p) + Len(f) /\ i <= Len(p)
    BY <1>1
  <2> QED  BY <1>1, <1>2, <2>1
<1>5. Elements(f) \subseteq Elements(line)
  <2> SUFFICES ASSUME NEW i \in 1 .. Len(f) PROVE f[i] \in Elements(line)
    BY <1>2
  <2> DEFINE k == i + Len(p)
  <2>1. k \in 1 .. Len(p) + Len(f) /\ ~(k <= Len(p)) /\ k - Len(p) = i
    BY <1>1
  <2>2. line[k] = f[i]
    BY <1>1, <2>1
  <2> QED  BY <1>2, <2>1, <2>2
<1> QED  BY <1>1, <1>3, <1>4, <1>5 DEF line

(* A push keeps some of the past, and forgets the rest. *)
PushedLine(S, p, f, n, cmd, kept, gone) ==
  /\ kept \in Seq(S) /\ gone \in Seq(S) /\ Append(kept, cmd) \in Seq(S)
  /\ Numbered(Append(kept, cmd) \o <<>>, n + 1)
  /\ Elements(p \o f) = Elements(kept) \cup Elements(gone)
  /\ Elements(kept) \cap Elements(gone) = {}
  /\ Distinct(gone) /\ cmd \notin Elements(p \o f)
  /\ Elements(Append(kept, cmd) \o <<>>) = Elements(kept) \cup {cmd}

LEMMA LinePush ==
  ASSUME NEW S, NEW p \in Seq(S), NEW f \in Seq(S), NEW n \in Nat, Numbered(p \o f, n),
         NEW cmd \in S, cmd.id = n + 1, NEW kept, NEW gone,
         \/ kept = p /\ gone = f
         \/ p # <<>> /\ kept = Tail(p) /\ gone = Append(f, Head(p))
  PROVE  PushedLine(S, p, f, n, cmd, kept, gone)
<1> DEFINE line == p \o f
           P == Len(p)
           F == Len(f)
<1>1. /\ line \in Seq(S) /\ Len(line) = P + F
      /\ \A i \in 1 .. P + F : line[i] = IF i <= P THEN p[i] ELSE f[i - P]
      /\ P \in Nat /\ F \in Nat /\ DOMAIN line = 1 .. P + F
  BY ConcatProperties, LenProperties
<1>2. /\ \A i \in 1 .. P + F : line[i].id \in 1 .. n
      /\ \A i, j \in 1 .. P + F : line[i].id = line[j].id => i = j
  BY <1>1 DEF Numbered
<1>3. Elements(line) = Elements(p) \cup Elements(f)
  BY ElementsConcat
<1> HIDE DEF line, P, F
<1>4. \A i \in 1 .. P : p[i] = line[i] /\ i \in 1 .. P + F
  <2> TAKE i \in 1 .. P
  <2>1. i \in 1 .. P + F /\ i <= P
    BY <1>1
  <2> QED  BY <1>1, <2>1
<1>5. \A i \in 1 .. F : f[i] = line[i + P] /\ i + P \in 1 .. P + F /\ ~(i + P <= P)
  <2> TAKE i \in 1 .. F
  <2>1. i + P \in 1 .. P + F /\ ~(i + P <= P) /\ (i + P) - P = i
    BY <1>1
  <2> QED  BY <1>1, <2>1
<1>6. cmd \notin Elements(line)
  <2>1. \A x \in Elements(line) : x.id \in 1 .. n
    <3>1. Elements(line) = {line[i] : i \in 1 .. P + F}
      BY <1>1, ElementsOf
    <3> QED  BY <1>2, <3>1
  <2>2. n + 1 \notin 1 .. n
    OBVIOUS
  <2> QED  BY <2>1, <2>2
<1>7. /\ Elements(p) = {p[i] : i \in 1 .. P} /\ Elements(f) = {f[i] : i \in 1 .. F}
      /\ DOMAIN p = 1 .. P /\ DOMAIN f = 1 .. F
  BY ElementsOf, LenProperties DEF P, F
<1>8. /\ kept \in Seq(S) /\ gone \in Seq(S)
      /\ Elements(line) = Elements(kept) \cup Elements(gone)
      /\ Elements(kept) \cap Elements(gone) = {}
      /\ Distinct(gone)
      /\ \E d \in {0, 1} : /\ Len(kept) + d = P
                           /\ \A i \in 1 .. Len(kept) : kept[i] = p[i + d] /\ i + d \in 1 .. P
  <2>1. CASE kept = p /\ gone = f
    <3>1. \A i \in 1 .. P : kept[i] = p[i + 0] /\ i + 0 \in 1 .. P
      BY <1>1, <2>1
    <3>2. Elements(kept) \cap Elements(gone) = {}
      BY <1>2, <1>4, <1>5, <1>7, <2>1
    <3>3. Distinct(gone)
      <4>1. ASSUME NEW i \in 1 .. F, NEW j \in 1 .. F, f[i] = f[j] PROVE i = j
        <5>1. i + P = j + P
          BY <1>2, <1>5, <4>1
        <5> QED  BY <1>1, <5>1
      <4> QED  BY <1>7, <2>1, <4>1 DEF Distinct
    <3>4. Len(kept) + 0 = P
      BY <1>1, <2>1 DEF P
    <3>5. Elements(line) = Elements(kept) \cup Elements(gone)
      BY <1>3, <2>1
    <3>6. \A i \in 1 .. Len(kept) : kept[i] = p[i + 0] /\ i + 0 \in 1 .. P
      BY <2>1, <3>1 DEF P
    <3> QED  BY <2>1, <3>2, <3>3, <3>4, <3>5, <3>6
  <2>2. CASE p # <<>> /\ kept = Tail(p) /\ gone = Append(f, Head(p))
    <3>1. /\ Head(p) \in S /\ Head(p) = p[1] /\ Tail(p) \in Seq(S) /\ Len(Tail(p)) = P - 1
          /\ \A i \in 1 .. Len(Tail(p)) : Tail(p)[i] = p[i + 1]
          /\ P \in Nat \ {0}
      BY <2>2, EmptySeq, HeadTailProperties DEF P
    <3>2. /\ gone \in Seq(S) /\ Len(gone) = F + 1 /\ gone[F + 1] = p[1]
          /\ \A i \in 1 .. F : gone[i] = f[i]
          /\ DOMAIN gone = 1 .. F + 1
          /\ Elements(gone) = Elements(f) \cup {p[1]}
      <4>1. Elements(Append(f, Head(p))) = Elements(f) \cup {Head(p)}
        BY <3>1, ElementsOf
      <4>2. /\ gone \in Seq(S) /\ Len(gone) = F + 1 /\ gone[F + 1] = Head(p)
            /\ \A i \in 1 .. F : gone[i] = f[i]
        BY <2>2, <3>1, AppendProperties DEF F
      <4> QED  BY <2>2, <3>1, <4>1, <4>2, LenProperties
    <3>3. Elements(kept) = {p[i] : i \in 2 .. P}
      <4>1. Elements(kept) = {kept[i] : i \in 1 .. P - 1}
        <5>1. kept \in Seq(S) /\ Len(kept) = P - 1
          BY <2>2, <3>1
        <5>2. Elements(kept) = {kept[i] : i \in 1 .. Len(kept)}
          BY <5>1, ElementsOf
        <5> QED  BY <5>1, <5>2
      <4>2. \A i \in 1 .. P - 1 : kept[i] = p[i + 1] /\ i + 1 \in 2 .. P
        BY <2>2, <3>1
      <4>3. \A i \in 2 .. P : i - 1 \in 1 .. P - 1 /\ kept[i - 1] = p[i]
        <5> TAKE i \in 2 .. P
        <5>1. i - 1 \in 1 .. P - 1 /\ (i - 1) + 1 = i
          BY <3>1
        <5> QED  BY <4>2, <5>1
      <4>4. \A x \in Elements(kept) : \E i \in 2 .. P : x = p[i]
        BY <4>1, <4>2
      <4>5. \A i \in 2 .. P : \E k \in 1 .. P - 1 : p[i] = kept[k]
        BY <4>3
      <4>6. \A i \in 2 .. P : p[i] \in Elements(kept)
        BY <4>1, <4>5
      <4> QED  BY <4>4, <4>6
    <3>4. Elements(p) = Elements(kept) \cup {p[1]}
      <4>1. 1 .. P = (2 .. P) \cup {1}
        BY <3>1
      <4> QED  BY <1>7, <3>3, <4>1
    <3>5. Elements(line) = Elements(kept) \cup Elements(gone)
      BY <1>3, <3>2, <3>4
    <3>6. Elements(kept) \cap Elements(gone) = {}
      <4>1. \A i \in 2 .. P : i \in 1 .. P /\ i # 1 /\ 1 \in 1 .. P
        BY <3>1
      <4>2. \A i \in 2 .. P : p[i] # p[1]
        BY <1>2, <1>4, <4>1
      <4>3. \A i \in 2 .. P, j \in 1 .. F : p[i] # f[j]
        <5> TAKE i \in 2 .. P, j \in 1 .. F
        <5>1. i \in 1 .. P /\ i # j + P
          BY <3>1
        <5> QED  BY <1>2, <1>4, <1>5, <5>1
      <4> QED  BY <1>7, <3>2, <3>3, <4>2, <4>3
    <3>7. Distinct(gone)
      <4>1. \A i \in 1 .. F : f[i] # p[1]
        <5> TAKE i \in 1 .. F
        <5>1. 1 \in 1 .. P /\ 1 # i + P
          BY <3>1
        <5> QED  BY <1>2, <1>4, <1>5, <5>1
      <4>2. ASSUME NEW i \in 1 .. F, NEW j \in 1 .. F, f[i] = f[j] PROVE i = j
        <5>1. i + P = j + P
          BY <1>2, <1>5, <4>2
        <5> QED  BY <1>1, <5>1
      <4>3. ASSUME NEW i \in 1 .. F + 1, NEW j \in 1 .. F + 1, gone[i] = gone[j]
            PROVE  i = j
        <5>1. (i \in 1 .. F \/ i = F + 1) /\ (j \in 1 .. F \/ j = F + 1)
          BY <1>1
        <5> QED  BY <3>2, <4>1, <4>2, <4>3, <5>1
      <4> QED  BY <3>2, <4>3 DEF Distinct
    <3>8. /\ Len(kept) + 1 = P
          /\ \A i \in 1 .. Len(kept) : kept[i] = p[i + 1] /\ i + 1 \in 1 .. P
      BY <2>2, <3>1
    <3> QED  BY <2>2, <3>1, <3>2, <3>5, <3>6, <3>7, <3>8
  <2> QED  BY <2>1, <2>2
<1>9. /\ Append(kept, cmd) \in Seq(S) /\ Append(kept, cmd) \o <<>> = Append(kept, cmd)
      /\ Len(Append(kept, cmd)) = Len(kept) + 1
      /\ Append(kept, cmd)[Len(kept) + 1] = cmd
      /\ \A i \in 1 .. Len(kept) : Append(kept, cmd)[i] = kept[i]
      /\ DOMAIN Append(kept, cmd) = 1 .. Len(kept) + 1
      /\ Elements(Append(kept, cmd)) = Elements(kept) \cup {cmd}
  BY <1>8, AppendProperties, ConcatEmptySeq, ElementsOf, LenProperties
<1>10. Numbered(Append(kept, cmd), n + 1)
  <2> DEFINE s == Append(kept, cmd)
  <2> HIDE DEF s
  <2>1. PICK d \in {0, 1} :
          /\ Len(kept) + d = P
          /\ \A i \in 1 .. Len(kept) : kept[i] = p[i + d] /\ i + d \in 1 .. P
    BY <1>8
  <2>2. \A i \in 1 .. Len(kept) : s[i] = line[i + d] /\ i + d \in 1 .. P + F
    BY <1>4, <1>9, <2>1 DEF s
  <2>3. \A i \in 1 .. Len(kept) : s[i].id \in 1 .. n
    BY <1>2, <2>2
  <2>4. ASSUME NEW i \in 1 .. Len(kept), NEW j \in 1 .. Len(kept), s[i].id = s[j].id
        PROVE  i = j
    <3>1. s[i] = line[i + d] /\ s[j] = line[j + d]
          /\ i + d \in 1 .. P + F /\ j + d \in 1 .. P + F
      BY <2>2
    <3>2. line[i + d].id = line[j + d].id
      BY <2>4, <3>1
    <3>3. i + d = j + d
      BY <1>2, <3>1, <3>2
    <3> QED  BY <3>3
  <2>5. Len(kept) \in Nat /\ s[Len(kept) + 1].id = n + 1
    BY <1>8, <1>9, LenProperties DEF s
  <2>6. ASSUME NEW i \in 1 .. Len(kept) + 1
        PROVE  /\ s[i].id \in 1 .. n + 1
               /\ \A j \in 1 .. Len(kept) + 1 : s[i].id = s[j].id => i = j
    <3>1. \A k \in 1 .. Len(kept) + 1 : k \in 1 .. Len(kept) \/ k = Len(kept) + 1
      BY <2>5
    <3>2. \A m \in 1 .. n : m \in 1 .. n + 1 /\ m # n + 1
      OBVIOUS
    <3>3. n + 1 \in 1 .. n + 1
      OBVIOUS
    <3> QED  BY <2>3, <2>4, <2>5, <3>1, <3>2, <3>3
  <2>7. DOMAIN s = 1 .. Len(kept) + 1
    BY <1>9 DEF s
  <2> QED  BY <2>6, <2>7 DEF Numbered, s
<1> QED  BY <1>6, <1>8, <1>9, <1>10 DEF PushedLine, line

-----------------------------------------------------------------------------
(* The inductive invariant.  While the panel is open the form is counted   *)
(* and covered, and the history is legal: these hold across a fault of a   *)
(* destructor too, which is why only Open needs them.                      *)

Types ==
  /\ form \in FormSet /\ form.freed \subseteq born /\ born \subseteq Control
  /\ images \subseteq Image
  /\ curContainer \in Owner
  /\ clip \in {Empty} \cup [container : BOOLEAN, img : Field]
  /\ past \in Seq(CmdSet) /\ future \in Seq(CmdSet)
  /\ pushes \in 0 .. MaxPush
  /\ panel \in {"open", "closed"}

Good ==
  /\ Sound(form, HoldCount(Elements(past \o future)), born)
  /\ Covered(form)
  /\ Legal(past, future, TreeOf(form), born)
  /\ Numbered(past \o future, pushes)
  /\ \A c \in Control \ born : form.img[c] = Default
  /\ curContainer \in born \cup {Base}

FormInv ==
  /\ Types
  /\ Open => Good
  /\ panel = "closed" /\ ~form.fault => form.freed = born

(* What every gesture starts from. *)
LEMMA AtWork ==
  ASSUME FormInv, Working
  PROVE  /\ Types /\ Good
         /\ TreeOf(form) \in Tree /\ Single(TreeOf(form)) /\ Shape(TreeOf(form), born)
         /\ HoldCount(Elements(past \o future)) \in [Control -> Nat]
         /\ past \o future \in Seq(CmdSet)
         /\ IsFiniteSet(Elements(past \o future))
         /\ Attached(form) = OnForm(form)
         /\ AttachedOwner(form) = Owner \cap Top(TreeOf(form))
         /\ \A c \in Control : Below(form, {c}) = Under(TreeOf(form), {c})
<1>1. Types /\ Good
  BY DEF FormInv, Working, Open
<1>2. form \in FormSet /\ past \in Seq(CmdSet) /\ future \in Seq(CmdSet)
  BY <1>1 DEF Types
<1>3. past \o future \in Seq(CmdSet)
  BY <1>2, ConcatProperties
<1>4. IsFiniteSet(Elements(past \o future))
  BY <1>3, ElementsOf
<1>5. Counted(TreeOf(form), HoldCount(Elements(past \o future)), form.ref, form.freed, born)
  BY <1>1 DEF Good, Sound
<1>6. /\ Below(form, {Base}) = Top(TreeOf(form))
      /\ \A c \in Control : Below(form, {c}) = Under(TreeOf(form), {c})
  BY <1>2, FormTree
<1>7. Attached(form) = OnForm(form) /\ AttachedOwner(form) = Owner \cap Top(TreeOf(form))
  BY <1>6 DEF Attached, AttachedOwner, OnForm
<1> QED  BY <1>1, <1>3, <1>4, <1>5, <1>6, <1>7 DEF Counted, Shape

LEMMA CommandIn ==
  ASSUME Types, pushes < MaxPush, NEW kind \in {"ADD", "DELETE", "MOVE", "SET"},
         NEW c \in Control, NEW at \in Owner, NEW val \in Field \cup Loc,
         kind = "SET" => val \in Field, kind = "MOVE" => val \in Loc
  PROVE  LET cmd == Command(kind, c, at, val) IN
         /\ cmd \in CmdSet /\ cmd.id = pushes + 1 /\ cmd.kind = kind /\ cmd.on = c
         /\ cmd.at = at /\ cmd.val = val
<1>1. pushes + 1 \in 1 .. MaxPush
  BY FormAssumption DEF Types
<1> QED  BY <1>1 DEF Command, CmdSet, CommandType

(* A push. *)
LEMMA Pushing ==
  ASSUME FormInv, Working, NEW cmd \in CmdSet, cmd.id = pushes + 1,
         pushUndoRedoCommand(cmd), NEW f, NEW B, born \subseteq B,
         Sound(f, HoldCount(Elements(past \o future) \cup {cmd}), B)
  PROVE  LET g == DestroyAll(f, Forgotten) IN
         /\ Sound(g, HoldCount(Elements(past' \o future')), B)
         /\ g.kids = f.kids /\ TreeOf(g) = TreeOf(f)
         /\ g.loc = f.loc /\ g.img = f.img /\ g.use = f.use
         /\ f.fault => g.fault
         /\ past' \in Seq(CmdSet) /\ future' \in Seq(CmdSet)
         /\ Numbered(past' \o future', pushes') /\ pushes' = pushes + 1
         /\ cmd \notin Elements(past \o future)
<1> DEFINE kept == IF Len(past) = Capacity THEN Tail(past) ELSE past
           gone == Forgotten
           all == Elements(past \o future)
<1>1. /\ past \in Seq(CmdSet) /\ future \in Seq(CmdSet) /\ pushes \in Nat
      /\ Numbered(past \o future, pushes)
      /\ past \o future \in Seq(CmdSet) /\ IsFiniteSet(all)
      /\ HoldCount(all) \in [Control -> Nat]
  BY AtWork, FormAssumption DEF Types, Good
<1>2. \/ kept = past /\ gone = future
      \/ past # <<>> /\ kept = Tail(past) /\ gone = Append(future, Head(past))
  <2>1. CASE Len(past) = Capacity
    <3>1. past # <<>>
      BY <2>1, FormAssumption, EmptySeq
    <3> QED  BY <2>1, <3>1 DEF Forgotten
  <2>2. CASE Len(past) # Capacity
    BY <2>2 DEF Forgotten
  <2> QED  BY <2>1, <2>2
<1>3. past' = Append(kept, cmd) /\ future' = <<>> /\ pushes' = pushes + 1
  BY DEF pushUndoRedoCommand
<1> HIDE DEF kept, gone, all
<1>4. /\ kept \in Seq(CmdSet) /\ gone \in Seq(CmdSet) /\ Append(kept, cmd) \in Seq(CmdSet)
      /\ Numbered(Append(kept, cmd) \o <<>>, pushes + 1)
      /\ all = Elements(kept) \cup Elements(gone)
      /\ Elements(kept) \cap Elements(gone) = {}
      /\ Distinct(gone) /\ cmd \notin all
      /\ Elements(Append(kept, cmd) \o <<>>) = Elements(kept) \cup {cmd}
  <2>1. PushedLine(CmdSet, past, future, pushes, cmd, kept, gone)
    BY <1>1, <1>2, LinePush
  <2> QED  BY <2>1 DEF PushedLine, all
<1> DEFINE R == Elements(kept) \cup {cmd}
           g == DestroyAll(f, gone)
<1>5. /\ Sound(g, HoldCount(R), B)
      /\ g.kids = f.kids /\ TreeOf(g) = TreeOf(f)
      /\ g.loc = f.loc /\ g.img = f.img /\ g.use = f.use
      /\ f.fault => g.fault
  <2>1. IsFiniteSet(R)
    BY <1>4, ElementsOf, FS_AddElement
  <2>2. gone \in Seq(CommandType)
    <3>1. CmdSet \subseteq CommandType
      BY DEF CmdSet
    <3> QED  BY <1>4, <3>1, SeqMonotonic
  <2>3. Elements(gone) \cap R = {}
    BY <1>4
  <2>4. \A d \in Elements(gone) : Held(d) => d.on \in B
    <3>1. \A d \in all : Held(d) => d.on \in Roots(HoldCount(all))
      <4> SUFFICES ASSUME NEW d \in all, Held(d) PROVE d.on \in Roots(HoldCount(all))
        OBVIOUS
      <4>1. d.on \in Control
        <5>1. d \in CmdSet
          BY <1>1, ElementsOf DEF all
        <5> QED  BY <5>1 DEF CmdSet, CommandType
      <4>2. d \in HeldBy(all, d.on)
        BY DEF HeldBy
      <4>3. HoldCount(all)[d.on] > 0
        BY <1>1, <4>1, <4>2, HoldType
      <4> QED  BY <4>1, <4>3 DEF Roots
    <3>2. Legal(past, future, TreeOf(form), born)
      BY AtWork DEF Good
    <3>3. Base \in Roots(HoldCount(all))
      BY DEF Roots
    <3>4. \A d \in all : d.on \in born
      BY <1>1, <3>1, <3>2, <3>3, LegalLive DEF all
    <3> QED  BY <1>4, <3>4
  <2>5. R \cup Elements(gone) = all \cup {cmd}
    BY <1>4
  <2>6. Sound(f, HoldCount(R \cup Elements(gone)), B)
    BY <2>5 DEF all
  <2>7. Distinct(gone)
    BY <1>4
  <2> HIDE DEF R
  <2> QED  BY ONLY <2>1, <2>2, <2>3, <2>4, <2>6, <2>7, AllDestroyed DEF g
<1>6. Elements(past' \o future') = R
  BY <1>3, <1>4
<1>7. /\ past' \in Seq(CmdSet) /\ future' \in Seq(CmdSet)
      /\ Numbered(past' \o future', pushes')
  <2>1. future' \in Seq(CmdSet)
    BY <1>3, EmptySeq
  <2> QED  BY <1>3, <1>4, <2>1
<1> HIDE DEF R
<1> QED  BY <1>3, <1>4, <1>5, <1>6, <1>7 DEF gone, all, g

(* The history stays legal when the command leads from the form before the *)
(* gesture to the form after it.                                           *)
LEMMA PushedLegal ==
  ASSUME FormInv, Working, NEW cmd \in CmdSet, pushUndoRedoCommand(cmd),
         NEW g, NEW h, NEW C, Sound(g, h, C), born \subseteq C,
         Edge(cmd, TreeOf(form), TreeOf(g))
  PROVE  Legal(past', future', TreeOf(g), C)
<1> DEFINE kept == IF Len(past) = Capacity THEN Tail(past) ELSE past
<1>1. /\ past \in Seq(CmdSet) /\ future \in Seq(CmdSet)
      /\ Legal(past, future, TreeOf(form), born)
  BY AtWork DEF Types, Good
<1>2. kept = past \/ (past # <<>> /\ kept = Tail(past))
  <2>1. Len(past) = Capacity => past # <<>>
    BY FormAssumption, EmptySeq
  <2> QED  BY <2>1
<1>3. kept \in Seq(CmdSet)
  BY <1>1, <1>2, HeadTailProperties
<1>4. past' = Append(kept, cmd) /\ future' = <<>>
  BY DEF pushUndoRedoCommand
<1>5. /\ TreeOf(g) \in Tree /\ Single(TreeOf(g))
      /\ \A c \in Control \ C : Bare(TreeOf(g), c)
  BY SoundShape
<1> HIDE DEF kept
<1>6. Legal(Append(kept, cmd), <<>>, TreeOf(g), C)
  BY <1>1, <1>2, <1>3, <1>5, LegalPush
<1> QED  BY <1>4, <1>6

(* What every gesture that pushes a command ends with. *)
LEMMA PushEnds ==
  ASSUME FormInv, Working, NEW cmd \in CmdSet, cmd.id = pushes + 1,
         pushUndoRedoCommand(cmd), pushes < MaxPush,
         born \subseteq born', images' \subseteq images, panel' = panel,
         curContainer' \in Owner \cap (born' \cup {Base}),
         clip' = clip,
         past' \in Seq(CmdSet), future' \in Seq(CmdSet),
         Numbered(past' \o future', pushes'),
         Sound(form', HoldCount(Elements(past' \o future')), born'),
         Covered(form)', Edge(cmd, TreeOf(form), TreeOf(form')),
         \A c \in Control \ born' : form'.img[c] = Default
  PROVE  FormInv'
<1>1. Types
  BY AtWork
<1>2. Legal(past', future', TreeOf(form'), born')
  BY PushedLegal
<1>3. Types'
  <2>1. form' \in FormSet /\ form'.freed \subseteq born' /\ born' \subseteq Control
    BY SoundShape
  <2>2. pushes' \in 0 .. MaxPush
    BY <1>1, FormAssumption DEF Types, pushUndoRedoCommand
  <2>3. panel' \in {"open", "closed"} /\ images' \subseteq Image
    BY <1>1 DEF Types
  <2> QED  BY <1>1, <2>1, <2>2, <2>3 DEF Types
<1>4. Good'
  BY <1>2 DEF Good
<1>5. panel' = "open"
  BY DEF Working
<1> QED  BY <1>3, <1>4, <1>5 DEF FormInv

(* The command cmd leads from f to g: it finds g as it left it and, as far *)
(* as the form shows, remembers what f was.                                *)
SameImage(i, j) == i = j \/ (i \notin Image /\ j \notin Image)
Leads(cmd, f, g) ==
  /\ Edge(cmd, TreeOf(f), TreeOf(g))
  /\ \A c \in OnForm(f) :
       /\ f.loc[c] = IF cmd.kind = "MOVE" /\ c = cmd.on THEN cmd.val ELSE g.loc[c]
       /\ SameImage(f.img[c],
                    IF cmd.kind = "SET" /\ c = cmd.on THEN cmd.val ELSE g.img[c])

(* The fields a command writes, and those it remembers. *)
Writes(e, f, cmd) ==
  /\ e.form.loc = IF cmd.kind = "MOVE" THEN [f.loc EXCEPT ![cmd.on] = cmd.val] ELSE f.loc
  /\ e.form.img = IF cmd.kind = "SET" THEN [f.img EXCEPT ![cmd.on] = cmd.val] ELSE f.img
  /\ cmd.kind = "MOVE" => e.cmd.val = f.loc[cmd.on]
  /\ cmd.kind = "SET" => e.cmd.val = f.img[cmd.on]

LEMMA ExecutedFields ==
  ASSUME NEW f, NEW h, NEW B, Sound(f, h, B), images \subseteq Image,
         NEW cmd \in CmdSet, NEW x, Edge(cmd, x, TreeOf(f)),
         Held(cmd) => h[cmd.on] > 0
  PROVE  Writes(execute(f, cmd), f, cmd)
<1> DEFINE c == cmd.on
           p == cmd.at
<1>1. cmd.kind \in {"ADD", "DELETE", "SET", "MOVE"} /\ c \in Control
  BY DEF Edge
<1>2. CASE cmd.kind = "ADD"
  <2> DEFINE g == release(decUseOfRefReses(remove(f, p, c), c), {c})
  <2>1. p \in Owner /\ TreeOf(f)[c] = {p} /\ p \in Top(TreeOf(f))
    BY <1>2 DEF Edge
  <2>2. g.loc = f.loc /\ g.img = f.img
    <3> HIDE DEF c, p
    <3>1. Taken(f, g, h, B, c)
      BY <1>1, <2>1, TakenFrom
    <3> HIDE DEF g
    <3> QED  BY <3>1 DEF Taken
  <2>3. execute(f, cmd).form = g
    BY <1>2 DEF execute, executeAdd
  <2> QED  BY <1>2, <2>2, <2>3 DEF Writes
<1>3. CASE cmd.kind = "DELETE"
  <2> DEFINE g == insert(addRef(incUseOfRefReses(f, c), c), p, c)
  <2>1. p \in Owner /\ TreeOf(f)[c] = {} /\ p \in Top(TreeOf(f)) /\ h[c] > 0
    BY <1>3 DEF Edge, Held
  <2>2. g.loc = f.loc /\ g.img = f.img
    <3> HIDE DEF c, p
    <3> QED  BY <1>1, <2>1, PutBack
  <2>3. execute(f, cmd).form = g
    BY <1>3 DEF execute, executeDelete
  <2> QED  BY <1>3, <2>2, <2>3 DEF Writes
<1>4. CASE cmd.kind = "SET"
  <2> DEFINE g == IF cmd.val = Default THEN cleanField(f, c) ELSE setField(f, c, cmd.val)
  <2>1. c \in Top(TreeOf(f)) /\ cmd.val \in Field
    BY <1>4 DEF Edge, CmdSet
  <2>2. g.loc = f.loc /\ g.img = [f.img EXCEPT ![c] = cmd.val]
    <3>1. /\ Written(f, setField(f, c, cmd.val), c, cmd.val)
          /\ Written(f, cleanField(f, c), c, Default)
      <4> HIDE DEF c
      <4> QED  BY <1>1, <2>1, SoundShape, FieldValues
    <3> QED  BY <3>1 DEF Written
  <2>3. execute(f, cmd).form = g /\ execute(f, cmd).cmd.val = f.img[c]
    BY <1>4 DEF execute, executeSet, CmdSet, CommandType
  <2> HIDE DEF g
  <2> QED  BY <1>4, <2>2, <2>3 DEF Writes
<1>5. CASE cmd.kind = "MOVE"
  <2>1. /\ c \in Top(TreeOf(f)) /\ cmd.val \in Loc /\ p \in Owner
        /\ p \in Top(TreeOf(f)) \ Under(TreeOf(f), {c})
    BY <1>5 DEF Edge, CmdSet
  <2> DEFINE l == cmd.val
             g == DragTo(f, c, p, l)
  <2>2. g.loc = [f.loc EXCEPT ![c] = cmd.val] /\ g.img = f.img
    <3> HIDE DEF c, p, l
    <3>1. l \in Loc
      BY <2>1 DEF l
    <3>2. DragsTo(f, g, c, p, l, h, B)
      BY <1>1, <2>1, <3>1, Dragged
    <3> QED  BY <3>2 DEF DragsTo, l
  <2>3. execute(f, cmd).form = g /\ execute(f, cmd).cmd.val = f.loc[c]
    BY <1>5 DEF execute, executeMove, DragTo, CmdSet, CommandType
  <2> HIDE DEF g
  <2> QED  BY <1>5, <2>2, <2>3 DEF Writes
<1> QED  BY <1>1, <1>2, <1>3, <1>4, <1>5

(* What an executed command leaves leads back. *)
LEMMA LeadsBack ==
  ASSUME NEW f, NEW h, NEW B, Sound(f, h, B), images \subseteq Image,
         NEW cmd \in CmdSet, NEW x, Edge(cmd, x, TreeOf(f)),
         Held(cmd) => h[cmd.on] > 0
  PROVE  LET e == execute(f, cmd) IN Leads(e.cmd, f, e.form)
<1> DEFINE e == execute(f, cmd)
<1>1. Executes(e, f, cmd, x, h, B) /\ Writes(e, f, cmd)
  BY Executed, ExecutedFields
<1> HIDE DEF e
<1>2. f \in FormSet /\ TreeOf(f) \in Tree /\ Single(TreeOf(f)) /\ OnForm(f) \subseteq Control
  BY SoundShape, OnFormType
<1>3. Edge(e.cmd, TreeOf(f), TreeOf(e.form))
  <2>1. Reversed(e.cmd, cmd, TreeOf(f)) /\ TreeOf(e.form) = x
    BY <1>1 DEF Executes
  <2> QED  BY <1>2, <2>1, EdgeBack
<1>4. e.cmd.on = cmd.on /\ e.cmd.kind = "MOVE" <=> cmd.kind = "MOVE"
  BY <1>1 DEF Executes, Reversed, Edge
<1>5. e.cmd.on = cmd.on
  BY <1>1 DEF Executes, Reversed
<1>6. e.cmd.kind = "SET" <=> cmd.kind = "SET"
  BY <1>1 DEF Executes, Reversed, Edge
<1>7. ASSUME NEW c \in OnForm(f)
      PROVE  /\ f.loc[c] = IF e.cmd.kind = "MOVE" /\ c = e.cmd.on THEN e.cmd.val
                           ELSE e.form.loc[c]
             /\ f.img[c] = IF e.cmd.kind = "SET" /\ c = e.cmd.on THEN e.cmd.val
                           ELSE e.form.img[c]
  BY <1>1, <1>2, <1>4, <1>5, <1>6 DEF Writes, FormSet
<1> QED  BY <1>3, <1>7 DEF Leads, SameImage, e

(* So the form is shown as it was when the command is executed. *)
LEMMA SameView ==
  ASSUME NEW f \in FormSet, NEW g \in FormSet, TreeOf(f) = TreeOf(g),
         \A c \in OnForm(f) : f.loc[c] = g.loc[c] /\ SameImage(f.img[c], g.img[c])
  PROVE  View(f) = View(g)
<1>1. Attached(f) = OnForm(f) /\ Attached(g) = OnForm(f)
  <2>1. Below(f, {Base}) = Top(TreeOf(f)) /\ Below(g, {Base}) = Top(TreeOf(g))
    BY FormTree
  <2> QED  BY <2>1 DEF Attached, OnForm
<1>2. \A c \in OnForm(f) : ParentOf(f, c) = ParentOf(g, c)
  <2> SUFFICES ASSUME NEW c \in OnForm(f) PROVE ParentOf(f, c) = ParentOf(g, c)
    OBVIOUS
  <2>1. c \in Control
    BY OnFormType
  <2>2. {o \in Owner : c \in Elements(f.kids[o])} = {o \in Owner : c \in Elements(g.kids[o])}
    BY <2>1 DEF TreeOf
  <2>3. \A o \in Owner : c \in Elements(f.kids[o]) <=> c \in Elements(g.kids[o])
    BY <2>2
  <2> QED  BY <2>3 DEF ParentOf
<1>3. \A c \in OnForm(f) : (IF f.img[c] \in Image THEN f.img[c] ELSE NoImage)
                             = (IF g.img[c] \in Image THEN g.img[c] ELSE NoImage)
  BY DEF SameImage
<1> QED  BY <1>1, <1>2, <1>3 DEF View

LEMMA LeadsView ==
  ASSUME NEW f \in FormSet, NEW g, NEW h, NEW B, Sound(g, h, B), images \subseteq Image,
         NEW cmd \in CmdSet, Leads(cmd, f, g), Held(cmd) => h[cmd.on] > 0
  PROVE  View(execute(g, cmd).form) = View(f)
<1> DEFINE e == execute(g, cmd)
<1>1. Executes(e, g, cmd, TreeOf(f), h, B) /\ Writes(e, g, cmd)
  <2>1. Edge(cmd, TreeOf(f), TreeOf(g))
    BY DEF Leads
  <2> QED  BY <2>1, Executed, ExecutedFields
<1> HIDE DEF e
<1>2. g \in FormSet /\ e.form \in FormSet /\ TreeOf(e.form) = TreeOf(f)
      /\ OnForm(f) \subseteq Control
  BY <1>1, SoundShape, OnFormType DEF Executes, Kept
<1>3. ASSUME NEW c \in OnForm(f)
      PROVE  f.loc[c] = e.form.loc[c] /\ SameImage(f.img[c], e.form.img[c])
  BY <1>1, <1>2 DEF Leads, Writes, FormSet
<1>4. View(f) = View(e.form)
  BY <1>2, <1>3, SameView
<1> QED  BY <1>4 DEF e

-----------------------------------------------------------------------------
(* The gestures keep the invariant.                                        *)

LEMMA TopBorn ==
  ASSUME NEW t, NEW B, Shape(t, B)
  PROVE  Top(t) \subseteq B \cup {Base}
<1> DEFINE Y == B \cup {Base}
<1>1. Kids(t, Y) \subseteq Y
  BY DEF Kids, Shape, Bare
<1>2. {Base} \subseteq Y
  OBVIOUS
<1> HIDE DEF Y
<1>3. Under(t, {Base}) \subseteq Y
  BY <1>1, <1>2, UnderLeast
<1> QED  BY <1>3 DEF Top, Y

LEMMA CoveredSame ==
  ASSUME NEW f, NEW g, g.kids = f.kids, g.img = f.img, g.use = f.use
  PROVE  Covered(f) => Covered(g)
<1>1. OnForm(g) = OnForm(f)
  BY KidsOnly
<1> QED  BY <1>1 DEF Covered, Showing

LEMMA NewCommand ==
  ASSUME FormInv, Working, NEW cmd \in CmdSet, cmd.id = pushes + 1
  PROVE  /\ cmd \notin Elements(past \o future)
         /\ Held(cmd) => HoldCount(Elements(past \o future) \cup {cmd})
                           = [HoldCount(Elements(past \o future)) EXCEPT ![cmd.on] = @ + 1]
         /\ ~Held(cmd) => HoldCount(Elements(past \o future) \cup {cmd})
                            = HoldCount(Elements(past \o future))
<1> DEFINE line == past \o future
<1>1. /\ Numbered(line, pushes) /\ line \in Seq(CmdSet) /\ pushes \in Nat
      /\ IsFiniteSet(Elements(line))
  BY AtWork, FormAssumption DEF Good, Types
<1>2. \A d \in Elements(line) : d.id \in 1 .. pushes
  BY <1>1 DEF Numbered, Elements
<1> HIDE DEF line
<1>3. cmd \notin Elements(line)
  BY <1>1, <1>2
<1>4. cmd.on \in Control
  BY DEF CmdSet, CommandType
<1>5. Held(cmd) => HoldCount(Elements(line) \cup {cmd})
                     = [HoldCount(Elements(line)) EXCEPT ![cmd.on] = @ + 1]
  BY <1>1, <1>3, <1>4, HoldAdded
<1> QED  BY <1>3, <1>5, HoldSame DEF line

(* The newest command leads from the form before the gesture to the form   *)
(* after it.                                                               *)
Pushed == Leads(past'[Len(past')], form, form')

LEMMA LastPushed ==
  ASSUME FormInv, Working, NEW cmd \in CmdSet, pushUndoRedoCommand(cmd)
  PROVE  past'[Len(past')] = cmd
<1> DEFINE kept == IF Len(past) = Capacity THEN Tail(past) ELSE past
<1>1. past' = Append(kept, cmd)
  BY DEF pushUndoRedoCommand
<1>2. kept \in Seq(CmdSet)
  <2>1. past \in Seq(CmdSet)
    BY AtWork DEF Types
  <2>2. Len(past) = Capacity => past # <<>>
    BY FormAssumption, EmptySeq
  <2> QED  BY <2>1, <2>2, HeadTailProperties
<1> HIDE DEF kept
<1> QED  BY <1>1, <1>2, AppendProperties, LenProperties

LEMMA CreateKeeps ==
  ASSUME FormInv, NEW c \in Control, NEW p \in Owner, NEW l \in Loc, create(c, p, l)
  PROVE  FormInv' /\ Pushed
<1> DEFINE t == TreeOf(form)
           u == [t EXCEPT ![c] = {p}]
           E == Elements(past \o future)
           h == HoldCount(E)
           f1 == addRef([insert(form, p, c) EXCEPT !.ref[c] = 1, !.loc[c] = l], c)
           cmd == Command("ADD", c, p, Default)
<1>1. /\ Working /\ pushes < MaxPush /\ c \in Control \ born
      /\ p \in AttachedOwner(form)
      /\ form' = DestroyAll(f1, Forgotten)
      /\ born' = born \cup {c} /\ curContainer' = p /\ pushUndoRedoCommand(cmd)
      /\ images' = images /\ clip' = clip /\ panel' = panel
  BY DEF create, CanPush
<1>2. /\ Types /\ Good /\ t \in Tree /\ Single(t) /\ Shape(t, born)
      /\ h \in [Control -> Nat] /\ p \in Top(t)
  BY <1>1, AtWork
<1>3. /\ cmd \in CmdSet /\ cmd.id = pushes + 1 /\ cmd.kind = "ADD" /\ cmd.on = c
      /\ cmd.at = p
  <2>1. Default \in Field \cup Loc
    BY DEF Field
  <2> QED  BY <1>1, <1>2, <2>1, CommandIn
<1> HIDE DEF cmd
<1>4. /\ Sound(f1, [h EXCEPT ![c] = @ + 1], born \cup {c})
      /\ TreeOf(f1) = u /\ f1.img = form.img /\ f1.loc = [form.loc EXCEPT ![c] = l]
      /\ Covered(form) => Covered(f1)
  <2>1. form.img[c] = Default /\ images \subseteq Image /\ Sound(form, h, born)
    BY <1>1, <1>2 DEF Good, Types
  <2>2. c \in Control \ born /\ p \in Top(TreeOf(form))
    BY <1>1, <1>2
  <2> HIDE DEF h
  <2>3. DrawnAt(form, f1, c, p, l, h, born)
    <3> HIDE DEF f1
    <3>1. f1 = Drawn(form, p, c, l)
      BY DEF f1, Drawn
    <3> QED  BY <2>1, <2>2, <3>1, Created
  <2> QED  BY <2>3 DEF DrawnAt
<1> HIDE DEF f1
<1>5. HoldCount(E \cup {cmd}) = [h EXCEPT ![c] = @ + 1]
  BY <1>1, <1>3, NewCommand DEF Held
<1>6. /\ Sound(form', HoldCount(Elements(past' \o future')), born')
      /\ form'.kids = f1.kids /\ TreeOf(form') = u
      /\ form'.loc = f1.loc /\ form'.img = f1.img /\ form'.use = f1.use
      /\ past' \in Seq(CmdSet) /\ future' \in Seq(CmdSet)
      /\ Numbered(past' \o future', pushes')
  <2>1. Sound(f1, HoldCount(E \cup {cmd}), born \cup {c})
    BY <1>4, <1>5
  <2>2. born \subseteq born \cup {c}
    OBVIOUS
  <2> HIDE DEF u
  <2> QED  BY <1>1, <1>3, <1>4, <2>1, <2>2, Pushing
<1>7. Covered(form)'
  <2>1. Covered(form')
    BY <1>2, <1>4, <1>6, CoveredSame DEF Good
  <2> QED  BY <1>1, <2>1 DEF Covered
<1>8. Edge(cmd, t, TreeOf(form'))
  <2>1. t[c] = {}
    BY <1>1, <1>2 DEF Shape, Bare
  <2>2. \A d \in Control : t[d] \subseteq u[d]
    BY <1>2, <2>1 DEF Tree
  <2>3. Top(t) \subseteq Top(u)
    <3>1. {Base} \subseteq Under(u, {Base})
      BY UnderClosed
    <3> HIDE DEF t, u
    <3> QED  BY <2>2, <3>1, UnderGrows DEF Top
  <2>4. t = [u EXCEPT ![c] = {}] /\ u[c] = {p}
    BY <1>2, <2>1 DEF Tree
  <2> HIDE DEF t, u
  <2> QED  BY <1>2, <1>3, <1>6, <2>3, <2>4 DEF Edge
<1>9. p \in born \cup {Base}
  BY <1>2, TopBorn
<1>10. FormInv'
  <2>1. \A d \in Control \ born' : form'.img[d] = Default
    BY <1>1, <1>2, <1>4, <1>6 DEF Good
  <2>2. curContainer' \in Owner \cap (born' \cup {Base})
    BY <1>1, <1>9
  <2>3. born \subseteq born' /\ images' \subseteq images
    BY <1>1
  <2> HIDE DEF t, u, E, h
  <2> QED  BY <1>1, <1>3, <1>6, <1>7, <1>8, <2>1, <2>2, <2>3, PushEnds DEF t
<1>11. Leads(cmd, form, form')
  <2>1. OnForm(form) \subseteq Control \ {c}
    <3>1. Top(t) \subseteq born \cup {Base}
      BY <1>2, TopBorn
    <3> QED  BY <1>1, <3>1, OnFormType DEF OnForm
  <2>2. \A d \in OnForm(form) : form.loc[d] = form'.loc[d] /\ form.img[d] = form'.img[d]
    BY <1>2, <1>4, <1>6, <2>1 DEF Types, FormSet
  <2> QED  BY <1>3, <1>8, <2>2 DEF Leads, SameImage
<1> QED  BY <1>1, <1>3, <1>10, <1>11, LastPushed DEF Pushed

(* What every gesture without a command ends with. *)
LEMMA QuietEnds ==
  ASSUME FormInv, Working, UNCHANGED history, born' = born, panel' = panel,
         images' \subseteq images, curContainer' \in Owner \cap (born \cup {Base}),
         clip' \in {Empty} \cup [container : BOOLEAN, img : Field],
         Sound(form', HoldCount(Elements(past \o future)), born),
         TreeOf(form') = TreeOf(form), Covered(form)',
         \A c \in Control \ born : form'.img[c] = Default
  PROVE  FormInv'
<1>1. Types /\ Good
  BY AtWork
<1>2. past' = past /\ future' = future /\ pushes' = pushes
  BY DEF history
<1>3. Types'
  <2>1. form' \in FormSet /\ form'.freed \subseteq born' /\ born' \subseteq Control
    BY SoundShape
  <2>2. panel' \in {"open", "closed"} /\ images' \subseteq Image
    BY <1>1 DEF Types
  <2> QED  BY <1>1, <1>2, <2>1, <2>2 DEF Types
<1>4. Good'
  BY <1>1, <1>2 DEF Good
<1>5. panel' = "open"
  BY DEF Working
<1> QED  BY <1>3, <1>4, <1>5 DEF FormInv

LEMMA ClickKeeps ==
  ASSUME FormInv, NEW p \in Owner, click(p)
  PROVE  FormInv'
<1>1. /\ Working /\ p \in AttachedOwner(form) /\ curContainer' = p
      /\ form' = form /\ born' = born /\ images' = images /\ clip' = clip
      /\ UNCHANGED history /\ panel' = panel
  BY DEF click
<1>2. Types /\ Good /\ Shape(TreeOf(form), born) /\ p \in Top(TreeOf(form))
  BY <1>1, AtWork
<1>3. p \in born \cup {Base}
  BY <1>2, TopBorn
<1>4. Covered(form)'
  BY <1>1, <1>2 DEF Good, Covered
<1>5. /\ Sound(form', HoldCount(Elements(past \o future)), born)
      /\ TreeOf(form') = TreeOf(form)
      /\ \A c \in Control \ born : form'.img[c] = Default
  BY <1>1, <1>2 DEF Good
<1>6. clip' \in {Empty} \cup [container : BOOLEAN, img : Field]
  BY <1>1, <1>2 DEF Types
<1> QED  BY <1>1, <1>3, <1>4, <1>5, <1>6, QuietEnds

LEMMA CopyKeeps ==
  ASSUME FormInv, NEW c \in Control, copy(c)
  PROVE  FormInv'
<1>1. /\ Working /\ clip' = [container |-> c \in Container, img |-> form.img[c]]
      /\ form' = form /\ born' = born /\ images' = images /\ curContainer' = curContainer
      /\ UNCHANGED history /\ panel' = panel
  BY DEF copy
<1>2. Types /\ Good
  BY <1>1, AtWork
<1>3. Covered(form)'
  BY <1>1, <1>2 DEF Good, Covered
<1>4. /\ Sound(form', HoldCount(Elements(past \o future)), born)
      /\ TreeOf(form') = TreeOf(form)
      /\ \A d \in Control \ born : form'.img[d] = Default
      /\ curContainer' \in Owner \cap (born \cup {Base})
  BY <1>1, <1>2 DEF Good, Types
<1>5. clip' \in {Empty} \cup [container : BOOLEAN, img : Field]
  <2>1. form.img[c] \in Field
    BY <1>2 DEF Types, FormSet
  <2>2. (c \in Container) \in BOOLEAN
    OBVIOUS
  <2> DEFINE b == c \in Container
  <2>3. clip' = [container |-> b, img |-> form.img[c]]
    BY <1>1
  <2>4. b \in BOOLEAN
    OBVIOUS
  <2> HIDE DEF b
  <2> QED  BY <2>1, <2>3, <2>4
<1> QED  BY <1>1, <1>3, <1>4, <1>5, QuietEnds

LEMMA MoveSelectionsKeeps ==
  ASSUME FormInv, NEW c \in Control, NEW l \in Loc, moveSelections(c, l)
  PROVE  FormInv'
<1>1. /\ Working /\ form' = [form EXCEPT !.loc[c] = l]
      /\ born' = born /\ images' = images /\ curContainer' = curContainer
      /\ clip' = clip /\ UNCHANGED history /\ panel' = panel
  BY DEF moveSelections
<1>2. Types /\ Good
  BY <1>1, AtWork
<1> DEFINE h == HoldCount(Elements(past \o future))
<1>3. Sound(form, h, born)
  BY <1>2 DEF Good
<1> HIDE DEF h
<1>4. Kept(form, form', h, born) /\ TreeOf(form') = TreeOf(form)
  BY <1>1, <1>3, KeptPlace
<1>5. Covered(form)'
  <2>1. Covered(form')
    BY <1>2, <1>4 DEF Kept, Good
  <2> QED  BY <1>1, <2>1 DEF Covered
<1>6. /\ Sound(form', h, born)
      /\ \A d \in Control \ born : form'.img[d] = Default
      /\ curContainer' \in Owner \cap (born \cup {Base})
      /\ clip' \in {Empty} \cup [container : BOOLEAN, img : Field]
  BY <1>1, <1>2, <1>4 DEF Good, Types, Kept
<1> QED  BY <1>1, <1>4, <1>5, <1>6, QuietEnds DEF h

LEMMA RefuseImageKeeps ==
  ASSUME FormInv, NEW c \in Control, NEW i \in Image, refuseImage(c, i)
  PROVE  FormInv'
<1> DEFINE h == HoldCount(Elements(past \o future))
           set == setField(form, c, i)
           old == form.img[c]
<1>1. /\ Working /\ c \in Attached(form)
      /\ form' = IF old = Default THEN cleanField(set, c) ELSE setField(set, c, old)
      /\ born' = born /\ images' = images /\ curContainer' = curContainer
      /\ clip' = clip /\ UNCHANGED history /\ panel' = panel
  BY DEF refuseImage
<1>2. Types /\ Good /\ c \in Top(TreeOf(form))
  BY <1>1, AtWork DEF OnForm
<1>3. Sound(form, h, born) /\ images \subseteq Image /\ i \in Field /\ old \in Field
  BY <1>2 DEF Good, Types, Field, FormSet
<1> HIDE DEF h, set, old
<1>4. Kept(form, set, h, born) /\ TreeOf(set) = TreeOf(form)
  BY <1>2, <1>3, FieldWritten DEF set
<1>5. Kept(set, form', h, born) /\ TreeOf(form') = TreeOf(form)
  <2>1. Sound(set, h, born) /\ c \in Top(TreeOf(set))
    BY <1>2, <1>4 DEF Kept
  <2>2. /\ Kept(set, setField(set, c, old), h, born)
        /\ TreeOf(setField(set, c, old)) = TreeOf(set)
        /\ Kept(set, cleanField(set, c), h, born)
        /\ TreeOf(cleanField(set, c)) = TreeOf(set)
    BY <1>3, <2>1, FieldWritten
  <2> QED  BY <1>1, <1>4, <2>2
<1>6. Covered(form)'
  <2>1. Covered(form')
    BY <1>2, <1>4, <1>5 DEF Kept, Good
  <2> QED  BY <1>1, <2>1 DEF Covered
<1>7. /\ Sound(form', h, born)
      /\ \A d \in Control \ born : form'.img[d] = Default
      /\ curContainer' \in Owner \cap (born \cup {Base})
      /\ clip' \in {Empty} \cup [container : BOOLEAN, img : Field]
  BY <1>1, <1>2, <1>4, <1>5 DEF Good, Types, Kept
<1> QED  BY <1>1, <1>5, <1>6, <1>7, QuietEnds DEF h

LEMMA RemoveImageKeeps ==
  ASSUME FormInv, NEW i \in Image, removeImage(i)
  PROVE  FormInv'
<1> DEFINE h == HoldCount(Elements(past \o future))
           left == [c \in Control |-> IF c \in Attached(form) /\ form.img[c] = i
                                      THEN Default ELSE form.img[c]]
<1>1. /\ Working /\ images' = images \ {i} /\ form' = [form EXCEPT !.img = left]
      /\ born' = born /\ curContainer' = curContainer
      /\ clip' = clip /\ UNCHANGED history /\ panel' = panel
  BY DEF removeImage
<1>2. Types /\ Good /\ Sound(form, h, born) /\ form \in FormSet
  BY <1>1, AtWork DEF Good, Types
<1>3. left \in [Control -> Field]
  BY <1>2 DEF FormSet, Field
<1>4. \A c \in Control : left[c] = form.img[c] \/ (form.img[c] = i /\ left[c] = Default)
  OBVIOUS
<1> HIDE DEF left, h
<1>5. /\ form' \in FormSet /\ form'.kids = form.kids /\ form'.loc = form.loc
      /\ form'.img = left /\ form'.ref = form.ref /\ form'.use = form.use
      /\ form'.freed = form.freed /\ form'.fault = form.fault
  BY <1>1, <1>2, <1>3 DEF FormSet
<1>6. TreeOf(form') = TreeOf(form) /\ NoTwins(form') /\ OnForm(form') = OnForm(form)
  BY <1>2, <1>5, KidsOnly DEF Sound
<1>7. Sound(form', h, born)
  BY <1>2, <1>5, <1>6 DEF Sound
<1>8. ASSUME NEW j \in images' PROVE form'.use[j] >= Showing(form', OnForm(form'), j)
  <2>1. j \in images /\ j # i /\ j # Default
    BY <1>1, <1>2, FormAssumption DEF Types
  <2>2. OnForm(form) \subseteq Control
    BY OnFormType
  <2>3. {c \in OnForm(form) : form'.img[c] = j} = {c \in OnForm(form) : form.img[c] = j}
    BY <1>4, <1>5, <2>1, <2>2
  <2>4. Showing(form', OnForm(form'), j) = Showing(form, OnForm(form), j)
    BY <1>6, <2>3 DEF Showing
  <2>5. form.use[j] >= Showing(form, OnForm(form), j)
    BY <1>2, <2>1 DEF Good, Covered
  <2> QED  BY <1>5, <2>4, <2>5
<1>9. Covered(form)'
  BY <1>8 DEF Covered
<1>10. /\ \A d \in Control \ born : form'.img[d] = Default
       /\ curContainer' \in Owner \cap (born \cup {Base})
       /\ clip' \in {Empty} \cup [container : BOOLEAN, img : Field]
       /\ images' \subseteq images
  BY <1>1, <1>2, <1>4, <1>5 DEF Good, Types
<1> QED  BY <1>1, <1>6, <1>7, <1>9, <1>10, QuietEnds DEF h

-----------------------------------------------------------------------------
(* The gestures that push a command.                                       *)

LEMMA HeldOn ==
  ASSUME NEW f, NEW h, NEW B, Sound(f, h, B), NEW c \in Control, c \in Top(TreeOf(f))
  PROVE  LET g == addRef(f, c) IN
         /\ Sound(g, [h EXCEPT ![c] = @ + 1], B)
         /\ g.kids = f.kids /\ TreeOf(g) = TreeOf(f)
         /\ g.loc = f.loc /\ g.img = f.img /\ g.use = f.use /\ g.fault = f.fault
<1> DEFINE g == addRef(f, c)
<1>1. /\ f \in FormSet /\ NoTwins(f) /\ Counted(TreeOf(f), h, f.ref, f.freed, B)
      /\ Shape(TreeOf(f), B) /\ f.freed = B \ Live(TreeOf(f), h)
  BY DEF Sound, Counted
<1>2. /\ g \in FormSet /\ g.kids = f.kids /\ TreeOf(g) = TreeOf(f) /\ NoTwins(g)
      /\ g.ref = [f.ref EXCEPT ![c] = @ + 1]
      /\ g.loc = f.loc /\ g.img = f.img /\ g.use = f.use
      /\ g.freed = f.freed /\ g.fault = f.fault
  BY <1>1, Referenced
<1> HIDE DEF g
<1>3. c \in B \ f.freed
  <2>1. c \in B
    BY <1>1, TopBorn, FormAssumption
  <2>2. c \in Live(TreeOf(f), h)
    BY TopUnder DEF Live, Roots
  <2> QED  BY <1>1, <2>1, <2>2
<1>4. Counted(TreeOf(f), [h EXCEPT ![c] = @ + 1], [f.ref EXCEPT ![c] = @ + 1], f.freed, B)
  BY <1>1, <1>3, CountHold
<1>5. Sound(g, [h EXCEPT ![c] = @ + 1], B)
  BY <1>2, <1>4 DEF Sound
<1> QED  BY <1>2, <1>5 DEF g

LEMMA DeleteKeeps ==
  ASSUME FormInv, NEW c \in Control, deleteSelectedInstance(c)
  PROVE  FormInv' /\ Pushed
<1> DEFINE t == TreeOf(form)
           x == [t EXCEPT ![c] = {}]
           E == Elements(past \o future)
           h == HoldCount(E)
           p == ParentOf(form, c)
           f1 == addRef(form, c)
           pushed == DestroyAll(f1, Forgotten)
           cmd == Command("DELETE", c, p, Default)
<1>1. /\ Working /\ pushes < MaxPush /\ c \in Attached(form)
      /\ form' = release(decUseOfRefReses(remove(pushed, p, c), c), {c})
      /\ pushUndoRedoCommand(cmd)
      /\ born' = born /\ images' = images /\ curContainer' = curContainer
      /\ clip' = clip /\ panel' = panel
  BY DEF deleteSelectedInstance, CanPush
<1>2. /\ Types /\ Good /\ t \in Tree /\ Single(t) /\ Shape(t, born)
      /\ h \in [Control -> Nat] /\ c \in Top(t) /\ Sound(form, h, born)
      /\ images \subseteq Image
  BY <1>1, AtWork DEF OnForm, Good, Types
<1>3. p \in Owner /\ t[c] = {p} /\ p \in Top(t)
  BY <1>2, ParentIs
<1> HIDE DEF p
<1>4. /\ cmd \in CmdSet /\ cmd.id = pushes + 1 /\ cmd.kind = "DELETE" /\ cmd.on = c
      /\ cmd.at = p
  <2>1. Default \in Field \cup Loc
    BY DEF Field
  <2> QED  BY <1>1, <1>2, <1>3, <2>1, CommandIn
<1> HIDE DEF cmd
<1>5. /\ Sound(f1, [h EXCEPT ![c] = @ + 1], born)
      /\ f1.kids = form.kids /\ TreeOf(f1) = t
      /\ f1.loc = form.loc /\ f1.img = form.img /\ f1.use = form.use
  <2> HIDE DEF h
  <2> QED  BY <1>2, HeldOn
<1> HIDE DEF f1
<1>6. HoldCount(E \cup {cmd}) = [h EXCEPT ![c] = @ + 1]
  BY <1>1, <1>4, NewCommand DEF Held
<1> DEFINE h1 == HoldCount(Elements(past' \o future'))
<1>7. /\ Sound(pushed, h1, born)
      /\ pushed.kids = f1.kids /\ TreeOf(pushed) = t
      /\ pushed.loc = form.loc /\ pushed.img = form.img /\ pushed.use = form.use
      /\ past' \in Seq(CmdSet) /\ future' \in Seq(CmdSet)
      /\ Numbered(past' \o future', pushes')
  <2>1. Sound(f1, HoldCount(E \cup {cmd}), born)
    BY <1>5, <1>6
  <2> QED  BY <1>1, <1>4, <1>5, <2>1, Pushing
<1>8. Covered(form) => Covered(pushed)
  BY <1>5, <1>7, CoveredSame
<1> HIDE DEF pushed, h1
<1>9. /\ Sound(form', h1, born) /\ TreeOf(form') = x
      /\ form'.loc = form.loc /\ form'.img = form.img
      /\ Covered(form')
  <2>1. TreeOf(pushed)[c] = {p} /\ p \in Top(TreeOf(pushed))
    BY <1>3, <1>7
  <2>2. Covered(pushed)
    BY <1>2, <1>8 DEF Good
  <2> HIDE DEF t
  <2>3. /\ Sound(form', h1, born) /\ TreeOf(form') = [TreeOf(pushed) EXCEPT ![c] = {}]
        /\ form'.loc = pushed.loc /\ form'.img = pushed.img
        /\ Covered(pushed) => Covered(form')
    <3> DEFINE g == release(decUseOfRefReses(remove(pushed, p, c), c), {c})
    <3>1. Taken(pushed, g, h1, born, c)
      BY <1>2, <1>3, <1>7, <2>1, TakenFrom
    <3>2. form' = g
      BY <1>1
    <3> HIDE DEF g
    <3> QED  BY <3>1, <3>2 DEF Taken
  <2> QED  BY <1>7, <2>2, <2>3
<1>10. Edge(cmd, t, TreeOf(form'))
  <2>1. /\ x \in Tree /\ x[c] = {} /\ Alike(t, x, c) /\ Alike(x, t, c)
    BY <1>2, AlikeExcept
  <2>2. Single(x)
    BY <1>9, SoundShape
  <2>3. TakenOff(t, x, c)
    BY <1>2, <2>1, <2>2 DEF TakenOff
  <2>4. t = [x EXCEPT ![c] = {p}]
    BY <1>2, <1>3 DEF Tree
  <2> HIDE DEF t, x
  <2>5. \A o \in t[c] : o \in Top(x)
    <3>1. TopTakenOff(t, x, c)
      BY ONLY <2>3, c \in Control, TakenOffTop
    <3> QED  BY <3>1 DEF TopTakenOff
  <2>6. p \in Top(x)
    BY <1>3, <2>5 DEF t
  <2> QED  BY <1>3, <1>4, <1>9, <2>1, <2>4, <2>6 DEF Edge
<1>11. FormInv'
  <2>1. Covered(form)'
    BY <1>1, <1>9 DEF Covered
  <2>2. \A d \in Control \ born' : form'.img[d] = Default
    BY <1>1, <1>2, <1>9 DEF Good
  <2>3. curContainer' \in Owner \cap (born' \cup {Base})
    BY <1>1, <1>2 DEF Types, Good
  <2>4. born \subseteq born' /\ images' \subseteq images
        /\ Sound(form', HoldCount(Elements(past' \o future')), born')
    BY <1>1, <1>9 DEF h1
  <2>5. Edge(cmd, TreeOf(form), TreeOf(form'))
    BY <1>10
  <2> HIDE DEF t, E, h
  <2> QED  BY <1>1, <1>4, <1>7, <2>1, <2>2, <2>3, <2>4, <2>5, PushEnds
<1>12. Leads(cmd, form, form')
  BY <1>4, <1>9, <1>10 DEF Leads, SameImage
<1> QED  BY <1>1, <1>4, <1>11, <1>12, LastPushed DEF Pushed

LEMMA MoveKeeps ==
  ASSUME FormInv, NEW c \in Control, NEW p \in Owner, NEW l \in Loc, move(c, p, l)
  PROVE  FormInv' /\ Pushed
<1> DEFINE t == TreeOf(form)
           u == [t EXCEPT ![c] = {p}]
           E == Elements(past \o future)
           h == HoldCount(E)
           from == ParentOf(form, c)
           f1 == DragTo(form, c, p, l)
           cmd == Command("MOVE", c, from, form.loc[c])
<1>1. /\ Working /\ pushes < MaxPush /\ c \in Attached(form)
      /\ p \in AttachedOwner(form) \ Below(form, {c})
      /\ form' = DestroyAll(f1, Forgotten)
      /\ pushUndoRedoCommand(cmd)
      /\ born' = born /\ images' = images /\ curContainer' = p
      /\ clip' = clip /\ panel' = panel
  BY DEF move, CanPush, DragTo
<1>2. /\ Types /\ Good /\ t \in Tree /\ Single(t) /\ Shape(t, born)
      /\ c \in Top(t) /\ Sound(form, h, born) /\ form \in FormSet
      /\ p \in Top(t) \ Under(t, {c})
  BY <1>1, AtWork DEF OnForm, Good, Types
<1>3. from \in Owner /\ t[c] = {from} /\ from \in Top(t)
  BY <1>2, ParentIs
<1> HIDE DEF from
<1>4. /\ cmd \in CmdSet /\ cmd.id = pushes + 1 /\ cmd.kind = "MOVE" /\ cmd.on = c
      /\ cmd.at = from /\ cmd.val = form.loc[c]
  <2>1. form.loc[c] \in Loc
    BY <1>2 DEF FormSet
  <2> DEFINE v == form.loc[c]
  <2>2. v \in Field \cup Loc /\ v \in Loc
    BY <2>1
  <2> HIDE DEF v
  <2>3. LET d == Command("MOVE", c, from, v) IN
        /\ d \in CmdSet /\ d.id = pushes + 1 /\ d.kind = "MOVE" /\ d.on = c
        /\ d.at = from /\ d.val = v
    BY <1>1, <1>2, <1>3, <2>2, CommandIn
  <2> QED  BY <2>3 DEF v
<1> HIDE DEF cmd
<1>5. /\ Kept(form, f1, h, born) /\ TreeOf(f1) = u
      /\ f1.loc = [form.loc EXCEPT ![c] = l] /\ f1.img = form.img
  <2>1. DragsTo(form, f1, c, p, l, h, born)
    <3> HIDE DEF h
    <3> QED  BY <1>2, Dragged
  <2> QED  BY <2>1 DEF DragsTo
<1> HIDE DEF f1
<1>6. HoldCount(E \cup {cmd}) = h
  BY <1>1, <1>4, NewCommand DEF Held
<1>7. /\ Sound(form', HoldCount(Elements(past' \o future')), born)
      /\ form'.kids = f1.kids /\ TreeOf(form') = u
      /\ form'.loc = f1.loc /\ form'.img = f1.img /\ form'.use = f1.use
      /\ past' \in Seq(CmdSet) /\ future' \in Seq(CmdSet)
      /\ Numbered(past' \o future', pushes')
  <2>1. Sound(f1, HoldCount(E \cup {cmd}), born)
    BY <1>5, <1>6 DEF Kept
  <2> HIDE DEF u
  <2> QED  BY <1>1, <1>4, <1>5, <2>1, Pushing
<1>8. Covered(form)'
  <2>1. Covered(form')
    BY <1>2, <1>5, <1>7, CoveredSame DEF Good, Kept
  <2> QED  BY <1>1, <2>1 DEF Covered
<1>9. Edge(cmd, t, TreeOf(form'))
  <2>1. Hung(t, u, c, p) /\ Base \in {Base}
    BY <1>2, PutAt
  <2>2. /\ c \in Top(u) /\ \A o \in t[c] : o \in Top(u) \ Under(u, {c})
    <3> HIDE DEF t, u
    <3> QED  BY ONLY <1>2, <2>1, c \in Control, p \in Owner, MovedTop
  <2>3. t = [u EXCEPT ![c] = {from}]
    BY <1>2, <1>3 DEF Tree
  <2> HIDE DEF t, u
  <2>4. from \in Top(u) \ Under(u, {c})
    BY <1>3, <2>2
  <2> QED  BY <1>3, <1>4, <1>7, <2>2, <2>3, <2>4 DEF Edge
<1>10. FormInv'
  <2>1. \A d \in Control \ born' : form'.img[d] = Default
    BY <1>1, <1>2, <1>5, <1>7 DEF Good
  <2>2. curContainer' \in Owner \cap (born' \cup {Base})
    BY <1>1, <1>2, TopBorn
  <2>3. /\ born \subseteq born' /\ images' \subseteq images
        /\ Sound(form', HoldCount(Elements(past' \o future')), born')
    BY <1>1, <1>7
  <2>4. Edge(cmd, TreeOf(form), TreeOf(form'))
    BY <1>9
  <2> HIDE DEF t, u, E, h
  <2> QED  BY <1>1, <1>4, <1>7, <1>8, <2>1, <2>2, <2>3, <2>4, PushEnds
<1>11. Leads(cmd, form, form')
  <2>1. OnForm(form) \subseteq Control
    BY OnFormType
  <2>2. \A d \in OnForm(form) :
          /\ form.loc[d] = IF d = c THEN form.loc[c] ELSE form'.loc[d]
          /\ form.img[d] = form'.img[d]
    BY <1>2, <1>5, <1>7, <2>1 DEF FormSet
  <2> QED  BY <1>4, <1>9, <2>2 DEF Leads, SameImage
<1> QED  BY <1>1, <1>4, <1>10, <1>11, LastPushed DEF Pushed

LEMMA SetImageKeeps ==
  ASSUME FormInv, NEW c \in Control, NEW i \in Image \cup {NoImage}, setImage(c, i)
  PROVE  FormInv' /\ Pushed
<1> DEFINE t == TreeOf(form)
           E == Elements(past \o future)
           h == HoldCount(E)
           old == form.img[c]
           f1 == setField(form, c, i)
           cmd == Command("SET", c, Base, old)
<1>1. /\ Working /\ pushes < MaxPush /\ c \in Attached(form)
      /\ form' = DestroyAll(f1, Forgotten)
      /\ pushUndoRedoCommand(cmd)
      /\ born' = born /\ images' = images /\ curContainer' = curContainer
      /\ clip' = clip /\ panel' = panel
  BY DEF setImage, CanPush
<1>2. /\ Types /\ Good /\ c \in Top(t) /\ Sound(form, h, born) /\ form \in FormSet
      /\ images \subseteq Image /\ i \in Field /\ old \in Field
  BY <1>1, AtWork DEF OnForm, Good, Types, Field, FormSet
<1> HIDE DEF old
<1>3. /\ cmd \in CmdSet /\ cmd.id = pushes + 1 /\ cmd.kind = "SET" /\ cmd.on = c
      /\ cmd.at = Base /\ cmd.val = old
  <2>1. old \in Field \cup Loc /\ Base \in Owner
    BY <1>2 DEF Owner
  <2> QED  BY <1>1, <1>2, <2>1, CommandIn
<1> HIDE DEF cmd
<1>4. /\ Kept(form, f1, h, born) /\ TreeOf(f1) = t
      /\ f1.loc = form.loc /\ f1.img = [form.img EXCEPT ![c] = i]
  <2>1. Kept(form, f1, h, born) /\ TreeOf(f1) = t
    <3>1. /\ Sound(form, h, born) /\ images \subseteq Image /\ c \in Top(TreeOf(form))
          /\ i \in Field
      BY <1>2
    <3> HIDE DEF h, t
    <3>2. /\ Kept(form, setField(form, c, i), h, born)
          /\ TreeOf(setField(form, c, i)) = TreeOf(form)
      BY ONLY <3>1, c \in Control, FieldWritten
    <3> QED  BY <3>2 DEF t
  <2>2. Written(form, setField(form, c, i), c, i)
    BY <1>2, FieldValues
  <2> QED  BY <2>1, <2>2 DEF Written
<1> HIDE DEF f1
<1>5. HoldCount(E \cup {cmd}) = h
  BY <1>1, <1>3, NewCommand DEF Held
<1>6. /\ Sound(form', HoldCount(Elements(past' \o future')), born)
      /\ form'.kids = f1.kids /\ TreeOf(form') = t
      /\ form'.loc = f1.loc /\ form'.img = f1.img /\ form'.use = f1.use
      /\ past' \in Seq(CmdSet) /\ future' \in Seq(CmdSet)
      /\ Numbered(past' \o future', pushes')
  <2>1. Sound(f1, HoldCount(E \cup {cmd}), born)
    BY <1>4, <1>5 DEF Kept
  <2> QED  BY <1>1, <1>3, <1>4, <2>1, Pushing
<1>7. Covered(form)'
  <2>1. Covered(form')
    BY <1>2, <1>4, <1>6, CoveredSame DEF Good, Kept
  <2> QED  BY <1>1, <2>1 DEF Covered
<1>8. Edge(cmd, t, TreeOf(form'))
  BY <1>2, <1>3, <1>6 DEF Edge
<1>9. FormInv'
  <2>1. \A d \in Control \ born' : form'.img[d] = Default
    BY <1>1, <1>2, <1>4, <1>6 DEF Good, Kept
  <2>2. curContainer' \in Owner \cap (born' \cup {Base})
    BY <1>1, <1>2 DEF Good, Types
  <2>3. /\ born \subseteq born' /\ images' \subseteq images
        /\ Sound(form', HoldCount(Elements(past' \o future')), born')
    BY <1>1, <1>6
  <2>4. Edge(cmd, TreeOf(form), TreeOf(form'))
    BY <1>8
  <2> HIDE DEF t, E, h
  <2> QED  BY <1>1, <1>3, <1>6, <1>7, <2>1, <2>2, <2>3, <2>4, PushEnds
<1>10. Leads(cmd, form, form')
  <2>1. OnForm(form) \subseteq Control
    BY OnFormType
  <2>2. \A d \in OnForm(form) :
          /\ form.loc[d] = form'.loc[d]
          /\ form.img[d] = IF d = c THEN old ELSE form'.img[d]
    BY <1>2, <1>4, <1>6, <2>1 DEF FormSet, old
  <2> QED  BY <1>3, <1>8, <2>2 DEF Leads, SameImage
<1> QED  BY <1>1, <1>3, <1>9, <1>10, LastPushed DEF Pushed

LEMMA SetDefValueKeeps ==
  ASSUME FormInv, NEW c \in Control, setDefValue(c)
  PROVE  FormInv' /\ Pushed
<1> DEFINE t == TreeOf(form)
           E == Elements(past \o future)
           h == HoldCount(E)
           old == IF form.img[c] = Default THEN NoImage ELSE form.img[c]
           g == DestroyAll(form, Forgotten)
           cmd == Command("SET", c, Base, old)
<1>1. /\ Working /\ pushes < MaxPush /\ c \in Attached(form)
      /\ form' = cleanField(g, c)
      /\ pushUndoRedoCommand(cmd)
      /\ born' = born /\ images' = images /\ curContainer' = curContainer
      /\ clip' = clip /\ panel' = panel
  BY DEF setDefValue, CanPush
<1>2. /\ Types /\ Good /\ c \in Top(t) /\ Sound(form, h, born) /\ form \in FormSet
      /\ images \subseteq Image /\ old \in Field
  BY <1>1, AtWork DEF OnForm, Good, Types, Field, FormSet
<1> HIDE DEF old
<1>3. /\ cmd \in CmdSet /\ cmd.id = pushes + 1 /\ cmd.kind = "SET" /\ cmd.on = c
      /\ cmd.at = Base /\ cmd.val = old
  <2>1. old \in Field \cup Loc /\ Base \in Owner
    BY <1>2 DEF Owner
  <2> QED  BY <1>1, <1>2, <2>1, CommandIn
<1> HIDE DEF cmd
<1>4. HoldCount(E \cup {cmd}) = h
  BY <1>1, <1>3, NewCommand DEF Held
<1> DEFINE h1 == HoldCount(Elements(past' \o future'))
<1>5. /\ Sound(g, h1, born)
      /\ g.kids = form.kids /\ TreeOf(g) = t
      /\ g.loc = form.loc /\ g.img = form.img /\ g.use = form.use
      /\ past' \in Seq(CmdSet) /\ future' \in Seq(CmdSet)
      /\ Numbered(past' \o future', pushes')
  <2>1. Sound(form, HoldCount(E \cup {cmd}), born)
    BY <1>2, <1>4
  <2> QED  BY <1>1, <1>3, <2>1, Pushing
<1>6. Covered(g)
  BY <1>2, <1>5, CoveredSame DEF Good
<1> HIDE DEF g, h1
<1>7. /\ Kept(g, form', h1, born) /\ TreeOf(form') = t
      /\ form'.loc = form.loc /\ form'.img = [form.img EXCEPT ![c] = Default]
  <2>1. Default \in Field /\ c \in Top(TreeOf(g)) /\ g \in FormSet
    BY <1>2, <1>5, SoundShape DEF Field
  <2>2. Kept(g, cleanField(g, c), h1, born) /\ TreeOf(cleanField(g, c)) = TreeOf(g)
    BY <1>2, <1>5, <2>1, FieldWritten
  <2>3. Written(g, cleanField(g, c), c, Default)
    BY <1>2, <2>1, FieldValues
  <2> QED  BY <1>1, <1>5, <2>2, <2>3 DEF Written
<1>8. Covered(form)'
  <2>1. Covered(form')
    BY <1>6, <1>7 DEF Kept
  <2> QED  BY <1>1, <2>1 DEF Covered
<1>9. Edge(cmd, t, TreeOf(form'))
  BY <1>2, <1>3, <1>7 DEF Edge
<1>10. FormInv'
  <2>1. \A d \in Control \ born' : form'.img[d] = Default
    BY <1>1, <1>2, <1>5, <1>7 DEF Good, Kept
  <2>2. curContainer' \in Owner \cap (born' \cup {Base})
    BY <1>1, <1>2 DEF Good, Types
  <2>3. /\ born \subseteq born' /\ images' \subseteq images
        /\ Sound(form', HoldCount(Elements(past' \o future')), born')
    BY <1>1, <1>7 DEF Kept, h1
  <2>4. Edge(cmd, TreeOf(form), TreeOf(form'))
    BY <1>9
  <2> HIDE DEF t, E, h
  <2> QED  BY <1>1, <1>3, <1>5, <1>8, <2>1, <2>2, <2>3, <2>4, PushEnds
<1>11. Leads(cmd, form, form')
  <2>1. OnForm(form) \subseteq Control
    BY OnFormType
  <2>2. \A d \in OnForm(form) :
          /\ form.loc[d] = form'.loc[d]
          /\ d # c => form.img[d] = form'.img[d]
    BY <1>2, <1>7, <2>1 DEF FormSet
  <2>3. SameImage(form.img[c], old)
    BY FormAssumption DEF SameImage, old
  <2>4. \A d \in OnForm(form) :
          SameImage(form.img[d], IF cmd.kind = "SET" /\ d = cmd.on THEN cmd.val
                                 ELSE form'.img[d])
    BY <1>3, <2>2, <2>3 DEF SameImage
  <2> QED  BY <1>3, <1>9, <2>2, <2>4 DEF Leads
<1> QED  BY <1>1, <1>3, <1>10, <1>11, LastPushed DEF Pushed

(* A control hung where it was not, among those the form may come to show. *)
LEMMA LeafEdge ==
  ASSUME NEW t \in Tree, NEW B, Shape(t, B), NEW c \in Control \ B,
         NEW p \in Owner, p \in Top(t), NEW u, u = [t EXCEPT ![c] = {p}],
         NEW cmd, cmd.kind = "ADD", cmd.on = c, cmd.at = p
  PROVE  Edge(cmd, t, u) /\ c \in Top(u)
<1>1. t[c] = {}
  BY DEF Shape, Bare
<1>2. \A d \in Control : t[d] \subseteq u[d]
  BY <1>1 DEF Tree
<1>3. Top(t) \subseteq Top(u)
  <2>1. {Base} \subseteq Under(u, {Base})
    BY UnderClosed
  <2> QED  BY <1>2, <2>1, UnderGrows DEF Top
<1>4. t = [u EXCEPT ![c] = {}] /\ u[c] = {p}
  BY <1>1 DEF Tree
<1>5. c \in Kids(u, Top(u))
  BY <1>3, <1>4 DEF Kids
<1>6. c \in Top(u)
  BY <1>5, UnderClosed DEF Top
<1> QED  BY <1>3, <1>4, <1>6 DEF Edge

LEMMA PastedType ==
  ASSUME NEW f \in FormSet, NoTwins(f), NEW c \in Control, NEW p \in Owner,
         p \notin TreeOf(f)[c], NEW l \in Loc, NEW i \in Field
  PROVE  LET g == PastedForm(f, p, c, l, i) IN
         g \in FormSet /\ g.freed = f.freed /\ g.fault = f.fault
<1> DEFINE f1 == insert(f, p, c)
           ref == [f1.ref EXCEPT ![c] = 1]
           loc == [f1.loc EXCEPT ![c] = l]
           img == [f1.img EXCEPT ![c] = i]
           made == [f1 EXCEPT !.ref[c] = 1, !.loc[c] = l, !.img[c] = i]
<1>1. f1 \in FormSet /\ f1.freed = f.freed /\ f1.fault = f.fault
  BY Inserted
<1> HIDE DEF f1
<1>2. ref \in [Control -> Int] /\ loc \in [Control -> Loc] /\ img \in [Control -> Field]
  BY <1>1 DEF FormSet
<1>3. made = [f1 EXCEPT !.ref = ref, !.loc = loc, !.img = img]
  OBVIOUS
<1> HIDE DEF ref, loc, img, made
<1>4. made \in FormSet /\ made.freed = f.freed /\ made.fault = f.fault
  BY <1>1, <1>2, <1>3 DEF FormSet
<1>5. LET g == incUseOfRefReses(made, c) IN
      g \in FormSet /\ g.freed = made.freed /\ g.fault = made.fault
  BY <1>4, UseIncreased
<1>6. PastedForm(f, p, c, l, i) = incUseOfRefReses(made, c)
  BY DEF PastedForm, made, f1
<1> QED  BY <1>4, <1>5, <1>6

(* What the end of a paste without a command leaves. *)
LEMMA PasteEnds ==
  ASSUME FormInv, Working, UNCHANGED history, NEW c \in Control \ born,
         born' = born \cup {c}, panel' = panel,
         images' = images, curContainer' = curContainer, clip' = clip,
         form' \in FormSet, form'.freed = form.freed,
         ~form'.fault => /\ Sound(form', HoldCount(Elements(past \o future)), born')
                         /\ Legal(past, future, TreeOf(form'), born')
                         /\ Covered(form)'
                         /\ \A d \in Control \ born' : form'.img[d] = Default
  PROVE  FormInv'
<1>1. Types /\ Good
  BY AtWork
<1>2. past' = past /\ future' = future /\ pushes' = pushes
  BY DEF history
<1>3. Types'
  BY <1>1, <1>2 DEF Types
<1>4. ASSUME ~form'.fault PROVE Good'
  BY <1>1, <1>2, <1>4 DEF Good
<1>5. panel' = "open"
  BY DEF Working
<1>6. ASSUME Open' PROVE Good'
  BY <1>4, <1>6 DEF Open
<1> QED  BY <1>3, <1>5, <1>6 DEF FormInv

LEMMA PasteKeeps ==
  ASSUME FormInv, NEW c \in Control, NEW l \in Loc, paste(c, l)
  PROVE  FormInv' /\ (pushes' > pushes => Pushed)
<1> DEFINE t == TreeOf(form)
           p == curContainer
           u == [t EXCEPT ![c] = {p}]
           E == Elements(past \o future)
           h == HoldCount(E)
           pasted == PastedForm(form, p, c, l, clip.img)
           f1 == addRef(pasted, c)
           cmd == Command("ADD", c, p, Default)
<1>1. /\ Working /\ pushes < MaxPush /\ clip # Empty /\ c \in Control \ born
      /\ born' = born \cup {c} /\ images' = images /\ curContainer' = p
      /\ clip' = clip /\ panel' = panel
  BY DEF paste, CanPush
<1>2. \/ /\ p \in AttachedOwner(form)
         /\ form' = DestroyAll(f1, Forgotten)
         /\ pushUndoRedoCommand(cmd)
      \/ /\ p \notin AttachedOwner(form)
         /\ form' = [pasted EXCEPT !.fault = p \in form.freed]
         /\ UNCHANGED history
  BY DEF paste, PastedForm
<1>3. /\ Types /\ Good /\ t \in Tree /\ Single(t) /\ Shape(t, born)
      /\ h \in [Control -> Nat] /\ Sound(form, h, born) /\ form \in FormSet
      /\ images \subseteq Image /\ p \in Owner /\ p \in born \cup {Base}
      /\ clip.img \in Field
  BY <1>1, AtWork DEF Good, Types
<1>4. ASSUME p \in Live(t, h)
      PROVE  PastedAt(form, pasted, c, p, l, clip.img, h, born)
  <2> HIDE DEF h, pasted
  <2>1. pasted = PastedForm(form, p, c, l, clip.img)
    BY DEF pasted
  <2> QED  BY <1>1, <1>3, <1>4, <2>1, Pasted
<1> HIDE DEF pasted, p
<1>5. CASE /\ p \in AttachedOwner(form)
           /\ form' = DestroyAll(f1, Forgotten)
           /\ pushUndoRedoCommand(cmd)
  <2>1. p \in Top(t) /\ p \in Live(t, h)
    BY <1>1, <1>5, AtWork, TopUnder DEF Live, Roots
  <2>2. /\ Sound(pasted, h, born \cup {c}) /\ TreeOf(pasted) = u
        /\ pasted.img = [form.img EXCEPT ![c] = clip.img]
        /\ pasted.loc = [form.loc EXCEPT ![c] = l]
        /\ Covered(form) => Covered(pasted)
    BY <1>4, <2>1 DEF PastedAt
  <2>3. /\ cmd \in CmdSet /\ cmd.id = pushes + 1 /\ cmd.kind = "ADD" /\ cmd.on = c
        /\ cmd.at = p
    <3>1. Default \in Field \cup Loc
      BY DEF Field
    <3> QED  BY <1>1, <1>3, <3>1, CommandIn
  <2> HIDE DEF cmd
  <2>4. Edge(cmd, t, u) /\ c \in Top(u)
    <3> HIDE DEF t
    <3> QED  BY <1>1, <1>3, <2>1, <2>3, LeafEdge
  <2>5. /\ Sound(f1, [h EXCEPT ![c] = @ + 1], born \cup {c})
        /\ f1.kids = pasted.kids /\ TreeOf(f1) = u
        /\ f1.loc = pasted.loc /\ f1.img = pasted.img /\ f1.use = pasted.use
    <3>1. c \in Top(TreeOf(pasted))
      BY <2>2, <2>4
    <3> HIDE DEF h, u
    <3>2. LET g == addRef(pasted, c) IN
          /\ Sound(g, [h EXCEPT ![c] = @ + 1], born \cup {c})
          /\ g.kids = pasted.kids /\ TreeOf(g) = TreeOf(pasted)
          /\ g.loc = pasted.loc /\ g.img = pasted.img /\ g.use = pasted.use
      BY <2>2, <3>1, HeldOn
    <3> QED  BY <2>2, <3>2
  <2> HIDE DEF f1
  <2>6. HoldCount(E \cup {cmd}) = [h EXCEPT ![c] = @ + 1]
    BY <1>1, <2>3, NewCommand DEF Held
  <2>7. /\ Sound(form', HoldCount(Elements(past' \o future')), born')
        /\ form'.kids = f1.kids /\ TreeOf(form') = u
        /\ form'.loc = f1.loc /\ form'.img = f1.img /\ form'.use = f1.use
        /\ past' \in Seq(CmdSet) /\ future' \in Seq(CmdSet)
        /\ Numbered(past' \o future', pushes')
    <3>1. Sound(f1, HoldCount(E \cup {cmd}), born \cup {c})
      BY <2>5, <2>6
    <3>2. born \subseteq born \cup {c}
      OBVIOUS
    <3> HIDE DEF u
    <3> QED  BY <1>1, <1>5, <2>3, <2>5, <3>1, <3>2, Pushing
  <2>8. Covered(form)'
    <3>1. Covered(form')
      BY <1>3, <2>2, <2>5, <2>7, CoveredSame DEF Good
    <3> QED  BY <1>1, <3>1 DEF Covered
  <2>9. FormInv'
    <3>1. \A d \in Control \ born' : form'.img[d] = Default
      BY <1>1, <1>3, <2>2, <2>5, <2>7 DEF Good, FormSet
    <3>2. curContainer' \in Owner \cap (born' \cup {Base})
      BY <1>1, <1>3
    <3>3. born \subseteq born' /\ images' \subseteq images
      BY <1>1
    <3>4. Edge(cmd, TreeOf(form), TreeOf(form'))
      BY <2>4, <2>7
    <3> HIDE DEF t, u, E, h
    <3> QED  BY <1>1, <1>5, <2>3, <2>7, <2>8, <3>1, <3>2, <3>3, <3>4, PushEnds
  <2>10. Leads(cmd, form, form')
    <3>1. OnForm(form) \subseteq Control \ {c}
      <4>1. Top(t) \subseteq born \cup {Base}
        BY <1>3, TopBorn
      <4> QED  BY <1>1, <4>1, OnFormType DEF OnForm
    <3>2. \A d \in OnForm(form) : form.loc[d] = form'.loc[d] /\ form.img[d] = form'.img[d]
      BY <1>3, <2>2, <2>5, <2>7, <3>1 DEF FormSet
    <3> QED  BY <2>3, <2>4, <2>7, <3>2 DEF Leads, SameImage
  <2> QED  BY <1>1, <1>5, <2>3, <2>9, <2>10, LastPushed DEF Pushed
<1>6. CASE /\ p \notin AttachedOwner(form)
           /\ form' = [pasted EXCEPT !.fault = p \in form.freed]
           /\ UNCHANGED history
  <2>1. pasted \in FormSet /\ pasted.freed = form.freed /\ pasted.fault = form.fault
    <3>1. NoTwins(form) /\ p \notin TreeOf(form)[c]
      BY <1>1, <1>3 DEF Sound, Shape, Bare
    <3> QED  BY <1>3, <3>1, PastedType DEF pasted, p
  <2> DEFINE b == p \in form.freed
  <2>2. b \in BOOLEAN /\ form' = [pasted EXCEPT !.fault = b] /\ (b <=> p \in form.freed)
    BY <1>6
  <2> HIDE DEF b
  <2>3. form' \in FormSet /\ form'.freed = form.freed /\ form'.fault = b
    BY <2>1, <2>2 DEF FormSet
  <2>4. ASSUME ~form'.fault
        PROVE  /\ Sound(form', h, born')
               /\ Legal(past, future, TreeOf(form'), born')
               /\ Covered(form)'
               /\ \A d \in Control \ born' : form'.img[d] = Default
    <3>1. b = FALSE /\ p \notin form.freed
      BY <2>2, <2>3, <2>4
    <3>2. pasted.fault = FALSE
      BY <1>1, <1>3, <2>1 DEF Working, FormSet
    <3>3. form' = pasted
      BY <2>1, <2>2, <3>1, <3>2 DEF FormSet
    <3>4. p \in Live(t, h)
      <4>1. form.freed = born \ Live(t, h) /\ Base \in Live(t, h)
        <5>1. Counted(t, h, form.ref, form.freed, born)
          BY <1>3 DEF Sound
        <5> QED  BY <5>1, LiveBorn DEF Counted
      <4> QED  BY <1>3, <3>1, <4>1
    <3>5. /\ Sound(pasted, h, born \cup {c}) /\ TreeOf(pasted) = u
          /\ pasted.img = [form.img EXCEPT ![c] = clip.img]
          /\ Covered(form) => Covered(pasted)
      BY <1>4, <3>4 DEF PastedAt, p
    <3>6. Legal(past, future, u, born \cup {c})
      <4>1. Legal(past, future, t, born) /\ past \in Seq(CmdSet) /\ future \in Seq(CmdSet)
        BY <1>3 DEF Good, Types
      <4> HIDE DEF t
      <4> QED  BY <1>1, <1>3, <4>1, LegalLeaf
    <3>7. Covered(form)'
      <4>1. Covered(form')
        BY <1>3, <3>3, <3>5 DEF Good
      <4> QED  BY <1>1, <4>1 DEF Covered
    <3>8. \A d \in Control \ born' : form'.img[d] = Default
      BY <1>1, <1>3, <3>3, <3>5 DEF Good, FormSet
    <3> QED  BY <1>1, <3>3, <3>5, <3>6, <3>7, <3>8
  <2>5. FormInv'
    BY <1>1, <1>6, <2>3, <2>4, PasteEnds DEF p
  <2>6. ~(pushes' > pushes)
    <3>1. pushes' = pushes /\ pushes \in Nat
      BY <1>3, <1>6, FormAssumption DEF history, Types
    <3> QED  BY <3>1
  <2> QED  BY <2>5, <2>6
<1> QED  BY <1>2, <1>5, <1>6 DEF p

-----------------------------------------------------------------------------
(* Undo, redo and the end of the panel.                                    *)

LEMMA CommandHeld ==
  ASSUME FormInv, Working, NEW cmd \in Elements(past \o future), Held(cmd)
  PROVE  HoldCount(Elements(past \o future))[cmd.on] > 0
<1> DEFINE E == Elements(past \o future)
<1>1. past \o future \in Seq(CmdSet) /\ IsFiniteSet(E)
  BY AtWork
<1>2. cmd \in CmdSet
  BY <1>1, ElementsOf
<1>3. cmd.on \in Control
  BY <1>2 DEF CmdSet, CommandType
<1>4. cmd \in HeldBy(E, cmd.on)
  BY DEF HeldBy
<1> HIDE DEF E
<1> QED  BY <1>1, <1>3, <1>4, HoldType DEF E

LEMMA ExecuteEnds ==
  ASSUME FormInv, Working, NEW cmd \in CmdSet, cmd \in Elements(past \o future),
         NEW x, Edge(cmd, x, TreeOf(form)), NEW rev, rev = execute(form, cmd).cmd,
         form' = execute(form, cmd).form,
         NEW m, Replaced(past \o future, past' \o future', m, cmd, rev),
         past' \in Seq(CmdSet), future' \in Seq(CmdSet),
         Legal(past', future', x, born),
         curContainer' = (IF cmd.kind = "DELETE" THEN cmd.at ELSE curContainer),
         UNCHANGED <<born, images, clip, pushes, panel>>
  PROVE  FormInv' /\ Leads(rev, form, form')
<1> DEFINE t == TreeOf(form)
           E == Elements(past \o future)
           N == Elements(past' \o future')
           h == HoldCount(E)
           e == execute(form, cmd)
<1>1. /\ Types /\ Good /\ Shape(t, born) /\ h \in [Control -> Nat]
      /\ past \o future \in Seq(CmdSet) /\ Sound(form, h, born)
      /\ Numbered(past \o future, pushes) /\ images \subseteq Image
  BY AtWork DEF Good, Types
<1>2. Held(cmd) => h[cmd.on] > 0
  BY CommandHeld
<1>3. /\ Executes(e, form, cmd, x, h, born) /\ Leads(e.cmd, form, e.form)
  <2> HIDE DEF h
  <2> QED  BY <1>1, <1>2, Executed, LeadsBack
<1> HIDE DEF e
<1>4. /\ rev = e.cmd /\ form' = e.form
      /\ rev \in CmdSet /\ rev.id = cmd.id /\ (Held(rev) <=> Held(cmd))
      /\ rev.on = cmd.on /\ TreeOf(form') = x
      /\ Sound(form', h, born) /\ (Covered(form) => Covered(form'))
      /\ \A d \in Control \ born : form'.img[d] = form.img[d]
  BY <1>3 DEF Executes, Reversed, Kept, e
<1>5. past' \o future' \in Seq(CmdSet)
  BY ConcatProperties
<1>6. Numbered(past' \o future', pushes) /\ HoldCount(N) = h
  <2>1. /\ Numbered(past' \o future', pushes)
        /\ OneChanged(past \o future, past' \o future', cmd, rev)
    <3> DEFINE line == past \o future
               new == past' \o future'
    <3>1. /\ line \in Seq(CmdSet) /\ new \in Seq(CmdSet) /\ Numbered(line, pushes)
          /\ Replaced(line, new, m, cmd, rev) /\ rev.id = cmd.id
      BY <1>1, <1>4, <1>5
    <3> HIDE DEF line, new
    <3>2. Numbered(new, pushes) /\ OneChanged(line, new, cmd, rev)
      BY <3>1, ReplacedNumbered
    <3> QED  BY <3>2 DEF line, new
  <2>2. PICK R : /\ IsFiniteSet(R) /\ cmd \notin R /\ rev \notin R
                 /\ E = R \cup {cmd} /\ N = R \cup {rev}
    BY <2>1 DEF OneChanged
  <2>3. cmd.on \in Control
    BY DEF CmdSet, CommandType
  <2>4. HoldCount(R \cup {rev}) = HoldCount(R \cup {cmd})
    BY <1>4, <2>2, <2>3, HoldReversed
  <2> QED  BY <2>1, <2>2, <2>4
<1>7. curContainer' \in Owner \cap (born \cup {Base})
  <2>1. CASE cmd.kind = "DELETE"
    <3>1. cmd.at \in Owner \cap Top(t)
      BY <2>1 DEF Edge
    <3> QED  BY <1>1, <2>1, <3>1, TopBorn
  <2>2. CASE cmd.kind # "DELETE"
    BY <1>1, <2>2 DEF Good, Types
  <2> QED  BY <2>1, <2>2
<1>8. Types'
  <2>1. form' \in FormSet /\ form'.freed \subseteq born
    BY <1>4, SoundShape
  <2> QED  BY <1>1, <1>7, <2>1 DEF Types
<1>9. Good'
  <2>1. Covered(form)'
    <3>1. Covered(form')
      BY <1>1, <1>4 DEF Good
    <3> QED  BY <3>1 DEF Covered
  <2>2. \A d \in Control \ born : form'.img[d] = Default
    BY <1>1, <1>4 DEF Good
  <2> QED  BY <1>4, <1>6, <1>7, <2>1, <2>2 DEF Good
<1>10. panel' = "open"
  BY DEF Working
<1> QED  BY <1>3, <1>4, <1>8, <1>9, <1>10 DEF FormInv

(* The command undone last is the next to redo, and the other way round.   *)
Undone == Leads(Head(future'), form, form')
Redone == Leads(past'[Len(past')], form, form')

LEMMA UndoKeeps ==
  ASSUME FormInv, undo
  PROVE  /\ FormInv' /\ Undone
         /\ pushes' = pushes /\ Len(future') = Len(future) + 1
<1> DEFINE cmd == past[Len(past)]
           e == execute(form, cmd)
           t == TreeOf(form)
<1>1. /\ Working /\ past # <<>>
      /\ form' = e.form /\ future' = <<e.cmd>> \o future
      /\ curContainer' = (IF cmd.kind = "DELETE" THEN cmd.at ELSE curContainer)
      /\ past' = SubSeq(past, 1, Len(past) - 1)
      /\ UNCHANGED <<born, images, clip, pushes, panel>>
  BY DEF undo
<1>2. /\ past \in Seq(CmdSet) /\ future \in Seq(CmdSet)
      /\ Legal(past, future, t, born)
  BY <1>1, AtWork DEF Types, Good
<1>3. PICK x \in Tree :
        /\ Edge(cmd, x, t)
        /\ \A rev \in CmdSet : Reversed(rev, cmd, t)
             => Legal(SubSeq(past, 1, Len(past) - 1), <<rev>> \o future, x, born)
  BY <1>1, <1>2, LegalUndo
<1> HIDE DEF e, cmd
<1>4. cmd \in CmdSet /\ cmd \in Elements(past \o future)
  <2>1. Len(past) \in 1 .. Len(past)
    BY <1>1, <1>2, EmptySeq
  <2>2. cmd \in CmdSet
    BY <1>2, <2>1, ElementOfSeq DEF cmd
  <2>3. cmd \in Elements(past)
    BY <1>2, <2>1, ElementsOf DEF cmd
  <2> QED  BY <1>2, <2>2, <2>3, ElementsConcat
<1>5. Executes(e, form, cmd, x, HoldCount(Elements(past \o future)), born)
  <2>1. Held(cmd) => HoldCount(Elements(past \o future))[cmd.on] > 0
    BY <1>1, <1>4, CommandHeld
  <2>2. Sound(form, HoldCount(Elements(past \o future)), born) /\ images \subseteq Image
    BY <1>1, AtWork DEF Types, Good
  <2> QED  BY <1>3, <1>4, <2>1, <2>2, Executed DEF e
<1>6. e.cmd \in CmdSet /\ Reversed(e.cmd, cmd, t)
  BY <1>5 DEF Executes
<1>7. /\ past' \in Seq(CmdSet) /\ future' \in Seq(CmdSet)
      /\ Replaced(past \o future, past' \o future', Len(past), cmd, e.cmd)
  BY <1>1, <1>2, <1>6, LineUndo DEF cmd
<1>8. Legal(past', future', x, born)
  BY <1>1, <1>3, <1>6
<1>9. FormInv' /\ Leads(e.cmd, form, form')
  BY <1>1, <1>3, <1>4, <1>7, <1>8, ExecuteEnds DEF e
<1>10. Head(future') = e.cmd /\ Len(future') = Len(future) + 1
  <2>1. <<e.cmd>> \in Seq(CmdSet) /\ Len(<<e.cmd>>) = 1 /\ Len(future) \in Nat
    BY <1>2, <1>6, LenProperties
  <2>2. /\ Len(future') = 1 + Len(future)
        /\ future'[1] = e.cmd
    BY <1>1, <1>2, <2>1, ConcatProperties
  <2> QED  BY <1>7, <2>1, <2>2, EmptySeq
<1> QED  BY <1>1, <1>9, <1>10 DEF Undone

LEMMA RedoKeeps ==
  ASSUME FormInv, redo
  PROVE  /\ FormInv' /\ Redone
         /\ pushes' = pushes /\ Len(future') = Len(future) - 1
<1> DEFINE cmd == Head(future)
           e == execute(form, cmd)
           t == TreeOf(form)
<1>1. /\ Working /\ future # <<>>
      /\ form' = e.form /\ past' = Append(past, e.cmd)
      /\ curContainer' = (IF cmd.kind = "DELETE" THEN cmd.at ELSE curContainer)
      /\ future' = Tail(future)
      /\ UNCHANGED <<born, images, clip, pushes, panel>>
  BY DEF redo
<1>2. /\ past \in Seq(CmdSet) /\ future \in Seq(CmdSet)
      /\ Legal(past, future, t, born)
  BY <1>1, AtWork DEF Types, Good
<1>3. PICK x \in Tree :
        /\ Edge(cmd, x, t)
        /\ \A rev \in CmdSet : Reversed(rev, cmd, t)
             => Legal(Append(past, rev), Tail(future), x, born)
  BY <1>1, <1>2, LegalRedo
<1> HIDE DEF e, cmd
<1>4. cmd \in CmdSet /\ cmd \in Elements(past \o future)
  <2>1. 1 \in 1 .. Len(future) /\ cmd = future[1]
    BY <1>1, <1>2, EmptySeq DEF cmd
  <2>2. cmd \in CmdSet
    BY <1>2, <2>1, ElementOfSeq
  <2>3. cmd \in Elements(future)
    BY <1>2, <2>1, ElementsOf
  <2> QED  BY <1>2, <2>2, <2>3, ElementsConcat
<1>5. Executes(e, form, cmd, x, HoldCount(Elements(past \o future)), born)
  <2>1. Held(cmd) => HoldCount(Elements(past \o future))[cmd.on] > 0
    BY <1>1, <1>4, CommandHeld
  <2>2. Sound(form, HoldCount(Elements(past \o future)), born) /\ images \subseteq Image
    BY <1>1, AtWork DEF Types, Good
  <2> QED  BY <1>3, <1>4, <2>1, <2>2, Executed DEF e
<1>6. e.cmd \in CmdSet /\ Reversed(e.cmd, cmd, t)
  BY <1>5 DEF Executes
<1>7. /\ past' \in Seq(CmdSet) /\ future' \in Seq(CmdSet)
      /\ Replaced(past \o future, past' \o future', Len(past) + 1, cmd, e.cmd)
  BY <1>1, <1>2, <1>6, LineRedo DEF cmd
<1>8. Legal(past', future', x, born)
  BY <1>1, <1>3, <1>6
<1>9. FormInv' /\ Leads(e.cmd, form, form')
  BY <1>1, <1>3, <1>4, <1>7, <1>8, ExecuteEnds DEF e
<1>10. past'[Len(past')] = e.cmd /\ Len(future') = Len(future) - 1
  BY <1>1, <1>2, <1>6, AppendProperties, LenProperties, HeadTailProperties
<1> QED  BY <1>1, <1>9, <1>10 DEF Redone

LEMMA CloseKeeps ==
  ASSUME FormInv, close
  PROVE  FormInv' /\ pushes' = pushes /\ future' = future
<1> DEFINE t == TreeOf(form)
           line == past \o future
           E == Elements(line)
           h == HoldCount(E)
           S == Elements(form.kids[Base])
           m == [form.kids EXCEPT ![Base] = <<>>]
           f0 == [form EXCEPT !.kids[Base] = <<>>]
           gone == release(f0, S)
<1>1. /\ Working /\ form' = DestroyAll(gone, line) /\ panel' = "closed"
      /\ born' = born /\ images' = images /\ curContainer' = curContainer
      /\ clip' = clip /\ past' = past /\ future' = future /\ pushes' = pushes
  BY DEF close, history
<1>2. /\ Types /\ Good /\ t \in Tree /\ Single(t) /\ Shape(t, born)
      /\ h \in [Control -> Nat] /\ Sound(form, h, born) /\ form \in FormSet
      /\ NoTwins(form) /\ Counted(t, h, form.ref, form.freed, born)
      /\ line \in Seq(CmdSet) /\ IsFiniteSet(E)
  BY <1>1, AtWork DEF Good, Types, Sound
<1>3. S \subseteq Control /\ S = {c \in Control : Base \in t[c]}
  <2>1. form.kids[Base] \in Seq(Control) /\ Base \in Owner
    BY <1>2 DEF FormSet, Owner
  <2>2. S \subseteq Control
    BY <2>1, ElementsOf
  <2> QED  BY <2>1, <2>2 DEF TreeOf
<1>4. S \subseteq born /\ \A c \in S : ~(t[c] \subseteq form.freed)
  <2>1. Base \notin form.freed
    BY <1>2, FormAssumption DEF Types
  <2> QED  BY <1>2, <1>3, <2>1 DEF Shape, Bare
<1> HIDE DEF S
<1>5. /\ f0 \in FormSet /\ f0.kids = m /\ f0.loc = form.loc /\ f0.img = form.img
      /\ f0.ref = form.ref /\ f0.use = form.use /\ f0.freed = form.freed
      /\ f0.fault = form.fault
  <2>1. m \in [Owner -> Seq(Control)]
    BY <1>2, EmptySeq DEF FormSet
  <2>2. f0 = [form EXCEPT !.kids = m]
    OBVIOUS
  <2> HIDE DEF m, f0
  <2> QED  BY <1>2, <2>1, <2>2 DEF FormSet
<1> HIDE DEF f0
<1>6. NoTwins(f0)
  <2>1. \A o \in Owner : m[o] = IF o = Base THEN <<>> ELSE form.kids[o]
    BY <1>2 DEF FormSet
  <2>2. DOMAIN <<>> = {}
    OBVIOUS
  <2> HIDE DEF m
  <2> QED  BY <1>2, <1>5, <2>1, <2>2 DEF NoTwins
<1>7. TreeOf(f0) = Off(t, S)
  <2>1. Elements(<<>>) = {}
    BY DEF Elements
  <2>2. \A o \in Owner : Elements(f0.kids[o]) = IF o = Base THEN {} ELSE Elements(form.kids[o])
    BY <1>2, <1>5, <2>1 DEF FormSet
  <2>3. ASSUME NEW c \in Control
        PROVE  TreeOf(f0)[c] = Off(t, S)[c]
    <3>1. TreeOf(f0)[c] = {o \in Owner \ {Base} : c \in Elements(form.kids[o])}
      BY <2>2 DEF TreeOf
    <3>2. TreeOf(f0)[c] = t[c] \ {Base}
      BY <3>1 DEF TreeOf
    <3>3. CASE c \in S
      <4>1. t[c] \ {Base} = {}
        BY <1>2, <1>3, <3>3 DEF Single
      <4> QED  BY <3>2, <3>3, <4>1 DEF Off
    <3>4. CASE c \notin S
      BY <1>3, <3>2, <3>4 DEF Off
    <3> QED  BY <3>3, <3>4
  <2> QED  BY <2>3 DEF TreeOf, Off
<1>8. Sound(f0, More(h, S), born)
  <2>1. Counted(Off(t, S), More(h, S), form.ref, form.freed, born)
    <3> HIDE DEF t, h
    <3> QED  BY <1>2, <1>4, CountTakeOff
  <2> QED  BY <1>5, <1>6, <1>7, <2>1 DEF Sound
<1>9. Less(More(h, S), S) = h
  <2> HIDE DEF h
  <2>1. \A c \in Control : Less(More(h, S), S)[c] = h[c]
    BY <1>2 DEF Less, More
  <2> QED  BY <1>2, <2>1 DEF Less
<1>10. Sound(gone, h, born) /\ TreeOf(gone) = TreeOf(f0)
  <2>1. \A c \in S : More(h, S)[c] > 0
    <3> HIDE DEF h
    <3> QED  BY <1>2, <1>3 DEF More
  <2>2. \A c \in S : TreeOf(f0)[c] \subseteq f0.freed
    BY <1>3, <1>7 DEF Off
  <2> HIDE DEF h
  <2>3. LET g == release(f0, S) IN
        Sound(g, Less(More(h, S), S), born) /\ TreeOf(g) = TreeOf(f0)
    BY <1>4, <1>8, <2>1, <2>2, Released
  <2> QED  BY <1>9, <2>3
<1> HIDE DEF gone
<1>11. Sound(form', HoldCount({}), born) /\ TreeOf(form') = TreeOf(gone)
  <2>1. line \in Seq(CommandType)
    <3>1. CmdSet \subseteq CommandType
      BY DEF CmdSet
    <3> QED  BY <1>2, <3>1, SeqMonotonic
  <2>2. Distinct(line)
    <3>1. Numbered(line, pushes)
      BY <1>2 DEF Good
    <3> QED  BY <3>1 DEF Numbered, Distinct
  <2>3. \A cmd \in Elements(line) : Held(cmd) => cmd.on \in born
    <3>1. \A cmd \in E : Held(cmd) => cmd.on \in Roots(h)
      <4> SUFFICES ASSUME NEW cmd \in E, Held(cmd) PROVE cmd.on \in Roots(h)
        OBVIOUS
      <4>1. h[cmd.on] > 0
        BY <1>1, CommandHeld
      <4>2. cmd.on \in Control
        <5>1. cmd \in CmdSet
          BY <1>2, ElementsOf
        <5> QED  BY <5>1 DEF CmdSet, CommandType
      <4> QED  BY <4>1, <4>2 DEF Roots
    <3>2. past \in Seq(CmdSet) /\ future \in Seq(CmdSet) /\ Legal(past, future, t, born)
          /\ Base \in Roots(h)
      BY <1>2 DEF Good, Types, Roots
    <3> HIDE DEF h, t
    <3> QED  BY <3>1, <3>2, LegalLive
  <2>4. Sound(gone, HoldCount({} \cup Elements(line)), born)
    <3>1. {} \cup Elements(line) = E
      OBVIOUS
    <3> QED  BY <1>10, <3>1
  <2>5. IsFiniteSet({}) /\ Elements(line) \cap {} = {}
    BY FS_EmptySet
  <2> HIDE DEF line
  <2>6. LET g == DestroyAll(gone, line) IN
        Sound(g, HoldCount({}), born) /\ TreeOf(g) = TreeOf(gone)
    BY ONLY <2>1, <2>2, <2>3, <2>4, <2>5, AllDestroyed
  <2> QED  BY <1>1, <2>6
<1>12. form'.freed = born
  <2> DEFINE u == TreeOf(form')
             z == HoldCount({})
  <2>1. form'.freed = born \ Live(u, z) /\ born \subseteq Control
    BY <1>11 DEF Sound, Counted, Shape
  <2>2. Roots(z) = {Base}
    <3>1. \A c \in Control : HeldBy({}, c) = {}
      BY DEF HeldBy
    <3>2. \A c \in Control : ~(z[c] > 0)
      BY <3>1, FS_EmptySet, HoldType
    <3> QED  BY <3>2 DEF Roots
  <2>3. Kids(u, {Base}) = {}
    <3>1. u = Off(t, S)
      BY <1>7, <1>10, <1>11
    <3>2. \A c \in Control : Base \notin Off(t, S)[c]
      BY <1>3 DEF Off
    <3> QED  BY <3>1, <3>2 DEF Kids
  <2> HIDE DEF u, z
  <2>4. Live(u, z) \subseteq {Base}
    BY <2>2, <2>3, UnderLeast DEF Live
  <2> QED  BY <2>1, <2>4, FormAssumption
<1>13. Types'
  <2>1. form' \in FormSet
    BY <1>11 DEF Sound
  <2> QED  BY <1>1, <1>2, <1>12, <2>1 DEF Types
<1> QED  BY <1>1, <1>12, <1>13 DEF FormInv, Open

-----------------------------------------------------------------------------
(* The form as it was loaded.                                              *)

LEMMA NoneHeld == HoldCount({}) = [c \in Control |-> 0]
<1>1. \A c \in Control : HeldBy({}, c) = {}
  BY DEF HeldBy
<1> QED  BY <1>1, FS_EmptySet DEF HoldCount

LEMMA FlatTree ==
  ASSUME NEW L \in SUBSET Control, NEW t,
         t = [c \in Control |-> IF c \in L THEN {Base} ELSE {}]
  PROVE  Shape(t, L) /\ Top(t) = L \cup {Base}
<1>1. t \in Tree /\ Single(t) /\ Base \notin Control
  BY FormAssumption DEF Tree, Single, Owner
<1>2. ASSUME NEW c \in Control PROVE Under(t, {c}) = {c}
  <2>1. Kids(t, {c}) \subseteq {c}
    BY <1>1 DEF Kids
  <2>2. Under(t, {c}) \subseteq {c}
    BY <2>1, UnderLeast
  <2> QED  BY <2>2, UnderClosed
<1>3. Acyclic(t)
  BY <1>1, <1>2 DEF Acyclic
<1>4. Shape(t, L)
  BY <1>1, <1>3 DEF Shape, Bare
<1>5. L \subseteq Top(t) /\ Base \in Top(t)
  <2>1. Base \in Under(t, {Base}) /\ Kids(t, Under(t, {Base})) \subseteq Under(t, {Base})
    BY UnderClosed
  <2>2. \A c \in L : c \in Kids(t, Under(t, {Base}))
    BY <2>1 DEF Kids
  <2> QED  BY <2>1, <2>2 DEF Top
<1> QED  BY <1>4, <1>5, TopBorn

LEMMA InitHolds == Init => FormInv
<1> SUFFICES ASSUME Init PROVE FormInv
  OBVIOUS
<1> DEFINE L == Elements(LoadedForm)
           t == [c \in Control |-> IF c \in L THEN {Base} ELSE {}]
           kids == [o \in Owner |-> IF o = Base THEN LoadedForm ELSE <<>>]
           loc == [c \in Control |-> CHOOSE l \in Loc : TRUE]
           ref == [c \in Control |-> IF c \in L THEN 1 ELSE 0]
<1>1. /\ born = L /\ images = Image /\ curContainer = Base /\ clip = Empty
      /\ past = <<>> /\ future = <<>> /\ pushes = 0 /\ panel = "open"
  BY DEF Init
<1>2. PICK shown \in [L -> Image \cup {Default}] :
        form = [kids |-> kids, loc |-> loc,
                img |-> [c \in Control |-> IF c \in L THEN shown[c] ELSE Default],
                ref |-> ref,
                use |-> [i \in Image |-> Cardinality({c \in L : shown[c] = i})],
                freed |-> {}, fault |-> FALSE]
  BY DEF Init
<1> DEFINE img == [c \in Control |-> IF c \in L THEN shown[c] ELSE Default]
           used == [i \in Image |-> Cardinality({c \in L : shown[c] = i})]
<1>3. LoadedForm \in Seq(Control) /\ L \subseteq Control /\ IsFiniteSet(L)
  <2>1. LoadedForm \in Seq(Control)
    BY FormAssumption
  <2> QED  BY <2>1, ElementsOf
<1>4. /\ kids \in [Owner -> Seq(Control)] /\ loc \in [Control -> Loc]
      /\ img \in [Control -> Field] /\ ref \in [Control -> Int]
      /\ used \in [Image -> Nat]
  <2>1. kids \in [Owner -> Seq(Control)]
    BY <1>3, EmptySeq
  <2>2. loc \in [Control -> Loc]
    BY FormAssumption
  <2>3. img \in [Control -> Field]
    BY DEF Field
  <2>4. used \in [Image -> Nat]
    <3>1. ASSUME NEW i \in Image PROVE Cardinality({c \in L : shown[c] = i}) \in Nat
      <4>1. IsFiniteSet({c \in L : shown[c] = i})
        BY <1>3, FS_Subset
      <4> QED  BY <4>1, FS_CardinalityType
    <3> QED  BY <3>1
  <2> QED  BY <2>1, <2>2, <2>3, <2>4
<1>5. /\ form \in FormSet /\ form.kids = kids /\ form.img = img /\ form.ref = ref
      /\ form.use = used /\ form.freed = {} /\ form.fault = FALSE
  <2> HIDE DEF kids, loc, img, ref, used
  <2>1. form = [kids |-> kids, loc |-> loc, img |-> img, ref |-> ref, use |-> used,
                freed |-> {}, fault |-> FALSE]
    BY <1>2 DEF img, used
  <2> QED  BY <1>4, <2>1 DEF FormSet
<1>6. TreeOf(form) = t
  <2>1. Elements(<<>>) = {}
    BY DEF Elements
  <2>2. \A o \in Owner : Elements(form.kids[o]) = IF o = Base THEN L ELSE {}
    BY <1>5, <2>1
  <2>3. Base \in Owner
    BY DEF Owner
  <2> HIDE DEF L
  <2>4. \A c \in Control : {o \in Owner : c \in Elements(form.kids[o])}
                             = IF c \in L THEN {Base} ELSE {}
    BY <2>2, <2>3
  <2> QED  BY <2>4 DEF TreeOf
<1>7. NoTwins(form)
  <2>1. DOMAIN <<>> = {}
    OBVIOUS
  <2> QED  BY <1>5, <2>1, FormAssumption DEF NoTwins
<1>8. Shape(t, L) /\ Top(t) = L \cup {Base} /\ Base \notin L
  <2> HIDE DEF L
  <2> QED  BY <1>3, FlatTree, FormAssumption
<1> DEFINE h == [c \in Control |-> 0]
<1>9. Counted(t, h, form.ref, form.freed, L)
  <2>1. Roots(h) = {Base}
    BY DEF Roots
  <2>2. Live(t, h) = L \cup {Base}
    BY <1>8, <2>1 DEF Live, Top
  <2>3. \A c \in L : ~(t[c] \subseteq {}) /\ ref[c] = 1
    BY <1>3
  <2>4. h \in [Control -> Nat] /\ \A c \in Control : h[c] = 0
    OBVIOUS
  <2>5. \A c \in L : h[c] = 0
    BY <1>3, <2>4
  <2>6. form.freed = L \ Live(t, h) /\ form.ref = ref
    BY <1>5, <2>2
  <2> HIDE DEF t, L, h, ref
  <2>7. \A c \in L : ref[c] = (IF t[c] \subseteq form.freed THEN 0 ELSE 1) + h[c]
    BY <1>5, <2>3, <2>5
  <2> QED  BY <1>4, <1>8, <2>4, <2>6, <2>7 DEF Counted
<1>10. HoldCount(Elements(past \o future)) = h
  <2>1. past \o future = <<>> /\ Elements(<<>>) = {}
    BY <1>1, EmptySeq, ConcatProperties DEF Elements
  <2> QED  BY <2>1, NoneHeld
<1>11. Sound(form, HoldCount(Elements(past \o future)), born)
  <2> HIDE DEF h, t
  <2> QED  BY <1>1, <1>5, <1>6, <1>7, <1>9, <1>10 DEF Sound
<1>12. Covered(form)
  <2>1. OnForm(form) = L
    BY <1>6, <1>8 DEF OnForm
  <2>2. \A c \in L : form.img[c] = shown[c]
    BY <1>3, <1>5
  <2>3. \A i \in Image : Showing(form, L, i) = used[i]
    <3> HIDE DEF L
    <3>1. \A i : {c \in L : form.img[c] = i} = {c \in L : shown[c] = i}
      BY <2>2
    <3> QED  BY <3>1 DEF Showing
  <2> HIDE DEF used, L
  <2> QED  BY <1>1, <1>4, <1>5, <2>1, <2>3 DEF Covered
<1>13. Legal(past, future, t, born)
  <2> DEFINE W == [k \in {0} |-> t]
  <2>1. Len(past) = 0 /\ Len(future) = 0
    BY <1>1
  <2>2. t \in Tree /\ Single(t) /\ \A c \in Control \ born : Bare(t, c)
    BY <1>1, <1>8 DEF Shape
  <2> HIDE DEF t
  <2>3. Between(past, future, W, born) /\ W[Len(past)] = t
    BY <2>1, <2>2 DEF Between
  <2> HIDE DEF W
  <2> QED  BY <2>3 DEF Legal
<1>14. Numbered(past \o future, pushes)
  <2>1. past \o future = <<>> /\ DOMAIN <<>> = {}
    BY <1>1, EmptySeq, ConcatProperties
  <2> QED  BY <2>1 DEF Numbered
<1>15. \A c \in Control \ born : form.img[c] = Default
  BY <1>1, <1>5
<1>16. Types
  <2>1. <<>> \in Seq(CmdSet)
    BY EmptySeq
  <2> HIDE DEF L
  <2> QED  BY <1>1, <1>3, <1>5, <2>1, FormAssumption DEF Types, Owner
<1>17. Good
  BY <1>1, <1>6, <1>11, <1>12, <1>13, <1>14, <1>15 DEF Good
<1> QED  BY <1>1, <1>16, <1>17 DEF FormInv

-----------------------------------------------------------------------------
(* Every step keeps the invariant.                                         *)

LEMMA StepHolds == FormInv /\ [Next]_vars => FormInv'
<1> SUFFICES ASSUME FormInv, [Next]_vars PROVE FormInv'
  OBVIOUS
<1>1. CASE Next
  <2>1. ASSUME NEW p \in Owner, click(p) PROVE FormInv'
    BY <2>1, ClickKeeps
  <2>2. ASSUME NEW c \in Control, NEW p \in Owner, NEW l \in Loc, create(c, p, l)
        PROVE  FormInv'
    BY <2>2, CreateKeeps
  <2>3. ASSUME NEW c \in Control, NEW p \in Owner, NEW l \in Loc, move(c, p, l)
        PROVE  FormInv'
    BY <2>3, MoveKeeps
  <2>4. ASSUME NEW c \in Control, deleteSelectedInstance(c) PROVE FormInv'
    BY <2>4, DeleteKeeps
  <2>5. ASSUME NEW c \in Control, copy(c) PROVE FormInv'
    BY <2>5, CopyKeeps
  <2>6. ASSUME NEW c \in Control, setDefValue(c) PROVE FormInv'
    BY <2>6, SetDefValueKeeps
  <2>7. ASSUME NEW c \in Control, NEW l \in Loc, moveSelections(c, l) PROVE FormInv'
    BY <2>7, MoveSelectionsKeeps
  <2>8. ASSUME NEW c \in Control, NEW l \in Loc, paste(c, l) PROVE FormInv'
    BY <2>8, PasteKeeps
  <2>9. ASSUME NEW c \in Control, NEW i \in Image \cup {NoImage}, setImage(c, i)
        PROVE  FormInv'
    BY <2>9, SetImageKeeps
  <2>10. ASSUME NEW c \in Control, NEW i \in Image, refuseImage(c, i) PROVE FormInv'
    BY <2>10, RefuseImageKeeps
  <2>11. ASSUME NEW i \in Image, removeImage(i) PROVE FormInv'
    BY <2>11, RemoveImageKeeps
  <2>12. undo => FormInv'
    BY UndoKeeps
  <2>13. redo => FormInv'
    BY RedoKeeps
  <2>14. close => FormInv'
    BY CloseKeeps
  <2> QED
    BY <1>1, <2>1, <2>2, <2>3, <2>4, <2>5, <2>6, <2>7, <2>8, <2>9, <2>10, <2>11,
       <2>12, <2>13, <2>14 DEF Next
<1>2. CASE UNCHANGED vars
  BY <1>2 DEF vars, history, FormInv, Types, Open, Good, Covered, Showing
<1> QED  BY <1>1, <1>2

LEMMA InvHolds == Spec => []FormInv
BY InitHolds, StepHolds, PTL DEF Spec

-----------------------------------------------------------------------------
(* Theorems.                                                               *)

(* Every field of the form and of the session has its type, for any form,  *)
(* images and length of the history: a command keeps the kind of value its *)
(* kind asks for through every undo and redo.                              *)
THEOREM TypeCorrect == Spec => []TypeOK
<1>1. FormInv => TypeOK
  <2> SUFFICES ASSUME FormInv PROVE TypeOK
    OBVIOUS
  <2>1. CmdSet \subseteq CommandType
    BY DEF CmdSet
  <2>2. Types
    BY DEF FormInv
  <2>3. past \in Seq(CommandType) /\ future \in Seq(CommandType)
    BY <2>1, <2>2, SeqMonotonic DEF Types
  <2> QED  BY <2>2, <2>3 DEF Types, TypeOK, FormSet
<1> QED  BY <1>1, InvHolds, PTL

(* The owners of an instance, in terms of the tree and of the commands.    *)
LEMMA OwnersOf ==
  ASSUME FormInv, Working, NEW c \in born
  PROVE  /\ Parents(c) = TreeOf(form)[c] \ form.freed
         /\ Cardinality(Parents(c)) = (IF TreeOf(form)[c] \subseteq form.freed THEN 0 ELSE 1)
         /\ Cardinality(Parents(c)) <= 1
         /\ Cardinality(Holders(c)) = HoldCount(Elements(past \o future))[c]
<1> DEFINE t == TreeOf(form)
           F == form.freed
<1>1. Types /\ t \in Tree /\ Single(t) /\ c \in Control
  BY AtWork DEF Types
<1>2. Parents(c) = t[c] \ F
  BY <1>1 DEF Parents, TreeOf
<1> DEFINE counted == /\ Cardinality(Parents(c)) = (IF t[c] \subseteq F THEN 0 ELSE 1)
                      /\ Cardinality(Parents(c)) <= 1
<1>3. ASSUME t[c] \subseteq F PROVE counted
  <2>1. Parents(c) = {}
    BY <1>2, <1>3
  <2>2. Cardinality(Parents(c)) = 0
    BY <2>1, FS_EmptySet
  <2> QED  BY <1>3, <2>2
<1>4. ASSUME ~(t[c] \subseteq F) PROVE counted
  <2>1. PICK o \in t[c] : o \notin F
    BY <1>4
  <2>2. t[c] = {o}
    BY <1>1, <2>1 DEF Single
  <2>3. Parents(c) = {o}
    BY <1>2, <2>1, <2>2
  <2>4. Cardinality(Parents(c)) = 1
    BY <2>3, FS_Singleton
  <2> QED  BY <1>4, <2>4
<1>5. counted
  BY <1>3, <1>4
<1>6. Holders(c) = HeldBy(Elements(past \o future), c)
  BY DEF Holders, HeldBy, Held
<1>7. HoldCount(Elements(past \o future))[c] = Cardinality(Holders(c))
  BY <1>1, <1>6 DEF HoldCount
<1> QED  BY <1>2, <1>5, <1>7

(* The reference count of an instance is the number of its owners, at most *)
(* one container and the add and delete commands that name it, and it is   *)
(* deleted exactly when it has none; closing the form destroys all.        *)
THEOREM RefsCorrect == Spec => []RefsExact
<1>1. FormInv => RefsExact
  <2> SUFFICES ASSUME FormInv PROVE RefsExact
    OBVIOUS
  <2>1. ASSUME Open, NEW c \in born
        PROVE  /\ Cardinality(Parents(c)) <= 1
               /\ form.ref[c] = Cardinality(Parents(c)) + Cardinality(Holders(c))
               /\ c \in form.freed <=> form.ref[c] = 0
    <3> DEFINE t == TreeOf(form)
               h == HoldCount(Elements(past \o future))
               F == form.freed
               one == IF t[c] \subseteq F THEN 0 ELSE 1
    <3>1. Working
      BY <2>1 DEF Open, Working
    <3>2. Counted(t, h, form.ref, F, born) /\ c \in Control
      BY <3>1, AtWork DEF Good, Sound, Types
    <3>3. /\ Cardinality(Parents(c)) = one /\ Cardinality(Parents(c)) <= 1
          /\ Cardinality(Holders(c)) = h[c]
      BY <3>1, OwnersOf
    <3>4. form.ref[c] = one + h[c] /\ h[c] \in Nat
      BY <3>2 DEF Counted
    <3>5. /\ F = born \ Live(t, h) /\ Base \in Live(t, h)
          /\ Kids(t, Live(t, h)) \subseteq Live(t, h)
          /\ \A o \in t[c] : o \in born \cup {Base}
      BY <3>2, LiveBorn DEF Counted
    <3> HIDE DEF t, h, F
    <3>6. ASSUME c \in Live(t, h) PROVE c \notin F /\ form.ref[c] # 0
      <4>1. h[c] > 0 \/ ~(t[c] \subseteq F)
        <5>1. CASE c \in Roots(h)
          <6>1. c # Base
            BY <3>2, FormAssumption
          <6> QED  BY <5>1, <6>1 DEF Roots
        <5>2. CASE c \notin Roots(h)
          <6>1. c \in Under(t, Roots(h)) \ Roots(h)
            BY <3>6, <5>2 DEF Live
          <6>2. \E o \in t[c] : o \in Live(t, h)
            BY <6>1, UnderParent DEF Live
          <6> QED  BY <3>5, <6>2
        <5> QED  BY <5>1, <5>2
      <4>2. c \notin F
        BY <3>5, <3>6
      <4> QED  BY <3>4, <4>1, <4>2
    <3>7. ASSUME c \notin Live(t, h) PROVE c \in F /\ form.ref[c] = 0
      <4>1. c \notin Roots(h)
        BY <3>7, UnderClosed DEF Live
      <4>2. h[c] = 0
        BY <3>2, <3>4, <4>1 DEF Roots
      <4>3. \A o \in t[c] : o \notin Live(t, h)
        BY <3>2, <3>5, <3>7 DEF Kids
      <4>4. \A o \in t[c] : o \in F
        BY <3>5, <4>3
      <4>5. c \in F
        BY <2>1, <3>5, <3>7
      <4> QED  BY <3>4, <4>2, <4>4, <4>5
    <3>8. c \in F <=> form.ref[c] = 0
      BY <3>6, <3>7
    <3> QED  BY <3>3, <3>4, <3>8 DEF F
  <2>2. panel = "closed" /\ ~form.fault => form.freed = born
    BY DEF FormInv
  <2> QED  BY <2>1, <2>2 DEF RefsExact
<1> QED  BY <1>1, InvHolds, PTL

LEMMA EdgeReady ==
  ASSUME FormInv, Working, NEW cmd, NEW x, Edge(cmd, x, TreeOf(form))
  PROVE  Ready(cmd)
<1> DEFINE t == TreeOf(form)
           c == cmd.on
<1>1. /\ t \in Tree /\ Attached(form) = Top(t) \ {Base}
      /\ AttachedOwner(form) = Owner \cap Top(t)
      /\ \A d \in Control : Below(form, {d}) = Under(t, {d})
  BY AtWork DEF OnForm
<1>2. c \in Control /\ c # Base
  BY FormAssumption DEF Edge
<1>3. CASE cmd.kind = "ADD"
  <2>1. t[c] = {cmd.at} /\ cmd.at \in Owner \cap Top(t)
    BY <1>3 DEF Edge
  <2>2. c \in Elements(form.kids[cmd.at])
    BY <1>2, <2>1 DEF TreeOf
  <2> QED  BY <1>1, <1>3, <2>1, <2>2 DEF Ready
<1>4. CASE cmd.kind = "DELETE"
  <2>1. t[c] = {} /\ cmd.at \in Owner \cap Top(t)
    BY <1>4 DEF Edge
  <2>2. Parents(c) = {}
    BY <1>2, <2>1 DEF Parents, TreeOf
  <2> QED  BY <1>1, <1>4, <2>1, <2>2 DEF Ready
<1>5. CASE cmd.kind = "SET"
  <2>1. c \in Top(t)
    BY <1>5 DEF Edge
  <2> QED  BY <1>1, <1>2, <1>5, <2>1 DEF Ready
<1>6. CASE cmd.kind = "MOVE"
  <2>1. c \in Top(t) /\ cmd.at \in Owner \cap (Top(t) \ Under(t, {c}))
    BY <1>6 DEF Edge
  <2> QED  BY <1>1, <1>2, <1>6, <2>1 DEF Ready
<1> QED  BY <1>3, <1>4, <1>5, <1>6 DEF Edge

(* No command points to an instance that was deleted, and the next to undo *)
(* and to redo find the form as they left it, after any gestures, undos    *)
(* and redos.                                                              *)
THEOREM ReadyCorrect == Spec => []ReadyToExecute
<1>1. FormInv => ReadyToExecute
  <2> SUFFICES ASSUME FormInv, Open PROVE
                 /\ TargetsAlive
                 /\ past # <<>> => Ready(past[Len(past)])
                 /\ future # <<>> => Ready(Head(future))
    BY DEF ReadyToExecute
  <2> DEFINE t == TreeOf(form)
             E == Elements(past \o future)
             h == HoldCount(E)
  <2>1. Working
    BY DEF Open, Working
  <2>2. /\ past \in Seq(CmdSet) /\ future \in Seq(CmdSet)
        /\ Legal(past, future, t, born) /\ past \o future \in Seq(CmdSet)
        /\ Counted(t, h, form.ref, form.freed, born)
    BY <2>1, AtWork DEF Good, Types, Sound
  <2>3. TargetsAlive
    <3>1. \A cmd \in E : Held(cmd) => cmd.on \in Roots(h)
      <4> SUFFICES ASSUME NEW cmd \in E, Held(cmd) PROVE cmd.on \in Roots(h)
        OBVIOUS
      <4>1. h[cmd.on] > 0
        BY <2>1, CommandHeld
      <4>2. cmd.on \in Control
        <5>1. cmd \in CmdSet
          BY <2>2, ElementsOf
        <5> QED  BY <5>1 DEF CmdSet, CommandType
      <4> QED  BY <4>1, <4>2 DEF Roots
    <3>2. Base \in Roots(h)
      BY DEF Roots
    <3> HIDE DEF h, t
    <3>3. \A cmd \in E : cmd.on \in Live(t, h) /\ cmd.at \in Live(t, h)
      BY <2>2, <3>1, <3>2, LegalLive DEF Live
    <3>4. form.freed = born \ Live(t, h)
      BY <2>2 DEF Counted
    <3> QED  BY <3>3, <3>4 DEF TargetsAlive
  <2>4. past # <<>> => Ready(past[Len(past)])
    <3> SUFFICES ASSUME past # <<>> PROVE Ready(past[Len(past)])
      OBVIOUS
    <3>1. \E x \in Tree : Edge(past[Len(past)], x, t)
      <4> HIDE DEF t
      <4> QED  BY <2>2, LegalUndo
    <3> QED  BY <2>1, <3>1, EdgeReady
  <2>5. future # <<>> => Ready(Head(future))
    <3> SUFFICES ASSUME future # <<>> PROVE Ready(Head(future))
      OBVIOUS
    <3>1. \E x \in Tree : Edge(Head(future), x, t)
      <4> HIDE DEF t
      <4> QED  BY <2>2, LegalRedo
    <3> QED  BY <2>1, <3>1, EdgeReady
  <2> QED  BY <2>3, <2>4, <2>5
<1> QED  BY <1>1, InvHolds, PTL

(* No image is counted less often than controls of the form show it, after *)
(* any gestures, undos and redos: the image editor removes none in use.    *)
THEOREM UsesCovered == Spec => []NeverUndercounted
<1>1. FormInv => NeverUndercounted
  <2> SUFFICES ASSUME FormInv, Open
               PROVE  \A i \in images : form.use[i] >= Showing(form, Attached(form), i)
    BY DEF NeverUndercounted
  <2>1. Working
    BY DEF Open, Working
  <2>2. Covered(form) /\ Attached(form) = OnForm(form)
    BY <2>1, AtWork DEF Good
  <2> QED  BY <2>2 DEF Covered
<1> QED  BY <1>1, InvHolds, PTL

-----------------------------------------------------------------------------
(* Undo and redo bring back what the form showed.                          *)

LEMMA HeldIn ==
  ASSUME NEW s \in Seq(CmdSet), NEW cmd \in Elements(s)
  PROVE  cmd \in CmdSet /\ (Held(cmd) => HoldCount(Elements(s))[cmd.on] > 0)
<1> DEFINE E == Elements(s)
<1>1. IsFiniteSet(E) /\ cmd \in CmdSet
  BY ElementsOf
<1>2. cmd.on \in Control
  BY <1>1 DEF CmdSet, CommandType
<1>3. Held(cmd) => cmd \in HeldBy(E, cmd.on)
  BY DEF HeldBy
<1> HIDE DEF E
<1> QED  BY <1>1, <1>2, <1>3, HoldType DEF E

LEMMA Restores ==
  ASSUME FormInv, FormInv', panel' = "open", ~form'.fault,
         NEW cmd \in Elements(past' \o future'), Leads(cmd, form, form')
  PROVE  View(execute(form', cmd).form) = View(form)
<1>1. Types /\ Types' /\ Good'
  BY DEF FormInv, Open
<1>2. /\ form \in FormSet /\ images \subseteq Image
      /\ past' \in Seq(CmdSet) /\ future' \in Seq(CmdSet)
      /\ Sound(form', HoldCount(Elements(past' \o future')), born')
  BY <1>1 DEF Types, Good
<1>3. past' \o future' \in Seq(CmdSet)
  BY <1>2, ConcatProperties
<1>4. /\ cmd \in CmdSet
      /\ Held(cmd) => HoldCount(Elements(past' \o future'))[cmd.on] > 0
  BY <1>3, HeldIn
<1> QED  BY <1>2, <1>4, LeadsView

Restored ==
  ~form'.fault =>
    /\ Len(future') < Len(future) \/ pushes' > pushes =>
         View(execute(form', past'[Len(past')]).form) = View(form)
    /\ Len(future') > Len(future) =>
         View(execute(form', Head(future')).form) = View(form)

LEMMA LastIn ==
  ASSUME NEW p \in Seq(CmdSet), NEW f \in Seq(CmdSet)
  PROVE  /\ p # <<>> => p[Len(p)] \in Elements(p \o f)
         /\ f # <<>> => Head(f) \in Elements(p \o f)
<1>1. Elements(p \o f) = Elements(p) \cup Elements(f)
  BY ElementsConcat
<1>2. p # <<>> => p[Len(p)] \in Elements(p)
  <2>1. p # <<>> => Len(p) \in 1 .. Len(p)
    BY EmptySeq
  <2> QED  BY <2>1, ElementsOf
<1>3. f # <<>> => Head(f) \in Elements(f)
  <2>1. f # <<>> => 1 \in 1 .. Len(f) /\ Head(f) = f[1]
    BY EmptySeq
  <2> QED  BY <2>1, ElementsOf
<1> QED  BY <1>1, <1>2, <1>3

(* A step that touches neither history nor pushes asks for nothing. *)
LEMMA QuietRestored ==
  ASSUME FormInv, past' = past, future' = future, pushes' = pushes
  PROVE  Restored
<1>1. Len(future) \in Nat /\ pushes \in Nat
  BY LenProperties, FormAssumption DEF FormInv, Types
<1>2. ~(Len(future') < Len(future)) /\ ~(pushes' > pushes) /\ ~(Len(future') > Len(future))
  BY <1>1
<1> QED  BY <1>2 DEF Restored

LEMMA PushRestored ==
  ASSUME FormInv, FormInv', Working, panel' = panel, NEW cmd \in CmdSet,
         pushUndoRedoCommand(cmd), Pushed
  PROVE  Restored
<1> SUFFICES ASSUME ~form'.fault PROVE Restored
  BY DEF Restored
<1>1. Types /\ Types'
  BY DEF FormInv
<1>2. past' \in Seq(CmdSet) /\ future' \in Seq(CmdSet) /\ future \in Seq(CmdSet)
  BY <1>1 DEF Types
<1>3. past' # <<>>
  <2>1. Len(past) = Capacity => past # <<>>
    BY FormAssumption, EmptySeq
  <2>2. (IF Len(past) = Capacity THEN Tail(past) ELSE past) \in Seq(CmdSet)
    BY <1>1, <2>1, HeadTailProperties DEF Types
  <2> QED  BY <2>2, AppendProperties DEF pushUndoRedoCommand
<1>4. View(execute(form', past'[Len(past')]).form) = View(form)
  <2>1. past'[Len(past')] \in Elements(past' \o future')
    BY <1>2, <1>3, LastIn
  <2>2. panel' = "open"
    BY DEF Working
  <2> QED  BY <2>1, <2>2, Restores DEF Pushed
<1>5. ~(Len(future') > Len(future))
  <2>1. Len(future') = 0 /\ Len(future) \in Nat
    BY <1>2, EmptySeq, LenProperties DEF pushUndoRedoCommand
  <2> QED  BY <2>1
<1> QED  BY <1>4, <1>5 DEF Restored

LEMMA UndoRestored == ASSUME FormInv, undo PROVE Restored
<1> SUFFICES ASSUME ~form'.fault PROVE Restored
  BY DEF Restored
<1>1. FormInv' /\ Undone /\ pushes' = pushes /\ Len(future') = Len(future) + 1
  BY UndoKeeps
<1>2. /\ past' \in Seq(CmdSet) /\ future' \in Seq(CmdSet) /\ future \in Seq(CmdSet)
      /\ pushes \in Nat
  BY <1>1, FormAssumption DEF FormInv, Types
<1>3. Len(future) \in Nat
  BY <1>2, LenProperties
<1>4. future' # <<>>
  BY <1>1, <1>3, EmptySeq
<1>5. View(execute(form', Head(future')).form) = View(form)
  <2>1. Head(future') \in Elements(past' \o future')
    BY <1>2, <1>4, LastIn
  <2>2. panel' = "open"
    BY DEF undo, Working
  <2> QED  BY <1>1, <2>1, <2>2, Restores DEF Undone
<1>6. ~(Len(future') < Len(future)) /\ ~(pushes' > pushes)
  BY <1>1, <1>2, <1>3
<1> QED  BY <1>5, <1>6 DEF Restored

LEMMA RedoRestored == ASSUME FormInv, redo PROVE Restored
<1> SUFFICES ASSUME ~form'.fault PROVE Restored
  BY DEF Restored
<1>1. FormInv' /\ Redone /\ Len(future') = Len(future) - 1
  BY RedoKeeps
<1>2. past' \in Seq(CmdSet) /\ future' \in Seq(CmdSet) /\ future \in Seq(CmdSet)
  BY <1>1 DEF FormInv, Types
<1>3. Len(future) \in Nat
  BY <1>2, LenProperties
<1>4. Len(past') \in Nat \ {0}
  <2> DEFINE c == execute(form, Head(future)).cmd
             S == CmdSet \cup {c}
  <2>1. past' = Append(past, c) /\ past \in Seq(CmdSet)
    BY DEF redo, FormInv, Types
  <2> HIDE DEF c
  <2>2. past \in Seq(S) /\ c \in S
    BY <2>1, SeqMonotonic
  <2> HIDE DEF S
  <2>3. Len(past') = Len(past) + 1 /\ Len(past) \in Nat
    BY <2>1, <2>2, AppendProperties, LenProperties
  <2> QED  BY <2>3
<1>5. past' # <<>>
  BY <1>4, EmptySeq
<1>6. View(execute(form', past'[Len(past')]).form) = View(form)
  <2>1. past'[Len(past')] \in Elements(past' \o future')
    BY <1>2, <1>5, LastIn
  <2>2. panel' = "open"
    BY DEF redo, Working
  <2> QED  BY <1>1, <2>1, <2>2, Restores DEF Redone
<1>7. ~(Len(future') > Len(future))
  BY <1>1, <1>3
<1> QED  BY <1>6, <1>7 DEF Restored

LEMMA ParentOnForm ==
  ASSUME FormInv, Working, NEW c \in Control, c \in Attached(form)
  PROVE  ParentOf(form, c) \in Owner
<1>1. /\ Sound(form, HoldCount(Elements(past \o future)), born)
      /\ form \in FormSet /\ c \in Top(TreeOf(form)) /\ Single(TreeOf(form))
  BY AtWork DEF Good, Types, OnForm
<1> QED  BY <1>1, ParentIs

LEMMA StepRestores == FormInv /\ Next => Restored
<1> SUFFICES ASSUME FormInv, Next PROVE Restored
  OBVIOUS
<1>1. FormInv'
  BY StepHolds
<1>2. Types
  BY DEF FormInv
<1>3. ASSUME UNCHANGED history PROVE Restored
  BY <1>3, QuietRestored DEF history
<1>4. ASSUME NEW kind \in {"ADD", "DELETE", "MOVE", "SET"}, NEW c \in Control,
             NEW at \in Owner, NEW val \in Field \cup Loc,
             kind = "SET" => val \in Field, kind = "MOVE" => val \in Loc,
             CanPush, panel' = panel,
             pushUndoRedoCommand(Command(kind, c, at, val)), Pushed
      PROVE  Restored
  <2>1. Working /\ pushes < MaxPush
    BY <1>4 DEF CanPush
  <2>2. Command(kind, c, at, val) \in CmdSet
    BY <1>2, <1>4, <2>1, CommandIn
  <2> QED  BY <1>1, <1>4, <2>1, <2>2, PushRestored
<1>5. form \in FormSet /\ Base \in Owner /\ Default \in Field \cup Loc
  BY <1>2 DEF Types, Owner, Field
<1>6. ASSUME NEW p \in Owner, click(p) PROVE Restored
  BY <1>3, <1>6 DEF click
<1>7. ASSUME NEW c \in Control, NEW p \in Owner, NEW l \in Loc, create(c, p, l)
      PROVE  Restored
  <2>1. Pushed
    BY <1>7, CreateKeeps
  <2>2. CanPush /\ panel' = panel /\ pushUndoRedoCommand(Command("ADD", c, p, Default))
    BY <1>7 DEF create
  <2> QED  BY <1>4, <1>5, <2>1, <2>2
<1>8. ASSUME NEW c \in Control, deleteSelectedInstance(c) PROVE Restored
  <2> DEFINE p == ParentOf(form, c)
  <2>1. Pushed
    BY <1>8, DeleteKeeps
  <2>2. /\ CanPush /\ panel' = panel /\ pushUndoRedoCommand(Command("DELETE", c, p, Default))
        /\ c \in Attached(form)
    BY <1>8 DEF deleteSelectedInstance
  <2>3. p \in Owner
    <3>1. Working
      BY <2>2 DEF CanPush
    <3> QED  BY <2>2, <3>1, ParentOnForm
  <2> HIDE DEF p
  <2> QED  BY <1>4, <1>5, <2>1, <2>2, <2>3
<1>9. ASSUME NEW c \in Control, NEW p \in Owner, NEW l \in Loc, move(c, p, l)
      PROVE  Restored
  <2> DEFINE from == ParentOf(form, c)
  <2>1. Pushed
    BY <1>9, MoveKeeps
  <2>2. /\ CanPush /\ panel' = panel /\ c \in Attached(form)
        /\ pushUndoRedoCommand(Command("MOVE", c, from, form.loc[c]))
    BY <1>9 DEF move
  <2>3. from \in Owner
    <3>1. Working
      BY <2>2 DEF CanPush
    <3> QED  BY <2>2, <3>1, ParentOnForm
  <2>4. form.loc[c] \in Loc
    BY <1>5 DEF FormSet
  <2> HIDE DEF from
  <2> QED  BY <1>4, <2>1, <2>2, <2>3, <2>4
<1>10. ASSUME NEW c \in Control, copy(c) PROVE Restored
  BY <1>3, <1>10 DEF copy
<1>11. ASSUME NEW c \in Control, setDefValue(c) PROVE Restored
  <2> DEFINE old == IF form.img[c] = Default THEN NoImage ELSE form.img[c]
  <2>1. Pushed
    BY <1>11, SetDefValueKeeps
  <2>2. CanPush /\ panel' = panel /\ pushUndoRedoCommand(Command("SET", c, Base, old))
    BY <1>11 DEF setDefValue
  <2>3. old \in Field
    BY <1>5 DEF FormSet, Field
  <2> HIDE DEF old
  <2> QED  BY <1>4, <1>5, <2>1, <2>2, <2>3
<1>12. ASSUME NEW c \in Control, NEW l \in Loc, moveSelections(c, l) PROVE Restored
  BY <1>3, <1>12 DEF moveSelections
<1>13. ASSUME NEW c \in Control, NEW l \in Loc, paste(c, l) PROVE Restored
  <2>1. pushes' > pushes => Pushed
    BY <1>13, PasteKeeps
  <2>2. CASE UNCHANGED history
    BY <1>3, <2>2
  <2>3. CASE pushUndoRedoCommand(Command("ADD", c, curContainer, Default))
    <3>1. CanPush /\ panel' = panel /\ curContainer \in Owner /\ pushes \in Nat
      BY <1>2, <1>13, FormAssumption DEF paste, Types
    <3>2. pushes' > pushes
      BY <2>3, <3>1 DEF pushUndoRedoCommand
    <3> QED  BY <1>4, <1>5, <2>1, <2>3, <3>1, <3>2
  <2> QED  BY <1>13, <2>2, <2>3 DEF paste
<1>14. ASSUME NEW c \in Control, NEW i \in Image \cup {NoImage}, setImage(c, i)
       PROVE  Restored
  <2> DEFINE old == form.img[c]
  <2>1. Pushed
    BY <1>14, SetImageKeeps
  <2>2. CanPush /\ panel' = panel /\ pushUndoRedoCommand(Command("SET", c, Base, old))
    BY <1>14 DEF setImage
  <2>3. old \in Field
    BY <1>5 DEF FormSet
  <2> HIDE DEF old
  <2> QED  BY <1>4, <1>5, <2>1, <2>2, <2>3
<1>15. ASSUME NEW c \in Control, NEW i \in Image, refuseImage(c, i) PROVE Restored
  BY <1>3, <1>15 DEF refuseImage
<1>16. ASSUME NEW i \in Image, removeImage(i) PROVE Restored
  BY <1>3, <1>16 DEF removeImage
<1>17. close => Restored
  BY <1>3 DEF close
<1> QED
  BY <1>6, <1>7, <1>8, <1>9, <1>10, <1>11, <1>12, <1>13, <1>14, <1>15, <1>16, <1>17,
     UndoRestored, RedoRestored DEF Next

(* Undone at once, the command of any gesture brings back what the form    *)
(* showed before it; a redo brings back what the undo changed, and an undo *)
(* what the redo changed, for any form and any history.                    *)
THEOREM UndoCorrect == Spec => UndoRestores
<1>1. FormInv /\ [Next]_vars => [Restored]_vars
  BY StepRestores
<1> QED  BY <1>1, InvHolds, PTL DEF Spec, UndoRestores, Restored

-----------------------------------------------------------------------------
(* The editor keeps the history it promises.                               *)

LEMMA IdsOf ==
  ASSUME NEW S, NEW s \in Seq(S)
  PROVE  LET V == {x.id : x \in S} IN
         /\ Ids(s) \in Seq(V) /\ Len(Ids(s)) = Len(s)
         /\ \A i \in 1 .. Len(s) : Ids(s)[i] = s[i].id
<1>1. Len(s) \in Nat /\ DOMAIN s = 1 .. Len(s) /\ \A i \in 1 .. Len(s) : s[i] \in S
  BY LenProperties
<1>2. Ids(s) = [i \in 1 .. Len(s) |-> s[i].id]
  BY <1>1 DEF Ids
<1> QED  BY <1>1, <1>2

LEMMA IdsAppend ==
  ASSUME NEW S, NEW s \in Seq(S), NEW c \in S
  PROVE  Ids(Append(s, c)) = Append(Ids(s), c.id)
<1> DEFINE V == {x.id : x \in S}
           a == Append(s, c)
           b == Append(Ids(s), c.id)
<1>1. Ids(s) \in Seq(V) /\ Len(Ids(s)) = Len(s) /\ Len(s) \in Nat
      /\ \A i \in 1 .. Len(s) : Ids(s)[i] = s[i].id
  BY IdsOf, LenProperties
<1>2. a \in Seq(S) /\ Len(a) = Len(s) + 1 /\ a[Len(s) + 1] = c
      /\ \A i \in 1 .. Len(s) : a[i] = s[i]
  BY AppendProperties
<1>3. c.id \in V
  OBVIOUS
<1> HIDE DEF V
<1>4. b \in Seq(V) /\ Len(b) = Len(s) + 1 /\ b[Len(s) + 1] = c.id
      /\ \A i \in 1 .. Len(s) : b[i] = s[i].id
  BY <1>1, <1>3, AppendProperties
<1> HIDE DEF a, b
<1>5. Ids(a) \in Seq(V) /\ Len(Ids(a)) = Len(a)
      /\ \A i \in 1 .. Len(a) : Ids(a)[i] = a[i].id
  BY <1>2, IdsOf DEF V
<1>6. \A i \in 1 .. Len(s) + 1 : Ids(a)[i] = b[i]
  <2> SUFFICES ASSUME NEW i \in 1 .. Len(s) + 1 PROVE Ids(a)[i] = b[i]
    OBVIOUS
  <2>1. CASE i = Len(s) + 1
    BY <1>2, <1>4, <1>5, <2>1
  <2>2. CASE i \in 1 .. Len(s)
    BY <1>2, <1>4, <1>5, <2>2
  <2> QED  BY <1>1, <2>1, <2>2
<1>7. Ids(a) = b
  BY <1>2, <1>4, <1>5, <1>6, SeqEqual
<1> QED  BY <1>7 DEF a, b

LEMMA IdsTail ==
  ASSUME NEW S, NEW s \in Seq(S), s # <<>>
  PROVE  /\ Ids(s) # <<>> /\ Ids(Tail(s)) = Tail(Ids(s))
         /\ Head(Ids(s)) = Head(s).id /\ Ids(s)[Len(Ids(s))] = s[Len(s)].id
<1> DEFINE V == {x.id : x \in S}
           w == Ids(s)
           a == Tail(s)
           b == Tail(w)
<1>1. w \in Seq(V) /\ Len(w) = Len(s) /\ Len(s) \in Nat \ {0}
      /\ \A i \in 1 .. Len(s) : w[i] = s[i].id
  BY IdsOf, EmptySeq
<1> HIDE DEF V, w
<1>2. w # <<>>
  BY <1>1, EmptySeq
<1>3. a \in Seq(S) /\ Len(a) = Len(s) - 1 /\ \A i \in 1 .. Len(a) : a[i] = s[i + 1]
  BY HeadTailProperties
<1>4. b \in Seq(V) /\ Len(b) = Len(s) - 1 /\ \A i \in 1 .. Len(b) : b[i] = w[i + 1]
  BY <1>1, <1>2, HeadTailProperties
<1> HIDE DEF a, b
<1>5. Ids(a) \in Seq(V) /\ Len(Ids(a)) = Len(a)
      /\ \A i \in 1 .. Len(a) : Ids(a)[i] = a[i].id
  BY <1>3, IdsOf DEF V
<1>6. \A i \in 1 .. Len(a) : Ids(a)[i] = b[i]
  <2> SUFFICES ASSUME NEW i \in 1 .. Len(a) PROVE Ids(a)[i] = b[i]
    OBVIOUS
  <2>1. i + 1 \in 1 .. Len(s) /\ i \in 1 .. Len(b)
    <3> DEFINE m == Len(s)
    <3>1. m \in Nat \ {0} /\ Len(a) = m - 1 /\ Len(b) = m - 1 /\ i \in 1 .. Len(a)
      BY <1>1, <1>3, <1>4
    <3> HIDE DEF m
    <3>2. i + 1 \in 1 .. m /\ i \in 1 .. Len(b)
      BY <3>1
    <3> QED  BY <3>2 DEF m
  <2>2. w[i + 1] = s[i + 1].id /\ a[i] = s[i + 1] /\ b[i] = w[i + 1]
    BY <1>1, <1>3, <1>4, <2>1
  <2> QED  BY <1>5, <2>2
<1>7. Ids(a) = b
  BY <1>3, <1>4, <1>5, <1>6, SeqEqual
<1>8. Head(w) = w[1] /\ Head(s) = s[1] /\ 1 \in 1 .. Len(s) /\ Len(s) \in 1 .. Len(s)
  BY <1>1, <1>2
<1> QED  BY <1>1, <1>2, <1>7, <1>8 DEF a, b, w

LEMMA IdsFront ==
  ASSUME NEW S, NEW s \in Seq(S), s # <<>>
  PROVE  Ids(SubSeq(s, 1, Len(s) - 1)) = SubSeq(Ids(s), 1, Len(Ids(s)) - 1)
<1> DEFINE V == {x.id : x \in S}
           w == Ids(s)
           n == Len(s) - 1
           a == SubSeq(s, 1, n)
           b == SubSeq(w, 1, n)
<1>1. w \in Seq(V) /\ Len(w) = Len(s) /\ n \in Nat /\ Len(s) = n + 1
      /\ \A i \in 1 .. Len(s) : w[i] = s[i].id
  <2>1. w \in Seq(V) /\ Len(w) = Len(s) /\ \A i \in 1 .. Len(s) : w[i] = s[i].id
    BY IdsOf
  <2>2. Len(s) \in Nat \ {0}
    BY EmptySeq
  <2>3. n \in Nat /\ Len(s) = n + 1
    BY <2>2
  <2> QED  BY <2>1, <2>3
<1> HIDE DEF V, w, n
<1>2. \A i \in 1 .. n : i \in 1 .. Len(s) /\ s[i] \in S /\ w[i] \in V
  BY <1>1
<1>3. a \in Seq(S) /\ Len(a) = n /\ \A i \in 1 .. n : a[i] = s[i]
  BY <1>1, <1>2, SubSeqProperties
<1>4. b \in Seq(V) /\ Len(b) = n /\ \A i \in 1 .. n : b[i] = w[i]
  BY <1>1, <1>2, SubSeqProperties
<1> HIDE DEF a, b
<1>5. Ids(a) \in Seq(V) /\ Len(Ids(a)) = Len(a)
      /\ \A i \in 1 .. Len(a) : Ids(a)[i] = a[i].id
  BY <1>3, IdsOf DEF V
<1>6. \A i \in 1 .. n : Ids(a)[i] = b[i]
  BY <1>1, <1>2, <1>3, <1>4, <1>5
<1>7. Ids(a) = b
  BY <1>3, <1>4, <1>5, <1>6, SeqEqual
<1> QED  BY <1>1, <1>7 DEF a, b, w, n

LEMMA IdsCons ==
  ASSUME NEW S, NEW s \in Seq(S), NEW c \in S
  PROVE  Ids(<<c>> \o s) = <<c.id>> \o Ids(s)
<1> DEFINE V == {x.id : x \in S}
           w == Ids(s)
           a == <<c>> \o s
           b == <<c.id>> \o w
<1>1. w \in Seq(V) /\ Len(w) = Len(s) /\ Len(s) \in Nat
      /\ \A i \in 1 .. Len(s) : w[i] = s[i].id
  BY IdsOf, LenProperties
<1>2. c.id \in V
  OBVIOUS
<1> HIDE DEF V, w
<1>3. <<c>> \in Seq(S) /\ Len(<<c>>) = 1 /\ <<c.id>> \in Seq(V) /\ Len(<<c.id>>) = 1
  BY <1>2
<1>4. a \in Seq(S) /\ Len(a) = 1 + Len(s)
      /\ \A i \in 1 .. 1 + Len(s) : a[i] = IF i <= 1 THEN <<c>>[i] ELSE s[i - 1]
  BY <1>3, ConcatProperties
<1>5. b \in Seq(V) /\ Len(b) = 1 + Len(s)
      /\ \A i \in 1 .. 1 + Len(s) : b[i] = IF i <= 1 THEN <<c.id>>[i] ELSE w[i - 1]
  BY <1>1, <1>3, ConcatProperties
<1> HIDE DEF a, b
<1>6. Ids(a) \in Seq(V) /\ Len(Ids(a)) = Len(a)
      /\ \A i \in 1 .. Len(a) : Ids(a)[i] = a[i].id
  BY <1>4, IdsOf DEF V
<1>7. \A i \in 1 .. 1 + Len(s) : Ids(a)[i] = b[i]
  <2> SUFFICES ASSUME NEW i \in 1 .. 1 + Len(s) PROVE Ids(a)[i] = b[i]
    OBVIOUS
  <2>1. CASE i = 1
    <3>1. <<c>>[1] = c /\ <<c.id>>[1] = c.id
      OBVIOUS
    <3> QED  BY <1>1, <1>4, <1>5, <1>6, <2>1, <3>1
  <2>2. CASE i # 1
    <3>1. i - 1 \in 1 .. Len(s) /\ ~(i <= 1)
      BY <1>1, <2>2
    <3> QED  BY <1>1, <1>4, <1>5, <1>6, <3>1
  <2> QED  BY <2>1, <2>2
<1>8. Ids(a) = b
  BY <1>4, <1>5, <1>6, <1>7, SeqEqual
<1> QED  BY <1>8 DEF a, b, w

LEMMA IdsEmpty == Ids(<<>>) = <<>>
<1>1. <<>> \in Seq(CmdSet) /\ Len(<<>>) = 0
  BY EmptySeq
<1>2. Ids(<<>>) \in Seq({x.id : x \in CmdSet}) /\ Len(Ids(<<>>)) = 0
  BY <1>1, IdsOf
<1> QED  BY <1>2, EmptySeq

(* The command that an execution leaves is the same command. *)
LEMMA SameCommand ==
  ASSUME NEW f, NEW cmd \in CmdSet
  PROVE  execute(f, cmd).cmd.id = cmd.id
<1>1. cmd \in CommandType
  BY DEF CmdSet
<1>2. CASE cmd.kind = "ADD"
  BY <1>1, <1>2 DEF execute, executeAdd, CommandType
<1>3. CASE cmd.kind = "DELETE"
  BY <1>1, <1>3 DEF execute, executeDelete, CommandType
<1>4. CASE cmd.kind = "SET"
  BY <1>1, <1>4 DEF execute, executeSet, CommandType
<1>5. CASE cmd.kind = "MOVE"
  BY <1>1, <1>5 DEF execute, executeMove, CommandType
<1> QED  BY <1>1, <1>2, <1>3, <1>4, <1>5 DEF CommandType

LEMMA PushIsPush ==
  ASSUME Types, CanPush, NEW cmd, cmd.id = pushes + 1, pushUndoRedoCommand(cmd)
  PROVE  History!HPush
<1> DEFINE S == CmdSet \cup {cmd}
           kept == IF Len(past) = Capacity THEN Tail(past) ELSE past
<1>1. past' = Append(kept, cmd) /\ future' = <<>> /\ pushes' = pushes + 1
      /\ pushes < MaxPush
  BY DEF pushUndoRedoCommand, CanPush
<1>2. past \in Seq(CmdSet) /\ cmd \in S
  BY DEF Types
<1>3. past \in Seq(S)
  BY <1>2, SeqMonotonic
<1> HIDE DEF S
<1>4. Len(past) = Capacity => past # <<>>
  BY FormAssumption, EmptySeq
<1>5. kept \in Seq(S)
  BY <1>3, <1>4, HeadTailProperties
<1>6. Len(Ids(past)) = Len(past)
  BY <1>3, IdsOf
<1>7. Ids(kept) = IF Len(Ids(past)) = Capacity THEN Tail(Ids(past)) ELSE Ids(past)
  BY <1>3, <1>4, <1>6, IdsTail
<1> HIDE DEF kept
<1>8. Ids(past') = Append(Ids(kept), pushes + 1)
  <2>1. Ids(Append(kept, cmd)) = Append(Ids(kept), cmd.id)
    BY <1>2, <1>5, IdsAppend
  <2> QED  BY <1>1, <2>1
<1>9. Ids(future') = <<>>
  BY <1>1, IdsEmpty
<1> QED  BY <1>1, <1>7, <1>8, <1>9 DEF History!HPush, Ids

LEMMA UndoIsUndo == ASSUME FormInv, undo PROVE History!HUndo
<1> DEFINE cmd == past[Len(past)]
           rev == execute(form, cmd).cmd
           S == CmdSet \cup {rev}
<1>1. /\ past # <<>> /\ past' = SubSeq(past, 1, Len(past) - 1)
      /\ future' = <<rev>> \o future /\ pushes' = pushes
  BY DEF undo
<1>2. past \in Seq(CmdSet) /\ future \in Seq(CmdSet)
  BY DEF FormInv, Types
<1>3. cmd \in CmdSet
  <2>1. Len(past) \in 1 .. Len(past)
    BY <1>1, <1>2, EmptySeq
  <2> QED  BY <1>2, <2>1, ElementOfSeq
<1>4. rev.id = cmd.id
  BY <1>3, SameCommand
<1> HIDE DEF rev
<1>5. past \in Seq(S) /\ future \in Seq(S) /\ rev \in S
  BY <1>2, SeqMonotonic
<1> HIDE DEF S, cmd
<1>6. Ids(past) # <<>> /\ Ids(past)[Len(Ids(past))] = cmd.id
  BY <1>1, <1>5, IdsTail DEF cmd
<1>7. Ids(past') = SubSeq(Ids(past), 1, Len(Ids(past)) - 1)
  BY <1>1, <1>5, IdsFront
<1>8. Ids(future') = <<cmd.id>> \o Ids(future)
  <2>1. Ids(<<rev>> \o future) = <<rev.id>> \o Ids(future)
    BY <1>5, IdsCons
  <2> QED  BY <1>1, <1>4, <2>1
<1> QED  BY <1>1, <1>6, <1>7, <1>8 DEF History!HUndo, Ids

LEMMA RedoIsRedo == ASSUME FormInv, redo PROVE History!HRedo
<1> DEFINE cmd == Head(future)
           rev == execute(form, cmd).cmd
           S == CmdSet \cup {rev}
<1>1. /\ future # <<>> /\ past' = Append(past, rev)
      /\ future' = Tail(future) /\ pushes' = pushes
  BY DEF redo
<1>2. past \in Seq(CmdSet) /\ future \in Seq(CmdSet)
  BY DEF FormInv, Types
<1>3. cmd \in CmdSet
  BY <1>1, <1>2, HeadTailProperties
<1>4. rev.id = cmd.id
  BY <1>3, SameCommand
<1> HIDE DEF rev
<1>5. past \in Seq(S) /\ future \in Seq(S) /\ rev \in S
  BY <1>2, SeqMonotonic
<1> HIDE DEF S, cmd
<1>6. Ids(future) # <<>> /\ Head(Ids(future)) = cmd.id /\ Ids(Tail(future)) = Tail(Ids(future))
  BY <1>1, <1>5, IdsTail DEF cmd
<1>7. Ids(past') = Append(Ids(past), cmd.id)
  <2>1. Ids(Append(past, rev)) = Append(Ids(past), rev.id)
    BY <1>5, IdsAppend
  <2> QED  BY <1>1, <1>4, <2>1
<1> QED  BY <1>1, <1>6, <1>7 DEF History!HRedo, Ids

LEMMA StepImplements == FormInv /\ [Next]_vars => [History!HNext]_(History!hvars)
<1> SUFFICES ASSUME FormInv, [Next]_vars PROVE [History!HNext]_(History!hvars)
  OBVIOUS
<1> DEFINE Same == past' = past /\ future' = future /\ pushes' = pushes
<1>1. Same => [History!HNext]_(History!hvars)
  BY DEF History!hvars, Ids
<1>2. Types
  BY DEF FormInv
<1>3. \A kind, c, at, val : Command(kind, c, at, val).id = pushes + 1
  BY DEF Command
<1>4. \A kind, c, at, val :
        CanPush /\ pushUndoRedoCommand(Command(kind, c, at, val)) => History!HPush
  BY <1>2, <1>3, PushIsPush
<1>5. CASE Next
  <2>1. ASSUME NEW p \in Owner, click(p) PROVE Same
    BY <2>1 DEF click, history
  <2>2. ASSUME NEW c \in Control, NEW p \in Owner, NEW l \in Loc, create(c, p, l)
        PROVE  History!HPush
    BY <1>4, <2>2 DEF create
  <2>3. ASSUME NEW c \in Control, NEW p \in Owner, NEW l \in Loc, move(c, p, l)
        PROVE  History!HPush
    BY <1>4, <2>3 DEF move
  <2>4. ASSUME NEW c \in Control, deleteSelectedInstance(c) PROVE History!HPush
    BY <1>4, <2>4 DEF deleteSelectedInstance
  <2>5. ASSUME NEW c \in Control, copy(c) PROVE Same
    BY <2>5 DEF copy, history
  <2>6. ASSUME NEW c \in Control, setDefValue(c) PROVE History!HPush
    BY <1>4, <2>6 DEF setDefValue
  <2>7. ASSUME NEW c \in Control, NEW l \in Loc, moveSelections(c, l) PROVE Same
    BY <2>7 DEF moveSelections, history
  <2>8. ASSUME NEW c \in Control, NEW l \in Loc, paste(c, l) PROVE Same \/ History!HPush
    BY <1>4, <2>8 DEF paste, history
  <2>9. ASSUME NEW c \in Control, NEW i \in Image \cup {NoImage}, setImage(c, i)
        PROVE  History!HPush
    BY <1>4, <2>9 DEF setImage
  <2>10. ASSUME NEW c \in Control, NEW i \in Image, refuseImage(c, i) PROVE Same
    BY <2>10 DEF refuseImage, history
  <2>11. ASSUME NEW i \in Image, removeImage(i) PROVE Same
    BY <2>11 DEF removeImage, history
  <2>12. close => Same
    BY DEF close, history
  <2> HIDE DEF Same
  <2>13. Same \/ History!HNext
    BY <1>5, <2>1, <2>2, <2>3, <2>4, <2>5, <2>6, <2>7, <2>8, <2>9, <2>10, <2>11,
       <2>12, UndoIsUndo, RedoIsRedo DEF Next, History!HNext
  <2> QED  BY <1>1, <2>13
<1>6. CASE UNCHANGED vars
  BY <1>1, <1>6 DEF vars, history
<1> QED  BY <1>5, <1>6

(* A gesture pushes one command on the history of EditHistory, an undo and *)
(* a redo move one across it, and nothing else touches it: the editor      *)
(* implements the history for any form and any capacity, so what           *)
(* HistoryCorrect proves of it holds of the editor.                        *)
THEOREM EditorImplementsHistory == Spec => ImplementsHistory
<1>1. Init => History!HInit
  BY IdsEmpty DEF Init, History!HInit, Ids
<1> QED  BY <1>1, StepImplements, InvHolds, PTL DEF Spec, ImplementsHistory, History!HSpec

=============================================================================
