--------------------------- MODULE Selection_proofs ---------------------------
(***************************************************************************)
(* Theorems about the selection of several controls and the gestures that  *)
(* work on all of them, for any controls, containers and loaded form and   *)
(* any bounds.                                                             *)
(***************************************************************************)
EXTENDS Selection, FiniteSetTheorems, SequenceTheorems, WellFoundedInduction, TLAPS

-----------------------------------------------------------------------------
(* Sequences. *)

LEMMA LeastExists ==
  ASSUME NEW S \in SUBSET Nat, S # {}
  PROVE  \E m \in S : \A y \in S : m =< y
<1> DEFINE initials == {0 .. k : k \in S}
<1>1. initials \subseteq FiniteSubsetsOf(Nat) /\ initials # {}
  <2>1. \A k \in S : IsFiniteSet(0 .. k) /\ 0 .. k \subseteq Nat
    BY FS_Interval
  <2> QED  BY <2>1 DEF FiniteSubsetsOf
<1>2. PICK K \in initials :
        \A J \in initials : <<J, K>> \notin StrictSubsetOrdering(Nat)
  BY <1>1, WFMin, FS_StrictSubsetOrderingWellFounded
<1>3. PICK k \in S : K = 0 .. k
  OBVIOUS
<1>4. ASSUME NEW y \in S, ~ (k =< y) PROVE FALSE
  <2>1. y \in Nat /\ k \in Nat /\ y < k
    BY <1>4
  <2>2. 0 .. y \subseteq 0 .. k /\ k \in 0 .. k /\ k \notin 0 .. y
    BY <2>1
  <2>3. 0 .. y \in initials /\ 0 .. y \subseteq Nat /\ 0 .. k \subseteq Nat
    BY <2>1
  <2>4. <<0 .. y, K>> \in StrictSubsetOrdering(Nat)
    BY <1>3, <2>2, <2>3 DEF StrictSubsetOrdering
  <2> QED  BY <1>2, <2>3, <2>4
<1> QED  BY <1>4

LEMMA UpToAll ==
  ASSUME NEW n \in Nat, NEW S, 0 \in S, \A j \in 1 .. n : j - 1 \in S => j \in S
  PROVE  \A j \in 0 .. n : j \in S
<1> DEFINE rest == {j \in 0 .. n : j \notin S}
<1> SUFFICES ASSUME rest # {} PROVE FALSE
  OBVIOUS
<1>1. rest \in SUBSET Nat
  OBVIOUS
<1>2. PICK k \in rest : \A j \in rest : k <= j
  BY <1>1, LeastExists
<1>3. k \in 1 .. n /\ k - 1 \in 0 .. n
  BY <1>2
<1>4. k - 1 \in S
  BY <1>2, <1>3
<1> QED  BY <1>2, <1>3, <1>4

LEMMA LoopExists ==
  ASSUME NEW X, NEW a \in X, NEW n \in Nat, NEW step \in [1 .. n -> [X -> X]]
  PROVE  \E f \in [0 .. n -> X] :
           f[0] = a /\ \A j \in 1 .. n : f[j] = step[j][f[j - 1]]
<1> DEFINE Runs(f, k) == f[0] = a /\ \A j \in 1 .. k : f[j] = step[j][f[j - 1]]
           S == {k \in 0 .. n : \E f \in [0 .. k -> X] : Runs(f, k)}
<1>1. 0 \in S
  <2>1. [j \in 0 .. 0 |-> a] \in [0 .. 0 -> X] /\ Runs([j \in 0 .. 0 |-> a], 0)
    OBVIOUS
  <2>2. \E f \in [0 .. 0 -> X] : Runs(f, 0)
    BY <2>1
  <2> HIDE DEF Runs
  <2> QED  BY <2>2
<1>2. ASSUME NEW k \in 1 .. n, k - 1 \in S PROVE k \in S
  <2>1. PICK f \in [0 .. k - 1 -> X] : Runs(f, k - 1)
    BY <1>2
  <2> DEFINE g == [j \in 0 .. k |-> IF j = k THEN step[k][f[k - 1]] ELSE f[j]]
  <2>2. k - 1 \in 0 .. k - 1 /\ f[k - 1] \in X /\ step[k][f[k - 1]] \in X
    BY <1>2
  <2>3. \A j \in 0 .. k : j # k => j \in 0 .. k - 1
    BY <1>2
  <2>4. g \in [0 .. k -> X]
    BY <2>2, <2>3
  <2>5. g[0] = a
    BY <1>2, <2>1
  <2>6. ASSUME NEW j \in 1 .. k PROVE g[j] = step[j][g[j - 1]]
    <3>1. g[j - 1] = f[j - 1]
      BY <1>2
    <3>2. CASE j = k
      BY <3>1, <3>2
    <3>3. CASE j # k
      <4>1. j \in 1 .. k - 1 /\ j \in 0 .. k
        BY <1>2, <3>3
      <4>2. g[j] = f[j] /\ f[j] = step[j][f[j - 1]]
        BY <2>1, <3>3, <4>1
      <4> QED  BY <3>1, <4>2
    <3> QED  BY <3>2, <3>3
  <2> HIDE DEF g
  <2>7. \E h \in [0 .. k -> X] : Runs(h, k)
    BY <2>4, <2>5, <2>6
  <2> HIDE DEF Runs
  <2> QED  BY <1>2, <2>7
<1> HIDE DEF S
<1>3. \A j \in 1 .. n : j - 1 \in S => j \in S
  BY <1>2
<1>4. \A j \in 0 .. n : j \in S
  BY <1>1, <1>3, UpToAll
<1>5. n \in S
  BY <1>4
<1> QED  BY <1>5 DEF S

LEMMA ToSetIs ==
  ASSUME NEW X, NEW s \in Seq(X)
  PROVE  /\ ToSet(s) = {s[i] : i \in 1 .. Len(s)} /\ ToSet(s) \subseteq X
         /\ ToSet(s) = {} <=> s = <<>>
         /\ s \in Seq(ToSet(s))
<1>1. DOMAIN s = 1 .. Len(s) /\ Len(s) \in Nat /\ \A i \in 1 .. Len(s) : s[i] \in X
  OBVIOUS
<1>2. ToSet(s) = {s[i] : i \in 1 .. Len(s)}
  BY <1>1 DEF ToSet
<1>3. ToSet(s) = {} => s = <<>>
  <2> SUFFICES ASSUME s # <<>> PROVE ToSet(s) # {}
    OBVIOUS
  <2>1. 1 \in 1 .. Len(s)
    BY <1>1, EmptySeq
  <2> QED  BY <1>2, <2>1
<1>4. s = <<>> => ToSet(s) = {}
  BY <1>2
<1>5. s \in Seq(ToSet(s))
  <2>1. \A i \in 1 .. Len(s) : s[i] \in ToSet(s)
    BY <1>2
  <2> QED  BY <1>1, <2>1
<1> QED  BY <1>1, <1>2, <1>3, <1>4, <1>5

LEMMA ConcatSet ==
  ASSUME NEW X, NEW s \in Seq(X), NEW t \in Seq(X)
  PROVE  /\ s \o t \in Seq(X) /\ ToSet(s \o t) = ToSet(s) \cup ToSet(t)
         /\ IsInjective(s) /\ IsInjective(t) /\ ToSet(s) \cap ToSet(t) = {}
              => IsInjective(s \o t)
<1> DEFINE u == s \o t
<1>1. /\ u \in Seq(X) /\ Len(u) = Len(s) + Len(t)
      /\ \A i \in 1 .. Len(u) :
           u[i] = IF i <= Len(s) THEN s[i] ELSE t[i - Len(s)]
  BY ConcatProperties
<1>2. Len(s) \in Nat /\ Len(t) \in Nat
  OBVIOUS
<1>3. /\ DOMAIN u = 1 .. Len(u) /\ DOMAIN s = 1 .. Len(s) /\ DOMAIN t = 1 .. Len(t)
  BY <1>1
<1> HIDE DEF u
<1>4. \A i \in 1 .. Len(u) : u[i] \in ToSet(s) \cup ToSet(t)
  <2> SUFFICES ASSUME NEW i \in 1 .. Len(u) PROVE u[i] \in ToSet(s) \cup ToSet(t)
    OBVIOUS
  <2>1. CASE i <= Len(s)
    <3>1. i \in 1 .. Len(s) /\ u[i] = s[i]
      BY <2>1, <1>1, <1>2
    <3> QED  BY ONLY <3>1, <1>3 DEF ToSet
  <2>2. CASE ~(i <= Len(s))
    <3>1. i - Len(s) \in 1 .. Len(t)
      BY <2>2, <1>1, <1>2
    <3> QED  BY <2>2, <3>1, <1>1, <1>3 DEF ToSet
  <2> QED  BY <2>1, <2>2
<1>5. ASSUME NEW i \in 1 .. Len(s) PROVE s[i] \in ToSet(u)
  <2>1. i \in 1 .. Len(u) /\ u[i] = s[i]
    BY <1>1, <1>2
  <2> QED  BY <2>1, <1>3 DEF ToSet
<1>6. ASSUME NEW i \in 1 .. Len(t) PROVE t[i] \in ToSet(u)
  <2>1. /\ i + Len(s) \in 1 .. Len(u) /\ ~(i + Len(s) <= Len(s))
        /\ (i + Len(s)) - Len(s) = i
    BY <1>1, <1>2
  <2>2. u[i + Len(s)] = t[i]
    BY <2>1, <1>1
  <2> QED  BY <2>1, <2>2, <1>3 DEF ToSet
<1>7. ToSet(u) = ToSet(s) \cup ToSet(t)
  BY <1>3, <1>4, <1>5, <1>6 DEF ToSet
<1>8. ASSUME IsInjective(s), IsInjective(t), ToSet(s) \cap ToSet(t) = {},
             NEW i \in 1 .. Len(u), NEW j \in 1 .. Len(u), u[i] = u[j]
      PROVE  i = j
  <2>1. CASE i <= Len(s) /\ j <= Len(s)
    <3>1. i \in 1 .. Len(s) /\ j \in 1 .. Len(s) /\ s[i] = s[j]
      BY <2>1, <1>1, <1>2, <1>8
    <3> QED  BY <3>1, <1>3, <1>8 DEF IsInjective
  <2>2. CASE ~(i <= Len(s)) /\ ~(j <= Len(s))
    <3>1. i - Len(s) \in 1 .. Len(t) /\ j - Len(s) \in 1 .. Len(t)
      BY <2>2, <1>1, <1>2
    <3>2. t[i - Len(s)] = t[j - Len(s)]
      BY <2>2, <1>1, <1>8
    <3>3. i - Len(s) = j - Len(s)
      BY <3>1, <3>2, <1>3, <1>8 DEF IsInjective
    <3> QED  BY <3>3, <1>2
  <2>3. CASE i <= Len(s) /\ ~(j <= Len(s))
    <3>1. i \in 1 .. Len(s) /\ j - Len(s) \in 1 .. Len(t) /\ s[i] = t[j - Len(s)]
      BY <2>3, <1>1, <1>2, <1>8
    <3> QED  BY <3>1, <1>3, <1>8 DEF ToSet
  <2>4. CASE ~(i <= Len(s)) /\ j <= Len(s)
    <3>1. j \in 1 .. Len(s) /\ i - Len(s) \in 1 .. Len(t) /\ s[j] = t[i - Len(s)]
      BY <2>4, <1>1, <1>2, <1>8
    <3> QED  BY <3>1, <1>3, <1>8 DEF ToSet
  <2> QED  BY <2>1, <2>2, <2>3, <2>4
<1>9. /\ IsInjective(s) /\ IsInjective(t) /\ ToSet(s) \cap ToSet(t) = {}
           => IsInjective(u)
  BY <1>3, <1>8 DEF IsInjective
<1> QED  BY <1>1, <1>7, <1>9 DEF u

LEMMA AppendSet ==
  ASSUME NEW X, NEW s \in Seq(X), NEW x \in X
  PROVE  /\ Append(s, x) \in Seq(X) /\ ToSet(Append(s, x)) = ToSet(s) \cup {x}
         /\ IsInjective(s) /\ x \notin ToSet(s) => IsInjective(Append(s, x))
<1>1. <<x>> \in Seq(X) /\ Append(s, x) = s \o <<x>>
  BY AppendIsConcat
<1>2. ToSet(<<x>>) = {x} /\ IsInjective(<<x>>)
  BY DEF ToSet, IsInjective
<1> DEFINE t == <<x>>
<1> HIDE DEF t
<1>3. /\ s \o t \in Seq(X) /\ ToSet(s \o t) = ToSet(s) \cup ToSet(t)
      /\ IsInjective(s) /\ IsInjective(t) /\ ToSet(s) \cap ToSet(t) = {}
           => IsInjective(s \o t)
  BY <1>1, ConcatSet DEF t
<1>4. ToSet(t) = {x} /\ IsInjective(t) /\ Append(s, x) = s \o t
  BY <1>1, <1>2 DEF t
<1> QED  BY <1>3, <1>4

(* Among, which keeps the members of a set, keeps their order.             *)
OnceIn(s, S) == \A i, j \in DOMAIN s : s[i] \in S /\ s[i] = s[j] => i = j

LEMMA AmongIs ==
  ASSUME NEW X, NEW s \in Seq(X), NEW S
  PROVE  /\ Among(s, S) \in Seq(X)
         /\ ToSet(Among(s, S)) = ToSet(s) \cap S
         /\ OnceIn(s, S) => IsInjective(Among(s, S))
         /\ IsInjective(s) => IsInjective(Among(s, S))
         /\ ToSet(s) \subseteq S => Among(s, S) = s
<1> DEFINE N == Len(s)
           none == <<>>
           take(t, n) == IF s[n] \in S THEN Append(t, s[n]) ELSE t
           body(f) == [n \in 0 .. N |-> IF n = 0 THEN none ELSE take(f[n - 1], n)]
           of == CHOOSE f : f = body(f)
<1>1. Among(s, S) = of[N]
  BY Zenon DEF Among
<1>2. N \in Nat /\ DOMAIN s = 1 .. N /\ \A n \in 1 .. N : s[n] \in X
  OBVIOUS
<1>3. none \in Seq(X) /\ \A t \in Seq(X), n \in 1 .. N : take(t, n) \in Seq(X)
  BY <1>2
<1> HIDE DEF none, take
<1>10. \E f : f = body(f)
  <2> DEFINE step == [n \in 1 .. N |-> [t \in Seq(X) |-> take(t, n)]]
  <2>1. step \in [1 .. N -> [Seq(X) -> Seq(X)]]
    BY <1>3
  <2>2. \A n \in 1 .. N, t \in Seq(X) : step[n][t] = take(t, n)
    OBVIOUS
  <2> DEFINE Y == Seq(X)
  <2>3. none \in Y /\ N \in Nat /\ step \in [1 .. N -> [Y -> Y]]
    BY <1>2, <1>3, <2>1
  <2> HIDE DEF step, N, Y
  <2>4. PICK f \in [0 .. N -> Y] :
          f[0] = none /\ \A j \in 1 .. N : f[j] = step[j][f[j - 1]]
    <3> HIDE DEF body, of
    <3>1. \E f \in [0 .. N -> Y] :
            f[0] = none /\ \A j \in 1 .. N : f[j] = step[j][f[j - 1]]
      BY <2>3, LoopExists, SMTT(60)
    <3> QED  BY <3>1
  <2>5. ASSUME NEW n \in 0 .. N
        PROVE  f[n] = IF n = 0 THEN none ELSE take(f[n - 1], n)
    <3>1. n # 0 => n \in 1 .. N /\ n - 1 \in 0 .. N
      BY <1>2
    <3> QED  BY <2>2, <2>4, <3>1 DEF Y
  <2>6. f = body(f)
    BY <2>4, <2>5
  <2> QED  BY <2>6
<1>4. of = body(of)
  BY <1>10
<1> HIDE DEF of
<1>5. of[0] = none /\ \A n \in 1 .. N : of[n] = take(of[n - 1], n)
  BY <1>2, <1>4
<1> DEFINE Kept(t, n) ==
             /\ t \in Seq(X)
             /\ ToSet(t) = {s[i] : i \in 1 .. n} \cap S
             /\ OnceIn(s, S) => IsInjective(t)
             /\ ToSet(s) \subseteq S => t = SubSeq(s, 1, n)
           R == {n \in 0 .. N : Kept(of[n], n)}
<1>6. 0 \in R
  <2>1. none \in Seq(X) /\ ToSet(none) = {} /\ IsInjective(none)
    BY DEF ToSet, IsInjective, none
  <2>2. {s[i] : i \in 1 .. 0} = {} /\ SubSeq(s, 1, 0) = none
    BY DEF none
  <2>3. Kept(none, 0)
    BY <2>1, <2>2
  <2> QED  BY <1>2, <1>5, <2>3
<1>7. ASSUME NEW n \in 1 .. N, n - 1 \in R PROVE n \in R
  <2> DEFINE t == of[n - 1]
  <2>1. Kept(t, n - 1) /\ of[n] = IF s[n] \in S THEN Append(t, s[n]) ELSE t
    BY <1>5, <1>7 DEF take
  <2> HIDE DEF t
  <2>2. /\ 1 .. n = (1 .. n - 1) \cup {n} /\ s[n] \in X
        /\ \A i \in 1 .. n - 1 : i \in 1 .. N /\ i # n
    BY <1>2
  <2>3. {s[i] : i \in 1 .. n} = {s[i] : i \in 1 .. n - 1} \cup {s[n]}
    BY <2>2
  <2>4. CASE s[n] \in S
    <3>1. OnceIn(s, S) => s[n] \notin ToSet(t)
      BY <1>2, <2>1, <2>2, <2>4 DEF OnceIn
    <3>2. /\ Append(t, s[n]) \in Seq(X)
          /\ ToSet(Append(t, s[n])) = ToSet(t) \cup {s[n]}
          /\ IsInjective(t) /\ s[n] \notin ToSet(t) => IsInjective(Append(t, s[n]))
      BY <2>1, <2>2, AppendSet
    <3>3. SubSeq(s, 1, n) = Append(SubSeq(s, 1, n - 1), s[n])
      BY <1>2
    <3>4. Kept(of[n], n)
      BY <2>1, <2>3, <2>4, <3>1, <3>2, <3>3
    <3> QED  BY <1>2, <3>4
  <2>5. CASE s[n] \notin S
    <3>1. ~(ToSet(s) \subseteq S)
      BY <1>2, <2>5 DEF ToSet
    <3>2. Kept(of[n], n)
      BY <2>1, <2>3, <2>5, <3>1
    <3> QED  BY <1>2, <3>2
  <2> QED  BY <2>4, <2>5
<1>8. N \in R
  <2> HIDE DEF R
  <2>1. \A n \in 1 .. N : n - 1 \in R => n \in R
    BY <1>7
  <2>2. \A n \in 0 .. N : n \in R
    BY <1>2, <1>6, <2>1, UpToAll
  <2> QED  BY <1>2, <2>2
<1>9. SubSeq(s, 1, N) = s
  BY <1>2
<1>11. IsInjective(s) => OnceIn(s, S)
  BY DEF IsInjective, OnceIn
<1> QED  BY <1>1, <1>2, <1>8, <1>9, <1>11 DEF ToSet

-----------------------------------------------------------------------------
(* Hierarchies.  One says of every container who its children are.         *)

Hierarchy == [Owner -> SUBSET Control]
Children(K, X) == {c \in Control : \E o \in Owner \cap X : c \in K[o]}

(* What is in S or below: the least set with S and all children.           *)
Under(K, S) ==
  S \cup {c \in Control :
            \A T \in SUBSET Control : Children(K, S \cup T) \subseteq T => c \in T}

(* Nobody has two parents, or is below itself.                             *)
Forest(K) ==
  /\ K \in Hierarchy
  /\ \A o, p \in Owner : o # p => K[o] \cap K[p] = {}
  /\ \A o \in Owner : o \notin Under(K, K[o])

Unplaced(K, S) == \A o \in Owner : S \cap K[o] = {}

Cut(K, S) == [o \in Owner |-> K[o] \ S]
Graft(K, p, S) == [o \in Owner |-> IF o = p THEN K[o] \cup S ELSE K[o]]

LEMMA Bases ==
  /\ Base \in Owner /\ Base \notin Control /\ Container \subseteq Control
  /\ NoContainer \notin Control /\ NoContainer \notin Owner
  /\ Owner \subseteq Control \cup {Base}
  BY SelectionAssumption DEF Owner

LEMMA UnderClosed ==
  ASSUME NEW K, NEW S
  PROVE  S \subseteq Under(K, S) /\ Children(K, Under(K, S)) \subseteq Under(K, S)
<1> SUFFICES ASSUME NEW c \in Control, NEW o \in Owner \cap Under(K, S), c \in K[o],
                    NEW T \in SUBSET Control, Children(K, S \cup T) \subseteq T
             PROVE  c \in T
  BY DEF Under, Children
<1>1. o \in S \cup T
  BY DEF Under
<1> QED  BY <1>1 DEF Children

LEMMA UnderLeast ==
  ASSUME NEW K, NEW S, NEW Y, S \subseteq Y, Children(K, Y) \subseteq Y
  PROVE  Under(K, S) \subseteq Y
<1>1. Children(K, S \cup (Y \cap Control)) \subseteq Y \cap Control
  BY DEF Children
<1> SUFFICES ASSUME NEW x \in Under(K, S) PROVE x \in Y
  OBVIOUS
<1>2. x \in S \/ x \in Y \cap Control
  <2>1. S \cup (Y \cap Control) \subseteq Y /\ Y \cap Control \in SUBSET Control
    OBVIOUS
  <2> QED  BY <1>1, <2>1 DEF Under
<1> QED  BY <1>2

(* Whoever is under S is of S, or the child of somebody under S. *)
LEMMA UnderParent ==
  ASSUME NEW K, NEW S, NEW c \in Under(K, S) \ S
  PROVE  c \in Control /\ \E o \in Owner : o \in Under(K, S) /\ c \in K[o]
<1> DEFINE Y == S \cup Children(K, Under(K, S))
<1>1. Y \subseteq Under(K, S)
  BY UnderClosed
<1>2. Children(K, Y) \subseteq Y
  BY <1>1 DEF Children
<1>3. c \in Y
  <2>1. S \subseteq Y
    OBVIOUS
  <2> HIDE DEF Y
  <2> QED  BY <1>2, <2>1, UnderLeast
<1> QED  BY <1>3 DEF Children

(* More children and more to begin with: no fewer below. *)
LEMMA UnderGrows ==
  ASSUME NEW K, NEW L, NEW S, NEW R, S \subseteq Under(L, R),
         \A o \in Owner : K[o] \subseteq L[o]
  PROVE  Under(K, S) \subseteq Under(L, R)
<1>1. Children(K, Under(L, R)) \subseteq Children(L, Under(L, R))
  BY DEF Children
<1>2. Children(L, Under(L, R)) \subseteq Under(L, R)
  BY UnderClosed
<1> QED  BY <1>1, <1>2, UnderLeast

LEMMA UnderMore ==
  ASSUME NEW K, NEW S, NEW R, S \subseteq R
  PROVE  Under(K, S) \subseteq Under(K, R)
  BY UnderClosed, UnderGrows

LEMMA UnderSubset ==
  ASSUME NEW K, NEW S, S \subseteq Control \cup {Base}
  PROVE  Under(K, S) \subseteq Control \cup {Base}
  BY DEF Under

(* Below, as the program computes it, is what is under S in the hierarchy  *)
(* of the form.                                                            *)
KidsOf(f) == [o \in Owner |-> ToSet(f.kids[o])]

LEMMA KidsIn ==
  ASSUME NEW f, f.kids \in [Owner -> Seq(Control)]
  PROVE  KidsOf(f) \in Hierarchy
<1>1. \A o \in Owner : ToSet(f.kids[o]) \subseteq Control
  BY ToSetIs
<1> QED  BY <1>1 DEF KidsOf, Hierarchy

LEMMA BelowIsUnder ==
  ASSUME NEW f, f.kids \in [Owner -> Seq(Control)], NEW S, S \subseteq Control \cup {Base}
  PROVE  Below(f, S) = Under(KidsOf(f), S)
<1> DEFINE K == KidsOf(f)
           NoGap(T) == Children(K, S \cup T) \cap Container \subseteq T
           inner == {o \in Container : \A T \in SUBSET Container : NoGap(T) => o \in T}
           B == S \cup Children(K, S \cup inner)
<1>1. ASSUME NEW T PROVE ChildrenOf(f, T) = Children(K, T)
  <2>1. \A o \in Owner : ToSet(f.kids[o]) \subseteq Control
    BY ToSetIs
  <2> QED  BY <2>1 DEF ChildrenOf, Children, KidsOf
<1>2. Below(f, S) = B
  BY <1>1 DEF Below
<1>3. Container \subseteq Control /\ Owner = Container \cup {Base} /\ Base \notin Control
  BY Bases DEF Owner
<1> HIDE DEF K
<1>5. inner \subseteq Under(K, S)
  <2>1. NoGap(Under(K, S) \cap Container)
    <3>1. S \cup (Under(K, S) \cap Container) \subseteq Under(K, S)
      BY UnderClosed
    <3>2. Children(K, S \cup (Under(K, S) \cap Container)) \subseteq Under(K, S)
      BY <3>1, UnderClosed DEF Children
    <3> QED  BY <3>2
  <2> QED  BY <2>1
<1>6. B \subseteq Under(K, S)
  <2>1. S \cup inner \subseteq Under(K, S)
    BY <1>5, UnderClosed
  <2>2. Children(K, S \cup inner) \subseteq Under(K, S)
    BY <2>1, UnderClosed DEF Children
  <2> QED  BY <2>1, <2>2
<1>7. Children(K, S \cup inner) \cap Container \subseteq inner
  <2> SUFFICES ASSUME NEW o \in Container, NEW p \in Owner \cap (S \cup inner), o \in K[p],
                      NEW T \in SUBSET Container, NoGap(T)
               PROVE  o \in T
    BY <1>3 DEF Children
  <2>1. p \in S \cup T
    OBVIOUS
  <2> QED  BY <2>1, <1>3 DEF Children
<1>8. Children(K, B) \subseteq B
  <2> SUFFICES ASSUME NEW c \in Control, NEW p \in Owner \cap B, c \in K[p] PROVE c \in B
    BY DEF Children
  <2>1. p \in S \/ p \in inner
    <3>1. CASE p \in S
      BY <3>1
    <3>2. CASE p \notin S
      <4>1. p \in Children(K, S \cup inner)
        BY <3>2
      <4>2. p \in Container
        BY <4>1, <1>3 DEF Children
      <4> QED  BY <4>1, <4>2, <1>7
    <3> QED  BY <3>1, <3>2
  <2>2. c \in Children(K, S \cup inner)
    <3> HIDE DEF inner
    <3> QED  BY <2>1 DEF Children
  <2> QED  BY <2>2
<1>9. Under(K, S) \subseteq B
  <2>1. S \subseteq B
    OBVIOUS
  <2> HIDE DEF B
  <2> QED  BY <1>8, <2>1, UnderLeast
<1> QED  BY <1>2, <1>6, <1>9 DEF K

-----------------------------------------------------------------------------
(* What is taken out of a hierarchy, put into it, and moved inside it.     *)

LEMMA CutForest ==
  ASSUME NEW K, Forest(K), NEW S
  PROVE  /\ Forest(Cut(K, S)) /\ Unplaced(Cut(K, S), S)
         /\ \A X : Under(Cut(K, S), X) \subseteq Under(K, X)
<1> DEFINE L == Cut(K, S)
<1>1. L \in Hierarchy /\ \A o \in Owner : L[o] = K[o] \ S
  BY DEF Forest, Hierarchy, Cut
<1> HIDE DEF L
<1>2. ASSUME NEW X, NEW R, X \subseteq Under(K, R)
      PROVE  Under(L, X) \subseteq Under(K, R)
  BY <1>1, <1>2, UnderGrows
<1>3. ASSUME NEW o \in Owner PROVE o \notin Under(L, L[o])
  <2>1. L[o] \subseteq Under(K, K[o])
    BY <1>1, UnderClosed
  <2> QED  BY <1>2, <2>1 DEF Forest
<1>4. \A X : Under(L, X) \subseteq Under(K, X)
  BY <1>2, UnderClosed
<1>5. Forest(L)
  BY <1>1, <1>3 DEF Forest
<1> QED  BY <1>1, <1>4, <1>5 DEF L, Unplaced

(* What was below X still is, unless it is below what was taken out.       *)
LEMMA CutAround ==
  ASSUME NEW K \in Hierarchy, NEW S, NEW X
  PROVE  Under(K, X) \subseteq Under(Cut(K, S), X) \cup Under(K, S)
<1> DEFINE L == Cut(K, S)
           Y == Under(L, X) \cup Under(K, S)
<1>1. \A o \in Owner : L[o] = K[o] \ S
  BY DEF Cut
<1> HIDE DEF L
<1>2. X \subseteq Y /\ S \subseteq Y
  BY UnderClosed
<1>3. Children(K, Y) \subseteq Y
  <2> SUFFICES ASSUME NEW c \in Control, NEW o \in Owner \cap Y, c \in K[o], c \notin S
               PROVE  c \in Y
    BY <1>2 DEF Children
  <2>1. CASE o \in Under(L, X)
    <3>1. c \in Children(L, Under(L, X))
      BY <1>1, <2>1 DEF Children
    <3> QED  BY <3>1, UnderClosed
  <2>2. CASE o \in Under(K, S)
    <3>1. c \in Children(K, Under(K, S))
      BY <2>2 DEF Children
    <3> QED  BY <3>1, UnderClosed
  <2> QED  BY <2>1, <2>2
<1> HIDE DEF Y
<1>4. Under(K, X) \subseteq Y
  BY <1>2, <1>3, UnderLeast
<1> QED  BY <1>4 DEF Y, L

(* Nothing is lost below X that holds what was taken out. *)
LEMMA CutHeld ==
  ASSUME NEW K \in Hierarchy, NEW S, NEW X, S \subseteq X
  PROVE  Under(K, X) \subseteq Under(Cut(K, S), X)
<1> DEFINE L == Cut(K, S)
           Y == Under(L, X)
<1>1. \A o \in Owner : L[o] = K[o] \ S
  BY DEF Cut
<1> HIDE DEF L
<1>2. X \subseteq Y /\ S \subseteq Y
  BY UnderClosed
<1>3. Children(K, Y) \subseteq Y
  <2> SUFFICES ASSUME NEW c \in Control, NEW o \in Owner \cap Y, c \in K[o], c \notin S
               PROVE  c \in Y
    BY <1>2 DEF Children
  <2>1. c \in Children(L, Under(L, X))
    BY <1>1 DEF Children
  <2> QED  BY <2>1, UnderClosed
<1> HIDE DEF Y
<1>4. Under(K, X) \subseteq Y
  BY <1>2, <1>3, UnderLeast
<1> QED  BY <1>4 DEF Y, L

LEMMA GraftIs ==
  ASSUME NEW K \in Hierarchy, NEW p \in Owner, NEW S \in SUBSET Control
  PROVE  /\ Graft(K, p, S) \in Hierarchy
         /\ \A o \in Owner :
              Graft(K, p, S)[o] = IF o = p THEN K[o] \cup S ELSE K[o]
         /\ \A X : Under(K, X) \subseteq Under(Graft(K, p, S), X)
<1> DEFINE L == Graft(K, p, S)
<1>1. /\ L \in Hierarchy
      /\ \A o \in Owner : L[o] = IF o = p THEN K[o] \cup S ELSE K[o]
  BY DEF Hierarchy, Graft
<1> HIDE DEF L
<1>2. \A o \in Owner : K[o] \subseteq L[o]
  BY <1>1
<1>3. ASSUME NEW X PROVE Under(K, X) \subseteq Under(L, X)
  <2>1. X \subseteq Under(L, X)
    BY UnderClosed
  <2> QED  BY <1>2, <2>1, UnderGrows
<1> QED  BY <1>1, <1>3 DEF L

(* Only what p was below has more below it. *)
LEMMA GraftOff ==
  ASSUME NEW K \in Hierarchy, NEW p \in Owner, NEW S \in SUBSET Control,
         NEW X, p \notin Under(K, X)
  PROVE  Under(Graft(K, p, S), X) = Under(K, X)
<1> DEFINE L == Graft(K, p, S)
           Y == Under(K, X)
<1>1. \A o \in Owner : L[o] = IF o = p THEN K[o] \cup S ELSE K[o]
  BY DEF Graft
<1>2. Y \subseteq Under(L, X)
  BY GraftIs
<1> HIDE DEF L
<1>3. X \subseteq Y
  BY UnderClosed
<1>4. Children(L, Y) \subseteq Y
  <2> SUFFICES ASSUME NEW c \in Control, NEW o \in Owner \cap Y, c \in L[o]
               PROVE  c \in Y
    BY DEF Children
  <2>1. o # p
    OBVIOUS
  <2>2. c \in Children(K, Y)
    BY <1>1, <2>1 DEF Children
  <2> QED  BY <2>2, UnderClosed
<1> HIDE DEF Y
<1>5. Under(L, X) \subseteq Y
  BY <1>3, <1>4, UnderLeast
<1> QED  BY <1>2, <1>5 DEF Y, L

LEMMA GraftOn ==
  ASSUME NEW K \in Hierarchy, NEW p \in Owner, NEW S \in SUBSET Control, NEW X
  PROVE  Under(Graft(K, p, S), X) \subseteq Under(K, X) \cup Under(K, S)
<1> DEFINE L == Graft(K, p, S)
           Y == Under(K, X) \cup Under(K, S)
<1>1. \A o \in Owner : L[o] = IF o = p THEN K[o] \cup S ELSE K[o]
  BY DEF Graft
<1> HIDE DEF L
<1>2. X \subseteq Y /\ S \subseteq Y
  BY UnderClosed
<1>3. Children(L, Y) \subseteq Y
  <2> SUFFICES ASSUME NEW c \in Control, NEW o \in Owner \cap Y, c \in L[o]
               PROVE  c \in Y
    BY DEF Children
  <2>1. CASE c \in S
    BY <1>2, <2>1
  <2>2. CASE c \notin S
    <3>1. c \in K[o]
      BY <1>1, <2>2
    <3>2. c \in Children(K, Under(K, X)) \/ c \in Children(K, Under(K, S))
      BY <3>1 DEF Children
    <3> QED  BY <3>2, UnderClosed
  <2> QED  BY <2>1, <2>2
<1> HIDE DEF Y
<1>4. Under(L, X) \subseteq Y
  BY <1>2, <1>3, UnderLeast
<1> QED  BY <1>4 DEF Y, L

LEMMA GraftForest ==
  ASSUME NEW K, Forest(K), NEW p \in Owner, NEW S \in SUBSET Control,
         Unplaced(K, S), p \notin Under(K, S)
  PROVE  Forest(Graft(K, p, S))
<1> DEFINE L == Graft(K, p, S)
<1>1. K \in Hierarchy
  BY DEF Forest
<1>2. /\ L \in Hierarchy
      /\ \A o \in Owner : L[o] = IF o = p THEN K[o] \cup S ELSE K[o]
  <2>1. L \in Hierarchy
    BY <1>1, GraftIs
  <2>2. \A o \in Owner : L[o] = IF o = p THEN K[o] \cup S ELSE K[o]
    BY DEF Graft
  <2> QED  BY <2>1, <2>2
<1>3. ASSUME NEW o \in Owner, NEW q \in Owner, o # q PROVE L[o] \cap L[q] = {}
  BY <1>2, <1>3 DEF Forest, Unplaced
<1>4. ASSUME NEW o \in Owner PROVE o \notin Under(L, L[o])
  <2>1. CASE o = p
    <3>1. L[p] = K[p] \cup S
      BY <1>2
    <3>2. Under(L, L[p]) \subseteq Under(K, K[p] \cup S) \cup Under(K, S)
      BY <1>1, <3>1, GraftOn
    <3>3. Under(K, K[p] \cup S) \subseteq Under(K, K[p]) \cup Under(K, S)
      <4> DEFINE Y == Under(K, K[p]) \cup Under(K, S)
      <4>1. K[p] \cup S \subseteq Y
        BY UnderClosed
      <4>2. Children(K, Y) \subseteq Y
        <5>1. Children(K, Y) = Children(K, Under(K, K[p])) \cup Children(K, Under(K, S))
          BY DEF Children
        <5> QED  BY <5>1, UnderClosed
      <4> HIDE DEF Y
      <4>3. Under(K, K[p] \cup S) \subseteq Y
        BY <4>1, <4>2, UnderLeast
      <4> QED  BY <4>3 DEF Y
    <3> QED  BY <2>1, <3>2, <3>3 DEF Forest
  <2>2. CASE o # p
    <3>1. L[o] = K[o] /\ o \notin Under(K, K[o])
      BY <1>2, <2>2 DEF Forest
    <3>2. CASE p \notin Under(K, K[o])
      BY <1>1, <3>1, <3>2, GraftOff
    <3>3. CASE p \in Under(K, K[o])
      <4>1. o \notin Under(K, S)
        <5> SUFFICES ASSUME o \in Under(K, S) PROVE FALSE
          OBVIOUS
        <5>1. K[o] \subseteq Under(K, S)
          <6>1. K[o] \subseteq Children(K, Under(K, S))
            BY <1>1 DEF Children, Hierarchy
          <6> QED  BY <6>1, UnderClosed
        <5>2. Under(K, K[o]) \subseteq Under(K, S)
          BY <5>1, UnderClosed, UnderLeast
        <5> QED  BY <3>3, <5>2
      <4>2. Under(L, L[o]) \subseteq Under(K, K[o]) \cup Under(K, S)
        BY <1>1, <3>1, GraftOn
      <4> QED  BY <3>1, <4>1, <4>2
    <3> QED  BY <3>2, <3>3
  <2> QED  BY <2>1, <2>2
<1> HIDE DEF L
<1>5. Forest(L)
  BY <1>2, <1>3, <1>4 DEF Forest
<1> QED  BY <1>5 DEF L

LEMMA CutGraft ==
  ASSUME NEW K \in Hierarchy, NEW p \in Owner, NEW S \in SUBSET Control, Unplaced(K, S)
  PROVE  Cut(Graft(K, p, S), S) = K
<1> DEFINE L == Graft(K, p, S)
<1>1. \A o \in Owner : L[o] = IF o = p THEN K[o] \cup S ELSE K[o]
  BY DEF Graft
<1> HIDE DEF L
<1>2. \A o \in Owner : L[o] \ S = K[o]
  BY <1>1 DEF Unplaced
<1>3. Cut(L, S) = [o \in Owner |-> K[o]]
  BY <1>2 DEF Cut
<1> QED  BY <1>3 DEF L, Hierarchy

LEMMA GraftCut ==
  ASSUME NEW K, Forest(K), NEW p \in Owner, NEW S, S \subseteq K[p]
  PROVE  Graft(Cut(K, S), p, S) = K
<1>1. \A o \in Owner : Graft(Cut(K, S), p, S)[o] = K[o]
  BY DEF Cut, Graft, Forest
<1> QED  BY <1>1 DEF Graft, Hierarchy, Forest

(* What hangs off somebody who is off the form is off the form. *)
LEMMA OffForm ==
  ASSUME NEW K, Forest(K), NEW S \in SUBSET Control, Unplaced(K, S)
  PROVE  Under(K, S) \cap Under(K, {Base}) = {}
<1> DEFINE Y == Under(K, {Base}) \ Under(K, S)
<1>1. Base \notin Under(K, S)
  BY Bases DEF Under
<1>2. {Base} \subseteq Y
  BY <1>1, UnderClosed
<1>3. Children(K, Y) \subseteq Y
  <2> SUFFICES ASSUME NEW c \in Control, NEW o \in Owner \cap Y, c \in K[o] PROVE c \in Y
    BY DEF Children
  <2>1. c \in Under(K, {Base})
    <3>1. c \in Children(K, Under(K, {Base}))
      BY DEF Children
    <3> QED  BY <3>1, UnderClosed
  <2>2. c \notin Under(K, S)
    <3> SUFFICES ASSUME c \in Under(K, S) PROVE FALSE
      OBVIOUS
    <3>1. c \notin S
      BY DEF Unplaced
    <3>2. PICK q \in Owner : q \in Under(K, S) /\ c \in K[q]
      BY <3>1, UnderParent
    <3>3. q = o
      BY <3>2 DEF Forest
    <3> QED  BY <3>2, <3>3
  <2> QED  BY <2>1, <2>2
<1> HIDE DEF Y
<1>4. Under(K, {Base}) \subseteq Y
  BY <1>2, <1>3, UnderLeast
<1> QED  BY <1>4 DEF Y

(* The controls S of the container q move to p.                            *)
Moved(K, S, p) == Graft(Cut(K, S), p, S)

LEMMA MovedIs ==
  ASSUME NEW K, Forest(K), NEW p \in Owner, NEW q \in Owner, p # q,
         NEW S, S \subseteq K[q], p \notin Under(K, S)
  PROVE  /\ Forest(Moved(K, S, p))
         /\ \A o \in Owner : Moved(K, S, p)[o] = IF o = p THEN K[o] \cup S ELSE K[o] \ S
         /\ Moved(Moved(K, S, p), S, q) = K
         /\ q \notin Under(K, S) /\ q \notin Under(Moved(K, S, p), S)
         /\ \A X : Under(K, X) \subseteq Under(Moved(K, S, p), X) \cup Under(K, S)
         /\ \A X : p \in Under(K, X) => Under(K, X) \subseteq Under(Moved(K, S, p), X)
<1> DEFINE C == Cut(K, S)
           L == Moved(K, S, p)
<1>1. /\ K \in Hierarchy /\ K[p] \cap K[q] = {} /\ S \in SUBSET Control
      /\ \A o \in Owner : o # q => K[o] \cap S = {}
  BY DEF Forest, Hierarchy
<1>2. /\ Forest(C) /\ Unplaced(C, S) /\ C \in Hierarchy
      /\ \A X : Under(C, X) \subseteq Under(K, X)
      /\ \A o \in Owner : C[o] = K[o] \ S
  BY CutForest DEF Forest, Cut
<1>3. L = Graft(C, p, S)
  BY DEF Moved
<1> HIDE DEF C, L
<1>4. p \notin Under(C, S)
  BY <1>2
<1>5. Forest(L)
  BY <1>1, <1>2, <1>3, <1>4, GraftForest
<1>6. \A o \in Owner : L[o] = IF o = p THEN K[o] \cup S ELSE K[o] \ S
  <2>1. \A o \in Owner : L[o] = IF o = p THEN C[o] \cup S ELSE C[o]
    BY <1>3 DEF Graft
  <2> QED  BY <1>2, <2>1
<1>7. Moved(L, S, q) = K
  <2>1. Cut(L, S) = C
    BY <1>1, <1>2, <1>3, CutGraft
  <2>2. Graft(C, q, S) = K
    BY GraftCut DEF C
  <2> QED  BY <2>1, <2>2 DEF Moved
<1>8. q \notin Under(K, S)
  <2>1. Under(K, S) \subseteq Under(K, K[q])
    BY UnderMore
  <2> QED  BY <2>1 DEF Forest
<1>9. q \notin Under(L, S)
  <2>1. Under(L, S) = Under(C, S)
    BY <1>1, <1>2, <1>3, <1>4, GraftOff
  <2> QED  BY <1>2, <1>8, <2>1
<1>10. ASSUME NEW X PROVE Under(K, X) \subseteq Under(L, X) \cup Under(K, S)
  <2>1. Under(C, X) \subseteq Under(L, X)
    BY <1>1, <1>2, <1>3, GraftIs
  <2> QED  BY <1>1, <2>1, CutAround DEF C
<1>11. ASSUME NEW X, p \in Under(K, X) PROVE Under(K, X) \subseteq Under(L, X)
  <2> DEFINE Y == Under(L, X)
  <2>1. p \in Y
    BY <1>10, <1>11
  <2>2. S \subseteq Y
    <3>1. S \subseteq Children(L, Y)
      BY <1>1, <1>6, <2>1 DEF Children
    <3> QED  BY <3>1, UnderClosed
  <2>3. Children(K, Y) \subseteq Y
    <3> SUFFICES ASSUME NEW c \in Control, NEW o \in Owner \cap Y, c \in K[o], c \notin S
                 PROVE  c \in Y
      BY <2>2 DEF Children
    <3>1. c \in Children(L, Y)
      BY <1>6 DEF Children
    <3> QED  BY <3>1, UnderClosed
  <2>4. X \subseteq Y
    BY UnderClosed
  <2> HIDE DEF Y
  <2>5. Under(K, X) \subseteq Y
    BY <2>3, <2>4, UnderLeast
  <2> QED  BY <2>5 DEF Y
<1> QED  BY <1>5, <1>6, <1>7, <1>8, <1>9, <1>10, <1>11 DEF L

-----------------------------------------------------------------------------
(* Forms.  A shape is a form whose locations need not be in the bound.     *)

Shape == [kids : [Owner -> Seq(Control)], loc : [Control -> Int]]

(* A list of children names nobody twice, and they are a hierarchy.        *)
Trees(f) == (\A o \in Owner : IsInjective(f.kids[o])) /\ Forest(KidsOf(f))

LEMMA Locs == Loc \subseteq Int /\ 0 \in Loc
  BY SelectionAssumption DEF Loc

LEMMA FormIsShape ==
  /\ Form \subseteq Shape
  /\ \A f \in Shape : Fits(f) => f \in Form
<1>1. Form \subseteq Shape
  BY Locs DEF Form, Shape
<1>2. ASSUME NEW f \in Shape, Fits(f) PROVE f \in Form
  <2>1. /\ f = [kids |-> f.kids, loc |-> f.loc]
        /\ f.kids \in [Owner -> Seq(Control)] /\ f.loc \in [Control -> Int]
    BY DEF Shape
  <2>2. f.loc \in [Control -> Loc]
    BY <1>2, <2>1 DEF Fits
  <2> QED  BY <2>1, <2>2 DEF Form
<1> QED  BY <1>1, <1>2

LEMMA InsertIs ==
  ASSUME NEW f \in Shape, NEW p \in Owner, NEW cs \in Seq(Control)
  PROVE  LET g == insert(f, p, cs) IN
         /\ g \in Shape /\ g.loc = f.loc /\ (f \in Form => g \in Form)
         /\ KidsOf(g) = Graft(KidsOf(f), p, ToSet(cs))
         /\ \A o \in Owner : g.kids[o] = IF o = p THEN f.kids[o] \o cs ELSE f.kids[o]
         /\ (\A o \in Owner : IsInjective(f.kids[o])) /\ IsInjective(cs)
              /\ ToSet(cs) \cap KidsOf(f)[p] = {}
            => \A o \in Owner : IsInjective(g.kids[o])
<1> DEFINE g == insert(f, p, cs)
<1>1. f.kids \in [Owner -> Seq(Control)] /\ f.kids[p] \in Seq(Control)
  BY DEF Shape
<1>2. /\ f.kids[p] \o cs \in Seq(Control)
      /\ ToSet(f.kids[p] \o cs) = ToSet(f.kids[p]) \cup ToSet(cs)
      /\ IsInjective(f.kids[p]) /\ IsInjective(cs) /\ ToSet(f.kids[p]) \cap ToSet(cs) = {}
           => IsInjective(f.kids[p] \o cs)
  BY <1>1, ConcatSet
<1>3. g.loc = f.loc /\ g.kids = [f.kids EXCEPT ![p] = f.kids[p] \o cs]
  BY DEF Shape, insert
<1>4. g \in Shape /\ (f \in Form => g \in Form)
  BY <1>1, <1>2 DEF Shape, Form, insert
<1> HIDE DEF g
<1>5. \A o \in Owner : g.kids[o] = IF o = p THEN f.kids[o] \o cs ELSE f.kids[o]
  BY <1>1, <1>3
<1>6. \A o \in Owner : KidsOf(g)[o] = IF o = p THEN KidsOf(f)[o] \cup ToSet(cs)
                                      ELSE KidsOf(f)[o]
  BY <1>2, <1>5 DEF KidsOf
<1>7. KidsOf(g) = Graft(KidsOf(f), p, ToSet(cs))
  BY <1>6 DEF KidsOf, Graft
<1>8. ASSUME \A o \in Owner : IsInjective(f.kids[o]), IsInjective(cs),
             ToSet(cs) \cap KidsOf(f)[p] = {}, NEW o \in Owner
      PROVE  IsInjective(g.kids[o])
  <2>1. KidsOf(f)[p] = ToSet(f.kids[p])
    BY DEF KidsOf
  <2> QED  BY <1>2, <1>5, <1>8, <2>1
<1> QED  BY <1>3, <1>4, <1>5, <1>7, <1>8 DEF g

LEMMA UnlinkedIs ==
  ASSUME NEW s \in Seq(Control), NEW cs
  PROVE  /\ Unlinked(s, cs) \in Seq(Control)
         /\ ToSet(Unlinked(s, cs)) = ToSet(s) \ ToSet(cs)
         /\ IsInjective(s) => IsInjective(Unlinked(s, cs))
         /\ ToSet(s) \cap ToSet(cs) = {} => Unlinked(s, cs) = s
<1>1. ToSet(s) \subseteq Control
  BY ToSetIs
<1>2. /\ Unlinked(s, cs) \in Seq(Control)
      /\ ToSet(Unlinked(s, cs)) = ToSet(s) \cap (Control \ ToSet(cs))
      /\ IsInjective(s) => IsInjective(Unlinked(s, cs))
      /\ ToSet(s) \subseteq Control \ ToSet(cs) => Unlinked(s, cs) = s
  BY AmongIs DEF Unlinked
<1> QED  BY <1>1, <1>2

LEMMA RemoveIs ==
  ASSUME NEW f \in Shape, NEW p \in Owner, NEW cs
  PROVE  LET g == remove(f, p, cs) IN
         /\ g \in Shape /\ g.loc = f.loc /\ (f \in Form => g \in Form)
         /\ Forest(KidsOf(f)) /\ ToSet(cs) \subseteq KidsOf(f)[p]
              => KidsOf(g) = Cut(KidsOf(f), ToSet(cs))
         /\ \A o \in Owner : ToSet(g.kids[o]) \subseteq ToSet(f.kids[o])
         /\ \A o \in Owner : IsInjective(f.kids[o]) => IsInjective(g.kids[o])
<1> DEFINE g == remove(f, p, cs)
<1>1. f.kids \in [Owner -> Seq(Control)] /\ f.kids[p] \in Seq(Control)
  BY DEF Shape
<1>2. /\ Unlinked(f.kids[p], cs) \in Seq(Control)
      /\ ToSet(Unlinked(f.kids[p], cs)) = ToSet(f.kids[p]) \ ToSet(cs)
      /\ IsInjective(f.kids[p]) => IsInjective(Unlinked(f.kids[p], cs))
  BY <1>1, UnlinkedIs
<1>3. g.loc = f.loc /\ g.kids = [f.kids EXCEPT ![p] = Unlinked(f.kids[p], cs)]
  BY DEF Shape, remove
<1>4. g \in Shape /\ (f \in Form => g \in Form)
  BY <1>1, <1>2 DEF Shape, Form, remove
<1> HIDE DEF g
<1>5. \A o \in Owner : g.kids[o] = IF o = p THEN Unlinked(f.kids[o], cs) ELSE f.kids[o]
  BY <1>1, <1>3
<1>6. \A o \in Owner : KidsOf(g)[o] = IF o = p THEN KidsOf(f)[o] \ ToSet(cs)
                                      ELSE KidsOf(f)[o]
  BY <1>2, <1>5 DEF KidsOf
<1>7. ASSUME Forest(KidsOf(f)), ToSet(cs) \subseteq KidsOf(f)[p]
      PROVE  KidsOf(g) = Cut(KidsOf(f), ToSet(cs))
  <2>1. \A o \in Owner : o # p => KidsOf(f)[o] \ ToSet(cs) = KidsOf(f)[o]
    BY <1>7 DEF Forest
  <2>2. \A o \in Owner : KidsOf(g)[o] = KidsOf(f)[o] \ ToSet(cs)
    BY <1>6, <2>1
  <2> QED  BY <2>2 DEF Cut, KidsOf
<1>8. \A o \in Owner : ToSet(g.kids[o]) \subseteq ToSet(f.kids[o])
  BY <1>2, <1>5
<1>9. \A o \in Owner : IsInjective(f.kids[o]) => IsInjective(g.kids[o])
  BY <1>2, <1>5
<1> QED  BY <1>3, <1>4, <1>7, <1>8, <1>9 DEF g

LEMMA Remove1Is ==
  ASSUME NEW f \in Form, NEW cs
  PROVE  LET g == remove1(f, cs) IN
         /\ g \in Form /\ g.loc = f.loc
         /\ KidsOf(g) = Cut(KidsOf(f), ToSet(cs))
         /\ \A o \in Owner : IsInjective(f.kids[o]) => IsInjective(g.kids[o])
<1> DEFINE g == remove1(f, cs)
<1>1. \A o \in Owner : f.kids[o] \in Seq(Control)
  BY DEF Form
<1>2. g.loc = f.loc /\ g.kids = [o \in Owner |-> Unlinked(f.kids[o], cs)]
  BY DEF Form, remove1
<1>3. ASSUME NEW o \in Owner
      PROVE  /\ Unlinked(f.kids[o], cs) \in Seq(Control)
             /\ ToSet(Unlinked(f.kids[o], cs)) = ToSet(f.kids[o]) \ ToSet(cs)
             /\ IsInjective(f.kids[o]) => IsInjective(Unlinked(f.kids[o], cs))
  BY <1>1, UnlinkedIs
<1>4. g.kids \in [Owner -> Seq(Control)]
  BY <1>2, <1>3
<1>5. g \in Form
  BY <1>4 DEF Form, remove1
<1> HIDE DEF g
<1>6. KidsOf(g) = Cut(KidsOf(f), ToSet(cs))
  BY <1>2, <1>3 DEF KidsOf, Cut
<1> QED  BY <1>2, <1>3, <1>5, <1>6 DEF g

LEMMA MoveAllIs ==
  ASSUME NEW f \in Shape, NEW cs, NEW d \in Int
  PROVE  LET g == moveAll(f, cs, d) IN
         /\ g \in Shape /\ g.kids = f.kids /\ KidsOf(g) = KidsOf(f)
         /\ \A c \in Control : g.loc[c] = f.loc[c] + IF c \in ToSet(cs) THEN d ELSE 0
<1> DEFINE g == moveAll(f, cs, d)
<1>1. \A c \in Control : f.loc[c] \in Int
  BY DEF Shape
<1>2. /\ g.kids = f.kids
      /\ g.loc = [c \in Control |-> IF c \in ToSet(cs) THEN f.loc[c] + d ELSE f.loc[c]]
  BY DEF Shape, moveAll
<1>3. g.loc \in [Control -> Int]
  BY <1>1, <1>2
<1>4. g \in Shape
  BY <1>3 DEF Shape, moveAll
<1> HIDE DEF g
<1>5. \A c \in Control : g.loc[c] = f.loc[c] + IF c \in ToSet(cs) THEN d ELSE 0
  BY <1>1, <1>2
<1> QED  BY <1>2, <1>4, <1>5 DEF g, KidsOf

LEMMA SetLocationsIs ==
  ASSUME NEW f \in Shape, NEW cs \in Seq(Control), NEW locs \in Seq(Loc),
         Len(locs) = Len(cs)
  PROVE  LET g == setLocations(f, cs, locs) IN
         /\ g \in Shape /\ g.kids = f.kids /\ KidsOf(g) = KidsOf(f)
         /\ f \in Form => g \in Form
         /\ \A c \in Control \ ToSet(cs) : g.loc[c] = f.loc[c]
         /\ IsInjective(cs) => \A i \in DOMAIN cs : g.loc[cs[i]] = locs[i]
<1> DEFINE g == setLocations(f, cs, locs)
           at(c) == CHOOSE i \in DOMAIN cs : cs[i] = c
<1>1. \A c \in ToSet(cs) : at(c) \in DOMAIN cs /\ cs[at(c)] = c
  BY DEF ToSet
<1>2. \A i \in DOMAIN cs : locs[i] \in Loc /\ cs[i] \in Control /\ cs[i] \in ToSet(cs)
  BY DEF ToSet
<1>3. /\ g.kids = f.kids
      /\ g.loc = [c \in Control |-> IF c \in ToSet(cs) THEN locs[at(c)] ELSE f.loc[c]]
  BY DEF Shape, setLocations
<1> HIDE DEF at
<1>8. \A c \in Control : /\ f.loc[c] \in Int
                         /\ f \in Form => f.loc[c] \in Loc
                         /\ c \in ToSet(cs) => locs[at(c)] \in Loc
  BY <1>1, <1>2 DEF Shape, Form
<1> DEFINE new(c) == IF c \in ToSet(cs) THEN locs[at(c)] ELSE f.loc[c]
<1>9. \A c \in Control : new(c) \in Int /\ (f \in Form => new(c) \in Loc)
  BY <1>8, Locs
<1>10. g.loc = [c \in Control |-> new(c)]
  BY <1>3
<1> HIDE DEF new
<1>4. g.loc \in [Control -> Int] /\ (f \in Form => g.loc \in [Control -> Loc])
  BY <1>9, <1>10
<1>5. g \in Shape /\ (f \in Form => g \in Form)
  BY <1>4 DEF Shape, Form, setLocations
<1> HIDE DEF g
<1>6. ASSUME IsInjective(cs), NEW i \in DOMAIN cs PROVE g.loc[cs[i]] = locs[i]
  <2>1. at(cs[i]) = i
    BY <1>1, <1>2, <1>6 DEF IsInjective
  <2> QED  BY <1>2, <1>3, <2>1
<1>7. \A c \in Control \ ToSet(cs) : g.loc[c] = f.loc[c]
  BY <1>3
<1> QED  BY <1>3, <1>5, <1>6, <1>7 DEF g, KidsOf

LEMMA LocationsIs ==
  ASSUME NEW f \in Form, NEW cs \in Seq(Control)
  PROVE  /\ Locations(f, cs) \in Seq(Loc) /\ Len(Locations(f, cs)) = Len(cs)
         /\ \A i \in DOMAIN cs : Locations(f, cs)[i] = f.loc[cs[i]]
<1>1. \A i \in 1 .. Len(cs) : f.loc[cs[i]] \in Loc
  BY DEF Form
<1>2. Locations(f, cs) = [i \in 1 .. Len(cs) |-> f.loc[cs[i]]]
  BY DEF Locations
<1> QED  BY <1>1, <1>2

LEMMA AttachedIs ==
  ASSUME NEW f \in Shape
  PROVE  /\ Attached(f) = Under(KidsOf(f), {Base}) \ {Base}
         /\ Attached(f) \subseteq Control
         /\ AttachedOwner(f) = Owner \cap Under(KidsOf(f), {Base})
         /\ Base \in AttachedOwner(f)
<1>1. Below(f, {Base}) = Under(KidsOf(f), {Base})
  BY BelowIsUnder DEF Shape
<1>2. Base \in Under(KidsOf(f), {Base}) /\ Under(KidsOf(f), {Base}) \subseteq Control \cup {Base}
  BY UnderClosed, UnderSubset
<1> QED  BY <1>1, <1>2, Bases DEF Attached, AttachedOwner

LEMMA ParentIs ==
  ASSUME NEW f, Forest(KidsOf(f)), NEW o \in Owner, NEW c \in KidsOf(f)[o]
  PROVE  ParentOf(f, c) = o
<1>1. \A q \in Owner : ToSet(f.kids[q]) = KidsOf(f)[q]
  BY DEF KidsOf
<1>2. /\ ParentOf(f, c) \in Owner /\ c \in ToSet(f.kids[ParentOf(f, c)])
  BY <1>1 DEF ParentOf
<1> QED  BY <1>1, <1>2 DEF Forest

LEMMA AttachedChild ==
  ASSUME NEW f \in Shape
  PROVE  /\ \A c \in Attached(f) : \E o \in AttachedOwner(f) : c \in KidsOf(f)[o]
         /\ \A o \in AttachedOwner(f) : KidsOf(f)[o] \subseteq Attached(f)
<1>1. KidsOf(f) \in Hierarchy
  BY KidsIn DEF Shape
<1>2. ASSUME NEW c \in Attached(f)
      PROVE  \E o \in AttachedOwner(f) : c \in KidsOf(f)[o]
  BY AttachedIs, UnderParent
<1>3. ASSUME NEW o \in AttachedOwner(f) PROVE KidsOf(f)[o] \subseteq Attached(f)
  <2>1. o \in Owner /\ o \in Under(KidsOf(f), {Base})
    BY AttachedIs
  <2>2. KidsOf(f)[o] \subseteq Children(KidsOf(f), Under(KidsOf(f), {Base}))
    BY <1>1, <2>1 DEF Children, Hierarchy
  <2>3. KidsOf(f)[o] \subseteq Control
    BY <1>1, <2>1 DEF Hierarchy
  <2> QED  BY <2>2, <2>3, UnderClosed, AttachedIs, Bases
<1> QED  BY <1>2, <1>3

(* The view of a form: who is on it, in which container and where.         *)
LEMMA SameView ==
  ASSUME NEW f \in Shape, NEW g \in Shape, Forest(KidsOf(f)), Forest(KidsOf(g)),
         \A o \in Owner : KidsOf(f)[o] \subseteq KidsOf(g)[o],
         Attached(g) = Attached(f),
         \A c \in Attached(f) : g.loc[c] = f.loc[c]
  PROVE  View(g) = View(f)
<1>1. ASSUME NEW c \in Attached(f) PROVE ParentOf(g, c) = ParentOf(f, c)
  <2>1. PICK o \in Owner : c \in KidsOf(f)[o]
    BY AttachedChild, AttachedIs
  <2> QED  BY <2>1, ParentIs
<1> QED  BY <1>1 DEF View

LEMMA SameKidsView ==
  ASSUME NEW f \in Shape, NEW g \in Shape, Forest(KidsOf(f)),
         KidsOf(g) = KidsOf(f), \A c \in Attached(f) : g.loc[c] = f.loc[c]
  PROVE  View(g) = View(f)
<1>1. Attached(g) = Attached(f)
  BY AttachedIs
<1>2. Forest(KidsOf(g)) /\ \A o \in Owner : KidsOf(f)[o] \subseteq KidsOf(g)[o]
  OBVIOUS
<1>3. \A c \in Attached(f) : g.loc[c] = f.loc[c]
  OBVIOUS
<1> QED  BY ONLY f \in Shape, g \in Shape, Forest(KidsOf(f)), <1>1, <1>2, <1>3, SameView

-----------------------------------------------------------------------------
(* Commands.                                                               *)

(* A command names its controls once, and as many places.                  *)
Sound(B) ==
  {cmd \in Commands :
     /\ IsInjective(cmd.on) /\ ToSet(cmd.on) \subseteq B
     /\ cmd.kind = "MOVE" => Len(cmd.val) = Len(cmd.on) /\ (cmd.on = <<>> => cmd.hole)}

LEMMA SoundIs ==
  ASSUME NEW B, NEW cmd \in Sound(B)
  PROVE  /\ cmd = [kind |-> cmd.kind, on |-> cmd.on, at |-> cmd.at,
                   val |-> cmd.val, hole |-> cmd.hole]
         /\ cmd.kind \in {"ADD", "DELETE", "MOVE"} /\ cmd.hole \in BOOLEAN
         /\ cmd.on \in Seq(Control) /\ cmd.val \in Seq(Loc)
         /\ cmd.at \in Owner \cup {NoContainer}
         /\ IsInjective(cmd.on) /\ ToSet(cmd.on) \subseteq B
         /\ ToSet(cmd.on) \in SUBSET Control
         /\ cmd.kind = "MOVE" => Len(cmd.val) = Len(cmd.on) /\ (cmd.on = <<>> => cmd.hole)
<1>1. /\ cmd \in Commands /\ IsInjective(cmd.on) /\ ToSet(cmd.on) \subseteq B
      /\ cmd.kind = "MOVE" => Len(cmd.val) = Len(cmd.on) /\ (cmd.on = <<>> => cmd.hole)
  BY DEF Sound
<1>2. /\ cmd = [kind |-> cmd.kind, on |-> cmd.on, at |-> cmd.at,
                val |-> cmd.val, hole |-> cmd.hole]
      /\ cmd.kind \in {"ADD", "DELETE", "MOVE"} /\ cmd.hole \in BOOLEAN
      /\ cmd.on \in Seq(Control) /\ cmd.val \in Seq(Loc)
      /\ cmd.at \in Owner \cup {NoContainer}
  BY <1>1 DEF Commands
<1>3. ToSet(cmd.on) \in SUBSET Control
  BY ONLY <1>2, ToSetIs
<1> QED  BY ONLY <1>1, <1>2, <1>3

(* What can be lived in. *)
Places == Control \cup {Base}

(* The form g has the places of f, but for the controls cs, which have locs. *)
SamePlaces(g, f) == g.loc = f.loc
Puts(g, f, cs, locs) ==
  /\ \A c \in Control \ ToSet(cs) : g.loc[c] = f.loc[c]
  /\ \A i \in DOMAIN cs : g.loc[cs[i]] = locs[i]

(* Executing an addition takes the controls out. *)
LEMMA AddIs ==
  ASSUME NEW f \in Form, Trees(f), NEW B, NEW cmd \in Sound(B), cmd.kind = "ADD",
         NEW A \in SUBSET Places
  PROVE  LET done == execute(f, cmd, A)
             S == ToSet(cmd.on)
         IN
         /\ ~done.bad <=> /\ ~cmd.hole /\ S \subseteq A
                          /\ cmd.at \in Owner \cap A /\ S \subseteq KidsOf(f)[cmd.at]
         /\ ~done.bad =>
              /\ done.form \in Form /\ Trees(done.form) /\ SamePlaces(done.form, f)
              /\ KidsOf(done.form) = Cut(KidsOf(f), S)
              /\ done.cmd = [cmd EXCEPT !.kind = "DELETE"]
<1> DEFINE done == execute(f, cmd, A)
           S == ToSet(cmd.on)
           run == executeAdd(f, cmd, A)
           free == ~cmd.hole /\ S \subseteq A
<1>1. /\ done.bad = IF free THEN run.bad ELSE TRUE
      /\ free => done = run
  <2>1. CASE free
    BY <2>1 DEF execute
  <2>2. CASE ~free
    BY <2>2 DEF execute
  <2> QED  BY <2>1, <2>2
<1>2. /\ run.form = remove(f, cmd.at, cmd.on) /\ run.cmd = [cmd EXCEPT !.kind = "DELETE"]
      /\ run.bad <=> cmd.at \notin A \/ \E c \in S : c \notin ToSet(f.kids[cmd.at])
  BY DEF executeAdd
<1> HIDE DEF done, run
<1>3. cmd.at \in Owner \cup {NoContainer} /\ NoContainer \notin A /\ f \in Shape
  BY SoundIs, SelectionAssumption, FormIsShape DEF Places
<1>4. \A o \in Owner : KidsOf(f)[o] = ToSet(f.kids[o])
  BY DEF KidsOf
<1>5. ~done.bad <=> free /\ cmd.at \in Owner \cap A /\ S \subseteq KidsOf(f)[cmd.at]
  BY <1>1, <1>2, <1>3, <1>4
<1>6. ASSUME ~done.bad
      PROVE  /\ done.form \in Form /\ Trees(done.form) /\ SamePlaces(done.form, f)
             /\ KidsOf(done.form) = Cut(KidsOf(f), S)
             /\ done.cmd = [cmd EXCEPT !.kind = "DELETE"]
  <2>1. /\ cmd.at \in Owner /\ S \subseteq KidsOf(f)[cmd.at] /\ done = run
        /\ Forest(KidsOf(f))
    BY <1>1, <1>5, <1>6 DEF Trees
  <2>2. /\ done.form \in Form /\ done.form.loc = f.loc
        /\ KidsOf(done.form) = Cut(KidsOf(f), S)
        /\ \A o \in Owner : IsInjective(f.kids[o]) => IsInjective(done.form.kids[o])
    BY <1>2, <1>3, <2>1, RemoveIs
  <2>3. Forest(KidsOf(done.form))
    BY <2>1, <2>2, CutForest
  <2> QED  BY <1>2, <2>1, <2>2, <2>3 DEF Trees, SamePlaces
<1> QED  BY <1>5, <1>6 DEF done

(* Executing a deletion puts them in again, into a container that is not   *)
(* one of them nor in one of them.                                         *)
LEMMA DeleteIs ==
  ASSUME NEW f \in Form, Trees(f), NEW B, NEW cmd \in Sound(B), cmd.kind = "DELETE",
         NEW A \in SUBSET Places
  PROVE  LET done == execute(f, cmd, A)
             S == ToSet(cmd.on)
         IN
         /\ ~done.bad <=> /\ ~cmd.hole /\ S \subseteq A
                          /\ cmd.at \in Owner \cap A /\ Unplaced(KidsOf(f), S)
         /\ ~done.bad /\ cmd.at \notin Under(KidsOf(f), S) =>
              /\ done.form \in Form /\ Trees(done.form) /\ SamePlaces(done.form, f)
              /\ KidsOf(done.form) = Graft(KidsOf(f), cmd.at, S)
              /\ done.cmd = [cmd EXCEPT !.kind = "ADD"]
<1> DEFINE done == execute(f, cmd, A)
           S == ToSet(cmd.on)
           run == executeDelete(f, cmd, A)
           free == ~cmd.hole /\ S \subseteq A
<1>1. /\ done.bad = IF free THEN run.bad ELSE TRUE
      /\ free => done = run
  <2>1. CASE free
    BY <2>1 DEF execute
  <2>2. CASE ~free
    BY <2>2 DEF execute
  <2> QED  BY <2>1, <2>2
<1>2. /\ run.form = insert(f, cmd.at, cmd.on) /\ run.cmd = [cmd EXCEPT !.kind = "ADD"]
      /\ run.bad <=> cmd.at \notin A \/ \E c \in S : Placed(f, c)
  BY DEF executeDelete
<1> HIDE DEF done, run
<1>3. /\ cmd.at \in Owner \cup {NoContainer} /\ NoContainer \notin A /\ f \in Shape
      /\ cmd.on \in Seq(Control) /\ IsInjective(cmd.on) /\ S \in SUBSET Control
  BY SoundIs, SelectionAssumption, FormIsShape DEF Places
<1>4. (\E c \in S : Placed(f, c)) <=> ~Unplaced(KidsOf(f), S)
  BY DEF KidsOf, Unplaced, Placed
<1>5. ~done.bad <=> free /\ cmd.at \in Owner \cap A /\ Unplaced(KidsOf(f), S)
  BY <1>1, <1>2, <1>3, <1>4
<1>6. ASSUME ~done.bad, cmd.at \notin Under(KidsOf(f), S)
      PROVE  /\ done.form \in Form /\ Trees(done.form) /\ SamePlaces(done.form, f)
             /\ KidsOf(done.form) = Graft(KidsOf(f), cmd.at, S)
             /\ done.cmd = [cmd EXCEPT !.kind = "ADD"]
  <2>1. /\ cmd.at \in Owner /\ Unplaced(KidsOf(f), S) /\ done = run
        /\ Forest(KidsOf(f)) /\ \A o \in Owner : IsInjective(f.kids[o])
    BY <1>1, <1>5, <1>6 DEF Trees
  <2>2. S \cap KidsOf(f)[cmd.at] = {}
    BY <2>1 DEF Unplaced
  <2>3. /\ done.form \in Form /\ done.form.loc = f.loc
        /\ KidsOf(done.form) = Graft(KidsOf(f), cmd.at, S)
        /\ \A o \in Owner : IsInjective(done.form.kids[o])
    BY <1>2, <1>3, <2>1, <2>2, InsertIs
  <2>4. Forest(KidsOf(done.form))
    BY <1>3, <1>6, <2>1, <2>3, GraftForest
  <2> QED  BY <1>2, <2>1, <2>3, <2>4 DEF Trees, SamePlaces
<1> QED  BY <1>5, <1>6 DEF done

(* What a move between two containers does to the form. *)
LEMMA TakeAcross ==
  ASSUME NEW f \in Shape, Trees(f), NEW cs \in Seq(Control), IsInjective(cs),
         NEW q \in Owner, NEW p \in Owner, p # q,
         ToSet(cs) \subseteq KidsOf(f)[q], p \notin Under(KidsOf(f), ToSet(cs))
  PROVE  LET g == insert(remove(f, q, cs), p, cs) IN
         /\ g \in Shape /\ Trees(g) /\ g.loc = f.loc /\ (f \in Form => g \in Form)
         /\ KidsOf(g) = Moved(KidsOf(f), ToSet(cs), p)
<1> DEFINE h == remove(f, q, cs)
           g == insert(h, p, cs)
           S == ToSet(cs)
<1>1. Forest(KidsOf(f)) /\ \A o \in Owner : IsInjective(f.kids[o])
  BY DEF Trees
<1>2. /\ h \in Shape /\ h.loc = f.loc /\ (f \in Form => h \in Form)
      /\ KidsOf(h) = Cut(KidsOf(f), S)
      /\ \A o \in Owner : IsInjective(h.kids[o])
  BY <1>1, RemoveIs
<1>3. S \cap KidsOf(h)[p] = {}
  BY <1>2 DEF Cut
<1>3a. h \in Shape /\ \A o \in Owner : IsInjective(h.kids[o])
  BY <1>2
<1> HIDE DEF h
<1>4. /\ g \in Shape /\ g.loc = h.loc /\ (h \in Form => g \in Form)
      /\ KidsOf(g) = Graft(KidsOf(h), p, S)
      /\ \A o \in Owner : IsInjective(g.kids[o])
  BY ONLY p \in Owner, cs \in Seq(Control), IsInjective(cs), <1>3, <1>3a, InsertIs
<1> HIDE DEF g
<1>5. KidsOf(g) = Moved(KidsOf(f), S, p)
  BY <1>2, <1>4 DEF Moved
<1>6. Forest(KidsOf(g))
  BY <1>1, <1>5, MovedIs
<1> QED  BY <1>2, <1>4, <1>5, <1>6 DEF g, h, Trees

(* Executing a move puts its controls where they were, and back into their *)
(* container when they left it.                                            *)
LEMMA MoveIs ==
  ASSUME NEW f \in Form, Trees(f), NEW B, NEW cmd \in Sound(B), cmd.kind = "MOVE",
         NEW A \in SUBSET Places
  PROVE  LET done == execute(f, cmd, A)
             S == ToSet(cmd.on)
             K == KidsOf(f)
             q == ParentOf(f, cmd.on[1])
         IN
         /\ ~done.bad <=>
              /\ ~cmd.hole /\ S \subseteq A /\ Placed(f, cmd.on[1])
              /\ \/ cmd.at \in {NoContainer, q}
                 \/ /\ S \subseteq K[q] /\ {q, cmd.at} \subseteq Owner \cap A
                    /\ cmd.at \notin Under(K, S)
         /\ ~done.bad =>
              /\ q \in Owner /\ cmd.on # <<>> /\ cmd.on[1] \in K[q]
              /\ done.form \in Form /\ Trees(done.form)
              /\ KidsOf(done.form) =
                   IF cmd.at \in {NoContainer, q} THEN K ELSE Moved(K, S, cmd.at)
              /\ Puts(done.form, f, cmd.on, cmd.val)
              /\ done.cmd = [cmd EXCEPT !.val = Locations(f, cmd.on), !.at = q]
<1> DEFINE done == execute(f, cmd, A)
           S == ToSet(cmd.on)
           K == KidsOf(f)
           q == ParentOf(f, cmd.on[1])
           run == executeMove(f, cmd, A)
           free == ~cmd.hole /\ S \subseteq A /\ Placed(f, cmd.on[1])
           stays == cmd.at \in {NoContainer, q}
           g == setLocations(f, cmd.on, cmd.val)
<1>1. /\ done.bad = IF free THEN run.bad ELSE TRUE
      /\ free => done = run
  <2>1. CASE free
    BY <2>1 DEF execute
  <2>2. CASE ~free
    BY <2>2 DEF execute
  <2> QED  BY <2>1, <2>2
<1>2. /\ run.form = IF stays THEN g ELSE insert(remove(g, q, cmd.on), cmd.at, cmd.on)
      /\ run.cmd = [cmd EXCEPT !.val = Locations(f, cmd.on), !.at = q]
      /\ run.bad <=> ~stays /\ \/ ~(S \subseteq ToSet(f.kids[q]))
                               \/ ~({q, cmd.at} \subseteq Owner \cap A)
                               \/ cmd.at \in Below(f, S)
  BY DEF executeMove, Crosses
<1>3. /\ f \in Shape /\ cmd.on \in Seq(Control) /\ IsInjective(cmd.on)
      /\ S \in SUBSET Control /\ cmd.val \in Seq(Loc) /\ Len(cmd.val) = Len(cmd.on)
      /\ cmd.on = <<>> => cmd.hole
  BY SoundIs, FormIsShape
<1>4. Below(f, S) = Under(K, S)
  BY <1>3, BelowIsUnder DEF Shape
<1>5. Placed(f, cmd.on[1]) => q \in Owner /\ cmd.on[1] \in ToSet(f.kids[q])
  BY DEF Placed, ParentOf
<1>6. \A o \in Owner : K[o] = ToSet(f.kids[o])
  BY DEF KidsOf
<1>7. /\ g \in Form /\ g \in Shape /\ g.kids = f.kids /\ KidsOf(g) = K
      /\ Puts(g, f, cmd.on, cmd.val)
  BY <1>3, SetLocationsIs DEF Puts
<1> HIDE DEF done, run, K, q, g
<1>8. ~done.bad <=>
        /\ free
        /\ \/ stays
           \/ /\ S \subseteq K[q] /\ {q, cmd.at} \subseteq Owner \cap A
              /\ cmd.at \notin Under(K, S)
  BY <1>1, <1>2, <1>4, <1>5, <1>6
<1>9. ASSUME ~done.bad
      PROVE  /\ q \in Owner /\ cmd.on # <<>> /\ cmd.on[1] \in K[q]
             /\ done.form \in Form /\ Trees(done.form)
             /\ KidsOf(done.form) = IF stays THEN K ELSE Moved(K, S, cmd.at)
             /\ Puts(done.form, f, cmd.on, cmd.val)
             /\ done.cmd = [cmd EXCEPT !.val = Locations(f, cmd.on), !.at = q]
  <2>1. done = run /\ q \in Owner /\ cmd.on # <<>> /\ cmd.on[1] \in K[q]
    BY <1>1, <1>3, <1>5, <1>6, <1>8, <1>9
  <2>2. Trees(g)
    BY <1>7 DEF Trees, K
  <2>3. CASE stays
    BY <1>2, <1>7, <2>1, <2>2, <2>3
  <2>4. CASE ~stays
    <3> DEFINE m == insert(remove(g, q, cmd.on), cmd.at, cmd.on)
    <3>1. cmd.at # q /\ cmd.at \in Owner /\ S \subseteq K[q] /\ cmd.at \notin Under(K, S)
      BY <1>8, <1>9, <2>4
    <3>2. m \in Form /\ Trees(m) /\ m.loc = g.loc /\ KidsOf(m) = Moved(K, S, cmd.at)
      BY <1>3, <1>7, <2>1, <2>2, <3>1, TakeAcross
    <3> HIDE DEF m
    <3>3. done.form = m
      BY <1>2, <2>1, <2>4 DEF m
    <3> QED  BY <1>2, <1>7, <2>1, <2>4, <3>2, <3>3 DEF Puts
  <2> QED  BY <2>3, <2>4
<1> QED  BY <1>8, <1>9 DEF done, q, K

(* The same, of a command known to be executable. *)
LEMMA AddRuns ==
  ASSUME NEW f \in Form, Trees(f), NEW B, NEW cmd \in Sound(B), cmd.kind = "ADD",
         NEW A \in SUBSET Places, ~cmd.hole, ToSet(cmd.on) \subseteq A,
         cmd.at \in Owner \cap A, ToSet(cmd.on) \subseteq KidsOf(f)[cmd.at]
  PROVE  /\ ~execute(f, cmd, A).bad
         /\ execute(f, cmd, A).form \in Form /\ Trees(execute(f, cmd, A).form)
         /\ SamePlaces(execute(f, cmd, A).form, f)
         /\ KidsOf(execute(f, cmd, A).form) = Cut(KidsOf(f), ToSet(cmd.on))
<1>1. ~execute(f, cmd, A).bad
  BY AddIs
<1>2. execute(f, cmd, A).form \in Form
  BY <1>1, AddIs
<1>3. Trees(execute(f, cmd, A).form)
  BY <1>1, AddIs
<1>4. SamePlaces(execute(f, cmd, A).form, f)
  BY <1>1, AddIs
<1>5. KidsOf(execute(f, cmd, A).form) = Cut(KidsOf(f), ToSet(cmd.on))
  BY <1>1, AddIs
<1> QED  BY <1>1, <1>2, <1>3, <1>4, <1>5

LEMMA DeleteRuns ==
  ASSUME NEW f \in Form, Trees(f), NEW B, NEW cmd \in Sound(B), cmd.kind = "DELETE",
         NEW A \in SUBSET Places, ~cmd.hole, ToSet(cmd.on) \subseteq A,
         cmd.at \in Owner \cap A, Unplaced(KidsOf(f), ToSet(cmd.on)),
         cmd.at \notin Under(KidsOf(f), ToSet(cmd.on))
  PROVE  /\ ~execute(f, cmd, A).bad
         /\ execute(f, cmd, A).form \in Form /\ Trees(execute(f, cmd, A).form)
         /\ SamePlaces(execute(f, cmd, A).form, f)
         /\ KidsOf(execute(f, cmd, A).form) = Graft(KidsOf(f), cmd.at, ToSet(cmd.on))
<1>1. ~execute(f, cmd, A).bad
  BY DeleteIs
<1> QED  BY <1>1, DeleteIs

LEMMA MoveStays ==
  ASSUME NEW f \in Form, Trees(f), NEW B, NEW cmd \in Sound(B), cmd.kind = "MOVE",
         NEW A \in SUBSET Places, ~cmd.hole, ToSet(cmd.on) \subseteq A,
         Placed(f, cmd.on[1]), cmd.at \in {NoContainer, ParentOf(f, cmd.on[1])}
  PROVE  /\ ~execute(f, cmd, A).bad
         /\ execute(f, cmd, A).form \in Form
         /\ KidsOf(execute(f, cmd, A).form) = KidsOf(f)
         /\ Puts(execute(f, cmd, A).form, f, cmd.on, cmd.val)
<1>1. ~execute(f, cmd, A).bad
  BY MoveIs
<1>2. execute(f, cmd, A).form \in Form
  BY <1>1, MoveIs
<1>3. KidsOf(execute(f, cmd, A).form) = KidsOf(f)
  BY <1>1, MoveIs
<1>4. Puts(execute(f, cmd, A).form, f, cmd.on, cmd.val)
  BY <1>1, MoveIs
<1> QED  BY <1>1, <1>2, <1>3, <1>4

LEMMA MoveCrosses ==
  ASSUME NEW f \in Form, Trees(f), NEW B, NEW cmd \in Sound(B), cmd.kind = "MOVE",
         NEW A \in SUBSET Places, ~cmd.hole, ToSet(cmd.on) \subseteq A,
         Placed(f, cmd.on[1]), NEW q, q = ParentOf(f, cmd.on[1]),
         cmd.at \notin {NoContainer, q}, ToSet(cmd.on) \subseteq KidsOf(f)[q],
         {q, cmd.at} \subseteq Owner \cap A, cmd.at \notin Under(KidsOf(f), ToSet(cmd.on))
  PROVE  /\ ~execute(f, cmd, A).bad
         /\ execute(f, cmd, A).form \in Form
         /\ KidsOf(execute(f, cmd, A).form) = Moved(KidsOf(f), ToSet(cmd.on), cmd.at)
         /\ Puts(execute(f, cmd, A).form, f, cmd.on, cmd.val)
<1>1. ~execute(f, cmd, A).bad
  BY MoveIs
<1>2. execute(f, cmd, A).form \in Form
  BY <1>1, MoveIs
<1>3. KidsOf(execute(f, cmd, A).form) = Moved(KidsOf(f), ToSet(cmd.on), cmd.at)
  BY <1>1, MoveIs
<1>4. Puts(execute(f, cmd, A).form, f, cmd.on, cmd.val)
  BY <1>1, MoveIs
<1> QED  BY <1>1, <1>2, <1>3, <1>4

(* The command a good execution leaves names the same controls. *)
LEMMA ExecutedIs ==
  ASSUME NEW f \in Form, Trees(f), NEW B, NEW cmd \in Sound(B),
         NEW A \in SUBSET Places, ~execute(f, cmd, A).bad,
         cmd.kind = "DELETE" => cmd.at \in AttachedOwner(f)
  PROVE  LET done == execute(f, cmd, A) IN
         /\ done.form \in Form /\ Trees(done.form)
         /\ done.cmd \in Sound(B) /\ done.cmd.on = cmd.on /\ done.cmd.hole = cmd.hole
         /\ done.cmd.kind = CASE cmd.kind = "ADD" -> "DELETE"
                              [] cmd.kind = "DELETE" -> "ADD"
                              [] cmd.kind = "MOVE" -> "MOVE"
         /\ cmd.kind # "MOVE" => done.cmd.at = cmd.at
         /\ cmd.kind = "DELETE" => cmd.at \notin Under(KidsOf(f), ToSet(cmd.on))
<1> DEFINE done == execute(f, cmd, A)
           S == ToSet(cmd.on)
<1>1. /\ cmd.kind \in {"ADD", "DELETE", "MOVE"} /\ S \in SUBSET Control
      /\ cmd.on \in Seq(Control)
  BY SoundIs
<1>2. CASE cmd.kind = "ADD"
  <2>1. done.form \in Form /\ Trees(done.form) /\ done.cmd = [cmd EXCEPT !.kind = "DELETE"]
    BY <1>2, AddIs
  <2> HIDE DEF done
  <2>2. /\ done.cmd \in Sound(B) /\ done.cmd.on = cmd.on /\ done.cmd.hole = cmd.hole
        /\ done.cmd.kind = "DELETE" /\ done.cmd.at = cmd.at
    BY <1>2, <2>1 DEF Sound, Commands
  <2> QED  BY <1>2, <2>1, <2>2 DEF done
<1>3. CASE cmd.kind = "DELETE"
  <2>1. cmd.at \in Owner \cap A /\ Unplaced(KidsOf(f), S) /\ cmd.at \in AttachedOwner(f)
    BY <1>3, DeleteIs
  <2>2. cmd.at \notin Under(KidsOf(f), S)
    <3>1. cmd.at \in Under(KidsOf(f), {Base}) /\ Forest(KidsOf(f))
      BY <2>1, AttachedIs, FormIsShape DEF Trees
    <3> QED  BY <1>1, <2>1, <3>1, OffForm
  <2>3. done.form \in Form /\ Trees(done.form) /\ done.cmd = [cmd EXCEPT !.kind = "ADD"]
    BY <1>3, <2>2, DeleteIs
  <2> HIDE DEF done
  <2>4. /\ done.cmd \in Sound(B) /\ done.cmd.on = cmd.on /\ done.cmd.hole = cmd.hole
        /\ done.cmd.kind = "ADD" /\ done.cmd.at = cmd.at
    BY <1>3, <2>3 DEF Sound, Commands
  <2> QED  BY <1>3, <2>2, <2>3, <2>4 DEF done
<1>4. CASE cmd.kind = "MOVE"
  <2> DEFINE q == ParentOf(f, cmd.on[1])
             locs == Locations(f, cmd.on)
  <2>1. /\ done.form \in Form /\ Trees(done.form) /\ q \in Owner /\ cmd.on # <<>>
        /\ done.cmd = [cmd EXCEPT !.val = locs, !.at = q]
    BY <1>4, MoveIs
  <2>2. locs \in Seq(Loc) /\ Len(locs) = Len(cmd.on)
    BY <1>1, LocationsIs
  <2> HIDE DEF done, q, locs
  <2>3. /\ done.cmd \in Sound(B) /\ done.cmd.on = cmd.on /\ done.cmd.hole = cmd.hole
        /\ done.cmd.kind = "MOVE"
    BY <1>4, <2>1, <2>2 DEF Sound, Commands
  <2> QED  BY <1>4, <2>1, <2>3 DEF done
<1> QED  BY <1>1, <1>2, <1>3, <1>4

-----------------------------------------------------------------------------
(* What an undo finds: each lemma says when a command, executed on the     *)
(* form g while what hangs on the form or off the controls R lives, shows  *)
(* the form f again.                                                       *)

Living(f, R) == Below(f, {Base} \cup R)

LEMMA LivingIs ==
  ASSUME NEW f \in Shape, NEW R \in SUBSET Control
  PROVE  /\ Living(f, R) = Under(KidsOf(f), {Base} \cup R)
         /\ Living(f, R) \in SUBSET Places
         /\ {Base} \cup R \subseteq Living(f, R) /\ Attached(f) \subseteq Living(f, R)
         /\ AttachedOwner(f) \subseteq Owner \cap Living(f, R)
<1>1. Living(f, R) = Under(KidsOf(f), {Base} \cup R)
  BY BelowIsUnder DEF Living, Shape
<1>2. Under(KidsOf(f), {Base} \cup R) \subseteq Control \cup {Base}
  BY UnderSubset
<1>3. {Base} \cup R \subseteq Under(KidsOf(f), {Base} \cup R)
  BY UnderClosed
<1>4. Under(KidsOf(f), {Base}) \subseteq Under(KidsOf(f), {Base} \cup R)
  BY UnderMore
<1> QED  BY <1>1, <1>2, <1>3, <1>4, AttachedIs DEF Places

(* What was taken out of one container comes back into it. *)
LEMMA DeleteShows ==
  ASSUME NEW f \in Form, Trees(f), NEW g \in Form, Trees(g), NEW B, NEW cmd \in Sound(B),
         NEW R \in SUBSET Control, cmd.kind = "DELETE", ~cmd.hole, ToSet(cmd.on) \subseteq R,
         cmd.at \in Owner, cmd.at \in Under(KidsOf(f), {Base} \cup R),
         ToSet(cmd.on) \subseteq KidsOf(f)[cmd.at],
         KidsOf(g) = Cut(KidsOf(f), ToSet(cmd.on)),
         \A c \in Attached(f) : g.loc[c] = f.loc[c]
  PROVE  LET back == execute(g, cmd, Living(g, R)) IN ~back.bad /\ View(back.form) = View(f)
<1> DEFINE back == execute(g, cmd, Living(g, R))
           S == ToSet(cmd.on)
           K == KidsOf(f)
<1>1. /\ Forest(K) /\ K \in Hierarchy /\ g \in Shape /\ f \in Shape
      /\ cmd.at \notin Under(K, K[cmd.at])
  BY FormIsShape DEF Trees, Forest
<1>2. Living(g, R) = Under(Cut(K, S), {Base} \cup R) /\ Living(g, R) \in SUBSET Places
  BY <1>1, LivingIs
<1>3. S \subseteq Living(g, R) /\ cmd.at \in Living(g, R)
  <2>1. Under(K, {Base} \cup R) \subseteq Under(Cut(K, S), {Base} \cup R)
    BY <1>1, CutHeld
  <2> QED  BY <1>2, <2>1, UnderClosed
<1>4. Unplaced(KidsOf(g), S) /\ Under(KidsOf(g), S) \subseteq Under(K, S)
  BY <1>1, CutForest
<1>5. Under(K, S) \subseteq Under(K, K[cmd.at])
  BY UnderMore
<1>9. cmd.at \notin Under(KidsOf(g), S)
  BY <1>1, <1>4, <1>5
<1> DEFINE A == Living(g, R)
<1>6. /\ ~back.bad /\ back.form \in Form /\ Trees(back.form) /\ SamePlaces(back.form, g)
      /\ KidsOf(back.form) = Graft(KidsOf(g), cmd.at, S)
  <2>1. A \in SUBSET Places /\ S \subseteq A /\ cmd.at \in Owner \cap A
    BY <1>2, <1>3
  <2>2. back = execute(g, cmd, A)
    OBVIOUS
  <2> HIDE DEF A, back, K
  <2> QED  BY <1>4, <1>9, <2>1, <2>2, DeleteRuns
<1> HIDE DEF back
<1>7. KidsOf(back.form) = K
  BY <1>1, <1>6, GraftCut
<1>8. View(back.form) = View(f)
  BY <1>1, <1>6, <1>7, FormIsShape, SameKidsView DEF SamePlaces
<1> QED  BY <1>6, <1>8 DEF back

(* What was put into a container, from nowhere, goes again. *)
LEMMA AddShows ==
  ASSUME NEW f \in Form, Trees(f), NEW g \in Form, Trees(g), NEW B, NEW cmd \in Sound(B),
         NEW R \in SUBSET Control, cmd.kind = "ADD", ~cmd.hole, ToSet(cmd.on) \subseteq R,
         cmd.at \in Owner, cmd.at \in Under(KidsOf(f), {Base} \cup R),
         Unplaced(KidsOf(f), ToSet(cmd.on)),
         KidsOf(g) = Graft(KidsOf(f), cmd.at, ToSet(cmd.on)),
         \A c \in Attached(f) : g.loc[c] = f.loc[c]
  PROVE  LET back == execute(g, cmd, Living(g, R)) IN ~back.bad /\ View(back.form) = View(f)
<1> DEFINE back == execute(g, cmd, Living(g, R))
           S == ToSet(cmd.on)
           K == KidsOf(f)
<1>1. /\ Forest(K) /\ K \in Hierarchy /\ g \in Shape /\ f \in Shape /\ S \in SUBSET Control
  BY FormIsShape, SoundIs DEF Trees, Forest
<1>2. Living(g, R) = Under(Graft(K, cmd.at, S), {Base} \cup R) /\ Living(g, R) \in SUBSET Places
  BY <1>1, LivingIs
<1>3. S \subseteq Living(g, R) /\ cmd.at \in Living(g, R)
  <2>1. Under(K, {Base} \cup R) \subseteq Under(Graft(K, cmd.at, S), {Base} \cup R)
    BY <1>1, GraftIs
  <2> QED  BY <1>2, <2>1, UnderClosed
<1>4. S \subseteq KidsOf(g)[cmd.at]
  BY DEF Graft
<1>5. /\ ~back.bad /\ back.form \in Form /\ Trees(back.form) /\ SamePlaces(back.form, g)
      /\ KidsOf(back.form) = Cut(KidsOf(g), S)
  <2> DEFINE A == Living(g, R)
  <2>1. A \in SUBSET Places /\ S \subseteq A /\ cmd.at \in Owner \cap A
    BY <1>2, <1>3
  <2>2. back = execute(g, cmd, A)
    OBVIOUS
  <2> HIDE DEF A, back, K
  <2> QED  BY <1>4, <2>1, <2>2, AddRuns
<1> HIDE DEF back
<1>6. KidsOf(back.form) = K
  BY <1>1, <1>5, CutGraft
<1>7. View(back.form) = View(f)
  BY <1>1, <1>5, <1>6, FormIsShape, SameKidsView DEF SamePlaces
<1> QED  BY <1>5, <1>7 DEF back

(* What was moved in its container goes back to where it was. *)
LEMMA MoveShows ==
  ASSUME NEW f \in Form, Trees(f), NEW g \in Form, Trees(g), NEW B, NEW cmd \in Sound(B),
         NEW R \in SUBSET Control, cmd.kind = "MOVE", ~cmd.hole,
         ToSet(cmd.on) \subseteq Living(g, R), Placed(f, cmd.on[1]),
         cmd.at \in {NoContainer, ParentOf(f, cmd.on[1])}, KidsOf(g) = KidsOf(f),
         \A c \in Attached(f) \ ToSet(cmd.on) : g.loc[c] = f.loc[c],
         \A i \in DOMAIN cmd.on : cmd.val[i] = f.loc[cmd.on[i]]
  PROVE  LET back == execute(g, cmd, Living(g, R)) IN ~back.bad /\ View(back.form) = View(f)
<1> DEFINE back == execute(g, cmd, Living(g, R))
           S == ToSet(cmd.on)
           K == KidsOf(f)
<1>1. Forest(K) /\ g \in Shape /\ f \in Shape /\ Attached(f) \subseteq Control
  BY FormIsShape, AttachedIs DEF Trees
<1>2. Living(g, R) \in SUBSET Places
  BY <1>1, LivingIs
<1>3. /\ \A o \in Owner : ToSet(g.kids[o]) = K[o] /\ ToSet(f.kids[o]) = K[o]
  BY DEF KidsOf
<1> HIDE DEF K
<1>4. Placed(g, cmd.on[1]) /\ ParentOf(g, cmd.on[1]) = ParentOf(f, cmd.on[1])
  BY <1>3 DEF Placed, ParentOf
<1>5. /\ ~back.bad /\ back.form \in Form /\ KidsOf(back.form) = KidsOf(g)
      /\ Puts(back.form, g, cmd.on, cmd.val)
  <2> DEFINE A == Living(g, R)
  <2>1. A \in SUBSET Places /\ S \subseteq A
    BY <1>2
  <2>2. back = execute(g, cmd, A)
    OBVIOUS
  <2>3. cmd.at \in {NoContainer, ParentOf(g, cmd.on[1])}
    BY <1>4
  <2> HIDE DEF A, back
  <2> QED  BY <1>4, <2>1, <2>2, <2>3, MoveStays
<1> HIDE DEF back
<1>6. \A c \in Attached(f) : back.form.loc[c] = f.loc[c]
  <2> SUFFICES ASSUME NEW c \in Attached(f) PROVE back.form.loc[c] = f.loc[c]
    OBVIOUS
  <2>1. CASE c \in S
    <3>1. PICK i \in DOMAIN cmd.on : c = cmd.on[i]
      BY <2>1 DEF ToSet
    <3> QED  BY <1>5, <3>1 DEF Puts
  <2>2. CASE c \notin S
    BY <1>1, <1>5, <2>2 DEF Puts
  <2> QED  BY <2>1, <2>2
<1>7. View(back.form) = View(f)
  BY <1>1, <1>5, <1>6, FormIsShape, SameKidsView DEF K
<1> QED  BY <1>5, <1>7 DEF back

(* What was moved to another container that lives goes back into the first. *)
LEMMA MoveAcrossShows ==
  ASSUME NEW f \in Form, Trees(f), NEW g \in Form, Trees(g), NEW B, NEW cmd \in Sound(B),
         NEW R \in SUBSET Control, cmd.kind = "MOVE", ~cmd.hole, cmd.on # <<>>,
         NEW p \in Owner, p \in Under(KidsOf(f), {Base} \cup R),
         cmd.at \in Owner, cmd.at \in Under(KidsOf(f), {Base} \cup R), p # cmd.at,
         ToSet(cmd.on) \subseteq KidsOf(f)[cmd.at], p \notin Under(KidsOf(f), ToSet(cmd.on)),
         KidsOf(g) = Moved(KidsOf(f), ToSet(cmd.on), p),
         \A c \in Attached(f) \ ToSet(cmd.on) : g.loc[c] = f.loc[c],
         \A i \in DOMAIN cmd.on : cmd.val[i] = f.loc[cmd.on[i]]
  PROVE  LET back == execute(g, cmd, Living(g, R)) IN ~back.bad /\ View(back.form) = View(f)
<1> DEFINE back == execute(g, cmd, Living(g, R))
           S == ToSet(cmd.on)
           K == KidsOf(f)
           L == KidsOf(g)
           q == cmd.at
           X == {Base} \cup R
<1>1. /\ Forest(K) /\ Forest(L) /\ K \in Hierarchy /\ L \in Hierarchy
      /\ g \in Shape /\ f \in Shape /\ Attached(f) \subseteq Control
  BY FormIsShape, AttachedIs DEF Trees, Forest
<1>2. Living(g, R) \in SUBSET Places /\ Living(g, R) = Under(L, X)
  BY <1>1, LivingIs
<1>3. cmd.on[1] \in S
  BY SoundIs DEF ToSet
<1> HIDE DEF K
<1>4. /\ \A o \in Owner : L[o] = IF o = p THEN K[o] \cup S ELSE K[o] \ S
      /\ Moved(L, S, q) = K /\ q \notin Under(L, S)
      /\ Under(K, X) \subseteq Under(L, X)
  <2>1. /\ \A o \in Owner : Moved(K, S, p)[o] = IF o = p THEN K[o] \cup S ELSE K[o] \ S
        /\ Moved(Moved(K, S, p), S, q) = K /\ q \notin Under(Moved(K, S, p), S)
        /\ p \in Under(K, X) => Under(K, X) \subseteq Under(Moved(K, S, p), X)
    <3> DEFINE Q == S
    <3>1. Forest(K) /\ Q \subseteq K[q] /\ p \notin Under(K, Q) /\ q \in Owner /\ p # q
      BY <1>1 DEF K
    <3> HIDE DEF Q, X, q
    <3>2. \A o \in Owner : Moved(K, Q, p)[o] = IF o = p THEN K[o] \cup Q ELSE K[o] \ Q
      BY <3>1 DEF Moved, Graft, Cut
    <3>3. Moved(Moved(K, Q, p), Q, q) = K /\ q \notin Under(Moved(K, Q, p), Q)
      BY <3>1, MovedIs
    <3>4. p \in Under(K, X) => Under(K, X) \subseteq Under(Moved(K, Q, p), X)
      BY <3>1, MovedIs
    <3> QED  BY <3>2, <3>3, <3>4 DEF Q
  <2>2. L = Moved(K, S, p) /\ p \in Under(K, X)
    BY DEF K
  <2> HIDE DEF L, X
  <2> QED  BY <2>1, <2>2
<1>5. S \subseteq L[p]
  BY <1>4
<1>6. /\ S \subseteq Under(L, X) /\ {p, q} \subseteq Under(L, X)
  <2>1. {p, q} \subseteq Under(L, X)
    BY <1>4 DEF K
  <2>2. S \subseteq Children(L, Under(L, X))
    BY <1>1, <1>5, <2>1 DEF Children, Hierarchy
  <2> QED  BY <2>1, <2>2, UnderClosed
<1>7. ParentOf(g, cmd.on[1]) = p
  BY <1>1, <1>3, <1>5, ParentIs
<1>8. Placed(g, cmd.on[1])
  BY <1>3, <1>5 DEF Placed, KidsOf
<1>9. q \notin {NoContainer, p}
  BY Bases
<1> HIDE DEF L, X
<1>10. /\ ~back.bad /\ back.form \in Form /\ KidsOf(back.form) = Moved(L, S, q)
       /\ Puts(back.form, g, cmd.on, cmd.val)
  <2> DEFINE A == Living(g, R)
  <2>1. A \in SUBSET Places /\ S \subseteq A /\ {p, q} \subseteq Owner \cap A
    BY <1>2, <1>6
  <2>2. back = execute(g, cmd, A) /\ L = KidsOf(g)
    BY DEF L
  <2> HIDE DEF A, back
  <2> QED  BY <1>4, <1>5, <1>7, <1>8, <1>9, <2>1, <2>2, MoveCrosses
<1> HIDE DEF back
<1>11. \A c \in Attached(f) : back.form.loc[c] = f.loc[c]
  <2> SUFFICES ASSUME NEW c \in Attached(f) PROVE back.form.loc[c] = f.loc[c]
    OBVIOUS
  <2>1. CASE c \in S
    <3>1. PICK i \in DOMAIN cmd.on : c = cmd.on[i]
      BY <2>1 DEF ToSet
    <3> QED  BY <1>10, <3>1 DEF Puts
  <2>2. CASE c \notin S
    BY <1>1, <1>10, <2>2 DEF Puts
  <2> QED  BY <2>1, <2>2
<1>12. View(back.form) = View(f)
  BY <1>1, <1>4, <1>10, <1>11, FormIsShape, SameKidsView DEF K
<1> QED  BY <1>10, <1>12 DEF back

-----------------------------------------------------------------------------
(* The selection.                                                          *)

Selects == [wnds : Seq(Window), cur : Window, moved : BOOLEAN]
Lively == {w \in Window : w.live}
SelectedIn(s) == [i \in DOMAIN Live(s) |-> Live(s)[i].of]

(* A window that lives shows a control of the form, each another one.      *)
Shows(f, s) ==
  /\ \A w \in ToSet(s.wnds) : w.live => w.of \in Attached(f)
  /\ OnceIn(s.wnds, Lively)
  /\ s.cur.live => s.cur.of \in Attached(f) \cup {Base}

(* What is selected is in one container, unless a command moved it.        *)
InOne(f, s, p) == \A w \in ToSet(s.wnds) : w.live /\ w.of \in KidsOf(f)[p]
Together(f, s) ==
  ~s.moved =>
    /\ \E p \in AttachedOwner(f) : InOne(f, s, p)
    /\ IF s.wnds = <<>> THEN s.cur = Wnd(Base)
       ELSE s.cur.live => s.cur \in ToSet(s.wnds)

LEMMA ListIs ==
  ASSUME NEW X, NEW s \in Seq(X), NEW D, D = DOMAIN s, NEW Y, NEW t \in [D -> Y]
  PROVE  /\ t \in Seq(Y) /\ Len(t) = Len(s) /\ DOMAIN t = D
         /\ t = <<>> <=> s = <<>>
<1>1. D = 1 .. Len(s) /\ Len(s) \in Nat
  OBVIOUS
<1>2. t \in Seq(Y) /\ Len(t) = Len(s) /\ DOMAIN t = D
  BY <1>1
<1>3. (t = <<>> <=> Len(t) = 0) /\ (s = <<>> <=> Len(s) = 0)
  BY <1>2
<1> QED  BY <1>2, <1>3

LEMMA WindowIs ==
  /\ \A w \in Window : w = [of |-> w.of, live |-> w.live] /\ w.live \in BOOLEAN
                       /\ w.of \in Control \cup {Base}
  /\ \A v, w \in Window : v.of = w.of /\ v.live = w.live => v = w
  /\ \A c \in Control \cup {Base} : Wnd(c) \in Window /\ Wnd(c).of = c /\ Wnd(c).live
  /\ \A w \in Window : w.live => w = Wnd(w.of)
  /\ Void \in Window /\ Void.of = Base /\ ~Void.live
<1>1. \A w \in Window : w = [of |-> w.of, live |-> w.live] /\ w.live \in BOOLEAN
                       /\ w.of \in Control \cup {Base}
  BY DEF Window
<1>2. \A c \in Control \cup {Base} : Wnd(c) \in Window /\ Wnd(c).of = c /\ Wnd(c).live
  BY DEF Window, Wnd
<1>3. Void \in Window /\ Void.of = Base /\ ~Void.live
  BY DEF Window, Void
<1>4. \A w \in Window : w.live => w = Wnd(w.of)
  BY <1>1 DEF Wnd
<1>5. \A v, w \in Window : v.of = w.of /\ v.live = w.live => v = w
  BY <1>1
<1> QED  BY <1>1, <1>2, <1>3, <1>4, <1>5

LEMMA SelectedIs ==
  ASSUME NEW f \in Shape, NEW s \in Selects, Shows(f, s)
  PROVE  LET cs == SelectedIn(s) IN
         /\ cs \in Seq(Control) /\ IsInjective(cs)
         /\ \A c : c \in ToSet(cs) <=> \E w \in ToSet(s.wnds) : w.live /\ w.of = c
         /\ ToSet(cs) \subseteq Attached(f)
         /\ SomeDead(s) \in BOOLEAN
         /\ cs = <<>> /\ s.wnds # <<>> => SomeDead(s)
         /\ (\A w \in ToSet(s.wnds) : w.live) =>
              ~SomeDead(s) /\ cs = [i \in DOMAIN s.wnds |-> s.wnds[i].of]
<1> DEFINE cs == SelectedIn(s)
           L == Live(s)
<1>1. s.wnds \in Seq(Window) /\ ToSet(s.wnds) \subseteq Window
  <2>1. s.wnds \in Seq(Window)
    BY DEF Selects
  <2> QED  BY <2>1, ToSetIs
<1>2. /\ L \in Seq(Window) /\ ToSet(L) = ToSet(s.wnds) \cap {w \in ToSet(s.wnds) : w.live}
      /\ OnceIn(s.wnds, {w \in ToSet(s.wnds) : w.live}) => IsInjective(L)
      /\ ToSet(s.wnds) \subseteq {w \in ToSet(s.wnds) : w.live} => L = s.wnds
  BY <1>1, AmongIs DEF Live
<1>3. IsInjective(L)
  <2>1. OnceIn(s.wnds, {w \in ToSet(s.wnds) : w.live})
    BY <1>1 DEF Shows, OnceIn, Lively
  <2> QED  BY <1>2, <2>1
<1>4. cs = [i \in DOMAIN L |-> L[i].of] /\ (SomeDead(s) <=> Len(L) < Len(s.wnds))
      /\ SomeDead(s) \in BOOLEAN
  BY DEF SelectedIn, SomeDead
<1> HIDE DEF L, cs
<1>5. \A i \in DOMAIN L : L[i] \in ToSet(L) /\ L[i] \in Window /\ L[i].live
                          /\ L[i].of \in Attached(f) /\ L[i] \in ToSet(s.wnds)
  BY <1>1, <1>2 DEF ToSet, Shows
<1>6. cs \in [DOMAIN L -> Control]
  BY <1>4, <1>5, AttachedIs
<1>7. /\ cs \in Seq(Control) /\ DOMAIN cs = DOMAIN L /\ (cs = <<>> <=> L = <<>>)
      /\ \A y : y \in ToSet(cs) <=> \E i \in DOMAIN L : y = cs[i]
  <2>1. cs \in Seq(Control) /\ DOMAIN cs = DOMAIN L /\ (cs = <<>> <=> L = <<>>)
    BY <1>2, <1>6, ListIs
  <2> QED  BY <2>1 DEF ToSet
<1>8. IsInjective(cs)
  <2> SUFFICES ASSUME NEW i \in DOMAIN L, NEW j \in DOMAIN L, cs[i] = cs[j] PROVE i = j
    BY <1>7 DEF IsInjective
  <2>1. L[i].of = L[j].of
    BY <1>4
  <2>2. L[i] = L[j]
    BY <1>5, <2>1, WindowIs
  <2> QED  BY <1>3, <2>2 DEF IsInjective
<1>9. \A c : c \in ToSet(cs) <=> \E w \in ToSet(s.wnds) : w.live /\ w.of = c
  <2>1. \A w : w \in ToSet(s.wnds) /\ w.live <=> \E i \in DOMAIN L : w = L[i]
    <3>1. \A w : w \in ToSet(L) <=> \E i \in DOMAIN L : w = L[i]
      BY DEF ToSet
    <3> QED  BY <1>2, <3>1
  <2>2. \A c : c \in ToSet(cs) <=> \E i \in DOMAIN L : c = L[i].of
    BY <1>4, <1>7
  <2> QED  BY <2>1, <2>2
<1>10. ToSet(cs) \subseteq Attached(f)
  BY <1>9 DEF Shows
<1>11. cs = <<>> /\ s.wnds # <<>> => SomeDead(s)
  <2>1. s.wnds # <<>> => Len(s.wnds) > 0
    BY <1>1
  <2> QED  BY <1>4, <1>7, <2>1
<1>12. ASSUME \A w \in ToSet(s.wnds) : w.live
       PROVE  ~SomeDead(s) /\ cs = [i \in DOMAIN s.wnds |-> s.wnds[i].of]
  <2>1. L = s.wnds
    BY <1>2, <1>12
  <2> QED  BY <1>1, <1>4, <2>1
<1> QED  BY <1>4, <1>7, <1>8, <1>9, <1>10, <1>11, <1>12 DEF cs

(* The command of a move. *)
MoveCommand(s, at, old) ==
  LET found == Among([i \in DOMAIN s.wnds |-> i], {i \in DOMAIN s.wnds : s.wnds[i].live})
  IN Command("MOVE", [k \in DOMAIN found |-> s.wnds[found[k]].of], at,
                     [k \in DOMAIN found |-> old[found[k]]], SomeDead(s))

(* It names all that is selected, and where each was. *)
NamesAll(cmd, s, at, old) ==
  /\ cmd.kind = "MOVE" /\ cmd.at = at
  /\ (\A w \in ToSet(s.wnds) : w.live) =>
       /\ ~cmd.hole
       /\ cmd.on = [i \in DOMAIN s.wnds |-> s.wnds[i].of]
       /\ cmd.val = [i \in DOMAIN s.wnds |-> old[i]]

LEMMA MoveCommandIs ==
  ASSUME NEW f \in Shape, NEW s \in Selects, Shows(f, s), s.wnds # <<>>,
         NEW B, Attached(f) \subseteq B, NEW at \in Owner \cup {NoContainer},
         NEW old \in Seq(Loc), Len(s.wnds) =< Len(old)
  PROVE  LET cmd == MoveCommand(s, at, old) IN
         cmd \in Sound(B) /\ NamesAll(cmd, s, at, old)
<1> DEFINE ix == [i \in DOMAIN s.wnds |-> i]
           alive == {i \in DOMAIN s.wnds : s.wnds[i].live}
           found == Among(ix, alive)
           on == [k \in DOMAIN found |-> s.wnds[found[k]].of]
           val == [k \in DOMAIN found |-> old[found[k]]]
           D == DOMAIN s.wnds
           cmd == MoveCommand(s, at, old)
<1>1. /\ s.wnds \in Seq(Window) /\ D = 1 .. Len(s.wnds) /\ Len(s.wnds) \in Nat
      /\ \A i \in D : s.wnds[i] \in Window /\ s.wnds[i] \in ToSet(s.wnds)
  BY DEF Selects, ToSet
<1>2. /\ ix \in Seq(D) /\ IsInjective(ix) /\ ToSet(ix) = D /\ DOMAIN ix = D
  <2>1. ix \in [D -> D]
    OBVIOUS
  <2>2. ix \in Seq(D) /\ DOMAIN ix = D
    BY <1>1, <2>1, ListIs
  <2>3. ToSet(ix) = D
    BY DEF ToSet
  <2> QED  BY <2>2, <2>3 DEF IsInjective
<1>3. /\ found \in Seq(D) /\ ToSet(found) = D \cap alive /\ IsInjective(found)
      /\ D \subseteq alive => found = ix
  BY <1>2, AmongIs
<1>4. cmd = [kind |-> "MOVE", on |-> on, at |-> at, val |-> val, hole |-> SomeDead(s)]
  BY DEF MoveCommand, Command
<1> HIDE DEF found, ix, cmd
<1>5. \A k \in DOMAIN found :
        /\ found[k] \in D /\ s.wnds[found[k]].live /\ s.wnds[found[k]].of \in Attached(f)
        /\ old[found[k]] \in Loc
  <2> SUFFICES ASSUME NEW k \in DOMAIN found
               PROVE  /\ found[k] \in D /\ s.wnds[found[k]].live
                      /\ s.wnds[found[k]].of \in Attached(f) /\ old[found[k]] \in Loc
    OBVIOUS
  <2>1. found[k] \in D /\ found[k] \in alive
    <3>1. found[k] \in ToSet(found)
      BY DEF ToSet
    <3> QED  BY <1>3, <3>1
  <2>2. found[k] \in 1 .. Len(old)
    <3>1. Len(old) \in Nat /\ found[k] \in 1 .. Len(s.wnds)
      BY <1>1, <2>1
    <3> QED  BY <1>1, <3>1
  <2> QED  BY <1>1, <2>1, <2>2 DEF Shows
<1>6. Attached(f) \subseteq Control
  BY AttachedIs
<1>7. /\ on \in Seq(Control) /\ \A y : y \in ToSet(on) <=> \E k \in DOMAIN found : y = on[k]
      /\ DOMAIN on = DOMAIN found /\ (on = <<>> <=> found = <<>>) /\ Len(on) = Len(found)
  <2>1. on \in [DOMAIN found -> Control]
    BY <1>5, <1>6
  <2> HIDE DEF on
  <2>2. /\ on \in Seq(Control) /\ DOMAIN on = DOMAIN found /\ (on = <<>> <=> found = <<>>)
        /\ Len(on) = Len(found)
    BY <1>3, <2>1, ListIs
  <2> QED  BY <2>2 DEF ToSet
<1>8. val \in Seq(Loc) /\ Len(val) = Len(found)
  <2>1. val \in [DOMAIN found -> Loc]
    BY <1>5
  <2> HIDE DEF val
  <2> QED  BY <1>3, <2>1, ListIs
<1>9. IsInjective(on) /\ ToSet(on) \subseteq B
  <2>1. ASSUME NEW i \in DOMAIN found, NEW j \in DOMAIN found, on[i] = on[j] PROVE i = j
    <3>1. s.wnds[found[i]] = s.wnds[found[j]] /\ s.wnds[found[i]] \in Lively
      BY <1>1, <1>5, <2>1, WindowIs DEF Lively
    <3>2. found[i] = found[j]
      BY <1>5, <3>1 DEF Shows, OnceIn
    <3> QED  BY <1>3, <3>2 DEF IsInjective
  <2>2. ToSet(on) \subseteq B
    BY <1>5, <1>7
  <2> QED  BY <1>7, <2>1, <2>2 DEF IsInjective
<1>10. SomeDead(s) \in BOOLEAN /\ (on = <<>> => SomeDead(s))
  <2>1. ASSUME on = <<>> PROVE SomeDead(s)
    <3>1. \A i \in D : ~s.wnds[i].live
      <4>1. ToSet(found) = {}
        BY <1>3, <1>7, <2>1, ToSetIs
      <4> QED  BY <1>3, <4>1
    <3>2. \A w \in ToSet(s.wnds) : ~w.live
      BY <3>1 DEF ToSet
    <3>3. ToSet(SelectedIn(s)) = {}
      BY <3>2, SelectedIs
    <3>4. SelectedIn(s) = <<>>
      BY <3>3, SelectedIs, ToSetIs
    <3> QED  BY <3>4, SelectedIs
  <2> QED  BY <2>1, SelectedIs
<1>11. ASSUME \A w \in ToSet(s.wnds) : w.live
       PROVE  /\ ~SomeDead(s)
              /\ on = [i \in DOMAIN s.wnds |-> s.wnds[i].of]
              /\ val = [i \in DOMAIN s.wnds |-> old[i]]
  <2>1. ~SomeDead(s)
    BY <1>11, SelectedIs
  <2>2. found = ix
    BY <1>1, <1>3, <1>11
  <2> QED  BY <1>2, <2>1, <2>2 DEF ix
<1> HIDE DEF on, val
<1>12. cmd \in Sound(B) /\ cmd.kind = "MOVE" /\ cmd.at = at
  BY <1>4, <1>7, <1>8, <1>9, <1>10 DEF Sound, Commands
<1>13. cmd.hole = SomeDead(s) /\ cmd.on = on /\ cmd.val = val
  BY <1>4
<1>14. NamesAll(cmd, s, at, old)
  BY <1>11, <1>12, <1>13 DEF NamesAll
<1> QED  BY <1>12, <1>14 DEF cmd

LEMMA NoneIs ==
  ASSUME NEW f \in Shape
  PROVE  /\ cancelSelectAll \in Selects
         /\ Shows(f, cancelSelectAll) /\ Together(f, cancelSelectAll)
<1>1. /\ cancelSelectAll.wnds = <<>> /\ cancelSelectAll.cur = Wnd(Base)
      /\ ToSet(cancelSelectAll.wnds) = {} /\ ~cancelSelectAll.moved
      /\ cancelSelectAll \in Selects
  BY WindowIs DEF cancelSelectAll, Selects, ToSet
<1>2. OnceIn(cancelSelectAll.wnds, Lively)
  BY <1>1 DEF OnceIn
<1>3. Base \in AttachedOwner(f)
  BY AttachedIs
<1> HIDE DEF cancelSelectAll
<1>4. Shows(f, cancelSelectAll)
  BY <1>1, <1>2, WindowIs DEF Shows
<1>5. InOne(f, cancelSelectAll, Base)
  BY <1>1 DEF InOne
<1>6. Together(f, cancelSelectAll)
  BY <1>1, <1>3, <1>5 DEF Together
<1> QED  BY <1>1, <1>4, <1>6

LEMMA GroupIs ==
  ASSUME NEW f \in Shape, NEW cs \in Seq(Control), IsInjective(cs),
         NEW p \in AttachedOwner(f), ToSet(cs) \subseteq KidsOf(f)[p]
  PROVE  /\ Group(cs) \in Selects /\ ~Group(cs).moved
         /\ Shows(f, Group(cs)) /\ Together(f, Group(cs)) /\ InOne(f, Group(cs), p)
<1> DEFINE g == Group(cs)
           D == DOMAIN cs
<1>1. CASE cs = <<>>
  <2>1. g = cancelSelectAll
    BY <1>1 DEF Group
  <2>2. ToSet(g.wnds) = {} /\ ~g.moved
    BY <2>1 DEF cancelSelectAll, ToSet
  <2> HIDE DEF g
  <2>3. InOne(f, g, p)
    BY <2>2 DEF InOne
  <2> QED  BY <2>1, <2>2, <2>3, NoneIs DEF g
<1>2. CASE cs # <<>>
  <2> DEFINE ws == [i \in D |-> Wnd(cs[i])]
  <2>1. /\ \A i \in D : cs[i] \in Control /\ cs[i] \in ToSet(cs)
        /\ D = 1 .. Len(cs) /\ Len(cs) \in Nat
    BY DEF ToSet
  <2>2. 1 \in D
    BY <1>2, <2>1, EmptySeq
  <2>3. g = [wnds |-> ws, cur |-> Wnd(cs[1]), moved |-> FALSE]
    BY <1>2 DEF Group, cancelSelectAll
  <2>4. ws \in [D -> Window]
    BY <2>1, WindowIs
  <2>5. /\ \A i \in D : ws[i] = Wnd(cs[i])
        /\ DOMAIN ws = D
    OBVIOUS
  <2> HIDE DEF ws
  <2>6. ws \in Seq(Window) /\ DOMAIN ws = D /\ ws # <<>>
    BY <1>2, <2>4, ListIs
  <2>7. \A w \in ToSet(ws) : \E i \in D : w = Wnd(cs[i])
    BY <2>5 DEF ToSet
  <2>8. \A w \in ToSet(ws) : w.live /\ w.of \in KidsOf(f)[p] /\ w.of \in Control
    BY <2>1, <2>7, WindowIs
  <2>9. g \in Selects /\ ~g.moved /\ g.wnds = ws /\ g.cur = Wnd(cs[1])
    BY <2>1, <2>2, <2>3, <2>6, WindowIs DEF Selects
  <2> HIDE DEF g
  <2>10. InOne(f, g, p)
    BY <2>8, <2>9 DEF InOne
  <2>11. KidsOf(f)[p] \subseteq Attached(f)
    BY AttachedChild
  <2>12. OnceIn(ws, Lively)
    <3> SUFFICES ASSUME NEW i \in D, NEW j \in D, ws[i] = ws[j] PROVE i = j
      BY <2>6 DEF OnceIn
    <3>1. cs[i] = cs[j]
      BY <2>1, <2>5, WindowIs
    <3> QED  BY <3>1 DEF IsInjective
  <2>13. cs[1] \in Attached(f) /\ g.cur.of = cs[1]
    BY <2>1, <2>2, <2>9, <2>11, WindowIs
  <2>14. Shows(f, g)
    BY <2>8, <2>9, <2>11, <2>12, <2>13 DEF Shows
  <2>15. g.cur \in ToSet(g.wnds)
    BY <2>2, <2>5, <2>9 DEF ToSet
  <2>16. Together(f, g)
    BY <2>6, <2>9, <2>10, <2>15 DEF Together
  <2> QED  BY <2>9, <2>10, <2>14, <2>16 DEF g
<1> QED  BY <1>1, <1>2

LEMMA OneIs ==
  ASSUME NEW c \in Control
  PROVE  <<c>> \in Seq(Control) /\ IsInjective(<<c>>) /\ ToSet(<<c>>) = {c}
  BY DEF IsInjective, ToSet

LEMMA SelectsIs ==
  ASSUME NEW s \in Selects, NEW a, NEW b
  PROVE  [s EXCEPT !.wnds = a, !.cur = b] = [wnds |-> a, cur |-> b, moved |-> s.moved]
<1> DEFINE e == [s EXCEPT !.wnds = a, !.cur = b]
           A == {a}
           C == {b}
           M == {s.moved}
<1>1. a \in A /\ b \in C /\ s.moved \in M
  OBVIOUS
<1> HIDE DEF A, C, M
<1>2. e \in [wnds : A, cur : C, moved : M]
  BY <1>1 DEF Selects
<1>3. e = [wnds |-> e.wnds, cur |-> e.cur, moved |-> e.moved]
  <2> HIDE DEF e
  <2> QED  BY <1>2
<1>4. e.wnds = a /\ e.cur = b /\ e.moved = s.moved
  BY DEF Selects
<1> HIDE DEF e
<1>5. e = [wnds |-> a, cur |-> b, moved |-> s.moved]
  BY <1>3, <1>4
<1> QED  BY <1>5 DEF e

LEMMA OnlyIs ==
  ASSUME NEW f \in Shape, NEW c \in Attached(f) \cup {Base}
  PROVE  /\ Only(c) \in Selects /\ ~Only(c).moved
         /\ Shows(f, Only(c)) /\ Together(f, Only(c))
         /\ c # Base => /\ Only(c).wnds # <<>>
                        /\ \A p \in AttachedOwner(f) : c \in KidsOf(f)[p] => InOne(f, Only(c), p)
<1>1. CASE c = Base
  <2>1. Only(c) = cancelSelectAll
    BY <1>1 DEF Only, insertSelect, cancelSelectAll
  <2>2. ~cancelSelectAll.moved
    BY DEF cancelSelectAll
  <2> QED  BY <1>1, <2>1, <2>2, NoneIs
<1>2. CASE c # Base
  <2>1. c \in Attached(f) /\ c \in Control
    BY <1>2, AttachedIs
  <2>2. Wnd(c) # Wnd(Base)
    BY <1>2 DEF Wnd
  <2>3. Only(c) = [wnds |-> <<Wnd(c)>>, cur |-> Wnd(c), moved |-> FALSE]
    <3> DEFINE x == Wnd(c)
               none == cancelSelectAll
    <3>1. none.wnds = <<>> /\ none.cur = Wnd(Base) /\ ToSet(none.wnds) = {}
      BY DEF cancelSelectAll, ToSet
    <3>2. Only(c) = [none EXCEPT !.wnds = Append(@, x), !.cur = x]
      BY <2>2, <3>1 DEF Only, insertSelect
    <3>3. Append(<<>>, x) = <<x>>
      OBVIOUS
    <3> HIDE DEF x
    <3>4. [none EXCEPT !.wnds = Append(@, x), !.cur = x]
            = [none EXCEPT !.wnds = <<x>>, !.cur = x]
      BY <3>1, <3>3
    <3>5. [none EXCEPT !.wnds = <<x>>, !.cur = x]
            = [wnds |-> <<x>>, cur |-> x, moved |-> FALSE]
      <4>1. none \in Selects /\ none.moved = FALSE
        BY NoneIs, AttachedIs DEF cancelSelectAll
      <4> HIDE DEF none
      <4> QED  BY <4>1, SelectsIs
    <3> QED  BY <3>2, <3>4, <3>5 DEF x
  <2>4. Group(<<c>>) = [wnds |-> [i \in DOMAIN <<c>> |-> Wnd(<<c>>[i])], cur |-> Wnd(c), moved |-> FALSE]
    BY DEF Group, cancelSelectAll
  <2>5. [i \in DOMAIN <<c>> |-> Wnd(<<c>>[i])] = <<Wnd(c)>>
    OBVIOUS
  <2>6. Only(c) = Group(<<c>>) /\ Only(c).wnds # <<>>
    <3>1. Group(<<c>>) = [wnds |-> <<Wnd(c)>>, cur |-> Wnd(c), moved |-> FALSE]
      BY <2>4, <2>5, Zenon
    <3>2. <<Wnd(c)>> # <<>>
      OBVIOUS
    <3> QED  BY <2>3, <3>1, <3>2
  <2>7. PICK o \in AttachedOwner(f) : c \in KidsOf(f)[o]
    BY <2>1, AttachedChild
  <2>8. ASSUME NEW p \in AttachedOwner(f), c \in KidsOf(f)[p]
        PROVE  /\ Only(c) \in Selects /\ ~Only(c).moved
               /\ Shows(f, Only(c)) /\ Together(f, Only(c)) /\ InOne(f, Only(c), p)
    <3> DEFINE cs == <<c>>
    <3>1. cs \in Seq(Control) /\ IsInjective(cs) /\ ToSet(cs) \subseteq KidsOf(f)[p]
      BY <2>1, <2>8, OneIs
    <3>2. Only(c) = Group(cs)
      BY <2>6
    <3> HIDE DEF cs
    <3> QED  BY <3>1, <3>2, GroupIs
  <2> QED  BY <2>6, <2>7, <2>8
<1> QED  BY <1>1, <1>2

(* The windows of the controls V are destroyed, and void in selectedWnd;   *)
(* those of W are void in curWnd.                                          *)
Gone(w, V) == IF w.of \in V THEN Void ELSE w
Renews(g, s, V, W) ==
  /\ g.moved \in BOOLEAN
  /\ g = [wnds |-> [i \in DOMAIN s.wnds |-> Gone(s.wnds[i], V)],
          cur |-> Gone(s.cur, W), moved |-> g.moved]

(* What the selection g keeps of s then. *)
Keeps(g, s, V, W) ==
  /\ g \in Selects /\ Len(g.wnds) = Len(s.wnds)
  /\ s.wnds = <<>> => g.wnds = <<>>
  /\ g.wnds = <<>> => s.wnds = <<>>
  /\ \A x \in ToSet(g.wnds) : x.live => x \in ToSet(s.wnds) /\ x.of \notin V
  /\ OnceIn(s.wnds, Lively) => OnceIn(g.wnds, Lively)
  /\ g.cur.live => g.cur = s.cur /\ s.cur.of \notin W
  /\ s.cur = Wnd(Base) => g.cur = s.cur
  /\ (\A x \in ToSet(s.wnds) : x.of \notin V) => g.wnds = s.wnds

LEMMA RenewIs ==
  ASSUME NEW s \in Selects, NEW V \in SUBSET Control, NEW W \in SUBSET Control,
         NEW g, Renews(g, s, V, W)
  PROVE  Keeps(g, s, V, W)
<1> DEFINE D == DOMAIN s.wnds
           ws == [i \in D |-> Gone(s.wnds[i], V)]
<1>1. /\ s.wnds \in Seq(Window) /\ s.cur \in Window
      /\ \A i \in D : s.wnds[i] \in Window /\ s.wnds[i] \in ToSet(s.wnds)
  BY DEF Selects, ToSet
<1>2. \A x \in Window : \A U :
        /\ Gone(x, U) \in Window
        /\ Gone(x, U).live => Gone(x, U) = x /\ x.of \notin U
        /\ x.of \notin U => Gone(x, U) = x
  BY WindowIs DEF Gone
<1>3. \A i \in D : ws[i] = Gone(s.wnds[i], V)
  OBVIOUS
<1>4. ws \in [D -> Window]
  BY <1>1, <1>2
<1>5. g = [wnds |-> ws, cur |-> Gone(s.cur, W), moved |-> g.moved] /\ g.moved \in BOOLEAN
  BY DEF Renews
<1> HIDE DEF ws
<1>6. /\ ws \in Seq(Window) /\ DOMAIN ws = D /\ (ws = <<>> <=> s.wnds = <<>>)
      /\ Len(ws) = Len(s.wnds)
  BY <1>1, <1>4, ListIs
<1>7. /\ g \in Selects /\ g.wnds = ws /\ g.cur = Gone(s.cur, W)
  BY <1>1, <1>2, <1>5, <1>6 DEF Selects
<1>8. ASSUME NEW i \in D, ws[i].live PROVE ws[i] = s.wnds[i] /\ ws[i].of \notin V
  BY <1>1, <1>2, <1>3, <1>8
<1>9. ASSUME NEW x \in ToSet(ws), x.live PROVE x \in ToSet(s.wnds) /\ x.of \notin V
  <2>1. PICK i \in D : x = ws[i]
    BY <1>6 DEF ToSet
  <2> QED  BY <1>1, <1>8, <1>9, <2>1
<1>10. ASSUME OnceIn(s.wnds, Lively) PROVE OnceIn(ws, Lively)
  <2> SUFFICES ASSUME NEW i \in D, NEW j \in D, ws[i] \in Lively, ws[i] = ws[j] PROVE i = j
    BY <1>6 DEF OnceIn
  <2>1. ws[i] = s.wnds[i] /\ ws[j] = s.wnds[j]
    BY <1>8 DEF Lively
  <2> QED  BY <1>10, <2>1 DEF OnceIn
<1>11. g.cur.live => g.cur = s.cur /\ s.cur.of \notin W
  BY <1>1, <1>2, <1>7
<1>12. s.cur = Wnd(Base) => g.cur = s.cur
  BY <1>1, <1>2, <1>7, WindowIs, Bases
<1>13. ASSUME \A x \in ToSet(s.wnds) : x.of \notin V PROVE ws = s.wnds
  <2>1. \A i \in D : ws[i] = s.wnds[i]
    BY <1>1, <1>2, <1>3, <1>13
  <2> QED  BY <1>1, <1>6, <2>1
<1> QED  BY <1>6, <1>7, <1>9, <1>10, <1>11, <1>12, <1>13 DEF Keeps

LEMMA RenewShows ==
  ASSUME NEW f \in Shape, NEW h \in Shape, NEW s \in Selects, Shows(f, s),
         NEW V \in SUBSET Control, NEW W \in SUBSET Control, NEW g, Renews(g, s, V, W),
         Attached(f) \subseteq Attached(h) \cup V,
         Attached(f) \subseteq Attached(h) \cup W
  PROVE  Shows(h, g)
<1>0. Keeps(g, s, V, W)
  BY RenewIs
<1>1. /\ \A x \in ToSet(g.wnds) : x.live => x \in ToSet(s.wnds) /\ x.of \notin V
      /\ OnceIn(g.wnds, Lively)
      /\ g.cur.live => g.cur = s.cur /\ s.cur.of \notin W
  BY <1>0 DEF Shows, Keeps
<1>2. \A x \in ToSet(g.wnds) : x.live => x.of \in Attached(h)
  BY <1>1 DEF Shows
<1>3. g.cur.live => g.cur.of \in Attached(h) \cup {Base}
  BY <1>1 DEF Shows
<1> QED  BY <1>1, <1>2, <1>3 DEF Shows

-----------------------------------------------------------------------------
(* The inductive invariant.                                                *)

Mouse == [state : {"up", "moving", "selecting", "creating"},
          accept : Owner \cup {NoContainer}, old : Seq(Loc),
          start : Form \cup {<<>>}, keyed : BOOLEAN]

(* Who was never allocated is nowhere, and has nobody.                     *)
Fresh(f, B) ==
  \A o \in Owner : KidsOf(f)[o] \subseteq B /\ (o \notin B \cup {Base} => KidsOf(f)[o] = {})

On(s, c) == \E w \in ToSet(s.wnds) : w.of = c

(* A drag that no key came into, of what is together: the form is as at    *)
(* the press, but for one offset of what is selected; the places           *)
(* remembered are those of the press.                                      *)
Dragging(m, f, s, at) ==
  m.state = "moving" /\ ~m.keyed /\ ~s.moved =>
    /\ m.start \in Form /\ f.kids = m.start.kids
    /\ s.wnds # <<>> /\ Len(m.old) = Len(s.wnds)
    /\ at \in AttachedOwner(f) /\ m.accept \in AttachedOwner(f) /\ InOne(f, s, at)
    /\ \E d \in Int : \A c \in Control :
         f.loc[c] = m.start.loc[c] + IF On(s, c) THEN d ELSE 0
    /\ \A i \in DOMAIN s.wnds : m.old[i] = m.start.loc[s.wnds[i].of]

IInv ==
  /\ TypeOK
  /\ Trees(form) /\ Fresh(form, born)
  /\ past \in Seq(Sound(born)) /\ future \in Seq(Sound(born))
  /\ Shows(form, sel) /\ Together(form, sel)
  /\ Dragging(mouse, form, sel, curContainer)

LEMMA QuietDrag ==
  ASSUME NEW m, NEW f, NEW s, NEW at, m.state # "moving" \/ m.keyed \/ s.moved
  PROVE  Dragging(m, f, s, at)
  BY DEF Dragging

LEMMA UpIs == Up \in Mouse /\ Up.state = "up"
  BY DEF Up, Mouse

LEMMA UpWith ==
  ASSUME NEW x \in {"up", "moving", "selecting", "creating"}
  PROVE  [Up EXCEPT !.state = x] \in Mouse /\ [Up EXCEPT !.state = x].state = x
<1> DEFINE S == Form \cup {<<>>}
           P == Owner \cup {NoContainer}
           M == [state : {"up", "moving", "selecting", "creating"},
                 accept : P, old : Seq(Loc), start : S, keyed : BOOLEAN]
<1>1. Up \in M
  BY UpIs DEF Mouse
<1> HIDE DEF S, P
<1>2. [Up EXCEPT !.state = x] \in M /\ [Up EXCEPT !.state = x].state = x
  BY <1>1
<1> QED  BY <1>2 DEF Mouse, S, P

LEMMA KeyedIs ==
  ASSUME TypeOK, Keyed
  PROVE  /\ mouse' \in Mouse /\ keys' \in Nat /\ mouse'.state = mouse.state
         /\ mouse'.state # "moving" \/ mouse'.keyed
<1>1. mouse \in Mouse /\ keys \in Nat
  BY DEF TypeOK, Mouse
<1>2. CASE mouse.state # "moving"
  BY <1>1, <1>2 DEF Keyed
<1>3. CASE mouse.state = "moving"
  <2>1. keys' = keys + 1 /\ mouse' = [mouse EXCEPT !.keyed = TRUE, !.start = <<>>]
    BY <1>3 DEF Keyed, DragKeyed
  <2>2. keys' \in Nat
    BY <1>1, <2>1
  <2>3. mouse' \in Mouse /\ mouse'.state = mouse.state /\ mouse'.keyed
    <3> DEFINE S == Form \cup {<<>>}
    <3>1. <<>> \in S
      OBVIOUS
    <3> DEFINE e == <<>>
    <3> HIDE DEF S, e
    <3>2. e \in S /\ mouse' = [mouse EXCEPT !.keyed = TRUE, !.start = e]
      BY <2>1, <3>1 DEF e
    <3>3. mouse \in [state : {"up", "moving", "selecting", "creating"},
                     accept : Owner \cup {NoContainer}, old : Seq(Loc),
                     start : S, keyed : BOOLEAN]
      BY <1>1 DEF Mouse, S
    <3>4. mouse' \in [state : {"up", "moving", "selecting", "creating"},
                     accept : Owner \cup {NoContainer}, old : Seq(Loc),
                     start : S, keyed : BOOLEAN]
      BY <3>2, <3>3
    <3> QED  BY <3>2, <3>3, <3>4 DEF Mouse, S
  <2> QED  BY <2>2, <2>3
<1> QED  BY <1>2, <1>3

(* What the held commands keep alive.                                      *)
HeldBy(p, q) ==
  UNION {ToSet(cmd.on) : cmd \in {x \in ToSet(p \o q) : x.kind # "MOVE"}}

LEMMA AliveIs == Alive = Living(form, HeldBy(past, future))
  BY DEF Alive, Living, HeldBy

LEMMA HeldIs ==
  ASSUME NEW B \in SUBSET Control, NEW p \in Seq(Sound(B)), NEW q \in Seq(Sound(B))
  PROVE  /\ HeldBy(p, q) \subseteq B /\ HeldBy(p, q) \in SUBSET Control
         /\ \A c : c \in HeldBy(p, q) <=>
              \E cmd \in ToSet(p) \cup ToSet(q) : cmd.kind # "MOVE" /\ c \in ToSet(cmd.on)
<1>1. /\ ToSet(p \o q) = ToSet(p) \cup ToSet(q)
      /\ ToSet(p) \subseteq Sound(B) /\ ToSet(q) \subseteq Sound(B)
  BY ConcatSet, ToSetIs
<1>2. \A c : c \in HeldBy(p, q) <=>
        \E cmd \in ToSet(p) \cup ToSet(q) : cmd.kind # "MOVE" /\ c \in ToSet(cmd.on)
  BY <1>1 DEF HeldBy
<1>3. HeldBy(p, q) \subseteq B
  BY <1>1, <1>2, SoundIs
<1> QED  BY <1>2, <1>3

LEMMA FrontLast ==
  ASSUME NEW X, NEW s \in Seq(X), s # <<>>
  PROVE  /\ Front(s) \in Seq(X) /\ Last(s) \in X /\ Tail(s) \in Seq(X) /\ Head(s) \in X
         /\ ToSet(s) = ToSet(Front(s)) \cup {Last(s)}
         /\ ToSet(s) = ToSet(Tail(s)) \cup {Head(s)}
         /\ Len(Front(s)) = Len(s) - 1 /\ Len(Tail(s)) = Len(s) - 1 /\ Len(s) > 0
<1> DEFINE n == Len(s)
<1>1. n \in Nat /\ n > 0 /\ DOMAIN s = 1 .. n /\ \A i \in 1 .. n : s[i] \in X
  BY EmptySeq
<1>2. /\ Front(s) \in Seq(X) /\ Len(Front(s)) = n - 1
      /\ \A i \in 1 .. n - 1 : Front(s)[i] = s[i]
      /\ Last(s) = s[n] /\ Last(s) \in X
  BY <1>1 DEF Front, Last
<1>3. /\ Tail(s) \in Seq(X) /\ Len(Tail(s)) = n - 1
      /\ \A i \in 1 .. n - 1 : Tail(s)[i] = s[i + 1]
      /\ Head(s) = s[1] /\ Head(s) \in X
  BY <1>1
<1> HIDE DEF n
<1>4. ToSet(s) = {s[i] : i \in 1 .. n}
  BY ToSetIs DEF n
<1>5. ToSet(Front(s)) = {s[i] : i \in 1 .. n - 1}
  <2>0. Front(s) \in Seq(X) /\ Len(Front(s)) = n - 1
    BY <1>2
  <2>1. ToSet(Front(s)) = {Front(s)[i] : i \in 1 .. n - 1}
    BY ONLY <2>0, ToSetIs
  <2> QED  BY <1>2, <2>1
<1>6. ToSet(Tail(s)) = {s[i] : i \in 2 .. n}
  <2> DEFINE u == Tail(s)
  <2>1. /\ u \in Seq(X) /\ Len(u) = n - 1 /\ n \in Nat
        /\ \A i \in 1 .. n - 1 : u[i] = s[i + 1]
    BY <1>1, <1>3 DEF n
  <2> HIDE DEF u
  <2>2. ToSet(u) = {u[i] : i \in 1 .. n - 1}
    BY <2>1, ToSetIs
  <2>3. \A i \in 1 .. n - 1 : u[i] = s[i + 1] /\ i + 1 \in 2 .. n
    BY <2>1
  <2>4. \A i \in 2 .. n : i - 1 \in 1 .. n - 1 /\ s[i] = u[i - 1]
    <3>1. ASSUME NEW i \in 2 .. n PROVE i - 1 \in 1 .. n - 1 /\ (i - 1) + 1 = i
      BY <2>1
    <3> QED  BY <2>1, <3>1
  <2>5. \A y : (\E i \in 1 .. n - 1 : y = u[i]) <=> \E i \in 2 .. n : y = s[i]
    BY <2>3, <2>4
  <2> QED  BY <2>2, <2>5 DEF u
<1>7. ToSet(s) = ToSet(Front(s)) \cup {Last(s)}
  <2>1. 1 .. n = (1 .. n - 1) \cup {n}
    BY <1>1
  <2> QED  BY <1>2, <1>4, <1>5, <2>1
<1>8. ToSet(s) = ToSet(Tail(s)) \cup {Head(s)}
  <2>1. 1 .. n = (2 .. n) \cup {1}
    BY <1>1
  <2> QED  BY <1>3, <1>4, <1>6, <2>1
<1> QED  BY <1>1, <1>2, <1>3, <1>7, <1>8 DEF n

(* An executed command holds what it held before. *)
LEMMA HeldStays ==
  ASSUME NEW B \in SUBSET Control, NEW p \in Seq(Sound(B)), NEW q \in Seq(Sound(B)),
         NEW d \in Sound(B)
  PROVE  /\ p # <<>> /\ d.on = Last(p).on /\ (d.kind = "MOVE" <=> Last(p).kind = "MOVE") =>
              /\ <<d>> \o q \in Seq(Sound(B))
              /\ HeldBy(Front(p), <<d>> \o q) = HeldBy(p, q)
         /\ q # <<>> /\ d.on = Head(q).on /\ (d.kind = "MOVE" <=> Head(q).kind = "MOVE") =>
              HeldBy(Append(p, d), Tail(q)) = HeldBy(p, q)
<1>0. /\ <<d>> \in Seq(Sound(B)) /\ ToSet(<<d>>) = {d}
  BY DEF ToSet
<1>1. /\ <<d>> \o q \in Seq(Sound(B)) /\ ToSet(<<d>> \o q) = {d} \cup ToSet(q)
  <2> DEFINE t == <<d>>
  <2>1. t \in Seq(Sound(B)) /\ ToSet(t) = {d}
    BY <1>0
  <2> HIDE DEF t
  <2>2. t \o q \in Seq(Sound(B)) /\ ToSet(t \o q) = {d} \cup ToSet(q)
    BY <2>1, ConcatSet
  <2> QED  BY <2>2 DEF t
<1>2. ASSUME p # <<>>, d.on = Last(p).on, d.kind = "MOVE" <=> Last(p).kind = "MOVE"
      PROVE  HeldBy(Front(p), <<d>> \o q) = HeldBy(p, q)
  <2> DEFINE r == <<d>> \o q
             u == Front(p)
             l == Last(p)
  <2>1. u \in Seq(Sound(B)) /\ ToSet(p) = ToSet(u) \cup {l}
    BY <1>2, FrontLast
  <2>2. r \in Seq(Sound(B)) /\ ToSet(r) = {d} \cup ToSet(q)
    BY <1>1
  <2> HIDE DEF r, u, l
  <2>3. \A c : c \in HeldBy(u, r) <=> c \in HeldBy(p, q)
    <3>1. \A c : c \in HeldBy(u, r) <=>
            \E cmd \in ToSet(u) \cup ToSet(r) : cmd.kind # "MOVE" /\ c \in ToSet(cmd.on)
      BY <2>1, <2>2, HeldIs
    <3>2. \A c : c \in HeldBy(p, q) <=>
            \E cmd \in ToSet(p) \cup ToSet(q) : cmd.kind # "MOVE" /\ c \in ToSet(cmd.on)
      BY HeldIs
    <3>3. d.on = l.on /\ (d.kind = "MOVE" <=> l.kind = "MOVE")
      BY <1>2 DEF l
    <3> QED  BY <2>1, <2>2, <3>1, <3>2, <3>3
  <2>4. HeldBy(u, r) = HeldBy(p, q)
    BY <2>3, HeldIs, <2>1, <2>2
  <2> QED  BY <2>4 DEF r, u
<1>3. ASSUME q # <<>>, d.on = Head(q).on, d.kind = "MOVE" <=> Head(q).kind = "MOVE"
      PROVE  HeldBy(Append(p, d), Tail(q)) = HeldBy(p, q)
  <2> DEFINE r == Append(p, d)
             u == Tail(q)
             l == Head(q)
  <2>1. u \in Seq(Sound(B)) /\ ToSet(q) = ToSet(u) \cup {l}
    BY <1>3, FrontLast
  <2>2. r \in Seq(Sound(B)) /\ ToSet(r) = ToSet(p) \cup {d}
    BY AppendSet
  <2> HIDE DEF r, u, l
  <2>3. \A c : c \in HeldBy(r, u) <=> c \in HeldBy(p, q)
    <3>1. \A c : c \in HeldBy(r, u) <=>
            \E cmd \in ToSet(r) \cup ToSet(u) : cmd.kind # "MOVE" /\ c \in ToSet(cmd.on)
      BY <2>1, <2>2, HeldIs
    <3>2. \A c : c \in HeldBy(p, q) <=>
            \E cmd \in ToSet(p) \cup ToSet(q) : cmd.kind # "MOVE" /\ c \in ToSet(cmd.on)
      BY HeldIs
    <3>3. d.on = l.on /\ (d.kind = "MOVE" <=> l.kind = "MOVE")
      BY <1>3 DEF l
    <3> QED  BY <2>1, <2>2, <3>1, <3>2, <3>3
  <2>4. HeldBy(r, u) = HeldBy(p, q)
    BY <2>3, HeldIs, <2>1, <2>2
  <2> QED  BY <2>4 DEF r, u
<1> QED  BY <1>1, <1>2, <1>3

(* A pushed command that is no move holds its controls. *)
LEMMA HeldPushed ==
  ASSUME NEW B \in SUBSET Control, NEW p \in Seq(Sound(B)), NEW d \in Sound(B)
  PROVE  /\ Append(p, d) \in Seq(Sound(B)) /\ HeldBy(Append(p, d), <<>>) \in SUBSET Control
         /\ HeldBy(Append(p, d), <<>>) \subseteq B
         /\ d.kind # "MOVE" => ToSet(d.on) \subseteq HeldBy(Append(p, d), <<>>)
         /\ Last(Append(p, d)) = d
<1> DEFINE r == Append(p, d)
           none == <<>>
<1>1. r \in Seq(Sound(B)) /\ ToSet(r) = ToSet(p) \cup {d} /\ none \in Seq(Sound(B))
  BY AppendSet
<1>2. Last(r) = d
  BY DEF Last
<1> HIDE DEF r, none
<1>3. HeldBy(r, none) \in SUBSET Control /\ HeldBy(r, none) \subseteq B
  BY <1>1, HeldIs
<1>4. d.kind # "MOVE" => ToSet(d.on) \subseteq HeldBy(r, none)
  <2>1. \A c : c \in HeldBy(r, none) <=>
          \E cmd \in ToSet(r) \cup ToSet(none) : cmd.kind # "MOVE" /\ c \in ToSet(cmd.on)
    BY <1>1, HeldIs
  <2> QED  BY <1>1, <2>1
<1> QED  BY <1>1, <1>2, <1>3, <1>4 DEF r, none

LEMMA SoundGrows ==
  ASSUME NEW B, NEW C, B \subseteq C
  PROVE  Sound(B) \subseteq Sound(C) /\ Seq(Sound(B)) \subseteq Seq(Sound(C))
<1>1. Sound(B) \subseteq Sound(C)
  BY DEF Sound
<1> QED  BY <1>1

LEMMA FreshIs ==
  ASSUME NEW f \in Shape, NEW B \in SUBSET Control, Fresh(f, B)
  PROVE  /\ Attached(f) \subseteq B
         /\ \A R \in SUBSET B : Living(f, R) \subseteq B \cup {Base}
         /\ \A S \in SUBSET (Control \ B) :
              Unplaced(KidsOf(f), S) /\ Under(KidsOf(f), S) = S
<1>1. ASSUME NEW R \in SUBSET B PROVE Living(f, R) \subseteq B \cup {Base}
  <2>1. Living(f, R) = Under(KidsOf(f), {Base} \cup R)
    BY LivingIs
  <2>2. Children(KidsOf(f), B \cup {Base}) \subseteq B \cup {Base}
    BY DEF Fresh, Children
  <2> QED  BY <2>1, <2>2, UnderLeast
<1>2. Attached(f) \subseteq B
  <2>1. Living(f, {}) \subseteq B \cup {Base} /\ Attached(f) \subseteq Living(f, {})
    BY <1>1, LivingIs
  <2> QED  BY <2>1, AttachedIs, Bases
<1>3. ASSUME NEW S \in SUBSET (Control \ B)
      PROVE  Unplaced(KidsOf(f), S) /\ Under(KidsOf(f), S) = S
  <2>1. Unplaced(KidsOf(f), S)
    BY DEF Fresh, Unplaced
  <2>2. Children(KidsOf(f), S) \subseteq S
    BY Bases DEF Fresh, Children
  <2>3. Under(KidsOf(f), S) \subseteq S /\ S \subseteq Under(KidsOf(f), S)
    BY <2>2, UnderLeast, UnderClosed
  <2> QED  BY <2>1, <2>3
<1> QED  BY <1>1, <1>2, <1>3

LEMMA FreshMore ==
  ASSUME NEW f, NEW g, NEW B, NEW C, Fresh(f, B), B \subseteq C,
         NEW p \in C \cup {Base}, NEW S \in SUBSET C,
         \A o \in Owner : KidsOf(g)[o] \subseteq KidsOf(f)[o] \cup IF o = p THEN S ELSE {}
  PROVE  Fresh(g, C)
  BY DEF Fresh

(* The parts of the invariant, and what it says of the types. *)
LEMMA Parts ==
  ASSUME IInv
  PROVE  /\ form \in Form /\ form \in Shape /\ Trees(form) /\ Forest(KidsOf(form))
         /\ born \in SUBSET Control /\ Fresh(form, born)
         /\ sel \in Selects /\ Shows(form, sel) /\ Together(form, sel)
         /\ sel.wnds \in Seq(Window) /\ sel.cur \in Window /\ sel.moved \in BOOLEAN
         /\ ToSet(sel.wnds) \subseteq Window
         /\ curContainer \in Owner \cup {NoContainer} /\ mouse \in Mouse
         /\ mouse.old \in Seq(Loc) /\ mouse.accept \in Owner \cup {NoContainer}
         /\ clip \in 0 .. ClipMax /\ pushes \in Nat /\ keys \in Nat /\ fault \in BOOLEAN
         /\ past \in Seq(Sound(born)) /\ future \in Seq(Sound(born))
         /\ Dragging(mouse, form, sel, curContainer) /\ TypeOK
<1>1. TypeOK
  BY DEF IInv
<1>2. form \in Form /\ born \in SUBSET Control /\ sel \in Selects /\ mouse \in Mouse
  BY <1>1 DEF TypeOK, Selects, Mouse
<1>3. form \in Shape /\ Forest(KidsOf(form))
  BY <1>2, FormIsShape DEF IInv, Trees
<1>4. /\ sel.wnds \in Seq(Window) /\ sel.cur \in Window /\ sel.moved \in BOOLEAN
      /\ mouse.old \in Seq(Loc) /\ mouse.accept \in Owner \cup {NoContainer}
  BY <1>2 DEF Selects, Mouse
<1>5. ToSet(sel.wnds) \subseteq Window
  BY <1>4, ToSetIs
<1> QED  BY <1>1, <1>2, <1>3, <1>4, <1>5 DEF IInv, TypeOK

(* A step keeps the invariant when it keeps each part. *)
LEMMA Step ==
  ASSUME form' \in Form, Trees(form'), born' \in SUBSET Control, Fresh(form', born'),
         sel' \in Selects, Shows(form', sel'), Together(form', sel'),
         curContainer' \in Owner \cup {NoContainer}, mouse' \in Mouse,
         Dragging(mouse', form', sel', curContainer'),
         clip' \in 0 .. ClipMax, pushes' \in Nat, keys' \in Nat, fault' \in BOOLEAN,
         past' \in Seq(Sound(born')), future' \in Seq(Sound(born'))
  PROVE  IInv'
<1>1. past' \in Seq(Commands) /\ future' \in Seq(Commands)
  <2>1. Sound(born') \subseteq Commands
    BY DEF Sound
  <2> QED  BY <2>1
<1>2. TypeOK'
  BY <1>1 DEF TypeOK, Selects, Mouse
<1> QED  BY <1>2 DEF IInv

(* A step that leaves the form and the commands alone. *)
LEMMA SelectStep ==
  ASSUME IInv, form' = form, born' = born, UNCHANGED history,
         sel' \in Selects, Shows(form, sel'), Together(form, sel'),
         curContainer' \in Owner \cup {NoContainer}, mouse' \in Mouse,
         Dragging(mouse', form, sel', curContainer'),
         clip' \in 0 .. ClipMax, keys' \in Nat, fault' \in BOOLEAN
  PROVE  IInv'
<1>1. pushes' = pushes /\ past' = past /\ future' = future
  BY DEF history
<1> QED  BY <1>1, Parts, Step

LEMMA InitInv == Init => IInv
<1> SUFFICES ASSUME Init PROVE IInv
  OBVIOUS
<1> DEFINE K == KidsOf(form)
           kids == [o \in Owner |-> IF o = Base THEN LoadedForm ELSE <<>>]
<1>1. LoadedForm \in Seq(Control) /\ IsInjective(LoadedForm)
  BY SelectionAssumption DEF IsInjective
<1>2. \A o \in Owner : /\ kids[o] \in Seq(Control) /\ IsInjective(kids[o])
                       /\ ToSet(kids[o]) = IF o = Base THEN ToSet(LoadedForm) ELSE {}
  <2> DEFINE none == <<>>
  <2>1. none \in Seq(Control) /\ IsInjective(none) /\ ToSet(none) = {}
    BY DEF IsInjective, ToSet
  <2> HIDE DEF none
  <2>2. \A o \in Owner : kids[o] = IF o = Base THEN LoadedForm ELSE none
    BY DEF none
  <2> HIDE DEF kids
  <2> QED  BY <1>1, <2>1, <2>2
<1>3. form \in Form
  <2>1. kids \in [Owner -> Seq(Control)]
    BY <1>2
  <2>2. [c \in Control |-> 0] \in [Control -> Loc]
    BY Locs
  <2> QED  BY <2>1, <2>2 DEF Init, Form
<1>4. form.kids = kids
  BY DEF Init
<1> HIDE DEF kids
<1>5. \A o \in Owner : K[o] = IF o = Base THEN ToSet(LoadedForm) ELSE {}
  BY <1>2, <1>4 DEF KidsOf
<1>6. ToSet(LoadedForm) \subseteq Control
  BY <1>1, ToSetIs
<1> HIDE DEF K
<1>7. ASSUME NEW o \in Owner PROVE o \notin Under(K, K[o])
  <2>1. CASE o = Base
    <3>1. K[o] \subseteq Control
      BY <1>5, <1>6, <2>1
    <3> QED  BY <2>1, <3>1, Bases DEF Under
  <2>2. CASE o # Base
    <3> DEFINE E == {}
    <3>1. K[o] = E /\ Children(K, E) \subseteq E
      BY <1>5, <2>2 DEF Children
    <3> HIDE DEF E
    <3>2. Under(K, E) \subseteq E
      BY <3>1, UnderLeast
    <3> QED  BY <3>1, <3>2 DEF E
  <2> QED  BY <2>1, <2>2
<1>8. Trees(form)
  <2>1. K \in Hierarchy
    BY <1>3, KidsIn DEF Form, K
  <2>2. Forest(K)
    BY <1>5, <1>7, <2>1 DEF Forest
  <2> QED  BY <1>2, <1>4, <2>2 DEF Trees, K
<1>9. /\ born = ToSet(LoadedForm) /\ sel = cancelSelectAll /\ curContainer = Base
      /\ mouse = Up /\ clip = 0 /\ past = <<>> /\ future = <<>> /\ pushes = 0
      /\ keys = 0 /\ fault = FALSE
  BY DEF Init
<1>10. Fresh(form, born)
  BY <1>5, <1>9 DEF Fresh, K
<1>11. sel \in Selects /\ Shows(form, sel) /\ Together(form, sel)
  BY <1>3, <1>9, FormIsShape, NoneIs
<1>12. mouse \in Mouse /\ Dragging(mouse, form, sel, curContainer)
  BY <1>9, UpIs, QuietDrag
<1>13. past \in Seq(Sound(born)) /\ future \in Seq(Sound(born)) /\ past \in Seq(Commands)
       /\ future \in Seq(Commands)
  BY <1>9
<1>14. clip \in 0 .. ClipMax /\ pushes \in Nat /\ keys \in Nat /\ fault \in BOOLEAN
       /\ curContainer \in Owner \cup {NoContainer} /\ born \subseteq Control
  <2>1. ClipMax \in Nat
    BY SelectionAssumption
  <2>2. clip \in 0 .. ClipMax /\ pushes \in Nat /\ keys \in Nat
    BY <1>9, <2>1
  <2> QED  BY <1>6, <1>9, <2>2, Bases
<1>15. TypeOK
  BY <1>3, <1>11, <1>12, <1>13, <1>14 DEF TypeOK, Selects, Mouse
<1> QED  BY <1>8, <1>10, <1>11, <1>12, <1>13, <1>15 DEF IInv

-----------------------------------------------------------------------------
(* The invariant, action by action: what only selects.                     *)

LEMMA UndefinedInv == ASSUME IInv, Undefined PROVE IInv'
  BY Parts, SelectStep DEF Undefined, history

LEMMA selectInstanceInv ==
  ASSUME IInv, NEW c \in Control \cup {Base}, selectInstance(c) PROVE IInv'
<1>1. sel' = Only(c) /\ c \in Attached(form) \cup {Base} /\ mouse.state = "up"
      /\ UNCHANGED <<form, born, curContainer, mouse, clip, history, keys, fault>>
  BY DEF selectInstance
<1>2. sel' \in Selects /\ Shows(form, sel') /\ Together(form, sel')
  BY <1>1, Parts, OnlyIs
<1>3. Dragging(mouse', form, sel', curContainer')
  BY <1>1, QuietDrag
<1> QED  BY <1>1, <1>2, <1>3, Parts, SelectStep

LEMMA tabInv == ASSUME IInv, tabToNextSelection PROVE IInv'
<1> DEFINE isCur == sel.cur.live /\ sel.cur # Wnd(Base)
           row == IF isCur THEN form.kids[ParentOf(form, sel.cur.of)] ELSE <<>>
           at == IF isCur THEN CHOOSE i \in DOMAIN row : row[i] = sel.cur.of ELSE 0
           next == SubSeq(row, at + 1, Len(row))
           rest == next \o form.kids[Base]
           A == Attached(form)
<1>1. /\ rest # <<>> /\ sel' = Only(rest[1]) /\ Keyed
      /\ UNCHANGED <<form, born, curContainer, clip, history, fault>>
  BY DEF tabToNextSelection
<1>2. \A o \in AttachedOwner(form) : form.kids[o] \in Seq(A)
  <2> SUFFICES ASSUME NEW o \in AttachedOwner(form) PROVE form.kids[o] \in Seq(A)
    OBVIOUS
  <2>1. o \in Owner /\ form.kids[o] \in Seq(Control)
    BY Parts DEF Form, AttachedOwner
  <2>2. ToSet(form.kids[o]) \subseteq A
    BY <2>1, Parts, AttachedChild DEF KidsOf
  <2>3. form.kids[o] \in Seq(ToSet(form.kids[o]))
    BY <2>1, ToSetIs
  <2> QED  BY <2>2, <2>3
<1>3. row \in Seq(A) /\ at \in Nat
  <2>1. CASE isCur
    <3>1. sel.cur.of \in Attached(form)
      BY <2>1, Parts, WindowIs DEF Shows
    <3>2. PICK o \in AttachedOwner(form) : sel.cur.of \in KidsOf(form)[o]
      BY <3>1, Parts, AttachedChild
    <3>3. ParentOf(form, sel.cur.of) = o /\ o \in Owner
      BY <3>2, Parts, ParentIs DEF AttachedOwner
    <3>4. row = form.kids[o] /\ row \in Seq(A)
      BY <1>2, <2>1, <3>3
    <3>5. \E i \in DOMAIN row : row[i] = sel.cur.of
      BY <3>2, <3>3, <3>4 DEF KidsOf, ToSet
    <3>6. at \in DOMAIN row
      BY <2>1, <3>5
    <3> HIDE DEF row, at
    <3>7. DOMAIN row = 1 .. Len(row)
      BY <3>4
    <3> QED  BY <3>4, <3>6, <3>7
  <2>2. CASE ~isCur
    BY <2>2
  <2> QED  BY <2>1, <2>2
<1>4. form.kids[Base] \in Seq(A)
  BY <1>2, Parts, AttachedIs
<1> HIDE DEF row, at
<1>5. next \in Seq(A)
  <2>1. \A i \in at + 1 .. Len(row) : row[i] \in A
    BY <1>3
  <2> QED  BY <1>3, <2>1, SubSeqProperties
<1> HIDE DEF next
<1>6. rest \in Seq(A)
  BY <1>4, <1>5
<1> HIDE DEF rest, A
<1>7. rest[1] \in A
  BY <1>1, <1>6, EmptySeq
<1>8. sel' \in Selects /\ Shows(form, sel') /\ Together(form, sel')
  BY <1>1, <1>7, Parts, OnlyIs DEF A
<1>9. mouse' \in Mouse /\ keys' \in Nat /\ Dragging(mouse', form, sel', curContainer')
  BY <1>1, Parts, KeyedIs, QuietDrag
<1> QED  BY <1>1, <1>8, <1>9, Parts, SelectStep

LEMMA copyInv == ASSUME IInv, copy PROVE IInv'
<1>1. copied /\ Keyed /\ UNCHANGED <<form, born, sel, curContainer, history, fault>>
  BY DEF copy
<1>2. clip' \in 0 .. ClipMax
  <2>1. SelectedIn(sel) \in Seq(Control) /\ Selected = SelectedIn(sel)
    BY Parts, SelectedIs DEF Selected, SelectedIn
  <2>2. Len(Selected) \in Nat
    BY <2>1
  <2> QED  BY <1>1, <2>2, Parts, SelectionAssumption DEF copied
<1>3. mouse' \in Mouse /\ keys' \in Nat /\ Dragging(mouse', form, sel', curContainer')
  BY <1>1, Parts, KeyedIs, QuietDrag
<1> QED  BY <1>1, <1>2, <1>3, Parts, SelectStep

LEMMA pressCreateInv ==
  ASSUME IInv, NEW p \in Owner \cup {NoContainer}, pressCreate(p) PROVE IInv'
<1>1. sel' = sel /\ mouse.state = "up"
  BY DEF pressCreate
<1>2. CASE p # NoContainer
  <2>1. /\ curContainer' = p /\ mouse' = [Up EXCEPT !.state = "creating"]
        /\ UNCHANGED <<form, born, clip, history, keys, fault>>
    BY <1>2 DEF pressCreate, press
  <2>2. mouse' \in Mouse /\ mouse'.state = "creating"
    BY <2>1, UpWith
  <2> QED  BY <1>1, <2>1, <2>2, Parts, QuietDrag, SelectStep
<1>3. CASE p = NoContainer
  <2>1. /\ curContainer' = NoContainer
        /\ UNCHANGED <<form, born, mouse, clip, history, keys, fault>>
    BY <1>3 DEF pressCreate
  <2> QED  BY <1>1, <2>1, Parts, QuietDrag, SelectStep
<1> QED  BY <1>2, <1>3

LEMMA onSelectingUpInv ==
  ASSUME IInv, NEW S \in SUBSET Control, onSelectingUp(S) PROVE IInv'
<1> DEFINE kids == form.kids[curContainer]
<1>1. CASE curContainer \notin Owner \cap Alive
  BY <1>1, UndefinedInv DEF onSelectingUp
<1>2. CASE curContainer \in Owner \cap Alive
  <2>1. /\ sel' = IF curContainer \notin AttachedOwner(form) THEN cancelSelectAll
                  ELSE IF S = {} THEN Only(curContainer)
                  ELSE Group(Among(kids, S))
        /\ mouse' = Up
        /\ UNCHANGED <<form, born, curContainer, clip, history, keys, fault>>
    BY <1>2 DEF onSelectingUp
  <2>2. sel' \in Selects /\ Shows(form, sel') /\ Together(form, sel')
    <3>1. CASE curContainer \notin AttachedOwner(form)
      BY <2>1, <3>1, Parts, NoneIs
    <3>2. CASE curContainer \in AttachedOwner(form) /\ S = {}
      <4>1. curContainer \in Attached(form) \cup {Base}
        BY <3>2 DEF AttachedOwner, Attached
      <4> QED  BY <2>1, <3>2, <4>1, Parts, OnlyIs
    <3>3. CASE curContainer \in AttachedOwner(form) /\ S # {}
      <4>1. kids \in Seq(Control) /\ IsInjective(kids) /\ ToSet(kids) = KidsOf(form)[curContainer]
        BY <1>2, Parts DEF Form, Trees, KidsOf
      <4> DEFINE cs == Among(kids, S)
      <4> HIDE DEF kids
      <4>2. cs \in Seq(Control) /\ IsInjective(cs) /\ ToSet(cs) \subseteq KidsOf(form)[curContainer]
        BY <4>1, AmongIs
      <4>3. sel' = Group(cs)
        BY <2>1, <3>3
      <4> HIDE DEF cs
      <4> QED  BY <3>3, <4>2, <4>3, Parts, GroupIs
    <3> QED  BY <3>1, <3>2, <3>3
  <2> QED  BY <2>1, <2>2, UpIs, Parts, QuietDrag, SelectStep
<1> QED  BY <1>1, <1>2

(* Where a press begins a drag: nothing has moved yet.                     *)
LEMMA pressMoving ==
  ASSUME IInv, NEW p \in AttachedOwner(form), press(p, "moving"),
         sel' \in Selects, Shows(form, sel'), Together(form, sel'),
         ~sel'.moved => sel'.wnds # <<>> /\ InOne(form, sel', p)
  PROVE  IInv'
<1> DEFINE ws == sel'.wnds
           D == DOMAIN ws
           old == [i \in D |-> LocOf(ws[i])]
<1>1. /\ curContainer' = p /\ p \in Owner
      /\ mouse' = [state |-> "moving", accept |-> p, start |-> form, keyed |-> FALSE,
                   old |-> old]
      /\ UNCHANGED <<form, born, clip, history, keys, fault>>
  BY DEF press, AttachedOwner
<1>2. ws \in Seq(Window) /\ \A i \in D : ws[i] \in Window /\ ws[i] \in ToSet(ws)
  BY DEF Selects, ToSet
<1>3. \A i \in D : LocOf(ws[i]) \in Loc /\ (ws[i].live => LocOf(ws[i]) = form.loc[ws[i].of])
  <2> SUFFICES ASSUME NEW i \in D
               PROVE  LocOf(ws[i]) \in Loc /\ (ws[i].live => LocOf(ws[i]) = form.loc[ws[i].of])
    OBVIOUS
  <2>1. ws[i].live => ws[i].of \in Control
    BY <1>2, Parts, AttachedIs DEF Shows
  <2> QED  BY <2>1, Parts, Locs DEF LocOf, Form
<1>4. old \in [D -> Loc] /\ \A i \in D : old[i] = LocOf(ws[i])
  BY <1>3
<1> HIDE DEF old
<1>5. old \in Seq(Loc) /\ Len(old) = Len(ws)
  BY <1>2, <1>4, ListIs
<1>6. /\ mouse' \in Mouse /\ mouse'.old = old /\ mouse'.start = form /\ mouse'.accept = p
  BY <1>1, <1>5, Parts DEF Mouse
<1>7. Dragging(mouse', form, sel', curContainer')
  <2> SUFFICES ASSUME ~sel'.moved
               PROVE  /\ ws # <<>> /\ InOne(form, sel', p)
                      /\ \E d \in Int : \A c \in Control :
                           form.loc[c] = form.loc[c] + IF On(sel', c) THEN d ELSE 0
                      /\ \A i \in D : old[i] = form.loc[ws[i].of]
    BY <1>1, <1>5, <1>6, Parts DEF Dragging
  <2>1. ws # <<>> /\ InOne(form, sel', p)
    OBVIOUS
  <2>2. \A i \in D : ws[i].live
    BY <1>2, <2>1 DEF InOne
  <2>4. \A c \in Control : form.loc[c] = form.loc[c] + IF On(sel', c) THEN 0 ELSE 0
    BY Parts DEF Shape
  <2>3. \E d \in Int : \A c \in Control :
          form.loc[c] = form.loc[c] + IF On(sel', c) THEN d ELSE 0
    <3> DEFINE Offset(d) == \A c \in Control :
                 form.loc[c] = form.loc[c] + IF On(sel', c) THEN d ELSE 0
    <3>1. 0 \in Int /\ Offset(0)
      BY <2>4
    <3> HIDE DEF Offset
    <3>2. \E d \in Int : Offset(d)
      BY <3>1
    <3> QED  BY <3>2 DEF Offset
  <2> QED  BY <1>3, <1>4, <2>1, <2>2, <2>3
<1> QED  BY <1>1, <1>6, <1>7, Parts, SelectStep

LEMMA pressControlInv ==
  ASSUME IInv, NEW c \in Control, NEW space \in BOOLEAN, pressControl(c, space) PROVE IInv'
<1> DEFINE p == ParentOf(form, c)
<1>1. /\ c \in Attached(form) /\ press(p, "moving")
      /\ sel' = IF Wnd(c) \in ToSet(sel.wnds) THEN [sel EXCEPT !.cur = Wnd(c)]
                ELSE IF space /\ Beside(c) THEN insertSelect(sel, c)
                ELSE Only(c)
  BY DEF pressControl
<1>2. PICK o \in AttachedOwner(form) : c \in KidsOf(form)[o]
  BY <1>1, Parts, AttachedChild
<1>3. p = o /\ p \in AttachedOwner(form) /\ o \in Owner
  BY <1>2, Parts, ParentIs DEF AttachedOwner
<1>4. /\ sel' \in Selects /\ Shows(form, sel') /\ Together(form, sel')
      /\ ~sel'.moved => sel'.wnds # <<>> /\ InOne(form, sel', p)
  <2>1. Wnd(c) \in Window /\ Wnd(c).of = c /\ Wnd(c).live /\ c # Base
    BY WindowIs, Bases
  <2>2. CASE Wnd(c) \in ToSet(sel.wnds)
    <3>1. sel' \in Selects /\ sel'.wnds = sel.wnds /\ sel'.cur = Wnd(c) /\ sel'.moved = sel.moved
      BY <1>1, <2>1, <2>2, Parts DEF Selects
    <3>2. Shows(form, sel')
      BY <1>1, <2>1, <3>1, Parts DEF Shows
    <3>3. ASSUME ~sel'.moved
          PROVE  sel'.wnds # <<>> /\ InOne(form, sel', p)
      <4>1. PICK q \in AttachedOwner(form) : InOne(form, sel, q)
        BY <3>1, <3>3, Parts DEF Together
      <4>2. c \in KidsOf(form)[q] /\ q \in Owner
        BY <2>1, <2>2, <4>1 DEF InOne, AttachedOwner
      <4>3. q = p
        BY <1>2, <1>3, <4>2, Parts DEF Forest
      <4>4. sel.wnds # <<>>
        BY <2>2 DEF ToSet
      <4> QED  BY <3>1, <4>1, <4>3, <4>4 DEF InOne
    <3>4. Together(form, sel')
      BY <1>3, <2>2, <3>1, <3>3 DEF Together
    <3> QED  BY <3>1, <3>2, <3>3, <3>4
  <2>3. CASE Wnd(c) \notin ToSet(sel.wnds) /\ space /\ Beside(c)
    <3>1. /\ sel.cur.live /\ sel.cur # Wnd(Base)
          /\ ParentOf(form, sel.cur.of) = ParentOf(form, c)
      BY <2>3 DEF Beside
    <3>2. ASSUME ~sel.moved
          PROVE  sel.wnds # <<>> /\ InOne(form, sel, p) /\ sel.cur \in ToSet(sel.wnds)
      <4>1. PICK q \in AttachedOwner(form) : InOne(form, sel, q)
        BY <3>2, Parts DEF Together
      <4>2. sel.wnds # <<>> /\ sel.cur \in ToSet(sel.wnds)
        BY <3>1, <3>2, Parts DEF Together
      <4>3. sel.cur.of \in KidsOf(form)[q] /\ q \in Owner
        BY <4>1, <4>2 DEF InOne, AttachedOwner
      <4>4. q = p
        BY <3>1, <4>3, Parts, ParentIs
      <4> QED  BY <4>1, <4>2, <4>4
    <3>3. CASE Wnd(c) = sel.cur
      <4>1. sel' = sel
        BY <1>1, <2>3, <3>3 DEF insertSelect
      <4> QED  BY <3>2, <4>1, Parts
    <3>4. CASE Wnd(c) # sel.cur
      <4>1. sel' = [sel EXCEPT !.wnds = Append(sel.wnds, Wnd(c)), !.cur = Wnd(c)]
        BY <1>1, <2>3, <3>4 DEF insertSelect
      <4> DEFINE ws == Append(sel.wnds, Wnd(c))
      <4>2. ws \in Seq(Window) /\ ToSet(ws) = ToSet(sel.wnds) \cup {Wnd(c)}
        BY <2>1, Parts, AppendSet
      <4>3. ws # <<>>
        BY <4>2, ToSetIs
      <4>4. OnceIn(ws, Lively)
        <5>1. /\ DOMAIN ws = 1 .. Len(sel.wnds) + 1 /\ Len(sel.wnds) \in Nat
              /\ DOMAIN sel.wnds = 1 .. Len(sel.wnds)
              /\ \A i \in DOMAIN sel.wnds : ws[i] = sel.wnds[i] /\ sel.wnds[i] \in ToSet(sel.wnds)
              /\ ws[Len(sel.wnds) + 1] = Wnd(c)
          BY Parts DEF ToSet
        <5> HIDE DEF ws
        <5>2. \A i \in DOMAIN ws : i \in DOMAIN sel.wnds \/ i = Len(sel.wnds) + 1
          BY <5>1
        <5>3. OnceIn(sel.wnds, Lively)
          BY Parts DEF Shows
        <5> QED  BY <2>3, <5>1, <5>2, <5>3 DEF OnceIn
      <4> HIDE DEF ws
      <4>5. sel' \in Selects /\ sel'.wnds = ws /\ sel'.cur = Wnd(c) /\ sel'.moved = sel.moved
        BY <2>1, <4>1, <4>2, Parts DEF Selects, ws
      <4>6. Shows(form, sel')
        BY <1>1, <2>1, <4>2, <4>4, <4>5, Parts DEF Shows
      <4>7. ASSUME ~sel.moved PROVE InOne(form, sel', p)
        BY <1>2, <1>3, <2>1, <3>2, <4>2, <4>5, <4>7 DEF InOne
      <4>8. Together(form, sel')
        BY <1>3, <4>2, <4>3, <4>5, <4>7 DEF Together
      <4> QED  BY <4>3, <4>5, <4>6, <4>7, <4>8
    <3> QED  BY <3>3, <3>4
  <2>4. CASE Wnd(c) \notin ToSet(sel.wnds) /\ ~(space /\ Beside(c))
    <3>1. sel' = Only(c)
      BY <1>1, <2>4
    <3> QED  BY <1>1, <1>2, <1>3, <2>1, <3>1, Parts, OnlyIs
  <2> QED  BY <2>2, <2>3, <2>4
<1> HIDE DEF p
<1> QED  BY <1>1, <1>3, <1>4, pressMoving

LEMMA pressContainerInv ==
  ASSUME IInv, NEW p \in Owner, pressContainer(p) PROVE IInv'
<1>1. p \in AttachedOwner(form) /\ mouse.state = "up"
  BY DEF pressContainer
<1>2. CASE p # Base /\ Wnd(p) \in ToSet(sel.wnds)
  <2> DEFINE q == ParentOf(form, p)
  <2>1. sel' = [sel EXCEPT !.cur = Wnd(p)] /\ press(q, "moving")
    BY <1>2 DEF pressContainer
  <2>2. p \in Attached(form) /\ p \in Control
    BY <1>1, <1>2, Bases DEF AttachedOwner, Attached
  <2>3. PICK o \in AttachedOwner(form) : p \in KidsOf(form)[o]
    BY <2>2, Parts, AttachedChild
  <2>4. q = o /\ q \in AttachedOwner(form) /\ o \in Owner
    BY <2>3, Parts, ParentIs DEF AttachedOwner
  <2>5. Wnd(p) \in Window /\ Wnd(p).of = p /\ Wnd(p).live
    BY <2>2, WindowIs
  <2>6. sel' \in Selects /\ sel'.wnds = sel.wnds /\ sel'.cur = Wnd(p) /\ sel'.moved = sel.moved
    BY <2>1, <2>5, Parts DEF Selects
  <2>7. Shows(form, sel')
    BY <2>2, <2>5, <2>6, Parts DEF Shows
  <2>8. ASSUME ~sel'.moved
        PROVE  sel'.wnds # <<>> /\ InOne(form, sel', q)
    <3>1. PICK r \in AttachedOwner(form) : InOne(form, sel, r)
      BY <2>6, <2>8, Parts DEF Together
    <3>2. p \in KidsOf(form)[r] /\ r \in Owner
      BY <1>2, <2>5, <3>1 DEF InOne, AttachedOwner
    <3>3. r = q
      BY <2>3, <2>4, <3>2, Parts DEF Forest
    <3>4. sel.wnds # <<>>
      BY <1>2 DEF ToSet
    <3> QED  BY <2>6, <3>1, <3>3, <3>4 DEF InOne
  <2>9. Together(form, sel')
    BY <1>2, <2>4, <2>6, <2>8 DEF Together
  <2> HIDE DEF q
  <2> QED  BY <2>1, <2>4, <2>6, <2>7, <2>8, <2>9, pressMoving
<1>3. CASE ~(p # Base /\ Wnd(p) \in ToSet(sel.wnds))
  <2>1. sel' = Only(p) /\ press(p, "selecting")
    BY <1>3 DEF pressContainer
  <2>2. p \in Attached(form) \cup {Base}
    BY <1>1 DEF AttachedOwner, Attached
  <2>3. sel' \in Selects /\ Shows(form, sel') /\ Together(form, sel')
    BY <2>1, <2>2, Parts, OnlyIs
  <2>4. /\ curContainer' = p /\ mouse' = [Up EXCEPT !.state = "selecting"]
        /\ UNCHANGED <<form, born, clip, history, keys, fault>>
    BY <2>1 DEF press
  <2>5. mouse' \in Mouse /\ mouse'.state = "selecting"
    BY <2>4, UpWith
  <2> QED  BY <2>3, <2>4, <2>5, Parts, QuietDrag, SelectStep
<1> QED  BY <1>2, <1>3

-----------------------------------------------------------------------------
(* What moves controls and leaves everybody in his container.              *)

LEMMA SameKids ==
  ASSUME NEW f \in Shape, NEW g \in Shape, g.kids = f.kids
  PROVE  /\ KidsOf(g) = KidsOf(f) /\ (Trees(f) => Trees(g))
         /\ Attached(g) = Attached(f) /\ AttachedOwner(g) = AttachedOwner(f)
         /\ \A s : Shows(f, s) => Shows(g, s)
         /\ \A s : Together(f, s) => Together(g, s)
         /\ \A s, p : InOne(f, s, p) => InOne(g, s, p)
         /\ \A B : Fresh(f, B) => Fresh(g, B)
<1>1. KidsOf(g) = KidsOf(f)
  BY DEF KidsOf
<1>2. Attached(g) = Attached(f) /\ AttachedOwner(g) = AttachedOwner(f)
  BY <1>1, AttachedIs
<1>3. Trees(f) => Trees(g)
  BY <1>1 DEF Trees
<1>4. \A s, p : InOne(f, s, p) <=> InOne(g, s, p)
  BY <1>1 DEF InOne
<1>5. \A s : Shows(f, s) => Shows(g, s)
  BY <1>2 DEF Shows
<1>6. \A s : Together(f, s) => Together(g, s)
  BY <1>2, <1>4 DEF Together
<1>7. \A B : Fresh(f, B) => Fresh(g, B)
  BY <1>1 DEF Fresh
<1> QED  BY <1>1, <1>2, <1>3, <1>4, <1>5, <1>6, <1>7

LEMMA SelectedNow ==
  ASSUME IInv
  PROVE  /\ Selected \in Seq(Control) /\ IsInjective(Selected)
         /\ \A c : c \in ToSet(Selected) <=> \E w \in ToSet(sel.wnds) : w.live /\ w.of = c
         /\ ToSet(Selected) \subseteq Attached(form) /\ ToSet(Selected) \in SUBSET Control
         /\ SomeDead(sel) \in BOOLEAN
         /\ Selected = <<>> /\ sel.wnds # <<>> => SomeDead(sel)
         /\ (\A w \in ToSet(sel.wnds) : w.live) =>
              ~SomeDead(sel) /\ Selected = [i \in DOMAIN sel.wnds |-> sel.wnds[i].of]
<1>1. Selected = SelectedIn(sel)
  BY DEF Selected, SelectedIn
<1>2. form \in Shape /\ sel \in Selects /\ Shows(form, sel)
  BY Parts
<1> DEFINE cs == SelectedIn(sel)
<1>3. /\ cs \in Seq(Control) /\ IsInjective(cs)
      /\ \A c : c \in ToSet(cs) <=> \E w \in ToSet(sel.wnds) : w.live /\ w.of = c
      /\ ToSet(cs) \subseteq Attached(form) /\ SomeDead(sel) \in BOOLEAN
      /\ cs = <<>> /\ sel.wnds # <<>> => SomeDead(sel)
      /\ (\A w \in ToSet(sel.wnds) : w.live) =>
           ~SomeDead(sel) /\ cs = [i \in DOMAIN sel.wnds |-> sel.wnds[i].of]
  BY <1>2, SelectedIs
<1>4. ToSet(cs) \in SUBSET Control
  BY <1>3, ToSetIs
<1> QED  BY <1>1, <1>3, <1>4

LEMMA pushMoveIs ==
  ASSUME NEW s, NEW at, NEW old, pushMoveUndoRedoCommand(s, at, old)
  PROVE  /\ pushes' = pushes + 1 /\ future' = <<>>
         /\ past' = Append(past, MoveCommand(s, at, old))
  BY DEF pushMoveUndoRedoCommand, pushUndoRedoCommand, MoveCommand

(* A form with other locations, in their bound. *)
LEMMA FormStep ==
  ASSUME IInv, form' \in Shape, form'.kids = form.kids, form' \in Form,
         born' = born, sel' = sel, curContainer' = curContainer, mouse' \in Mouse,
         Dragging(mouse', form', sel, curContainer),
         clip' = clip, pushes' \in Nat, keys' \in Nat, fault' = fault,
         past' \in Seq(Sound(born)), future' \in Seq(Sound(born))
  PROVE  IInv'
<1>1. /\ Trees(form') /\ Fresh(form', born) /\ Shows(form', sel) /\ Together(form', sel)
  BY Parts, SameKids
<1> QED  BY <1>1, Parts, Step

LEMMA moveAllStep ==
  ASSUME IInv, NEW d \in Int, form' = moveAll(form, Selected, d), Fits(form')
  PROVE  /\ form' \in Form /\ form' \in Shape /\ form'.kids = form.kids
         /\ \A c \in Control : form'.loc[c] = form.loc[c] + IF c \in ToSet(Selected) THEN d ELSE 0
<1>1. /\ form' \in Shape /\ form'.kids = form.kids
      /\ \A c \in Control : form'.loc[c] = form.loc[c] + IF c \in ToSet(Selected) THEN d ELSE 0
  BY Parts, MoveAllIs
<1>2. form' \in Form
  BY <1>1, FormIsShape
<1> QED  BY <1>1, <1>2

LEMMA onMovingMoveInv ==
  ASSUME IInv, NEW d \in Shift, NEW q \in Owner, onMovingMove(d, q) PROVE IInv'
<1>1. CASE mouse.accept \notin Owner \cap Alive
  BY <1>1, UndefinedInv DEF onMovingMove
<1>2. CASE mouse.accept \in Owner \cap Alive
  <2>1. /\ q \in {mouse.accept} \cup AttachedOwner(form)
        /\ form' = moveAll(form, Selected, d) /\ Fits(form')
        /\ mouse' = [mouse EXCEPT !.accept = q]
        /\ UNCHANGED <<born, sel, curContainer, clip, history, keys, fault>>
    BY <1>2 DEF onMovingMove
  <2>2. d \in Int
    BY DEF Shift
  <2>3. /\ form' \in Form /\ form' \in Shape /\ form'.kids = form.kids
        /\ \A c \in Control : form'.loc[c] = form.loc[c] + IF c \in ToSet(Selected) THEN d ELSE 0
    BY <2>1, <2>2, moveAllStep
  <2>4. /\ mouse' \in Mouse /\ mouse'.accept = q /\ mouse'.state = mouse.state
        /\ mouse'.keyed = mouse.keyed /\ mouse'.start = mouse.start /\ mouse'.old = mouse.old
    BY <2>1, Parts DEF Mouse
  <2>5. Dragging(mouse', form', sel, curContainer)
    <3> SUFFICES ASSUME mouse'.state = "moving", ~mouse'.keyed, ~sel.moved
                 PROVE  Dragging(mouse', form', sel, curContainer)
      BY DEF Dragging
    <3>1. /\ mouse.start \in Form /\ form.kids = mouse.start.kids
          /\ sel.wnds # <<>> /\ Len(mouse.old) = Len(sel.wnds)
          /\ curContainer \in AttachedOwner(form) /\ mouse.accept \in AttachedOwner(form)
          /\ InOne(form, sel, curContainer)
          /\ \A i \in DOMAIN sel.wnds : mouse.old[i] = mouse.start.loc[sel.wnds[i].of]
      BY <2>4, Parts DEF Dragging
    <3> DEFINE Offset(f, x) == \A c \in Control :
                 f.loc[c] = mouse.start.loc[c] + IF On(sel, c) THEN x ELSE 0
    <3>2. PICK x \in Int : Offset(form, x)
      BY <2>4, Parts DEF Dragging
    <3>3. \A c \in Control : c \in ToSet(Selected) <=> On(sel, c)
      BY <3>1, SelectedNow DEF InOne, On
    <3>4. Offset(form', x + d)
      <4> SUFFICES ASSUME NEW c \in Control
                   PROVE  form'.loc[c] = mouse.start.loc[c] + IF On(sel, c) THEN x + d ELSE 0
        OBVIOUS
      <4>1. mouse.start.loc[c] \in Int
        BY <3>1, FormIsShape DEF Shape
      <4> QED  BY <2>2, <2>3, <3>2, <3>3, <4>1
    <3> HIDE DEF Offset
    <3>5. \E z \in Int : Offset(form', z)
      BY <2>2, <3>4
    <3>6. /\ AttachedOwner(form') = AttachedOwner(form) /\ InOne(form', sel, curContainer)
      BY <2>3, <3>1, Parts, SameKids
    <3>7. q \in AttachedOwner(form')
      BY <2>1, <3>1, <3>6
    <3> QED  BY <2>3, <2>4, <3>1, <3>5, <3>6, <3>7 DEF Dragging, Offset
  <2>6. pushes' = pushes /\ past' = past /\ future' = future
    BY <2>1 DEF history
  <2> QED  BY <2>1, <2>3, <2>4, <2>5, <2>6, Parts, FormStep
<1> QED  BY <1>1, <1>2

LEMMA moveSelectionsInv ==
  ASSUME IInv, NEW d \in Shift, moveSelections(d) PROVE IInv'
<1>1. /\ form' = moveAll(form, Selected, d) /\ Fits(form') /\ keys < MaxKeys
      /\ IF mouse.state = "moving" THEN DragKeyed ELSE keys' = keys + 1 /\ UNCHANGED mouse
      /\ UNCHANGED <<born, sel, curContainer, clip, history, fault>>
  BY DEF moveSelections
<1>2. form' \in Form /\ form' \in Shape /\ form'.kids = form.kids
  <2>1. d \in Int
    BY DEF Shift
  <2> QED  BY <1>1, <2>1, moveAllStep
<1>3. mouse' \in Mouse /\ keys' \in Nat /\ (mouse'.state # "moving" \/ mouse'.keyed)
  <2>1. CASE mouse.state = "moving"
    <3>1. Keyed
      BY <1>1, <2>1 DEF Keyed
    <3> QED  BY <3>1, Parts, KeyedIs
  <2>2. CASE mouse.state # "moving"
    BY <1>1, <2>2, Parts
  <2> QED  BY <2>1, <2>2
<1>4. pushes' = pushes /\ past' = past /\ future' = future
  BY <1>1 DEF history
<1> QED  BY <1>1, <1>2, <1>3, <1>4, Parts, QuietDrag, FormStep

LEMMA alignStep ==
  ASSUME IInv, NEW l \in Loc, align(l)
  PROVE  LET old == [i \in DOMAIN sel.wnds |-> LocOf(sel.wnds[i])] IN
         /\ form' \in Form /\ form' \in Shape /\ form'.kids = form.kids
         /\ \A c \in Control \ ToSet(Selected) : form'.loc[c] = form.loc[c]
         /\ sel.wnds # <<>> /\ old \in Seq(Loc) /\ Len(old) = Len(sel.wnds)
         /\ \A i \in DOMAIN sel.wnds : sel.wnds[i].live => old[i] = form.loc[sel.wnds[i].of]
         /\ pushMoveUndoRedoCommand(sel, NoContainer, old)
<1> DEFINE D == DOMAIN sel.wnds
           old == [i \in D |-> LocOf(sel.wnds[i])]
           loc == [c \in Control |-> IF c \in ToSet(Selected) THEN l ELSE form.loc[c]]
<1>1. /\ form' = [form EXCEPT !.loc = loc] /\ Len(sel.wnds) > 1
      /\ pushMoveUndoRedoCommand(sel, NoContainer, old)
  BY DEF align
<1>2. loc \in [Control -> Loc] /\ \A c \in Control \ ToSet(Selected) : loc[c] = form.loc[c]
  BY Parts DEF Form
<1> HIDE DEF loc
<1>3. form' \in Form /\ form'.kids = form.kids /\ form'.loc = loc
  BY <1>1, <1>2, Parts DEF Form
<1>4. /\ sel.wnds \in Seq(Window)
      /\ \A i \in D : sel.wnds[i] \in Window /\ sel.wnds[i] \in ToSet(sel.wnds)
  BY Parts DEF ToSet
<1>5. \A i \in D : /\ LocOf(sel.wnds[i]) \in Loc
                   /\ sel.wnds[i].live => LocOf(sel.wnds[i]) = form.loc[sel.wnds[i].of]
  <2> SUFFICES ASSUME NEW i \in D
               PROVE  /\ LocOf(sel.wnds[i]) \in Loc
                      /\ sel.wnds[i].live => LocOf(sel.wnds[i]) = form.loc[sel.wnds[i].of]
    OBVIOUS
  <2>1. sel.wnds[i].live => sel.wnds[i].of \in Control
    BY <1>4, Parts, AttachedIs DEF Shows
  <2> QED  BY <2>1, Parts, Locs DEF LocOf, Form
<1>6. old \in [D -> Loc] /\ \A i \in D : old[i] = LocOf(sel.wnds[i])
  BY <1>5
<1> HIDE DEF old
<1>7. old \in Seq(Loc) /\ Len(old) = Len(sel.wnds)
  BY <1>4, <1>6, ListIs
<1>8. sel.wnds # <<>>
  BY <1>1, <1>4
<1>9. form' \in Shape
  BY <1>3, FormIsShape
<1> QED  BY <1>1, <1>2, <1>3, <1>5, <1>6, <1>7, <1>8, <1>9 DEF old

LEMMA alignInv == ASSUME IInv, NEW l \in Loc, align(l) PROVE IInv'
<1> DEFINE old == [i \in DOMAIN sel.wnds |-> LocOf(sel.wnds[i])]
           cmd == MoveCommand(sel, NoContainer, old)
<1>1. /\ form' \in Form /\ form' \in Shape /\ form'.kids = form.kids
      /\ sel.wnds # <<>> /\ old \in Seq(Loc) /\ Len(old) = Len(sel.wnds)
      /\ pushMoveUndoRedoCommand(sel, NoContainer, old)
  BY alignStep
<1>2. Keyed /\ UNCHANGED <<born, sel, curContainer, clip, fault>>
  BY DEF align
<1> HIDE DEF old
<1>3. pushes' = pushes + 1 /\ future' = <<>> /\ past' = Append(past, cmd)
  BY <1>1, pushMoveIs
<1>4. cmd \in Sound(born)
  <2>1. Attached(form) \subseteq born
    BY Parts, FreshIs
  <2>2. Len(sel.wnds) =< Len(old)
    BY <1>1, Parts
  <2> QED  BY <1>1, <2>1, <2>2, Parts, MoveCommandIs
<1> HIDE DEF cmd
<1>5. pushes' \in Nat /\ past' \in Seq(Sound(born)) /\ future' \in Seq(Sound(born))
  BY <1>3, <1>4, Parts
<1>6. mouse' \in Mouse /\ keys' \in Nat /\ (mouse'.state # "moving" \/ mouse'.keyed)
  BY <1>2, Parts, KeyedIs
<1> QED  BY <1>1, <1>2, <1>5, <1>6, QuietDrag, FormStep

LEMMA dropInPlaceInv == ASSUME IInv, dropInPlace PROVE IInv'
<1>1. CASE Undefined
  BY <1>1, UndefinedInv
<1>2. CASE ~Undefined
  <2>1. PICK moved \in BOOLEAN :
          /\ mouse' = Up /\ sel.wnds # <<>>
          /\ moved => ~(Len(sel.wnds) > Len(mouse.old))
          /\ IF moved THEN pushMoveUndoRedoCommand(sel, curContainer, mouse.old)
             ELSE UNCHANGED history
          /\ UNCHANGED <<form, born, sel, curContainer, clip, keys, fault>>
    BY <1>2 DEF dropInPlace
  <2>2. pushes' \in Nat /\ past' \in Seq(Sound(born)) /\ future' \in Seq(Sound(born))
    <3>1. CASE moved
      <4> DEFINE cmd == MoveCommand(sel, curContainer, mouse.old)
      <4>1. pushes' = pushes + 1 /\ future' = <<>> /\ past' = Append(past, cmd)
        BY <2>1, <3>1, pushMoveIs
      <4>2. Attached(form) \subseteq born
        BY Parts, FreshIs
      <4>3. Len(sel.wnds) =< Len(mouse.old)
        <5>1. Len(sel.wnds) \in Nat /\ Len(mouse.old) \in Nat
          BY Parts
        <5> QED  BY <2>1, <3>1, <5>1
      <4>4. cmd \in Sound(born)
        BY <2>1, <4>2, <4>3, Parts, MoveCommandIs
      <4> HIDE DEF cmd
      <4> QED  BY <4>1, <4>4, Parts
    <3>2. CASE ~moved
      BY <2>1, <3>2, Parts DEF history
    <3> QED  BY <3>1, <3>2
  <2> QED  BY <2>1, <2>2, UpIs, Parts, QuietDrag, FormStep
<1> QED  BY <1>1, <1>2

-----------------------------------------------------------------------------
(* The drag to another container.                                          *)

(* Who may be used is on the form, or was allocated. *)
LEMMA AliveIn ==
  ASSUME IInv
  PROVE  /\ HeldBy(past, future) \in SUBSET Control /\ HeldBy(past, future) \subseteq born
         /\ Alive = Living(form, HeldBy(past, future))
         /\ Alive \subseteq born \cup {Base} /\ Alive \in SUBSET Places
         /\ Attached(form) \subseteq born
<1>1. HeldBy(past, future) \in SUBSET Control /\ HeldBy(past, future) \subseteq born
  BY Parts, HeldIs
<1>2. form \in Shape /\ born \in SUBSET Control /\ Fresh(form, born)
  BY Parts
<1> DEFINE R == HeldBy(past, future)
<1>3. Alive = Living(form, R)
  BY AliveIs
<1> HIDE DEF R
<1>4. R \in SUBSET born /\ R \in SUBSET Control
  BY <1>1 DEF R
<1>5. Attached(form) \subseteq born /\ Living(form, R) \subseteq born \cup {Base}
  BY <1>2, <1>4, FreshIs
<1>6. Living(form, R) \in SUBSET Places
  BY <1>2, <1>4, LivingIs
<1> QED  BY <1>1, <1>3, <1>5, <1>6 DEF R

LEMMA dropAcrossIs ==
  ASSUME IInv, NEW off \in Shift, NEW valid \in BOOLEAN, dropAcross(off, valid), ~Undefined
  PROVE  LET K == KidsOf(form)
             from == curContainer
             to == mouse.accept
             S == ToSet(Selected) \ K[to]
             shown == to \in AttachedOwner(form)
         IN
         /\ mouse.state = "moving" /\ to # from /\ {from, to} \subseteq Owner \cap Alive
         /\ ~SomeDead(sel) /\ Len(sel.wnds) =< Len(mouse.old)
         /\ S \subseteq K[from] /\ S \subseteq Attached(form) /\ to \notin Under(K, S)
         /\ form' \in Form /\ Trees(form') /\ KidsOf(form') = Moved(K, S, to)
         /\ \A c \in Control :
              form'.loc[c] = form.loc[c] + IF c \in ToSet(Selected) THEN off ELSE 0
         /\ Renews(sel', sel, IF shown THEN {} ELSE Under(K, S),
                              IF shown /\ valid THEN {} ELSE Under(K, S))
         /\ sel'.moved = (sel.moved \/ ~shown) /\ curContainer' = to /\ mouse' = Up
         /\ IF Selected = <<>> THEN UNCHANGED history
            ELSE pushMoveUndoRedoCommand(sel', from, mouse.old)
         /\ UNCHANGED <<born, clip, keys, fault>>
<1> DEFINE K == KidsOf(form)
           from == curContainer
           to == mouse.accept
           coming == Unlinked(Selected, form.kids[to])
           S == ToSet(Selected) \ K[to]
           shown == to \in AttachedOwner(form)
           renewed == Below(form, ToSet(coming))
           dropped == [wnds  |-> [i \in DOMAIN sel.wnds |-> Renewed(sel.wnds[i], renewed, shown)],
                       cur   |-> Renewed(sel.cur, renewed, shown /\ valid),
                       moved |-> sel.moved \/ ~shown]
           moved == moveAll(form, Selected, off)
           gone == remove(moved, from, coming)
           put == insert(gone, to, coming)
<1>1. /\ mouse.state = "moving" /\ to # from
      /\ ~SomeDead(sel) /\ ~(Len(sel.wnds) > Len(mouse.old))
      /\ {from, to} \subseteq Owner \cap Alive /\ to \notin renewed
      /\ ToSet(coming) \subseteq ToSet(form.kids[from])
      /\ form' = put /\ Fits(form')
      /\ sel' = dropped /\ curContainer' = to /\ mouse' = Up
      /\ IF Selected = <<>> THEN UNCHANGED history
         ELSE pushMoveUndoRedoCommand(dropped, from, mouse.old)
      /\ UNCHANGED <<born, clip, keys, fault>>
  BY DEF dropAcross
<1>2. from \in Owner /\ to \in Owner /\ off \in Int
  BY <1>1 DEF Shift
<1>3. /\ Selected \in Seq(Control) /\ IsInjective(Selected)
      /\ ToSet(Selected) \subseteq Attached(form) /\ ToSet(Selected) \in SUBSET Control
  BY SelectedNow
<1>4. coming \in Seq(Control) /\ ToSet(coming) = S /\ IsInjective(coming)
  BY <1>2, <1>3, UnlinkedIs DEF KidsOf
<1>5. form.kids \in [Owner -> Seq(Control)] /\ form \in Shape /\ Trees(form)
  BY Parts DEF Form
<1>6. renewed = Under(K, S)
  <2>1. ToSet(coming) \subseteq Control \cup {Base}
    BY <1>3, <1>4
  <2> HIDE DEF coming, K, S
  <2>2. Below(form, ToSet(coming)) = Under(KidsOf(form), ToSet(coming))
    BY <1>5, <2>1, BelowIsUnder
  <2> QED  BY <1>4, <2>2 DEF K
<1> HIDE DEF coming, renewed
<1>7. S \subseteq K[from]
  BY <1>1, <1>2, <1>4 DEF KidsOf
<1>8. /\ moved \in Shape /\ KidsOf(moved) = K /\ moved.kids = form.kids
      /\ \A c \in Control :
           moved.loc[c] = form.loc[c] + IF c \in ToSet(Selected) THEN off ELSE 0
  BY <1>2, <1>5, MoveAllIs
<1> HIDE DEF moved, K
<1>9. Trees(moved)
  BY <1>5, <1>8, SameKids
<1>10. /\ put \in Shape /\ Trees(put) /\ put.loc = moved.loc
       /\ KidsOf(put) = Moved(K, S, to)
  <2>1. to \notin Under(K, S) /\ to # from
    BY <1>1, <1>6
  <2> HIDE DEF S
  <2>2. ToSet(coming) \subseteq KidsOf(moved)[from] /\ to \notin Under(KidsOf(moved), ToSet(coming))
    BY <1>4, <1>7, <1>8, <2>1
  <2>3. LET g == insert(remove(moved, from, coming), to, coming) IN
        /\ g \in Shape /\ Trees(g) /\ g.loc = moved.loc
        /\ KidsOf(g) = Moved(KidsOf(moved), ToSet(coming), to)
    BY <1>2, <1>4, <1>8, <1>9, <2>1, <2>2, TakeAcross
  <2> QED  BY <1>4, <1>8, <2>3
<1> HIDE DEF put
<1>11. form' \in Form
  BY <1>1, <1>10, FormIsShape
<1>12. Len(sel.wnds) =< Len(mouse.old)
  <2>1. Len(sel.wnds) \in Nat /\ Len(mouse.old) \in Nat
    BY Parts
  <2> QED  BY <1>1, <2>1
<1>13. S \subseteq Attached(form) /\ to \notin Under(K, S)
  BY <1>1, <1>3, <1>6
<1>14. /\ Renews(sel', sel, IF shown THEN {} ELSE Under(K, S),
                            IF shown /\ valid THEN {} ELSE Under(K, S))
       /\ sel'.moved = (sel.moved \/ ~shown)
  <2> DEFINE V == IF shown THEN {} ELSE Under(K, S)
             W == IF shown /\ valid THEN {} ELSE Under(K, S)
             D == DOMAIN sel.wnds
  <2> HIDE DEF S
  <2>1. /\ \A w : Renewed(w, renewed, shown) = Gone(w, V)
        /\ \A w : Renewed(w, renewed, shown /\ valid) = Gone(w, W)
    BY <1>6 DEF Renewed, Gone
  <2> HIDE DEF shown, V, W
  <2>2. sel'.wnds = [i \in D |-> Renewed(sel.wnds[i], renewed, shown)]
        /\ sel'.cur = Renewed(sel.cur, renewed, shown /\ valid)
        /\ sel'.moved = (sel.moved \/ ~shown)
        /\ sel' = [wnds |-> sel'.wnds, cur |-> sel'.cur, moved |-> sel'.moved]
    BY <1>1
  <2>3. sel'.wnds = [i \in D |-> Gone(sel.wnds[i], V)] /\ sel'.cur = Gone(sel.cur, W)
    BY <2>1, <2>2
  <2>4. sel'.moved \in BOOLEAN
    BY <2>2
  <2>5. Renews(sel', sel, V, W)
    BY <2>2, <2>3, <2>4 DEF Renews
  <2> QED  BY <2>2, <2>5 DEF V, W
<1>15. IF Selected = <<>> THEN UNCHANGED history
       ELSE pushMoveUndoRedoCommand(sel', from, mouse.old)
  <2> HIDE DEF dropped
  <2> QED  BY <1>1
<1> HIDE DEF dropped, shown
<1> QED  BY <1>1, <1>6, <1>7, <1>8, <1>10, <1>11, <1>12, <1>13, <1>14, <1>15 DEF K, shown

LEMMA dropAcrossInv ==
  ASSUME IInv, NEW off \in Shift, NEW valid \in BOOLEAN, dropAcross(off, valid) PROVE IInv'
<1>1. CASE Undefined
  BY <1>1, UndefinedInv
<1>2. CASE ~Undefined
  <2> DEFINE K == KidsOf(form)
             from == curContainer
             to == mouse.accept
             S == ToSet(Selected) \ K[to]
             renewed == Under(K, S)
             shown == to \in AttachedOwner(form)
             V == IF shown THEN {} ELSE renewed
             W == IF shown /\ valid THEN {} ELSE renewed
  <2>1. /\ to # from /\ {from, to} \subseteq Owner \cap Alive
        /\ Len(sel.wnds) =< Len(mouse.old)
        /\ S \subseteq K[from] /\ S \subseteq Attached(form) /\ to \notin renewed
        /\ form' \in Form /\ Trees(form') /\ KidsOf(form') = Moved(K, S, to)
        /\ Renews(sel', sel, V, W) /\ sel'.moved = (sel.moved \/ ~shown)
        /\ curContainer' = to /\ mouse' = Up
        /\ IF Selected = <<>> THEN UNCHANGED history
           ELSE pushMoveUndoRedoCommand(sel', from, mouse.old)
        /\ UNCHANGED <<born, clip, keys, fault>>
    BY <1>2, dropAcrossIs
  <2>2. /\ Forest(K) /\ form \in Shape /\ form' \in Shape /\ from \in Owner /\ to \in Owner
        /\ renewed \in SUBSET Control /\ S \in SUBSET Control
    <3>1. S \subseteq Control /\ Forest(K) /\ form \in Shape
      BY <2>1, Parts, AttachedIs
    <3>2. renewed \subseteq Control
      BY <3>1 DEF Under
    <3> QED  BY <2>1, <3>1, <3>2, FormIsShape
  <2> HIDE DEF K, S, renewed, shown
  <2>3. V \in SUBSET Control /\ W \in SUBSET Control /\ (shown => V = {})
    BY <2>2
  <2>4. /\ \A o \in Owner : Moved(K, S, to)[o] = IF o = to THEN K[o] \cup S ELSE K[o] \ S
        /\ \A X : Under(K, X) \subseteq Under(Moved(K, S, to), X) \cup renewed
        /\ \A X : to \in Under(K, X) => Under(K, X) \subseteq Under(Moved(K, S, to), X)
    <3>1. /\ Forest(K) /\ from \in Owner /\ to \in Owner
          /\ S \subseteq K[from] /\ from # to /\ to \notin Under(K, S)
      BY <2>1, <2>2 DEF renewed
    <3> HIDE DEF from, to
    <3> QED  BY ONLY <3>1, MovedIs DEF renewed
  <2>5. /\ Attached(form) = Under(K, {Base}) \ {Base}
        /\ Attached(form') = Under(Moved(K, S, to), {Base}) \ {Base}
        /\ shown <=> to \in Under(K, {Base})
        /\ AttachedOwner(form') = Owner \cap Under(Moved(K, S, to), {Base})
    BY <2>1, <2>2, AttachedIs DEF K, shown
  <2>6. /\ Attached(form) \subseteq Attached(form') \cup renewed
        /\ shown => Attached(form) \subseteq Attached(form')
        /\ shown => to \in AttachedOwner(form')
    BY <2>2, <2>4, <2>5
  <2>7. Keeps(sel', sel, V, W) /\ Shows(form', sel')
    <3>1. Attached(form) \subseteq Attached(form') \cup V
      BY <2>6
    <3>2. Attached(form) \subseteq Attached(form') \cup W
      BY <2>6
    <3> HIDE DEF V, W
    <3>3. form' \in Shape /\ form \in Shape /\ sel \in Selects /\ Shows(form, sel)
      BY <2>2, Parts
    <3> QED  BY <2>1, <2>3, <3>1, <3>2, <3>3, RenewIs, RenewShows
  <2>7a. /\ sel' \in Selects /\ Len(sel'.wnds) = Len(sel.wnds)
         /\ (sel'.wnds = <<>>) <=> (sel.wnds = <<>>)
         /\ sel'.cur.live => sel'.cur = sel.cur
         /\ sel.cur = Wnd(Base) => sel'.cur = sel.cur
         /\ shown => sel'.wnds = sel.wnds
    BY <2>3, <2>7 DEF Keeps
  <2> HIDE DEF V, W
  <2>8. Together(form', sel')
    <3> SUFFICES ASSUME ~sel'.moved PROVE Together(form', sel')
      BY DEF Together
    <3>2. ~sel.moved /\ shown
      BY <2>1
    <3>3. PICK p \in AttachedOwner(form) : InOne(form, sel, p)
      BY <3>2, Parts DEF Together
    <3>4. IF sel.wnds = <<>> THEN sel.cur = Wnd(Base)
          ELSE sel.cur.live => sel.cur \in ToSet(sel.wnds)
      BY <3>2, Parts DEF Together
    <3>5. InOne(form', sel', to)
      <4> SUFFICES ASSUME NEW w \in ToSet(sel.wnds)
                   PROVE  w.live /\ w.of \in KidsOf(form')[to]
        BY <2>7a, <3>2 DEF InOne
      <4>1. w.live /\ w.of \in ToSet(Selected)
        BY <3>3, SelectedNow DEF InOne
      <4>2. w.of \in K[to] \cup S
        BY <4>1 DEF S
      <4>3. KidsOf(form') = Moved(K, S, to) /\ to \in Owner
        BY <2>1, <2>2
      <4>4. Moved(K, S, to)[to] = K[to] \cup S
        BY <2>4, <4>3
      <4> QED  BY ONLY <4>1, <4>2, <4>3, <4>4
    <3> QED  BY <2>6, <2>7a, <3>2, <3>4, <3>5 DEF Together
  <2>9. born \in SUBSET Control /\ Fresh(form', born)
    <3>1. Alive \subseteq born \cup {Base} /\ Attached(form) \subseteq born
      BY AliveIn
    <3>2. to \in born \cup {Base} /\ S \in SUBSET born
      BY <2>1, <3>1
    <3>3. \A o \in Owner : KidsOf(form')[o] \subseteq KidsOf(form)[o] \cup IF o = to THEN S ELSE {}
      BY <2>1, <2>4 DEF K
    <3>4. Fresh(form, born) /\ born \in SUBSET Control
      BY Parts
    <3>5. born \subseteq born
      OBVIOUS
    <3> QED  BY <3>2, <3>3, <3>4, <3>5, FreshMore
  <2>10. pushes' \in Nat /\ past' \in Seq(Sound(born)) /\ future' \in Seq(Sound(born))
    <3>1. CASE Selected = <<>>
      BY <2>1, <3>1, Parts DEF history
    <3>2. CASE Selected # <<>>
      <4> DEFINE cmd == MoveCommand(sel', from, mouse.old)
      <4>1. pushes' = pushes + 1 /\ future' = <<>> /\ past' = Append(past, cmd)
        BY <2>1, <3>2, pushMoveIs
      <4>2. sel'.wnds # <<>>
        <5>1. sel.wnds # <<>>
          <6> SUFFICES ASSUME sel.wnds = <<>> PROVE FALSE
            OBVIOUS
          <6>1. ToSet(sel.wnds) = {}
            BY Parts, ToSetIs
          <6>2. ToSet(Selected) = {}
            BY <6>1, SelectedNow
          <6> QED  BY <3>2, <6>2, SelectedNow, ToSetIs
        <5> QED  BY <2>7a, <5>1
      <4>3. Len(sel'.wnds) =< Len(mouse.old)
        BY <2>1, <2>7a
      <4>4. Attached(form') \subseteq born
        BY <2>2, <2>9, FreshIs
      <4>5. from \in Owner \cup {NoContainer} /\ mouse.old \in Seq(Loc)
        BY Parts
      <4>6. cmd \in Sound(born)
        BY <2>2, <2>7, <2>7a, <4>2, <4>3, <4>4, <4>5, MoveCommandIs
      <4> HIDE DEF cmd
      <4> QED  BY <4>1, <4>6, Parts
    <3> QED  BY <3>1, <3>2
  <2>11. Dragging(mouse', form', sel', curContainer') /\ mouse' \in Mouse
    BY <2>1, UpIs, QuietDrag
  <2> QED  BY <2>1, <2>2, <2>7, <2>7a, <2>8, <2>9, <2>10, <2>11, Parts, Step
<1> QED  BY <1>1, <1>2

-----------------------------------------------------------------------------
(* New controls.                                                           *)

LEMMA addedIs ==
  ASSUME IInv, NEW p \in Owner, p \in Alive, NEW cs \in Seq(Control), IsInjective(cs),
         ToSet(cs) \cap born = {}, NEW locs \in Seq(Loc), Len(locs) = Len(cs),
         added(p, cs, locs)
  PROVE  LET K == KidsOf(form)
             S == ToSet(cs)
         IN
         /\ form' \in Form /\ Trees(form') /\ KidsOf(form') = Graft(K, p, S)
         /\ \A c \in Control \ S : form'.loc[c] = form.loc[c]
         /\ Unplaced(K, S) /\ p \notin Under(K, S) /\ S \in SUBSET Control
         /\ born' = born \cup S /\ born' \in SUBSET Control /\ Fresh(form', born')
         /\ IF p \in AttachedOwner(form)
            THEN /\ sel' = Group(cs)
                 /\ pushUndoRedoCommand(Command("ADD", cs, p, <<>>, FALSE))
            ELSE sel' = cancelSelectAll /\ UNCHANGED history
<1> DEFINE K == KidsOf(form)
           S == ToSet(cs)
           h == insert(form, p, cs)
           g == setLocations(h, cs, locs)
<1>1. /\ born' = born \cup S /\ form' = g
      /\ IF p \in AttachedOwner(form)
         THEN /\ sel' = Group(cs)
              /\ pushUndoRedoCommand(Command("ADD", cs, p, <<>>, FALSE))
         ELSE sel' = cancelSelectAll /\ UNCHANGED history
  BY DEF added
<1>2. /\ form \in Form /\ form \in Shape /\ Forest(K) /\ born \in SUBSET Control
      /\ Fresh(form, born) /\ \A o \in Owner : IsInjective(form.kids[o])
  BY Parts DEF Trees
<1>3. S \in SUBSET Control /\ S \cap born = {}
  BY ToSetIs
<1>4. Unplaced(K, S) /\ Under(K, S) = S
  BY <1>2, <1>3, FreshIs
<1>5. p \notin S
  <2>1. p \in born \cup {Base}
    BY AliveIn
  <2> QED  BY <1>3, <2>1, Bases
<1>6. /\ h \in Shape /\ h \in Form /\ KidsOf(h) = Graft(K, p, S) /\ h.loc = form.loc
      /\ \A o \in Owner : IsInjective(h.kids[o])
  <2>1. S \cap K[p] = {}
    BY <1>4 DEF Unplaced
  <2> QED  BY <1>2, <2>1, InsertIs
<1> HIDE DEF h, K, S
<1>7. /\ g \in Form /\ g.kids = h.kids /\ KidsOf(g) = KidsOf(h)
      /\ \A c \in Control \ S : g.loc[c] = form.loc[c]
  BY <1>6, SetLocationsIs DEF S
<1> HIDE DEF g
<1>8. Forest(Graft(K, p, S))
  BY <1>2, <1>3, <1>4, <1>5, GraftForest
<1>9. Trees(g)
  BY <1>6, <1>7, <1>8 DEF Trees
<1>10. born' \in SUBSET Control /\ Fresh(form', born')
  <2>1. p \in born' \cup {Base} /\ S \in SUBSET born' /\ born \subseteq born' /\ born' \in SUBSET Control
    BY <1>1, <1>2, <1>3, AliveIn
  <2>3. \A o \in Owner : KidsOf(form')[o] \subseteq KidsOf(form)[o] \cup IF o = p THEN S ELSE {}
    BY <1>1, <1>6, <1>7 DEF K, Graft
  <2>4. Fresh(form, born)
    BY <1>2
  <2> HIDE DEF g
  <2> QED  BY <2>1, <2>3, <2>4 DEF Fresh
<1> QED  BY <1>1, <1>3, <1>4, <1>5, <1>6, <1>7, <1>9, <1>10 DEF K, S

LEMMA addedInv ==
  ASSUME IInv, NEW p \in Owner, p \in Alive, NEW cs \in Seq(Control), IsInjective(cs),
         ToSet(cs) \cap born = {}, NEW locs \in Seq(Loc), Len(locs) = Len(cs),
         added(p, cs, locs), mouse' \in Mouse, mouse'.state # "moving" \/ mouse'.keyed,
         keys' \in Nat, UNCHANGED <<curContainer, clip, fault>>
  PROVE  IInv'
<1> DEFINE K == KidsOf(form)
           S == ToSet(cs)
           cmd == Command("ADD", cs, p, <<>>, FALSE)
<1>1. /\ form' \in Form /\ Trees(form') /\ KidsOf(form') = Graft(K, p, S)
      /\ S \in SUBSET Control
      /\ born' = born \cup S /\ born' \in SUBSET Control /\ Fresh(form', born')
      /\ IF p \in AttachedOwner(form) THEN sel' = Group(cs) /\ pushUndoRedoCommand(cmd)
         ELSE sel' = cancelSelectAll /\ UNCHANGED history
  BY addedIs
<1>2. form' \in Shape /\ form \in Shape /\ K \in Hierarchy
  BY <1>1, Parts, FormIsShape DEF Forest
<1>3. past \in Seq(Sound(born')) /\ future \in Seq(Sound(born'))
  BY <1>1, Parts, SoundGrows
<1>4. Dragging(mouse', form', sel', curContainer')
  BY QuietDrag
<1>5. cmd \in Sound(born')
  <2> DEFINE none == <<>>
  <2>1. none \in Seq(Loc)
    OBVIOUS
  <2> HIDE DEF none
  <2>2. cmd = [kind |-> "ADD", on |-> cs, at |-> p, val |-> none, hole |-> FALSE]
    BY DEF Command, none
  <2> HIDE DEF cmd
  <2>3. cmd \in Commands
    BY <2>1, <2>2 DEF Commands
  <2> QED  BY <1>1, <2>2, <2>3 DEF Sound
<1>6. /\ sel' \in Selects /\ Shows(form', sel') /\ Together(form', sel')
      /\ pushes' \in Nat /\ past' \in Seq(Sound(born')) /\ future' \in Seq(Sound(born'))
  <2>1. CASE p \in AttachedOwner(form)
    <3>1. sel' = Group(cs) /\ pushes' = pushes + 1 /\ past' = Append(past, cmd) /\ future' = <<>>
      BY <1>1, <2>1 DEF pushUndoRedoCommand
    <3>2. p \in AttachedOwner(form') /\ ToSet(cs) \subseteq KidsOf(form')[p]
      <4> HIDE DEF K, S
      <4>1. /\ AttachedOwner(form) = Owner \cap Under(K, {Base})
            /\ AttachedOwner(form') = Owner \cap Under(Graft(K, p, S), {Base})
        BY <1>1, <1>2, AttachedIs DEF K
      <4>2. \A X : Under(K, X) \subseteq Under(Graft(K, p, S), X)
        BY <1>1, <1>2, GraftIs
      <4>3. Graft(K, p, S)[p] = K[p] \cup S
        BY DEF Graft
      <4> QED  BY <1>1, <2>1, <4>1, <4>2, <4>3 DEF S
    <3>3. sel' \in Selects /\ Shows(form', sel') /\ Together(form', sel')
      BY <1>2, <3>1, <3>2, GroupIs
    <3> HIDE DEF cmd
    <3> QED  BY <1>3, <1>5, <3>1, <3>3, Parts
  <2>2. CASE p \notin AttachedOwner(form)
    <3>1. sel' = cancelSelectAll /\ pushes' = pushes /\ past' = past /\ future' = future
      BY <1>1, <2>2 DEF history
    <3> QED  BY <1>2, <1>3, <3>1, Parts, NoneIs
  <2> QED  BY <2>1, <2>2
<1> QED  BY <1>1, <1>4, <1>6, Parts, Step

LEMMA onCreatingUpInv ==
  ASSUME IInv, NEW c \in Control, NEW l \in Loc, onCreatingUp(c, l) PROVE IInv'
<1>1. CASE curContainer \notin Owner \cap Alive
  BY <1>1, UndefinedInv DEF onCreatingUp
<1>2. CASE curContainer \in Owner \cap Alive
  <2>1. /\ c \notin born /\ added(curContainer, <<c>>, <<l>>) /\ mouse' = Up
        /\ UNCHANGED <<curContainer, clip, keys, fault>>
    BY <1>2 DEF onCreatingUp
  <2>2. /\ <<c>> \in Seq(Control) /\ IsInjective(<<c>>) /\ ToSet(<<c>>) \cap born = {}
        /\ <<l>> \in Seq(Loc) /\ Len(<<l>>) = Len(<<c>>)
    BY <2>1, OneIs
  <2>3. mouse' \in Mouse /\ mouse'.state = "up" /\ keys' \in Nat
    BY <2>1, UpIs, Parts
  <2> DEFINE cs == <<c>>
             locs == <<l>>
  <2>4. /\ cs \in Seq(Control) /\ IsInjective(cs) /\ ToSet(cs) \cap born = {}
        /\ locs \in Seq(Loc) /\ Len(locs) = Len(cs) /\ added(curContainer, cs, locs)
    BY <2>1, <2>2
  <2> HIDE DEF cs, locs
  <2> QED  BY <1>2, <2>1, <2>3, <2>4, addedInv
<1> QED  BY <1>1, <1>2

(* What is pasted: controls that were not allocated, and as many places.   *)
PastePlace ==
  IF curContainer # NoContainer THEN curContainer
  ELSE IF ~sel.cur.live THEN Base
  ELSE IF sel.cur.of \in Owner THEN sel.cur.of
  ELSE ParentOf(form, sel.cur.of)

LEMMA pasteIs ==
  ASSUME IInv, NEW cs \in UpTo(ClipMax, Control \ born), NEW locs \in UpTo(ClipMax, Loc),
         paste(cs, locs), ~Undefined
  PROVE  /\ PastePlace \in Owner /\ PastePlace \in Alive
         /\ cs \in Seq(Control) /\ IsInjective(cs) /\ ToSet(cs) \cap born = {}
         /\ locs \in Seq(Loc) /\ Len(locs) = Len(cs)
         /\ added(PastePlace, cs, locs) /\ Keyed /\ UNCHANGED <<curContainer, clip, fault>>
<1>1. /\ PastePlace \in Alive /\ Len(cs) = clip /\ Len(locs) = clip /\ IsInjective(cs)
      /\ added(PastePlace, cs, locs) /\ Keyed /\ UNCHANGED <<curContainer, clip, fault>>
  BY DEF paste, PastePlace
<1>2. PastePlace \in Owner
  <2>1. CASE sel.cur.live /\ sel.cur.of \notin Owner
    <3>1. sel.cur.of \in Attached(form)
      BY <2>1, Parts, Bases DEF Shows
    <3>2. PICK o \in AttachedOwner(form) : sel.cur.of \in KidsOf(form)[o]
      BY <3>1, Parts, AttachedChild
    <3>3. ParentOf(form, sel.cur.of) = o /\ o \in Owner
      BY <3>2, Parts, ParentIs DEF AttachedOwner
    <3>4. curContainer \in Owner \cup {NoContainer}
      BY Parts
    <3> QED  BY <2>1, <3>3, <3>4 DEF PastePlace
  <2>2. CASE ~(sel.cur.live /\ sel.cur.of \notin Owner)
    BY <2>2, Parts, Bases DEF PastePlace
  <2> QED  BY <2>1, <2>2
<1>3. /\ cs \in Seq(Control \ born) /\ locs \in Seq(Loc)
  <2>1. ASSUME NEW S, NEW q \in UpTo(ClipMax, S) PROVE q \in Seq(S)
    <3>1. PICK m \in 1 .. ClipMax : q \in [1 .. m -> S]
      BY <2>1 DEF UpTo
    <3>2. m \in Nat
      BY SelectionAssumption
    <3> QED  BY ONLY <3>1, <3>2
  <2> QED  BY ONLY <2>1, cs \in UpTo(ClipMax, Control \ born), locs \in UpTo(ClipMax, Loc)
<1>4. cs \in Seq(Control) /\ ToSet(cs) \cap born = {}
  <2>1. ToSet(cs) \subseteq Control \ born
    BY <1>3, ToSetIs
  <2> QED  BY <1>3, <2>1
<1> QED  BY <1>1, <1>2, <1>3, <1>4

LEMMA pasteInv ==
  ASSUME IInv, NEW cs \in UpTo(ClipMax, Control \ born), NEW locs \in UpTo(ClipMax, Loc),
         paste(cs, locs)
  PROVE  IInv'
<1>1. CASE Undefined
  BY <1>1, UndefinedInv
<1>2. CASE ~Undefined
  <2>1. /\ PastePlace \in Owner /\ PastePlace \in Alive
        /\ cs \in Seq(Control) /\ IsInjective(cs) /\ ToSet(cs) \cap born = {}
        /\ locs \in Seq(Loc) /\ Len(locs) = Len(cs)
        /\ added(PastePlace, cs, locs) /\ Keyed /\ UNCHANGED <<curContainer, clip, fault>>
    BY <1>2, pasteIs
  <2>2. mouse' \in Mouse /\ keys' \in Nat /\ (mouse'.state # "moving" \/ mouse'.keyed)
    BY <2>1, Parts, KeyedIs
  <2> QED  BY <2>1, <2>2, addedInv
<1> QED  BY <1>1, <1>2

-----------------------------------------------------------------------------
(* Deletion.                                                               *)

LEMMA deletedIs ==
  ASSUME IInv, sel.wnds # <<>>, deleted
  PROVE  LET S == ToSet(Selected)
             at == ParentOf(form, Selected[1])
             cmd == Command("DELETE", Selected, at, <<>>, SomeDead(sel))
         IN
         /\ form' \in Form /\ Trees(form') /\ form'.loc = form.loc
         /\ KidsOf(form') = Cut(KidsOf(form), S) /\ Fresh(form', born)
         /\ sel' = cancelSelectAll
         /\ IF sel.wnds[1].live
            THEN /\ Selected # <<>> /\ Selected[1] \in S
                 /\ at \in AttachedOwner(form) /\ at \in Owner
                 /\ Selected[1] \in KidsOf(form)[at]
                 /\ cmd \in Sound(born) /\ pushUndoRedoCommand(cmd)
            ELSE UNCHANGED history
<1> DEFINE K == KidsOf(form)
           S == ToSet(Selected)
           at == ParentOf(form, Selected[1])
           cmd == Command("DELETE", Selected, at, <<>>, SomeDead(sel))
<1>1. /\ form' = remove1(form, Selected) /\ sel' = cancelSelectAll
      /\ IF sel.wnds[1].live THEN pushUndoRedoCommand(cmd) ELSE UNCHANGED history
  BY DEF deleted
<1>2. /\ form \in Form /\ form \in Shape /\ Trees(form) /\ Forest(K) /\ Fresh(form, born)
      /\ \A o \in Owner : IsInjective(form.kids[o])
  BY Parts DEF Trees
<1>3. /\ Selected \in Seq(Control) /\ IsInjective(Selected)
      /\ S \subseteq Attached(form) /\ S \in SUBSET Control /\ SomeDead(sel) \in BOOLEAN
  BY SelectedNow
<1>4. /\ form' \in Form /\ form'.loc = form.loc /\ KidsOf(form') = Cut(K, S)
      /\ \A o \in Owner : IsInjective(form'.kids[o])
  BY <1>1, <1>2, Remove1Is
<1>5. Trees(form')
  BY <1>2, <1>4, CutForest DEF Trees
<1>6. Fresh(form', born)
  <2>1. \A o \in Owner : KidsOf(form')[o] \subseteq K[o]
    BY <1>4 DEF Cut
  <2> QED  BY <1>2, <2>1 DEF Fresh
<1>7. ASSUME sel.wnds[1].live
      PROVE  /\ Selected # <<>> /\ Selected[1] \in S
             /\ at \in AttachedOwner(form) /\ at \in Owner
             /\ Selected[1] \in K[at]
             /\ cmd \in Sound(born)
  <2>1. sel.wnds[1] \in ToSet(sel.wnds)
    <3>1. 1 \in DOMAIN sel.wnds
      BY Parts, EmptySeq
    <3> QED  BY <3>1 DEF ToSet
  <2>2. sel.wnds[1].of \in S
    BY <1>7, <2>1, SelectedNow
  <2>3. Selected # <<>>
    BY <2>2, <1>3, ToSetIs
  <2>4. Selected[1] \in S
    <3>1. 1 \in DOMAIN Selected
      BY <1>3, <2>3, EmptySeq
    <3> QED  BY <3>1 DEF ToSet
  <2>5. PICK o \in AttachedOwner(form) : Selected[1] \in K[o]
    BY <1>2, <1>3, <2>4, AttachedChild
  <2>6. at = o /\ o \in Owner
    BY <1>2, <2>5, ParentIs DEF AttachedOwner
  <2>7. cmd \in Sound(born)
    <3> DEFINE none == <<>>
               hole == SomeDead(sel)
    <3>1. none \in Seq(Loc)
      OBVIOUS
    <3> HIDE DEF none, hole
    <3>2. cmd = [kind |-> "DELETE", on |-> Selected, at |-> at, val |-> none, hole |-> hole]
      BY DEF Command, none, hole
    <3> HIDE DEF cmd, at
    <3>3. hole \in BOOLEAN /\ at \in Owner
      BY <1>3, <2>6 DEF hole
    <3>4. cmd \in Commands
      BY <1>3, <3>1, <3>2, <3>3 DEF Commands
    <3>5. S \subseteq born
      BY <1>3, AliveIn
    <3> QED  BY <1>3, <3>2, <3>4, <3>5 DEF Sound
  <2> QED  BY <2>3, <2>4, <2>5, <2>6, <2>7
<1> HIDE DEF cmd, at, K, S
<1> QED  BY <1>1, <1>4, <1>5, <1>6, <1>7 DEF K, S, cmd, at

LEMMA deletedInv ==
  ASSUME IInv, sel.wnds # <<>>, deleted, Keyed,
         clip' \in 0 .. ClipMax, UNCHANGED <<born, curContainer, fault>>
  PROVE  IInv'
<1> DEFINE cmd == Command("DELETE", Selected, ParentOf(form, Selected[1]), <<>>, SomeDead(sel))
<1>1. /\ form' \in Form /\ Trees(form') /\ Fresh(form', born)
      /\ sel' = cancelSelectAll
      /\ IF sel.wnds[1].live THEN cmd \in Sound(born) /\ pushUndoRedoCommand(cmd)
         ELSE UNCHANGED history
  BY deletedIs
<1> HIDE DEF cmd
<1>2. pushes' \in Nat /\ past' \in Seq(Sound(born)) /\ future' \in Seq(Sound(born))
  <2>1. CASE sel.wnds[1].live
    <3>1. cmd \in Sound(born) /\ pushes' = pushes + 1 /\ past' = Append(past, cmd) /\ future' = <<>>
      BY <1>1, <2>1 DEF pushUndoRedoCommand
    <3> QED  BY <3>1, Parts
  <2>2. CASE ~sel.wnds[1].live
    BY <1>1, <2>2, Parts DEF history
  <2> QED  BY <2>1, <2>2
<1>3. mouse' \in Mouse /\ keys' \in Nat /\ Dragging(mouse', form', sel', curContainer')
  BY Parts, KeyedIs, QuietDrag
<1>4. sel' \in Selects /\ Shows(form', sel') /\ Together(form', sel')
  BY <1>1, FormIsShape, NoneIs
<1> QED  BY <1>1, <1>2, <1>3, <1>4, Parts, Step

LEMMA deleteInv == ASSUME IInv, deleteSelectedInstance PROVE IInv'
<1>1. /\ sel.wnds # <<>> /\ deleted /\ Keyed /\ UNCHANGED <<born, curContainer, clip, fault>>
  BY DEF deleteSelectedInstance, SomeSelected
<1> QED  BY <1>1, Parts, deletedInv

LEMMA cutInv == ASSUME IInv, cut PROVE IInv'
<1>1. /\ sel.wnds # <<>> /\ deleted /\ copied /\ Keyed /\ UNCHANGED <<born, curContainer, fault>>
  BY DEF cut, SomeSelected
<1>2. clip' \in 0 .. ClipMax
  <2>1. Len(Selected) \in Nat
    BY SelectedNow
  <2> QED  BY <1>1, <2>1, Parts, SelectionAssumption DEF copied
<1> QED  BY <1>1, <1>2, deletedInv

-----------------------------------------------------------------------------
(* Undo and redo.                                                          *)

(* What a move of controls leaves selected. *)
LEMMA MoveUpdate ==
  ASSUME IInv, NEW cmd \in Sound(born), NEW valid \in BOOLEAN, cmd.kind = "MOVE",
         ~execute(form, cmd, Alive).bad, form' = execute(form, cmd, Alive).form,
         undoRedoUpdate(cmd, execute(form, cmd, Alive), valid)
  PROVE  /\ sel' \in Selects /\ Shows(form', sel') /\ Together(form', sel')
         /\ Fresh(form', born) /\ form' \in Form /\ Trees(form')
<1> DEFINE K == KidsOf(form)
           S == ToSet(cmd.on)
           q == ParentOf(form, cmd.on[1])
           crosses == Crosses(form, cmd)
           renewed == IF crosses THEN Below(form, S) ELSE {}
           still == valid /\ cmd.at \in AttachedOwner(form)
           V == IF still THEN {} ELSE renewed
           A == Alive
<1>1. /\ form \in Form /\ form \in Shape /\ Trees(form) /\ Forest(K) /\ Fresh(form, born)
      /\ sel \in Selects /\ Shows(form, sel) /\ Together(form, sel)
      /\ form.kids \in [Owner -> Seq(Control)]
  BY Parts DEF Trees, Form
<1>2. A \in SUBSET Places /\ A \subseteq born \cup {Base}
  BY AliveIn
<1>3. ~execute(form, cmd, A).bad /\ form' = execute(form, cmd, A).form
  OBVIOUS
<1>4. S \in SUBSET Control /\ S \subseteq born
  BY SoundIs
<1> HIDE DEF A
<1>5. /\ q \in Owner
      /\ form' \in Form /\ Trees(form')
      /\ KidsOf(form') = IF cmd.at \in {NoContainer, q} THEN K ELSE Moved(K, S, cmd.at)
      /\ \/ cmd.at \in {NoContainer, q}
         \/ /\ S \subseteq K[q] /\ {q, cmd.at} \subseteq Owner \cap A
            /\ cmd.at \notin Under(K, S)
  <2> DEFINE done == execute(form, cmd, A)
  <2>1. /\ ~done.bad <=>
             /\ ~cmd.hole /\ S \subseteq A /\ Placed(form, cmd.on[1])
             /\ \/ cmd.at \in {NoContainer, q}
                \/ /\ S \subseteq K[q] /\ {q, cmd.at} \subseteq Owner \cap A
                   /\ cmd.at \notin Under(K, S)
        /\ ~done.bad =>
             /\ q \in Owner /\ cmd.on # <<>> /\ cmd.on[1] \in K[q]
             /\ done.form \in Form /\ Trees(done.form)
             /\ KidsOf(done.form) =
                  IF cmd.at \in {NoContainer, q} THEN K ELSE Moved(K, S, cmd.at)
             /\ Puts(done.form, form, cmd.on, cmd.val)
             /\ done.cmd = [cmd EXCEPT !.val = Locations(form, cmd.on), !.at = q]
    BY <1>1, <1>2, MoveIs
  <2>2. ~done.bad /\ form' = done.form
    BY <1>3
  <2> HIDE DEF done, S, q, K
  <2> QED  BY <2>1, <2>2
<1>6. crosses <=> cmd.at \notin {NoContainer, q}
  BY DEF Crosses
<1>7. renewed = IF crosses THEN Under(K, S) ELSE {}
  BY <1>1, <1>4, BelowIsUnder
<1>8. /\ Renews(sel', sel, V, V)
      /\ sel'.moved = (sel.moved \/ ToSet(Selected) \cap renewed # {})
  <2> DEFINE D == DOMAIN sel.wnds
  <2>1. sel' = [wnds  |-> [i \in D |-> Renewed(sel.wnds[i], renewed, still)],
                cur   |-> Renewed(sel.cur, renewed, still),
                moved |-> sel.moved \/ ToSet(Selected) \cap renewed # {}]
    BY DEF undoRedoUpdate
  <2> HIDE DEF renewed, still
  <2>2. \A w : Renewed(w, renewed, still) = Gone(w, V)
    BY DEF Renewed, Gone
  <2> HIDE DEF V
  <2>3. /\ sel'.wnds = [i \in D |-> Renewed(sel.wnds[i], renewed, still)]
        /\ sel'.cur = Renewed(sel.cur, renewed, still)
        /\ sel'.moved = (sel.moved \/ ToSet(Selected) \cap renewed # {})
        /\ sel' = [wnds |-> sel'.wnds, cur |-> sel'.cur, moved |-> sel'.moved]
    BY <2>1
  <2>4. sel'.wnds = [i \in D |-> Gone(sel.wnds[i], V)] /\ sel'.cur = Gone(sel.cur, V)
    BY <2>2, <2>3
  <2>5. sel'.moved \in BOOLEAN
    BY <2>3
  <2> QED  BY <2>3, <2>4, <2>5 DEF Renews
<1> HIDE DEF K, S, q, crosses, renewed
<1>9. /\ form' \in Shape
      /\ Attached(form) = Under(K, {Base}) \ {Base}
      /\ AttachedOwner(form) = Owner \cap Under(K, {Base})
      /\ Attached(form') = Under(KidsOf(form'), {Base}) \ {Base}
      /\ AttachedOwner(form') = Owner \cap Under(KidsOf(form'), {Base})
      /\ Base \in AttachedOwner(form')
  BY <1>1, <1>5, FormIsShape, AttachedIs DEF K
<1>10. ASSUME crosses
       PROVE  /\ cmd.at \in Owner /\ cmd.at \in A /\ S \subseteq K[q]
              /\ KidsOf(form') = Moved(K, S, cmd.at) /\ renewed = Under(K, S)
              /\ \A o \in Owner : KidsOf(form')[o] = IF o = cmd.at THEN K[o] \cup S ELSE K[o] \ S
              /\ \A X : Under(K, X) \subseteq Under(KidsOf(form'), X) \cup renewed
              /\ \A X : cmd.at \in Under(K, X) => Under(K, X) \subseteq Under(KidsOf(form'), X)
  <2>1. /\ cmd.at \in Owner /\ cmd.at \in A /\ S \subseteq K[q] /\ q # cmd.at
        /\ cmd.at \notin Under(K, S)
        /\ KidsOf(form') = Moved(K, S, cmd.at) /\ renewed = Under(K, S)
    BY <1>5, <1>6, <1>7, <1>10
  <2>2. /\ \A o \in Owner : Moved(K, S, cmd.at)[o] = IF o = cmd.at THEN K[o] \cup S ELSE K[o] \ S
        /\ \A X : Under(K, X) \subseteq Under(Moved(K, S, cmd.at), X) \cup Under(K, S)
        /\ \A X : cmd.at \in Under(K, X) => Under(K, X) \subseteq Under(Moved(K, S, cmd.at), X)
    <3>1. Forest(K) /\ q \in Owner
      BY <1>1, <1>5
    <3>2. /\ cmd.at \in Owner /\ S \subseteq K[q] /\ q # cmd.at
          /\ cmd.at \notin Under(K, S)
      BY <2>1
    <3> QED  BY ONLY <3>1, <3>2, MovedIs
  <2> QED  BY <2>1, <2>2
<1>11. ASSUME ~crosses PROVE KidsOf(form') = K /\ renewed = {}
  BY <1>5, <1>6, <1>7, <1>11
<1>12. Fresh(form', born)
  <2>1. CASE crosses
    <3>1. \A o \in Owner : KidsOf(form')[o] \subseteq K[o] \cup IF o = cmd.at THEN S ELSE {}
      BY <1>10, <2>1
    <3>2. cmd.at \in born \cup {Base}
      BY <1>2, <1>10, <2>1
    <3> QED  BY <1>1, <1>4, <3>1, <3>2 DEF Fresh, K
  <2>2. CASE ~crosses
    BY <1>1, <1>11, <2>2 DEF Fresh, K
  <2> QED  BY <2>1, <2>2
<1>13. V \in SUBSET Control
  <2>1. Under(K, S) \subseteq Control
    BY <1>4 DEF Under
  <2> QED  BY <1>7, <2>1
<1>14. Attached(form) \subseteq Attached(form') \cup V
  <2>1. CASE crosses
    BY <1>9, <1>10, <2>1
  <2>2. CASE ~crosses
    BY <1>9, <1>11, <2>2
  <2> QED  BY <2>1, <2>2
<1> HIDE DEF V
<1>15. Shows(form', sel') /\ Keeps(sel', sel, V, V)
  <2>1. Keeps(sel', sel, V, V)
    BY <1>1, <1>8, <1>13, RenewIs
  <2>2. Shows(form', sel')
    BY <1>1, <1>14, <2>1 DEF Keeps, Shows
  <2> QED  BY <2>1, <2>2
<1>16. sel' \in Selects
  BY <1>15 DEF Keeps
<1>17. Together(form', sel')
  <2> SUFFICES ASSUME ~sel'.moved PROVE Together(form', sel')
    BY DEF Together
  <2>1. ~sel.moved /\ ToSet(Selected) \cap renewed = {}
    BY <1>8
  <2>2. PICK p \in AttachedOwner(form) : InOne(form, sel, p)
    BY <1>1, <2>1 DEF Together
  <2>3. IF sel.wnds = <<>> THEN sel.cur = Wnd(Base)
        ELSE sel.cur.live => sel.cur \in ToSet(sel.wnds)
    BY <1>1, <2>1 DEF Together
  <2>4. \A w \in ToSet(sel.wnds) : w.live /\ w.of \in K[p] /\ w.of \notin renewed
    <3>1. \A w \in ToSet(sel.wnds) : w.live /\ w.of \in K[p] /\ w.of \in ToSet(Selected)
      BY <2>2, SelectedNow DEF InOne, K
    <3> QED  BY <2>1, <3>1
  <2>5. V \subseteq renewed
    BY DEF V
  <2>6. sel'.wnds = sel.wnds
    BY <1>15, <2>4, <2>5 DEF Keeps
  <2>7. IF sel'.wnds = <<>> THEN sel'.cur = Wnd(Base)
        ELSE sel'.cur.live => sel'.cur \in ToSet(sel'.wnds)
    BY <1>15, <2>3, <2>6 DEF Keeps
  <2>8. \E r \in AttachedOwner(form') : InOne(form', sel', r)
    <3>1. CASE sel.wnds = <<>>
      <4>1. ToSet(sel.wnds) = {}
        BY <3>1, Parts, ToSetIs
      <4> QED  BY <1>9, <2>6, <4>1 DEF InOne
    <3>2. CASE sel.wnds # <<>>
      <4>1. PICK x \in ToSet(sel.wnds) : TRUE
        <5>1. ToSet(sel.wnds) # {}
          BY <3>2, Parts, ToSetIs
        <5> QED  BY <5>1
      <4>2. p \in Owner /\ p \in Under(K, {Base})
        BY <1>9
      <4>3. CASE ~crosses
        <5>1. p \in AttachedOwner(form') /\ InOne(form', sel', p)
          BY <1>9, <1>11, <2>4, <2>6, <4>2, <4>3 DEF InOne
        <5> QED  BY <5>1
      <4>4. CASE crosses
        <5>1. S \subseteq renewed /\ (p \in renewed => K[p] \subseteq renewed)
          <6>1. S \subseteq Under(K, S) /\ Children(K, Under(K, S)) \subseteq Under(K, S)
            BY UnderClosed
          <6>2. K[p] \subseteq Control
            BY <1>1, <4>2 DEF Forest, Hierarchy
          <6> QED  BY <1>10, <4>2, <4>4, <6>1, <6>2 DEF Children
        <5>2. p \notin renewed
          BY <2>4, <4>1, <5>1
        <5>3. p \in AttachedOwner(form')
          BY <1>9, <1>10, <4>2, <4>4, <5>2
        <5>4. InOne(form', sel', p)
          <6>1. K[p] \ S \subseteq KidsOf(form')[p]
            BY <1>10, <4>2, <4>4
          <6>2. \A w \in ToSet(sel.wnds) : w.live /\ w.of \in KidsOf(form')[p]
            BY <2>4, <5>1, <6>1
          <6> QED  BY <2>6, <6>2 DEF InOne
        <5> QED  BY <5>3, <5>4
      <4> QED  BY <4>3, <4>4
    <3> QED  BY <3>1, <3>2
  <2> QED  BY <2>7, <2>8 DEF Together
<1> QED  BY <1>5, <1>12, <1>15, <1>16, <1>17

(* The parts an undo and a redo share. *)
LEMMA updateInv ==
  ASSUME IInv, NEW cmd \in Sound(born), NEW valid \in BOOLEAN,
         ~Broken(cmd, execute(form, cmd, Alive)),
         undoRedoUpdate(cmd, execute(form, cmd, Alive), valid),
         past' \in Seq(Sound(born)), future' \in Seq(Sound(born))
  PROVE  IInv'
<1> DEFINE K == KidsOf(form)
           S == ToSet(cmd.on)
           A == Alive
           done == execute(form, cmd, A)
<1>1. /\ form' = done.form /\ ~done.bad /\ Keyed
      /\ cmd.kind = "DELETE" => cmd.at \in AttachedOwner(form)
      /\ curContainer' = IF cmd.kind = "DELETE" THEN cmd.at ELSE curContainer
      /\ UNCHANGED <<born, clip, pushes, fault>>
  BY DEF Broken, undoRedoUpdate
<1>2. /\ cmd.kind = "ADD" => sel' = cancelSelectAll
      /\ cmd.kind = "DELETE" => sel' = Group(cmd.on)
  BY DEF undoRedoUpdate
<1>3. /\ form \in Form /\ form \in Shape /\ Trees(form) /\ Fresh(form, born)
      /\ K \in Hierarchy
  BY Parts DEF Forest
<1>4. A \in SUBSET Places /\ A \subseteq born \cup {Base}
  BY AliveIn
<1>5. /\ cmd.on \in Seq(Control) /\ IsInjective(cmd.on) /\ S \in SUBSET Control
      /\ S \subseteq born /\ cmd.kind \in {"ADD", "DELETE", "MOVE"}
  BY SoundIs
<1>6. mouse' \in Mouse /\ keys' \in Nat /\ Dragging(mouse', form', sel', curContainer')
  BY <1>1, Parts, KeyedIs, QuietDrag
<1>7. curContainer' \in Owner \cup {NoContainer}
  BY <1>1, Parts DEF AttachedOwner
<1>8. /\ sel' \in Selects /\ Shows(form', sel') /\ Together(form', sel')
      /\ Fresh(form', born) /\ form' \in Form /\ Trees(form')
  <2>1. CASE cmd.kind = "MOVE"
    BY <1>1, <2>1, MoveUpdate
  <2>2. CASE cmd.kind = "ADD"
    <3> HIDE DEF A
    <3>1. done.form \in Form /\ Trees(done.form) /\ KidsOf(done.form) = Cut(K, S)
      BY <1>1, <1>3, <1>4, <2>2, AddIs
    <3>2. form' \in Form /\ Trees(form') /\ KidsOf(form') = Cut(K, S)
      BY <1>1, <3>1
    <3>3. Fresh(form', born)
      BY <1>3, <3>2 DEF Fresh, Cut
    <3> QED  BY <1>2, <2>2, <3>2, <3>3, FormIsShape, NoneIs
  <2>3. CASE cmd.kind = "DELETE"
    <3> HIDE DEF A
    <3>0. cmd.at \in AttachedOwner(form) /\ cmd.at \in Owner
      BY <1>1, <2>3 DEF AttachedOwner
    <3>1. cmd.at \notin Under(K, S)
      BY <1>1, <1>3, <1>4, ExecutedIs, <2>3
    <3>2. /\ done.form \in Form /\ Trees(done.form) /\ KidsOf(done.form) = Graft(K, cmd.at, S)
          /\ cmd.at \in A
      BY <1>1, <1>3, <1>4, <2>3, <3>1, DeleteIs
    <3>3. form' \in Form /\ Trees(form') /\ KidsOf(form') = Graft(K, cmd.at, S) /\ form' \in Shape
      BY <1>1, <3>2, FormIsShape
    <3>4. Fresh(form', born)
      <4>1. cmd.at \in born \cup {Base}
        BY <1>4, <3>2
      <4> QED  BY <1>3, <1>5, <3>3, <4>1 DEF Fresh, Graft
    <3>5. cmd.at \in AttachedOwner(form') /\ S \subseteq KidsOf(form')[cmd.at]
      <4> HIDE DEF S
      <4>1. /\ AttachedOwner(form) = Owner \cap Under(K, {Base})
            /\ AttachedOwner(form') = Owner \cap Under(Graft(K, cmd.at, S), {Base})
        BY <1>3, <3>3, AttachedIs
      <4> HIDE DEF K
      <4>2. \A X : Under(K, X) \subseteq Under(Graft(K, cmd.at, S), X)
        BY <1>3, <1>5, <3>0, GraftIs
      <4>3. Graft(K, cmd.at, S)[cmd.at] = K[cmd.at] \cup S
        BY <3>0 DEF Graft
      <4> QED  BY <3>0, <3>3, <4>1, <4>2, <4>3
    <3> QED  BY <1>2, <1>5, <2>3, <3>3, <3>4, <3>5, GroupIs
  <2> QED  BY <1>5, <2>1, <2>2, <2>3
<1> QED  BY <1>1, <1>6, <1>7, <1>8, Parts, Step

LEMMA ExecutedNow ==
  ASSUME IInv, NEW cmd \in Sound(born), ~Broken(cmd, execute(form, cmd, Alive))
  PROVE  LET done == execute(form, cmd, Alive) IN
         /\ ~done.bad /\ done.form \in Form /\ Trees(done.form)
         /\ done.cmd \in Sound(born) /\ done.cmd.on = cmd.on /\ done.cmd.hole = cmd.hole
         /\ done.cmd.kind = CASE cmd.kind = "ADD" -> "DELETE"
                              [] cmd.kind = "DELETE" -> "ADD"
                              [] cmd.kind = "MOVE" -> "MOVE"
         /\ cmd.kind # "MOVE" => done.cmd.at = cmd.at
         /\ cmd.kind = "DELETE" => cmd.at \notin Under(KidsOf(form), ToSet(cmd.on))
         /\ (done.cmd.kind = "MOVE") <=> (cmd.kind = "MOVE")
<1> DEFINE A == Alive
           done == execute(form, cmd, A)
<1>1. ~done.bad /\ (cmd.kind = "DELETE" => cmd.at \in AttachedOwner(form))
  BY DEF Broken
<1>2. A \in SUBSET Places /\ form \in Form /\ Trees(form)
  BY AliveIn, Parts
<1>3. cmd.kind \in {"ADD", "DELETE", "MOVE"}
  BY SoundIs
<1> HIDE DEF A
<1>4. LET res == execute(form, cmd, A) IN
      /\ res.form \in Form /\ Trees(res.form)
      /\ res.cmd \in Sound(born) /\ res.cmd.on = cmd.on /\ res.cmd.hole = cmd.hole
      /\ res.cmd.kind = CASE cmd.kind = "ADD" -> "DELETE"
                          [] cmd.kind = "DELETE" -> "ADD"
                          [] cmd.kind = "MOVE" -> "MOVE"
      /\ cmd.kind # "MOVE" => res.cmd.at = cmd.at
      /\ cmd.kind = "DELETE" => cmd.at \notin Under(KidsOf(form), ToSet(cmd.on))
  BY <1>1, <1>2, ExecutedIs
<1>5. (done.cmd.kind = "MOVE") <=> (cmd.kind = "MOVE")
  BY <1>3, <1>4
<1> QED  BY <1>1, <1>4, <1>5 DEF A

LEMMA undoInv == ASSUME IInv, NEW valid \in BOOLEAN, undo(valid) PROVE IInv'
<1> DEFINE cmd == Last(past)
           done == execute(form, cmd, Alive)
<1>1. CASE Broken(cmd, done)
  BY <1>1, UndefinedInv DEF undo
<1>2. CASE ~Broken(cmd, done)
  <2>1. past # <<>> /\ past' = Front(past) /\ future' = <<done.cmd>> \o future
        /\ undoRedoUpdate(cmd, done, valid)
    BY <1>2 DEF undo
  <2>2. cmd \in Sound(born) /\ Front(past) \in Seq(Sound(born)) /\ future \in Seq(Sound(born))
    BY <2>1, Parts, FrontLast
  <2> HIDE DEF cmd
  <2>3. done.cmd \in Sound(born)
    BY <1>2, <2>2, ExecutedNow
  <2>4. future' \in Seq(Sound(born))
    <3> DEFINE d == done.cmd
    <3> HIDE DEF done
    <3>1. d \in Sound(born) /\ future' = <<d>> \o future
      BY <2>1, <2>3
    <3> HIDE DEF d
    <3>2. <<d>> \in Seq(Sound(born))
      BY <3>1
    <3> QED  BY <2>2, <3>1, <3>2
  <2> QED  BY <1>2, <2>1, <2>2, <2>4, updateInv
<1> QED  BY <1>1, <1>2

LEMMA redoInv == ASSUME IInv, NEW valid \in BOOLEAN, redo(valid) PROVE IInv'
<1> DEFINE cmd == Head(future)
           done == execute(form, cmd, Alive)
<1>1. CASE Broken(cmd, done)
  BY <1>1, UndefinedInv DEF redo
<1>2. CASE ~Broken(cmd, done)
  <2>1. future # <<>> /\ past' = Append(past, done.cmd) /\ future' = Tail(future)
        /\ undoRedoUpdate(cmd, done, valid)
    BY <1>2 DEF redo
  <2>2. cmd \in Sound(born) /\ Tail(future) \in Seq(Sound(born)) /\ past \in Seq(Sound(born))
    BY <2>1, Parts, FrontLast
  <2> HIDE DEF cmd
  <2>3. done.cmd \in Sound(born)
    BY <1>2, <2>2, ExecutedNow
  <2>4. past' \in Seq(Sound(born))
    <3> DEFINE d == done.cmd
    <3> HIDE DEF done
    <3>1. d \in Sound(born) /\ past' = Append(past, d)
      BY <2>1, <2>3
    <3> HIDE DEF d
    <3> QED  BY <2>2, <3>1
  <2> QED  BY <1>2, <2>1, <2>2, <2>4, updateInv
<1> QED  BY <1>1, <1>2

LEMMA NextInv == ASSUME IInv, [Next]_vars PROVE IInv'
<1>1. CASE UNCHANGED vars
  <2>1. /\ form' = form /\ born' = born /\ UNCHANGED history /\ sel' = sel
        /\ curContainer' = curContainer /\ mouse' = mouse /\ clip' = clip
        /\ keys' = keys /\ fault' = fault
    BY <1>1 DEF vars
  <2> QED  BY <2>1, Parts, SelectStep
<1>2. CASE Next
  <2>1. ASSUME NEW c \in Control, NEW space \in BOOLEAN, pressControl(c, space) PROVE IInv'
    BY <2>1, pressControlInv
  <2>2. ASSUME NEW p \in Owner, pressContainer(p) PROVE IInv'
    BY <2>2, pressContainerInv
  <2>3. ASSUME NEW p \in Owner \cup {NoContainer}, pressCreate(p) PROVE IInv'
    BY <2>3, pressCreateInv
  <2>4. ASSUME NEW d \in Shift, NEW q \in Owner, onMovingMove(d, q) PROVE IInv'
    BY <2>4, onMovingMoveInv
  <2>5. ASSUME NEW off \in Shift, NEW valid \in BOOLEAN, dropAcross(off, valid) PROVE IInv'
    BY <2>5, dropAcrossInv
  <2>6. ASSUME NEW S \in SUBSET Control, onSelectingUp(S) PROVE IInv'
    BY <2>6, onSelectingUpInv
  <2>7. ASSUME NEW c \in Control, NEW l \in Loc, onCreatingUp(c, l) PROVE IInv'
    BY <2>7, onCreatingUpInv
  <2>8. ASSUME NEW c \in Control \cup {Base}, selectInstance(c) PROVE IInv'
    BY <2>8, selectInstanceInv
  <2>9. ASSUME NEW d \in Shift \ {0}, moveSelections(d) PROVE IInv'
    BY <2>9, moveSelectionsInv
  <2>10. ASSUME NEW cs \in UpTo(ClipMax, Control \ born), NEW locs \in UpTo(ClipMax, Loc),
                paste(cs, locs)
         PROVE  IInv'
    BY <2>10, pasteInv
  <2>11. ASSUME NEW l \in Loc, align(l) PROVE IInv'
    BY <2>11, alignInv
  <2>12. ASSUME NEW valid \in BOOLEAN, undo(valid) \/ redo(valid) PROVE IInv'
    BY <2>12, undoInv, redoInv
  <2>13. CASE dropInPlace
    BY <2>13, dropInPlaceInv
  <2>14. CASE tabToNextSelection
    BY <2>14, tabInv
  <2>15. CASE deleteSelectedInstance
    BY <2>15, deleteInv
  <2>16. CASE copy
    BY <2>16, copyInv
  <2>17. CASE cut
    BY <2>17, cutInv
  <2> QED  BY <1>2, <2>1, <2>2, <2>3, <2>4, <2>5, <2>6, <2>7, <2>8, <2>9, <2>10, <2>11,
              <2>12, <2>13, <2>14, <2>15, <2>16, <2>17 DEF Next
<1> QED  BY <1>1, <1>2

(* The invariant holds in every state. *)
THEOREM IInvCorrect == Spec => []IInv
<1>1. Init => IInv
  BY InitInv
<1>2. IInv /\ [Next]_vars => IInv'
  BY NextInv
<1> QED  BY <1>1, <1>2, PTL DEF Spec

(* Whatever the gestures, the commands and their undo and redo: the form,  *)
(* the selection, the mouse and the commands keep their types.             *)
THEOREM TypeCorrect == Spec => []TypeOK
<1>1. IInv => TypeOK
  BY DEF IInv
<1> QED  BY <1>1, IInvCorrect, PTL

(* What is selected is on the form, in one container and each once, and    *)
(* the current control is among it, as long as no command moved any of it. *)
THEOREM TogetherCorrect == Spec => []SelectionTogether
<1>1. ASSUME IInv PROVE SelectionTogether
  <2> SUFFICES ASSUME ~sel.moved
      PROVE /\ IsInjective(Selected)
            /\ \E p \in AttachedOwner(form) : ToSet(Selected) \subseteq ToSet(form.kids[p])
            /\ IF sel.wnds = <<>> THEN sel.cur = Wnd(Base)
               ELSE sel.cur.live => sel.cur \in ToSet(sel.wnds)
    BY DEF SelectionTogether
  <2>1. Together(form, sel)
    BY <1>1, Parts
  <2>2. PICK p \in AttachedOwner(form) : InOne(form, sel, p)
    BY <2>1 DEF Together
  <2>3. KidsOf(form)[p] = ToSet(form.kids[p])
    BY DEF KidsOf, AttachedOwner
  <2>4. ToSet(Selected) \subseteq ToSet(form.kids[p])
    BY <1>1, <2>2, <2>3, SelectedNow DEF InOne
  <2>5. IsInjective(Selected)
    BY <1>1, SelectedNow
  <2> QED  BY <2>1, <2>4, <2>5 DEF Together
<1> QED  BY <1>1, IInvCorrect, PTL

-----------------------------------------------------------------------------
(* The gestures and their undo.                                            *)

Gesture ==
  CASE Pushed -> Undone(Last(past))' = Shown(Before)
    [] Undid  -> Undone(Head(future))' = Shown(form)
    [] Redid  -> Undone(Last(past))' = Shown(form)
    [] OTHER  -> \/ form' = Before \/ View(form') = View(Before)
                 \/ \E d \in Shift : moveSelections(d)
                 \/ mouse.state = "moving" /\ mouse'.state = "moving"

(* Executed on the form g while A lives, cmd shows f. *)
Restores(g, cmd, A, f) ==
  ~execute(g, cmd, A).bad /\ View(execute(g, cmd, A).form) = View(f)

LEMMA UndoneIs ==
  ASSUME NEW g, NEW cmd, NEW A, NEW f, Restores(g, cmd, A, f)
  PROVE  [ok |-> ~execute(g, cmd, A).bad, view |-> View(execute(g, cmd, A).form)] = Shown(f)
<1>1. (~execute(g, cmd, A).bad) = TRUE
  BY DEF Restores
<1> QED  BY <1>1 DEF Restores, Shown

LEMMA AliveNext == Alive' = Living(form', HeldBy(past', future'))
  BY DEF Alive, Living, HeldBy

LEMMA PushedIs ==
  ASSUME pushes \in Nat, pushes' = pushes + 1, Restores(form', Last(past'), Alive', Before)
  PROVE  Gesture
<1>1. Pushed
  BY DEF Pushed
<1>2. Undone(Last(past))' = Shown(Before)
  BY UndoneIs DEF Undone
<1>3. ~Undid /\ ~Redid
  BY <1>1 DEF Undid, Redid
<1> QED  BY <1>1, <1>2, <1>3 DEF Gesture

LEMMA UndidIs ==
  ASSUME pushes \in Nat, pushes' = pushes, Len(future) \in Nat, Len(future') = Len(future) + 1,
         Restores(form', Head(future'), Alive', form)
  PROVE  Gesture
<1>1. ~Pushed /\ Undid /\ ~Redid
  BY DEF Pushed, Undid, Redid
<1>2. Undone(Head(future))' = Shown(form)
  BY UndoneIs DEF Undone
<1> QED  BY <1>1, <1>2 DEF Gesture

LEMMA RedidIs ==
  ASSUME pushes \in Nat, pushes' = pushes, Len(future) \in Nat, Len(future') = Len(future) - 1,
         Restores(form', Last(past'), Alive', form)
  PROVE  Gesture
<1>1. ~Pushed /\ ~Undid /\ Redid
  BY DEF Pushed, Undid, Redid
<1>2. Undone(Last(past))' = Shown(form)
  BY UndoneIs DEF Undone
<1> QED  BY <1>1, <1>2 DEF Gesture

LEMMA QuietIs ==
  ASSUME IInv, UNCHANGED history,
         \/ form' = Before \/ View(form') = View(Before)
         \/ \E d \in Shift : moveSelections(d)
         \/ mouse.state = "moving" /\ mouse'.state = "moving"
  PROVE  Gesture
<1>1. pushes' = pushes /\ future' = future /\ pushes \in Nat /\ Len(future) \in Nat
  BY Parts DEF history
<1>2. ~Pushed /\ ~Undid /\ ~Redid
  BY <1>1 DEF Pushed, Undid, Redid
<1> QED  BY <1>2 DEF Gesture

(* A step that is no release is compared with the form it found. *)
LEMMA BeforeIs ==
  /\ mouse.state # "moving" \/ mouse'.state # "up" => Before = form
  /\ mouse.state = "moving" /\ mouse'.state = "up" /\ ~Disturbed =>
       Before = mouse.start /\ ~mouse.keyed
  BY DEF Before, Released, Disturbed

(* What only selects. *)
LEMMA SelectsQuietly ==
  ASSUME IInv, UNCHANGED history, form' = form, mouse.state # "moving" \/ mouse'.state # "up"
  PROVE  Gesture
  BY QuietIs, BeforeIs

(* An executed command takes back what its execution did. *)
LEMMA ReverseShows ==
  ASSUME IInv, NEW cmd \in Sound(born), cmd \in ToSet(past) \cup ToSet(future),
         ~Broken(cmd, execute(form, cmd, Alive)),
         NEW g, g = execute(form, cmd, Alive).form, NEW d, d = execute(form, cmd, Alive).cmd
  PROVE  Restores(g, d, Living(g, HeldBy(past, future)), form)
<1> DEFINE K == KidsOf(form)
           S == ToSet(cmd.on)
           A == Alive
           R == HeldBy(past, future)
           q == ParentOf(form, cmd.on[1])
           done == execute(form, cmd, A)
<1>1. /\ ~done.bad /\ g \in Form /\ Trees(g) /\ d \in Sound(born) /\ d.on = cmd.on
      /\ d.hole = cmd.hole
      /\ d.kind = CASE cmd.kind = "ADD" -> "DELETE"
                    [] cmd.kind = "DELETE" -> "ADD"
                    [] cmd.kind = "MOVE" -> "MOVE"
      /\ cmd.kind # "MOVE" => d.at = cmd.at
      /\ cmd.kind = "DELETE" => cmd.at \notin Under(K, S)
  BY ExecutedNow
<1>2. /\ form \in Form /\ form \in Shape /\ Trees(form) /\ g \in Shape
  BY <1>1, Parts, FormIsShape
<1>3. /\ R \in SUBSET Control /\ A = Living(form, R) /\ A \in SUBSET Places
      /\ A = Under(K, {Base} \cup R)
  BY <1>2, AliveIn, LivingIs
<1>4. /\ cmd.on \in Seq(Control) /\ S \in SUBSET Control /\ IsInjective(cmd.on)
      /\ cmd.kind \in {"ADD", "DELETE", "MOVE"}
  BY SoundIs
<1>5. cmd.kind # "MOVE" => S \subseteq R
  BY Parts, HeldIs
<1>6. g = done.form /\ d = done.cmd
  OBVIOUS
<1> HIDE DEF A, R
<1>7. CASE cmd.kind = "ADD"
  <2>1. /\ ~done.bad <=> /\ ~cmd.hole /\ S \subseteq A
                         /\ cmd.at \in Owner \cap A /\ S \subseteq K[cmd.at]
        /\ ~done.bad => SamePlaces(done.form, form) /\ KidsOf(done.form) = Cut(K, S)
    BY <1>2, <1>3, <1>7, AddIs
  <2>2. /\ d.kind = "DELETE" /\ ~d.hole /\ ToSet(d.on) \subseteq R /\ d.at \in Owner
        /\ d.at \in Under(K, {Base} \cup R) /\ ToSet(d.on) \subseteq K[d.at]
        /\ KidsOf(g) = Cut(K, ToSet(d.on)) /\ g.loc = form.loc
    BY <1>1, <1>3, <1>5, <1>6, <1>7, <2>1 DEF SamePlaces
  <2>3. LET back == execute(g, d, Living(g, R)) IN ~back.bad /\ View(back.form) = View(form)
    BY <1>1, <1>2, <1>3, <2>2, DeleteShows
  <2> QED  BY <2>3 DEF Restores, R
<1>8. CASE cmd.kind = "DELETE"
  <2>1. /\ ~done.bad <=> /\ ~cmd.hole /\ S \subseteq A
                         /\ cmd.at \in Owner \cap A /\ Unplaced(K, S)
        /\ ~done.bad /\ cmd.at \notin Under(K, S) =>
             SamePlaces(done.form, form) /\ KidsOf(done.form) = Graft(K, cmd.at, S)
    BY <1>2, <1>3, <1>8, DeleteIs
  <2>2. /\ d.kind = "ADD" /\ ~d.hole /\ ToSet(d.on) \subseteq R /\ d.at \in Owner
        /\ d.at \in Under(K, {Base} \cup R) /\ Unplaced(K, ToSet(d.on))
        /\ KidsOf(g) = Graft(K, d.at, ToSet(d.on)) /\ g.loc = form.loc
    BY <1>1, <1>3, <1>5, <1>6, <1>8, <2>1 DEF SamePlaces
  <2>3. LET back == execute(g, d, Living(g, R)) IN ~back.bad /\ View(back.form) = View(form)
    BY <1>1, <1>2, <1>3, <2>2, AddShows
  <2> QED  BY <2>3 DEF Restores, R
<1>9. CASE cmd.kind = "MOVE"
  <2>1. /\ ~done.bad <=>
             /\ ~cmd.hole /\ S \subseteq A /\ Placed(form, cmd.on[1])
             /\ \/ cmd.at \in {NoContainer, q}
                \/ /\ S \subseteq K[q] /\ {q, cmd.at} \subseteq Owner \cap A
                   /\ cmd.at \notin Under(K, S)
        /\ ~done.bad =>
             /\ q \in Owner /\ cmd.on # <<>> /\ cmd.on[1] \in K[q]
             /\ done.form \in Form /\ Trees(done.form)
             /\ KidsOf(done.form) =
                  IF cmd.at \in {NoContainer, q} THEN K ELSE Moved(K, S, cmd.at)
             /\ Puts(done.form, form, cmd.on, cmd.val)
             /\ done.cmd = [cmd EXCEPT !.val = Locations(form, cmd.on), !.at = q]
    BY <1>2, <1>3, <1>9, MoveIs
  <2> DEFINE locs == Locations(form, cmd.on)
  <2>2. \A i \in DOMAIN cmd.on : locs[i] = form.loc[cmd.on[i]]
    BY <1>2, <1>4, LocationsIs
  <2> HIDE DEF locs
  <2>3. d.val = locs /\ d.at = q /\ d.kind = "MOVE" /\ ~d.hole
    <3>1. d = [cmd EXCEPT !.val = locs, !.at = q]
      BY <1>1, <1>6, <2>1 DEF locs
    <3>2. cmd = [kind |-> cmd.kind, on |-> cmd.on, at |-> cmd.at, val |-> cmd.val, hole |-> cmd.hole]
      BY SoundIs
    <3> HIDE DEF q
    <3>3. d.val = locs /\ d.at = q
      BY <3>1, <3>2
    <3> QED  BY <1>1, <1>6, <1>9, <2>1, <3>3
  <2> HIDE DEF q
  <2>4. \A c \in Attached(form) \ S : g.loc[c] = form.loc[c]
    <3>1. Attached(form) \subseteq Control
      BY <1>2, AttachedIs
    <3> QED  BY <1>1, <1>6, <2>1, <3>1 DEF Puts
  <2>5. CASE cmd.at \in {NoContainer, q}
    <3>1. KidsOf(g) = K /\ S \subseteq A /\ Placed(form, cmd.on[1])
      BY <1>1, <1>6, <2>1, <2>5
    <3>2. S \subseteq Living(g, R)
      BY <1>2, <1>3, <3>1, LivingIs
    <3>3. LET back == execute(g, d, Living(g, R)) IN ~back.bad /\ View(back.form) = View(form)
      BY <1>1, <1>2, <1>3, <2>2, <2>3, <2>4, <3>1, <3>2, MoveShows DEF q
    <3> QED  BY <3>3 DEF Restores, R
  <2>6. CASE cmd.at \notin {NoContainer, q}
    <3>1. /\ KidsOf(g) = Moved(K, S, cmd.at) /\ S \subseteq K[q] /\ q \in Owner
          /\ {q, cmd.at} \subseteq Owner \cap A /\ cmd.at \notin Under(K, S) /\ cmd.on # <<>>
      BY <1>1, <1>6, <2>1, <2>6
    <3>2. LET back == execute(g, d, Living(g, R)) IN ~back.bad /\ View(back.form) = View(form)
      BY <1>1, <1>2, <1>3, <2>2, <2>3, <2>4, <2>6, <3>1, MoveAcrossShows
    <3> QED  BY <3>2 DEF Restores, R
  <2> QED  BY <2>5, <2>6
<1> QED  BY <1>4, <1>7, <1>8, <1>9

(* Each gesture that no key disturbed, of what is together.                *)

LEMMA addedGesture ==
  ASSUME IInv, NEW p \in Owner, p \in Alive, NEW cs \in Seq(Control), IsInjective(cs),
         ToSet(cs) \cap born = {}, NEW locs \in Seq(Loc), Len(locs) = Len(cs),
         added(p, cs, locs), mouse.state # "moving" \/ mouse'.state # "up", IInv'
  PROVE  Gesture
<1> DEFINE K == KidsOf(form)
           S == ToSet(cs)
           cmd == Command("ADD", cs, p, <<>>, FALSE)
           R == HeldBy(past', future')
<1>1. /\ form' \in Form /\ Trees(form') /\ KidsOf(form') = Graft(K, p, S)
      /\ \A c \in Control \ S : form'.loc[c] = form.loc[c]
      /\ Unplaced(K, S) /\ p \notin Under(K, S) /\ S \in SUBSET Control
      /\ IF p \in AttachedOwner(form) THEN pushUndoRedoCommand(cmd) ELSE UNCHANGED history
  BY addedIs
<1>2. /\ form \in Form /\ form \in Shape /\ form' \in Shape /\ Trees(form) /\ Forest(K)
      /\ K \in Hierarchy /\ Forest(KidsOf(form')) /\ pushes \in Nat
  BY <1>1, Parts, FormIsShape DEF Trees, Forest
<1>3. \A c \in Attached(form) : form'.loc[c] = form.loc[c]
  <2>1. Attached(form) \subseteq born /\ Attached(form) \subseteq Control
    BY <1>2, AliveIn, AttachedIs
  <2> QED  BY <1>1, <2>1
<1>4. Before = form
  BY BeforeIs
<1>5. CASE p \in AttachedOwner(form)
  <2>1. pushes' = pushes + 1 /\ past' = Append(past, cmd) /\ future' = <<>>
    BY <1>1, <1>5 DEF pushUndoRedoCommand
  <2>2. cmd.kind = "ADD" /\ ~cmd.hole /\ cmd.on = cs /\ cmd.at = p
    BY DEF Command
  <2> HIDE DEF cmd
  <2>3. past' \in Seq(Sound(born')) /\ future' \in Seq(Sound(born')) /\ born' \in SUBSET Control
    BY DEF IInv, TypeOK
  <2>4. past' # <<>> /\ Last(past') = cmd
    <3>1. past \in Seq(Sound(born))
      BY Parts
    <3> QED  BY <2>1, <3>1 DEF Last
  <2>5. cmd \in Sound(born') /\ cmd \in ToSet(past')
    BY <2>3, <2>4, FrontLast
  <2>6. R \in SUBSET Control /\ S \subseteq R
    BY <2>2, <2>3, <2>5, HeldIs
  <2> HIDE DEF R
  <2>7. p \in Under(K, {Base} \cup R)
    <3>1. p \in Under(K, {Base})
      BY <1>2, <1>5, AttachedIs
    <3>2. Under(K, {Base}) \subseteq Under(K, {Base} \cup R)
      BY UnderMore
    <3> QED  BY <3>1, <3>2
  <2>8. LET back == execute(form', cmd, Living(form', R)) IN ~back.bad /\ View(back.form) = View(form)
    BY <1>1, <1>2, <1>3, <2>2, <2>5, <2>6, <2>7, AddShows
  <2>9. Restores(form', Last(past'), Alive', Before)
    BY <1>4, <2>4, <2>8, AliveNext DEF Restores, R
  <2> QED  BY <1>2, <2>1, <2>9, PushedIs
<1>6. CASE p \notin AttachedOwner(form)
  <2>1. p \notin Under(K, {Base})
    BY <1>2, <1>6, AttachedIs
  <2>2. Under(Graft(K, p, S), {Base}) = Under(K, {Base})
    BY <1>1, <1>2, <2>1, GraftOff
  <2>3. Attached(form') = Attached(form)
    BY <1>1, <1>2, <2>2, AttachedIs
  <2>4. \A o \in Owner : KidsOf(form)[o] \subseteq KidsOf(form')[o]
    BY <1>1 DEF Graft
  <2>5. View(form') = View(form)
    BY <1>2, <1>3, <2>3, <2>4, SameView
  <2> QED  BY <1>1, <1>4, <1>6, <2>5, QuietIs
<1> QED  BY <1>5, <1>6

LEMMA onCreatingUpGesture ==
  ASSUME IInv, IInv', NEW c \in Control, NEW l \in Loc, onCreatingUp(c, l), ~fault' PROVE Gesture
<1> DEFINE cs == <<c>>
           locs == <<l>>
<1>1. /\ curContainer \in Owner /\ curContainer \in Alive /\ mouse.state = "creating"
      /\ c \notin born /\ added(curContainer, cs, locs)
  BY DEF onCreatingUp, Undefined
<1>2. /\ cs \in Seq(Control) /\ IsInjective(cs) /\ ToSet(cs) \cap born = {}
      /\ locs \in Seq(Loc) /\ Len(locs) = Len(cs)
  BY <1>1, OneIs
<1> HIDE DEF cs, locs
<1> QED  BY <1>1, <1>2, addedGesture

LEMMA pasteGesture ==
  ASSUME IInv, IInv', NEW cs \in UpTo(ClipMax, Control \ born), NEW locs \in UpTo(ClipMax, Loc),
         paste(cs, locs), ~fault'
  PROVE  Gesture
<1>1. ~Undefined
  BY DEF Undefined
<1>2. /\ PastePlace \in Owner /\ PastePlace \in Alive
      /\ cs \in Seq(Control) /\ IsInjective(cs) /\ ToSet(cs) \cap born = {}
      /\ locs \in Seq(Loc) /\ Len(locs) = Len(cs)
      /\ added(PastePlace, cs, locs) /\ Keyed
  BY <1>1, pasteIs
<1>3. mouse'.state = mouse.state
  BY <1>2, Parts, KeyedIs
<1> QED  BY <1>2, <1>3, addedGesture

LEMMA TogetherNow ==
  ASSUME IInv, ~sel.moved
  PROVE  /\ \E p \in AttachedOwner(form) :
              InOne(form, sel, p) /\ ToSet(Selected) \subseteq KidsOf(form)[p]
         /\ \A w \in ToSet(sel.wnds) : w.live /\ w.of \in ToSet(Selected)
         /\ ~SomeDead(sel) /\ Selected = [i \in DOMAIN sel.wnds |-> sel.wnds[i].of]
<1>1. PICK p \in AttachedOwner(form) : InOne(form, sel, p)
  BY Parts DEF Together
<1>2. \A w \in ToSet(sel.wnds) : w.live
  BY <1>1 DEF InOne
<1>3. ToSet(Selected) \subseteq KidsOf(form)[p]
  BY <1>1, SelectedNow DEF InOne
<1> QED  BY <1>1, <1>2, <1>3, SelectedNow

LEMMA deletedGesture ==
  ASSUME IInv, IInv', sel.wnds # <<>>, deleted, Keyed, ~sel.moved PROVE Gesture
<1> DEFINE K == KidsOf(form)
           S == ToSet(Selected)
           at == ParentOf(form, Selected[1])
           cmd == Command("DELETE", Selected, at, <<>>, SomeDead(sel))
           R == HeldBy(past', future')
<1>1. /\ form' \in Form /\ Trees(form') /\ form'.loc = form.loc
      /\ KidsOf(form') = Cut(K, S)
      /\ IF sel.wnds[1].live
         THEN /\ Selected # <<>> /\ Selected[1] \in S
              /\ at \in AttachedOwner(form) /\ at \in Owner
              /\ Selected[1] \in K[at] /\ pushUndoRedoCommand(cmd)
         ELSE UNCHANGED history
  BY deletedIs
<1>2. /\ form \in Form /\ form \in Shape /\ Trees(form) /\ Forest(K) /\ pushes \in Nat
      /\ past \in Seq(Sound(born))
  BY Parts
<1>3. mouse'.state = mouse.state
  BY Parts, KeyedIs
<1>4. Before = form
  BY <1>3, BeforeIs
<1>5. PICK p \in AttachedOwner(form) : S \subseteq K[p]
  BY TogetherNow
<1>6. sel.wnds[1].live /\ ~SomeDead(sel)
  <2>1. 1 \in DOMAIN sel.wnds
    BY Parts, EmptySeq
  <2>2. sel.wnds[1] \in ToSet(sel.wnds)
    BY <2>1 DEF ToSet
  <2> QED  BY <2>2, TogetherNow
<1>7. /\ pushes' = pushes + 1 /\ past' = Append(past, cmd) /\ future' = <<>>
      /\ at \in AttachedOwner(form) /\ at \in Owner /\ Selected[1] \in S /\ Selected[1] \in K[at]
  BY <1>1, <1>6 DEF pushUndoRedoCommand
<1> HIDE DEF at
<1>8. S \subseteq K[at]
  <2>1. p = at
    BY <1>2, <1>5, <1>7 DEF Forest, AttachedOwner
  <2> QED  BY <1>5, <2>1
<1>9. cmd.kind = "DELETE" /\ ~cmd.hole /\ cmd.on = Selected /\ cmd.at = at
  BY <1>6 DEF Command
<1> HIDE DEF cmd
<1>10. past' \in Seq(Sound(born')) /\ future' \in Seq(Sound(born')) /\ born' \in SUBSET Control
  BY DEF IInv, TypeOK
<1>11. past' # <<>> /\ Last(past') = cmd
  BY <1>2, <1>7 DEF Last
<1>12. cmd \in Sound(born') /\ cmd \in ToSet(past')
  BY <1>10, <1>11, FrontLast
<1>13. R \in SUBSET Control /\ S \subseteq R
  BY <1>9, <1>10, <1>12, HeldIs
<1> HIDE DEF R
<1>14. at \in Under(K, {Base} \cup R)
  <2>1. at \in Under(K, {Base})
    BY <1>2, <1>7, AttachedIs
  <2>2. Under(K, {Base}) \subseteq Under(K, {Base} \cup R)
    BY UnderMore
  <2> QED  BY <2>1, <2>2
<1>15. LET back == execute(form', cmd, Living(form', R)) IN ~back.bad /\ View(back.form) = View(form)
  BY <1>1, <1>2, <1>7, <1>8, <1>9, <1>12, <1>13, <1>14, DeleteShows
<1>16. Restores(form', Last(past'), Alive', Before)
  BY <1>4, <1>11, <1>15, AliveNext DEF Restores, R
<1> QED  BY <1>2, <1>7, <1>16, PushedIs

LEMMA undoGesture ==
  ASSUME IInv, NEW valid \in BOOLEAN, undo(valid), ~fault' PROVE Gesture
<1> DEFINE cmd == Last(past)
           done == execute(form, cmd, Alive)
           R == HeldBy(past, future)
<1>1. /\ past # <<>> /\ past' = Front(past) /\ future' = <<done.cmd>> \o future
      /\ undoRedoUpdate(cmd, done, valid) /\ ~Broken(cmd, done)
  BY DEF undo, Undefined
<1>2. /\ cmd \in Sound(born) /\ cmd \in ToSet(past) /\ past \in Seq(Sound(born))
      /\ future \in Seq(Sound(born)) /\ born \in SUBSET Control /\ pushes \in Nat
  BY <1>1, Parts, FrontLast
<1>3. done.cmd \in Sound(born) /\ done.cmd.on = cmd.on
      /\ ((done.cmd.kind = "MOVE") <=> (cmd.kind = "MOVE"))
  BY <1>1, <1>2, ExecutedNow
<1>4. form' = done.form /\ pushes' = pushes
  BY <1>1 DEF undoRedoUpdate
<1> DEFINE d == done.cmd
<1>5. Restores(form', d, Living(form', R), form)
  BY <1>1, <1>2, <1>4, ReverseShows
<1>6. HeldBy(past', future') = R
  <2> HIDE DEF d
  <2> QED  BY <1>1, <1>2, <1>3, HeldStays DEF d
<1>7. Head(future') = d /\ Len(future') = Len(future) + 1 /\ Len(future) \in Nat
  <2> HIDE DEF done, d
  <2>1. d \in Sound(born) /\ future' = <<d>> \o future
    BY <1>1, <1>3 DEF d
  <2> QED  BY <1>2, <2>1
<1> HIDE DEF d, R, done, cmd
<1>8. Restores(form', Head(future'), Alive', form)
  BY <1>5, <1>6, <1>7, AliveNext
<1> QED  BY <1>2, <1>4, <1>7, <1>8, UndidIs

LEMMA redoGesture ==
  ASSUME IInv, NEW valid \in BOOLEAN, redo(valid), ~fault' PROVE Gesture
<1> DEFINE cmd == Head(future)
           done == execute(form, cmd, Alive)
           R == HeldBy(past, future)
<1>1. /\ future # <<>> /\ past' = Append(past, done.cmd) /\ future' = Tail(future)
      /\ undoRedoUpdate(cmd, done, valid) /\ ~Broken(cmd, done)
  BY DEF redo, Undefined
<1>2. /\ cmd \in Sound(born) /\ cmd \in ToSet(future) /\ past \in Seq(Sound(born))
      /\ future \in Seq(Sound(born)) /\ born \in SUBSET Control /\ pushes \in Nat
  BY <1>1, Parts, FrontLast
<1>3. done.cmd \in Sound(born) /\ done.cmd.on = cmd.on
      /\ ((done.cmd.kind = "MOVE") <=> (cmd.kind = "MOVE"))
  BY <1>1, <1>2, ExecutedNow
<1>4. form' = done.form /\ pushes' = pushes
  BY <1>1 DEF undoRedoUpdate
<1> DEFINE d == done.cmd
<1>5. Restores(form', d, Living(form', R), form)
  BY <1>1, <1>2, <1>4, ReverseShows
<1>6. HeldBy(past', future') = R
  <2> HIDE DEF d
  <2> QED  BY <1>1, <1>2, <1>3, HeldStays DEF d
<1>7. Last(past') = d /\ Len(future') = Len(future) - 1 /\ Len(future) \in Nat
  <2> HIDE DEF done, d
  <2>1. d \in Sound(born) /\ past' = Append(past, d)
    BY <1>1, <1>3 DEF d
  <2>2. Last(past') = d
    BY <1>2, <2>1 DEF Last
  <2>3. Len(Tail(future)) = Len(future) - 1
    BY <1>1, <1>2, FrontLast
  <2> QED  BY <1>1, <1>2, <2>2, <2>3
<1> HIDE DEF d, R, done, cmd
<1>8. Restores(form', Last(past'), Alive', form)
  BY <1>5, <1>6, <1>7, AliveNext
<1> QED  BY <1>2, <1>4, <1>7, <1>8, RedidIs

(* The command of a move of what is together names all of it. *)
LEMMA MoveNow ==
  ASSUME IInv, NEW s \in Selects, NEW f \in Shape, Shows(f, s), Attached(f) \subseteq born',
         s.wnds = sel.wnds, sel.wnds # <<>>, ~sel.moved,
         NEW at \in Owner \cup {NoContainer}, NEW old \in Seq(Loc), Len(sel.wnds) =< Len(old),
         past' = Append(past, MoveCommand(s, at, old)), IInv'
  PROVE  LET cmd == Last(past') IN
         /\ cmd \in Sound(born') /\ cmd.kind = "MOVE" /\ cmd.at = at /\ ~cmd.hole
         /\ cmd.on = Selected /\ ToSet(cmd.on) = ToSet(Selected) /\ cmd.on # <<>>
         /\ DOMAIN cmd.on = DOMAIN sel.wnds
         /\ \A i \in DOMAIN cmd.on : cmd.on[i] = sel.wnds[i].of /\ cmd.val[i] = old[i]
<1> DEFINE cmd == MoveCommand(s, at, old)
           D == DOMAIN sel.wnds
<1>1. /\ \A w \in ToSet(sel.wnds) : w.live
      /\ Selected = [i \in D |-> sel.wnds[i].of]
  BY TogetherNow
<1>2. /\ cmd \in Sound(born') /\ cmd.kind = "MOVE" /\ cmd.at = at
      /\ (\A w \in ToSet(s.wnds) : w.live) =>
           /\ ~cmd.hole
           /\ cmd.on = [i \in DOMAIN s.wnds |-> s.wnds[i].of]
           /\ cmd.val = [i \in DOMAIN s.wnds |-> old[i]]
  <2>1. s.wnds # <<>> /\ Len(s.wnds) =< Len(old)
    OBVIOUS
  <2> DEFINE B == born'
  <2>2. Attached(f) \subseteq B
    OBVIOUS
  <2> HIDE DEF B
  <2>3. f \in Shape /\ s \in Selects /\ Shows(f, s)
    OBVIOUS
  <2>4. MoveCommand(s, at, old) \in Sound(B)
    BY <2>1, <2>2, <2>3, MoveCommandIs
  <2>5. NamesAll(MoveCommand(s, at, old), s, at, old)
    BY <2>1, <2>2, <2>3, MoveCommandIs
  <2> QED  BY <2>4, <2>5 DEF B, NamesAll
<1>3. /\ ~cmd.hole /\ cmd.on = Selected /\ cmd.val = [i \in D |-> old[i]]
  BY <1>1, <1>2
<1> HIDE DEF cmd
<1>4. Last(past') = cmd
  <2>1. past \in Seq(Sound(born))
    BY Parts
  <2> QED  BY <2>1 DEF Last, cmd
<1>5. DOMAIN Selected = D /\ D # {} /\ \A i \in D : Selected[i] = sel.wnds[i].of
  <2>1. sel.wnds \in Seq(Window)
    BY Parts
  <2>2. D # {}
    BY <2>1, EmptySeq
  <2> HIDE DEF D
  <2> QED  BY <1>1, <2>2
<1>6. Selected # <<>>
  BY <1>5
<1> QED  BY <1>2, <1>3, <1>4, <1>5, <1>6

LEMMA alignGesture ==
  ASSUME IInv, IInv', NEW l \in Loc, align(l), ~sel.moved PROVE Gesture
<1> DEFINE old == [i \in DOMAIN sel.wnds |-> LocOf(sel.wnds[i])]
           cmd == Last(past')
           R == HeldBy(past', future')
           S == ToSet(Selected)
<1>1. /\ form' \in Form /\ form' \in Shape /\ form'.kids = form.kids
      /\ \A c \in Control \ S : form'.loc[c] = form.loc[c]
      /\ sel.wnds # <<>> /\ old \in Seq(Loc) /\ Len(old) = Len(sel.wnds)
      /\ \A i \in DOMAIN sel.wnds : sel.wnds[i].live => old[i] = form.loc[sel.wnds[i].of]
      /\ pushMoveUndoRedoCommand(sel, NoContainer, old)
  BY alignStep
<1>2. Keyed /\ born' = born
  BY DEF align
<1> HIDE DEF old
<1>3. pushes' = pushes + 1 /\ past' = Append(past, MoveCommand(sel, NoContainer, old))
  BY <1>1, pushMoveIs
<1>4. /\ form \in Form /\ form \in Shape /\ Trees(form) /\ pushes \in Nat /\ sel \in Selects
      /\ Shows(form, sel) /\ Attached(form) \subseteq born' /\ Len(sel.wnds) \in Nat
  BY <1>2, Parts, AliveIn
<1>5. /\ cmd \in Sound(born') /\ cmd.kind = "MOVE" /\ cmd.at = NoContainer /\ ~cmd.hole
      /\ cmd.on = Selected /\ ToSet(cmd.on) = S /\ cmd.on # <<>>
      /\ DOMAIN cmd.on = DOMAIN sel.wnds
      /\ \A i \in DOMAIN cmd.on : cmd.on[i] = sel.wnds[i].of /\ cmd.val[i] = old[i]
  <2>1. Len(sel.wnds) =< Len(old)
    BY <1>1, <1>4
  <2>2. /\ NoContainer \in Owner \cup {NoContainer} /\ old \in Seq(Loc) /\ sel.wnds # <<>>
        /\ ~sel.moved
    BY <1>1
  <2>3. LET c == Last(past') IN
        /\ c \in Sound(born') /\ c.kind = "MOVE" /\ c.at = NoContainer /\ ~c.hole
        /\ c.on = Selected /\ ToSet(c.on) = ToSet(Selected) /\ c.on # <<>>
        /\ DOMAIN c.on = DOMAIN sel.wnds
        /\ \A i \in DOMAIN c.on : c.on[i] = sel.wnds[i].of /\ c.val[i] = old[i]
    <3>1. /\ form \in Shape /\ sel \in Selects /\ Shows(form, sel)
          /\ Attached(form) \subseteq born'
      BY <1>4
    <3>2. past' = Append(past, MoveCommand(sel, NoContainer, old))
      BY <1>3
    <3> QED  BY ONLY IInv, IInv', <2>1, <2>2, <3>1, <3>2, MoveNow
  <2> QED  BY <2>3
<1> HIDE DEF cmd
<1>6. \A i \in DOMAIN cmd.on : cmd.val[i] = form.loc[cmd.on[i]]
  <2>1. \A i \in DOMAIN sel.wnds : sel.wnds[i].live
    BY TogetherNow DEF ToSet
  <2> QED  BY <1>1, <1>5, <2>1
<1>7. KidsOf(form') = KidsOf(form) /\ Trees(form') /\ Attached(form') = Attached(form)
  BY <1>1, <1>4, SameKids
<1>8. S \subseteq Attached(form) /\ Attached(form) \subseteq Control
  BY <1>4, SelectedNow, AttachedIs
<1>9. R \in SUBSET Control
  <2>1. past' \in Seq(Sound(born')) /\ future' \in Seq(Sound(born')) /\ born' \in SUBSET Control
    BY DEF IInv, TypeOK
  <2> QED  BY <2>1, HeldIs
<1> HIDE DEF R
<1>10. S \subseteq Living(form', R)
  BY <1>1, <1>7, <1>8, <1>9, LivingIs
<1>11. Placed(form, cmd.on[1])
  <2>1. 1 \in DOMAIN cmd.on
    <3>1. cmd.on \in Seq(Control)
      BY <1>5, SelectedNow
    <3> QED  BY <1>5, <3>1, EmptySeq
  <2>2. cmd.on[1] \in Attached(form)
    BY <1>5, <1>8, <2>1 DEF ToSet
  <2> QED  BY <1>4, <2>2, AttachedChild DEF Placed, KidsOf, AttachedOwner
<1>12. LET back == execute(form', cmd, Living(form', R)) IN ~back.bad /\ View(back.form) = View(form)
  <2>1. /\ cmd.at \in {NoContainer, ParentOf(form, cmd.on[1])}
        /\ \A c \in Attached(form) \ ToSet(cmd.on) : form'.loc[c] = form.loc[c]
    BY <1>1, <1>5, <1>8
  <2> QED  BY <1>1, <1>4, <1>5, <1>6, <1>7, <1>9, <1>10, <1>11, <2>1, MoveShows
<1>13. mouse'.state = mouse.state
  BY <1>2, Parts, KeyedIs
<1>14. Before = form
  BY <1>13, BeforeIs
<1>15. Restores(form', Last(past'), Alive', Before)
  BY <1>12, <1>14, AliveNext DEF Restores, R, cmd
<1> QED  BY <1>3, <1>4, <1>15, PushedIs

(* What a drag that no key disturbed knows when the button is released.    *)
LEMMA DragIs ==
  ASSUME IInv, mouse.state = "moving", ~mouse.keyed, ~sel.moved
  PROVE  LET f == mouse.start IN
         /\ f \in Form /\ f \in Shape /\ Trees(f) /\ KidsOf(f) = KidsOf(form)
         /\ Attached(f) = Attached(form)
         /\ sel.wnds # <<>> /\ Len(mouse.old) = Len(sel.wnds)
         /\ curContainer \in AttachedOwner(form) /\ curContainer \in Owner
         /\ mouse.accept \in AttachedOwner(form) /\ mouse.accept \in Owner
         /\ ToSet(Selected) \subseteq KidsOf(form)[curContainer]
         /\ \E d \in Int : \A c \in Control :
              form.loc[c] = f.loc[c] + IF c \in ToSet(Selected) THEN d ELSE 0
         /\ \A i \in DOMAIN sel.wnds :
              sel.wnds[i].live /\ mouse.old[i] = f.loc[sel.wnds[i].of]
<1> DEFINE f == mouse.start
<1>1. /\ f \in Form /\ form.kids = f.kids
      /\ sel.wnds # <<>> /\ Len(mouse.old) = Len(sel.wnds)
      /\ curContainer \in AttachedOwner(form) /\ mouse.accept \in AttachedOwner(form)
      /\ InOne(form, sel, curContainer)
      /\ \A i \in DOMAIN sel.wnds : mouse.old[i] = f.loc[sel.wnds[i].of]
      /\ \E d \in Int : \A c \in Control :
           form.loc[c] = f.loc[c] + IF On(sel, c) THEN d ELSE 0
  BY Parts DEF Dragging
<1>2. \A c \in Control : c \in ToSet(Selected) <=> On(sel, c)
  BY <1>1, SelectedNow DEF InOne, On
<1>3. \E d \in Int : \A c \in Control :
        form.loc[c] = f.loc[c] + IF c \in ToSet(Selected) THEN d ELSE 0
  BY <1>1, <1>2
<1>4. f \in Shape /\ form \in Shape
  BY <1>1, Parts, FormIsShape
<1>5. KidsOf(f) = KidsOf(form) /\ Trees(f) /\ Attached(f) = Attached(form)
  BY <1>1, <1>4, Parts, SameKids
<1>6. ToSet(Selected) \subseteq KidsOf(form)[curContainer]
  BY <1>1, SelectedNow DEF InOne
<1>7. \A i \in DOMAIN sel.wnds : sel.wnds[i].live
  BY TogetherNow DEF ToSet
<1> QED  BY <1>1, <1>3, <1>4, <1>5, <1>6, <1>7 DEF AttachedOwner

LEMMA FirstIs ==
  ASSUME NEW X, NEW s \in Seq(X), s # <<>>
  PROVE  1 \in DOMAIN s /\ s[1] \in ToSet(s)
<1>1. 1 \in DOMAIN s
  BY EmptySeq
<1> QED  BY <1>1 DEF ToSet

LEMMA dropInPlaceGesture ==
  ASSUME IInv, IInv', dropInPlace, ~fault', ~Disturbed, ~sel.moved PROVE Gesture
<1> DEFINE f == mouse.start
           K == KidsOf(form)
           S == ToSet(Selected)
           R == HeldBy(past', future')
           D == DOMAIN sel.wnds
           cmd == Last(past')
<1>1. ~Undefined
  BY DEF Undefined
<1>2. PICK moved \in IF sel.wnds[1].live
                     THEN {form.loc[sel.wnds[1].of] # mouse.old[1]} ELSE BOOLEAN :
        /\ mouse.state = "moving" /\ mouse' = Up /\ sel.wnds # <<>>
        /\ IF moved THEN pushMoveUndoRedoCommand(sel, curContainer, mouse.old)
           ELSE UNCHANGED history
        /\ UNCHANGED <<form, born, sel, curContainer, clip, keys, fault>>
  BY <1>1 DEF dropInPlace
<1>3. Before = f /\ ~mouse.keyed
  <2>1. mouse'.state = "up"
    BY <1>2 DEF Up
  <2> QED  BY <1>2, <2>1, BeforeIs
<1>4. /\ f \in Form /\ f \in Shape /\ Trees(f) /\ KidsOf(f) = K /\ Attached(f) = Attached(form)
      /\ Len(mouse.old) = Len(sel.wnds) /\ curContainer \in Owner
      /\ S \subseteq K[curContainer]
      /\ \A i \in D : sel.wnds[i].live /\ mouse.old[i] = f.loc[sel.wnds[i].of]
  BY <1>2, <1>3, DragIs
<1>5. PICK d \in Int : \A c \in Control : form.loc[c] = f.loc[c] + IF c \in S THEN d ELSE 0
  BY <1>2, <1>3, DragIs
<1>6. /\ form \in Form /\ form \in Shape /\ Trees(form) /\ Forest(K) /\ pushes \in Nat
      /\ sel \in Selects /\ Shows(form, sel) /\ Attached(form) \subseteq born
      /\ sel.wnds \in Seq(Window) /\ Len(sel.wnds) \in Nat /\ mouse.old \in Seq(Loc)
      /\ form' = form /\ born' = born
  BY <1>2, Parts, AliveIn
<1>6a. \A c \in Control : f.loc[c] \in Int /\ form.loc[c] \in Int
  <2>1. f.loc \in [Control -> Loc] /\ form.loc \in [Control -> Loc]
    BY <1>4, <1>6 DEF Form
  <2> QED  BY <2>1, Locs
<1>6b. Attached(f) \subseteq Control
  BY <1>4, AttachedIs
<1>7. \A c \in Attached(f) \ S : form.loc[c] = f.loc[c]
  <2> SUFFICES ASSUME NEW c \in Attached(f), c \notin S PROVE form.loc[c] = f.loc[c]
    OBVIOUS
  <2> HIDE DEF f, S
  <2>1. form.loc[c] = f.loc[c] + 0
    BY <1>5, <1>6b
  <2> QED  BY <1>6a, <1>6b, <2>1
<1>8. 1 \in D /\ sel.wnds[1].live /\ sel.wnds[1].of \in S /\ S \subseteq Control
  <2>1. 1 \in D /\ sel.wnds[1] \in ToSet(sel.wnds)
    BY <1>2, <1>6, FirstIs
  <2> QED  BY <1>6, <2>1, TogetherNow, SelectedNow
<1>9. CASE moved
  <2>1. pushes' = pushes + 1 /\ past' = Append(past, MoveCommand(sel, curContainer, mouse.old))
    BY <1>2, <1>9, pushMoveIs
  <2>2. /\ cmd \in Sound(born') /\ cmd.kind = "MOVE" /\ cmd.at = curContainer /\ ~cmd.hole
        /\ cmd.on = Selected /\ ToSet(cmd.on) = S /\ cmd.on # <<>>
        /\ DOMAIN cmd.on = D
        /\ \A i \in DOMAIN cmd.on : cmd.on[i] = sel.wnds[i].of /\ cmd.val[i] = mouse.old[i]
    <3>1. /\ Attached(form) \subseteq born' /\ Len(sel.wnds) =< Len(mouse.old)
          /\ curContainer \in Owner \cup {NoContainer}
      BY <1>4, <1>6
    <3>2. LET c == Last(past') IN
          /\ c \in Sound(born') /\ c.kind = "MOVE" /\ c.at = curContainer /\ ~c.hole
          /\ c.on = Selected /\ ToSet(c.on) = ToSet(Selected) /\ c.on # <<>>
          /\ DOMAIN c.on = DOMAIN sel.wnds
          /\ \A i \in DOMAIN c.on : c.on[i] = sel.wnds[i].of /\ c.val[i] = mouse.old[i]
      BY <1>2, <1>6, <2>1, <3>1, MoveNow
    <3> QED  BY <3>2
  <2> HIDE DEF cmd
  <2>3. \A i \in DOMAIN cmd.on : cmd.val[i] = f.loc[cmd.on[i]]
    BY <1>4, <2>2
  <2>4. cmd.on[1] \in S
    BY <1>8, <2>2 DEF ToSet
  <2>5. Placed(f, cmd.on[1]) /\ cmd.at = ParentOf(f, cmd.on[1])
    <3>1. cmd.on[1] \in KidsOf(f)[curContainer] /\ Forest(KidsOf(f))
      BY <1>4, <1>6, <2>4
    <3>2. Placed(f, cmd.on[1])
      BY <1>4, <3>1 DEF Placed, KidsOf
    <3>3. curContainer = ParentOf(f, cmd.on[1])
      BY <1>4, <3>1, ParentIs
    <3> QED  BY <2>2, <3>2, <3>3
  <2>6. R \in SUBSET Control
    <3>1. past' \in Seq(Sound(born')) /\ future' \in Seq(Sound(born')) /\ born' \in SUBSET Control
      BY DEF IInv, TypeOK
    <3> QED  BY <3>1, HeldIs
  <2> HIDE DEF R
  <2>7. S \subseteq Living(form, R)
    BY <1>6, <2>6, LivingIs, SelectedNow
  <2>8. LET back == execute(form, cmd, Living(form, R)) IN ~back.bad /\ View(back.form) = View(f)
    <3>1. /\ cmd.at \in {NoContainer, ParentOf(f, cmd.on[1])}
          /\ ToSet(cmd.on) \subseteq Living(form, R)
          /\ \A c \in Attached(f) \ ToSet(cmd.on) : form.loc[c] = f.loc[c]
      BY <1>7, <2>2, <2>5, <2>7
    <3>2. KidsOf(form) = KidsOf(f) /\ form \in Form /\ f \in Form /\ Trees(form) /\ Trees(f)
      BY <1>4, <1>6
    <3> QED  BY <2>2, <2>3, <2>5, <2>6, <3>1, <3>2, MoveShows
  <2>9. Restores(form', Last(past'), Alive', Before)
    <3>1. Restores(form', cmd, Living(form', R), f)
      BY <1>6, <2>8 DEF Restores
    <3>2. Alive' = Living(form', R) /\ cmd = Last(past')
      BY AliveNext DEF R, cmd
    <3> QED  BY <1>3, <3>1, <3>2
  <2> QED  BY <1>6, <2>1, <2>9, PushedIs
<1>10. CASE ~moved
  <2>1. form.loc[sel.wnds[1].of] = f.loc[sel.wnds[1].of]
    BY <1>2, <1>4, <1>8, <1>10
  <2>2. \A c \in Attached(f) : form.loc[c] = f.loc[c]
    <3> DEFINE c1 == sel.wnds[1].of
    <3>1. c1 \in S /\ c1 \in Control /\ form.loc[c1] = f.loc[c1]
      BY <1>8, <2>1
    <3> HIDE DEF c1, f, S
    <3>2. form.loc[c1] = f.loc[c1] + d
      BY <1>5, <3>1
    <3>3. d = 0
      BY <1>6a, <3>1, <3>2
    <3>4. \A c \in Control : form.loc[c] = f.loc[c] + 0
      BY <1>5, <3>3
    <3> QED  BY <1>6a, <1>6b, <3>4
  <2>3. View(form') = View(f)
    <3>1. View(form) = View(f)
      BY <1>4, <1>6, <2>2, SameKidsView
    <3> QED  BY <1>6, <3>1
  <2>4. UNCHANGED history
    BY <1>2, <1>10
  <2> QED  BY <1>3, <2>3, <2>4, QuietIs
<1> QED  BY <1>2, <1>9, <1>10

LEMMA dropAcrossGesture ==
  ASSUME IInv, IInv', NEW off \in Shift, NEW valid \in BOOLEAN, dropAcross(off, valid),
         ~fault', ~Disturbed, ~sel.moved
  PROVE  Gesture
<1> DEFINE f == mouse.start
           K == KidsOf(form)
           from == curContainer
           to == mouse.accept
           S == ToSet(Selected)
           C == S \ K[to]
           V == IF to \in AttachedOwner(form) THEN {} ELSE Under(K, C)
           W == IF to \in AttachedOwner(form) /\ valid THEN {} ELSE Under(K, C)
           R == HeldBy(past', future')
           D == DOMAIN sel.wnds
           cmd == Last(past')
<1>1. ~Undefined
  BY DEF Undefined
<1>2. /\ mouse.state = "moving" /\ to # from
      /\ C \subseteq K[from] /\ to \notin Under(K, C)
      /\ form' \in Form /\ Trees(form') /\ KidsOf(form') = Moved(K, C, to)
      /\ \A c \in Control : form'.loc[c] = form.loc[c] + IF c \in S THEN off ELSE 0
      /\ Renews(sel', sel, V, W) /\ mouse' = Up
      /\ IF Selected = <<>> THEN UNCHANGED history
         ELSE pushMoveUndoRedoCommand(sel', from, mouse.old)
  BY <1>1, dropAcrossIs
<1>3. Before = f /\ ~mouse.keyed
  <2>1. mouse'.state = "up"
    BY <1>2 DEF Up
  <2> QED  BY <1>2, <2>1, BeforeIs
<1>4. /\ f \in Form /\ f \in Shape /\ Trees(f) /\ KidsOf(f) = K /\ Attached(f) = Attached(form)
      /\ sel.wnds # <<>> /\ Len(mouse.old) = Len(sel.wnds)
      /\ from \in AttachedOwner(form) /\ from \in Owner
      /\ to \in AttachedOwner(form) /\ to \in Owner
      /\ S \subseteq K[from]
      /\ \A i \in D : sel.wnds[i].live /\ mouse.old[i] = f.loc[sel.wnds[i].of]
  BY <1>2, <1>3, DragIs
<1>5. PICK d \in Int : \A c \in Control : form.loc[c] = f.loc[c] + IF c \in S THEN d ELSE 0
  BY <1>2, <1>3, DragIs
<1>6. /\ form \in Form /\ form \in Shape /\ Trees(form) /\ Forest(K) /\ pushes \in Nat
      /\ sel \in Selects /\ sel.wnds \in Seq(Window) /\ Len(sel.wnds) \in Nat
      /\ mouse.old \in Seq(Loc)
  BY Parts
<1>7. C = S
  BY <1>2, <1>4, <1>6 DEF Forest
<1>8. /\ S # {} /\ Selected # <<>>
  <2>1. sel.wnds[1] \in ToSet(sel.wnds)
    BY <1>4, <1>6, FirstIs
  <2>2. sel.wnds[1].of \in S
    BY <2>1, TogetherNow
  <2> QED  BY <2>2, SelectedNow, ToSetIs
<1>9. V = {} /\ W \in SUBSET Control
  <2>1. Under(K, C) \subseteq Control
    <3>1. C \subseteq Control
      BY SelectedNow
    <3> QED  BY <3>1 DEF Under
  <2> QED  BY <1>4, <2>1
<1>10. sel'.wnds = sel.wnds
  <2>1. V \in SUBSET Control
    BY <1>9
  <2> HIDE DEF V, W
  <2>2. Keeps(sel', sel, V, W)
    BY <1>2, <1>6, <1>9, <2>1, RenewIs
  <2> QED  BY <1>9, <2>2 DEF Keeps
<1> HIDE DEF V, W, C
<1>11. \A c \in Attached(f) \ S : form'.loc[c] = f.loc[c]
  <2>1. Attached(f) \subseteq Control /\ f.loc \in [Control -> Loc]
    BY <1>4, AttachedIs DEF Form
  <2>2. \A c \in Control : f.loc[c] \in Int
    BY <2>1, Locs
  <2> SUFFICES ASSUME NEW c \in Attached(f), c \notin S PROVE form'.loc[c] = f.loc[c]
    OBVIOUS
  <2> HIDE DEF f, S
  <2>3. form.loc[c] = f.loc[c] + 0 /\ form'.loc[c] = form.loc[c] + 0
    BY <1>2, <1>5, <2>1
  <2> QED  BY <2>1, <2>2, <2>3
<1>12. form' \in Shape /\ sel' \in Selects /\ Shows(form', sel') /\ Attached(form') \subseteq born'
  <2>1. /\ TypeOK' /\ Shows(form', sel') /\ Fresh(form', born')
    BY DEF IInv
  <2>2. form' \in Shape /\ sel' \in Selects /\ born' \in SUBSET Control
    BY <2>1, <1>2, FormIsShape DEF TypeOK, Selects
  <2> QED  BY <2>1, <2>2, FreshIs
<1>13. pushes' = pushes + 1 /\ past' = Append(past, MoveCommand(sel', from, mouse.old))
  BY <1>2, <1>8, pushMoveIs
<1>14. /\ cmd \in Sound(born') /\ cmd.kind = "MOVE" /\ cmd.at = from /\ ~cmd.hole
       /\ ToSet(cmd.on) = S /\ cmd.on # <<>>
       /\ DOMAIN cmd.on = D
       /\ \A i \in DOMAIN cmd.on : cmd.on[i] = sel.wnds[i].of /\ cmd.val[i] = mouse.old[i]
  <2>1. /\ Len(sel.wnds) =< Len(mouse.old) /\ from \in Owner \cup {NoContainer}
    BY <1>4, <1>6
  <2>2. LET c == Last(past') IN
        /\ c \in Sound(born') /\ c.kind = "MOVE" /\ c.at = from /\ ~c.hole
        /\ c.on = Selected /\ ToSet(c.on) = ToSet(Selected) /\ c.on # <<>>
        /\ DOMAIN c.on = DOMAIN sel.wnds
        /\ \A i \in DOMAIN c.on : c.on[i] = sel.wnds[i].of /\ c.val[i] = mouse.old[i]
    BY <1>4, <1>6, <1>10, <1>12, <1>13, <2>1, MoveNow
  <2> QED  BY <2>2
<1> HIDE DEF cmd
<1>15. \A i \in DOMAIN cmd.on : cmd.val[i] = f.loc[cmd.on[i]]
  BY <1>4, <1>14
<1>16. R \in SUBSET Control
  <2>1. past' \in Seq(Sound(born')) /\ future' \in Seq(Sound(born')) /\ born' \in SUBSET Control
    BY DEF IInv, TypeOK
  <2> QED  BY <2>1, HeldIs
<1> HIDE DEF R
<1>17. to \in Under(K, {Base} \cup R) /\ from \in Under(K, {Base} \cup R)
  <2>1. to \in Under(K, {Base}) /\ from \in Under(K, {Base})
    BY <1>4, <1>6, AttachedIs
  <2>2. Under(K, {Base}) \subseteq Under(K, {Base} \cup R)
    BY UnderMore
  <2> QED  BY <2>1, <2>2
<1>18. LET back == execute(form', cmd, Living(form', R)) IN ~back.bad /\ View(back.form) = View(f)
  <2>1. /\ to \in Owner /\ to \in Under(KidsOf(f), {Base} \cup R)
        /\ cmd.at \in Owner /\ cmd.at \in Under(KidsOf(f), {Base} \cup R) /\ to # cmd.at
        /\ ToSet(cmd.on) \subseteq KidsOf(f)[cmd.at] /\ to \notin Under(KidsOf(f), ToSet(cmd.on))
        /\ KidsOf(form') = Moved(KidsOf(f), ToSet(cmd.on), to)
        /\ \A c \in Attached(f) \ ToSet(cmd.on) : form'.loc[c] = f.loc[c]
    BY <1>2, <1>4, <1>7, <1>11, <1>14, <1>17
  <2> HIDE DEF to, f
  <2> QED  BY <1>2, <1>4, <1>14, <1>15, <1>16, <2>1, MoveAcrossShows
<1>19. Restores(form', Last(past'), Alive', Before)
  <2>1. Restores(form', cmd, Living(form', R), f)
    BY <1>18 DEF Restores
  <2>2. Alive' = Living(form', R) /\ cmd = Last(past')
    BY AliveNext DEF R, cmd
  <2> QED  BY <1>3, <2>1, <2>2
<1> QED  BY <1>6, <1>13, <1>19, PushedIs

(* What leaves the form and the history as they are. *)

LEMMA PressQuietly ==
  ASSUME IInv, NEW p, NEW state, press(p, state), mouse.state = "up" PROVE Gesture
  BY SelectsQuietly DEF press

LEMMA selectingGesture ==
  ASSUME IInv
  PROVE  /\ \A c, space : pressControl(c, space) => Gesture
         /\ \A p : pressContainer(p) => Gesture
         /\ \A p : pressCreate(p) => Gesture
         /\ \A c : selectInstance(c) => Gesture
<1>1. ASSUME NEW c, NEW space, pressControl(c, space) PROVE Gesture
  BY <1>1, PressQuietly DEF pressControl
<1>2. ASSUME NEW p, pressContainer(p) PROVE Gesture
  BY <1>2, PressQuietly DEF pressContainer
<1>3. ASSUME NEW p, pressCreate(p) PROVE Gesture
  <2>1. CASE press(p, "creating")
    BY <1>3, <2>1, PressQuietly DEF pressCreate
  <2>2. CASE UNCHANGED <<form, born, mouse, clip, history, keys, fault>>
    BY <1>3, <2>2, SelectsQuietly DEF pressCreate
  <2> QED  BY <1>3, <2>1, <2>2 DEF pressCreate
<1>4. ASSUME NEW c, selectInstance(c) PROVE Gesture
  BY <1>4, SelectsQuietly DEF selectInstance
<1> QED  BY <1>1, <1>2, <1>3, <1>4

LEMMA keyedGesture ==
  ASSUME IInv, tabToNextSelection \/ copy PROVE Gesture
<1>1. Keyed /\ UNCHANGED history /\ form' = form
  BY DEF tabToNextSelection, copy
<1>2. mouse'.state = mouse.state
  BY <1>1, Parts, KeyedIs
<1> QED  BY <1>1, <1>2, SelectsQuietly

LEMMA onSelectingUpGesture ==
  ASSUME IInv, NEW S, onSelectingUp(S), ~fault' PROVE Gesture
<1>1. UNCHANGED history /\ form' = form /\ mouse.state = "selecting"
  BY DEF onSelectingUp, Undefined
<1> QED  BY <1>1, SelectsQuietly

LEMMA movingGesture ==
  ASSUME IInv, NEW d, NEW q, onMovingMove(d, q), ~fault' PROVE Gesture
<1>1. /\ UNCHANGED history /\ mouse.state = "moving"
      /\ mouse' = [mouse EXCEPT !.accept = q]
  BY DEF onMovingMove, Undefined
<1>2. mouse'.state = mouse.state
  BY <1>1, Parts DEF Mouse
<1> QED  BY <1>1, <1>2, QuietIs

(* Every step but the excepted ones does what GestureUndone promises.      *)
LEMMA GestureStep ==
  ASSUME IInv, IInv', [Next]_vars, ~fault', ~Disturbed, ~sel.moved PROVE Gesture
<1>1. CASE UNCHANGED vars
  BY <1>1, SelectsQuietly DEF vars
<1>2. CASE Next
  <2>1. ASSUME NEW c \in Control, NEW space \in BOOLEAN, pressControl(c, space) PROVE Gesture
    BY <2>1, selectingGesture
  <2>2. ASSUME NEW p \in Owner, pressContainer(p) PROVE Gesture
    BY <2>2, selectingGesture
  <2>3. ASSUME NEW p \in Owner \cup {NoContainer}, pressCreate(p) PROVE Gesture
    BY <2>3, selectingGesture
  <2>4. ASSUME NEW d \in Shift, NEW q \in Owner, onMovingMove(d, q) PROVE Gesture
    BY <2>4, movingGesture
  <2>5. ASSUME NEW off \in Shift, NEW valid \in BOOLEAN, dropAcross(off, valid) PROVE Gesture
    BY <2>5, dropAcrossGesture
  <2>6. ASSUME NEW S \in SUBSET Control, onSelectingUp(S) PROVE Gesture
    BY <2>6, onSelectingUpGesture
  <2>7. ASSUME NEW c \in Control, NEW l \in Loc, onCreatingUp(c, l) PROVE Gesture
    BY <2>7, onCreatingUpGesture
  <2>8. ASSUME NEW c \in Control \cup {Base}, selectInstance(c) PROVE Gesture
    BY <2>8, selectingGesture
  <2>9. ASSUME NEW d \in Shift \ {0}, moveSelections(d) PROVE Gesture
    <3>1. UNCHANGED history
      BY <2>9 DEF moveSelections
    <3>2. \E x \in Shift : moveSelections(x)
      BY <2>9
    <3> QED  BY <3>1, <3>2, QuietIs
  <2>10. ASSUME NEW cs \in UpTo(ClipMax, Control \ born), NEW locs \in UpTo(ClipMax, Loc),
                paste(cs, locs)
         PROVE  Gesture
    BY <2>10, pasteGesture
  <2>11. ASSUME NEW l \in Loc, align(l) PROVE Gesture
    BY <2>11, alignGesture
  <2>12. ASSUME NEW valid \in BOOLEAN, undo(valid) \/ redo(valid) PROVE Gesture
    BY <2>12, undoGesture, redoGesture
  <2>13. CASE dropInPlace
    BY <2>13, dropInPlaceGesture
  <2>14. CASE tabToNextSelection
    BY <2>14, keyedGesture
  <2>15. CASE deleteSelectedInstance
    BY <2>15, deletedGesture DEF deleteSelectedInstance, SomeSelected
  <2>16. CASE copy
    BY <2>16, keyedGesture
  <2>17. CASE cut
    BY <2>17, deletedGesture DEF cut, SomeSelected
  <2> QED  BY <1>2, <2>1, <2>2, <2>3, <2>4, <2>5, <2>6, <2>7, <2>8, <2>9, <2>10, <2>11,
              <2>12, <2>13, <2>14, <2>15, <2>16, <2>17 DEF Next
<1> QED  BY <1>1, <1>2

(* The command a gesture pushed, executed at once, shows the form as it    *)
(* was before the gesture, from the press of a drag on; an undone command  *)
(* redoes the undo and a redone one undoes it; and a gesture without a     *)
(* command leaves what the form shows.                                     *)
THEOREM GestureCorrect == Spec => GestureUndone
<1>1. IInv /\ IInv' /\ [Next]_vars => [~(fault' \/ Disturbed \/ sel.moved) => Gesture]_vars
  BY GestureStep
<1>2. IInv /\ [Next]_vars => IInv'
  BY NextInv
<1> QED  BY <1>1, <1>2, IInvCorrect, PTL DEF Spec, GestureUndone, Gesture
=============================================================================
