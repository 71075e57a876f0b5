--------------------------- MODULE ControlIds_proofs ---------------------------
(* Proofs about ControlIds: types, that the table knows every control of an  *)
(* open form under the id it has, that a name finds its id and an id its     *)
(* name, that a predefined id goes by its name, and that a renamed control   *)
(* has its new name; for any controls, forms, names, ids and predefined      *)
(* names.                                                                    *)
EXTENDS ControlIds, FiniteSetTheorems, TLAPS

(* A control on a form or kept by an undo command.  An undo that registers   *)
(* it again finds the name to register and the id the control had.           *)
Kept == {c \in Control : place[c] \in {"on", "off"}}

KeptStored == \A c \in Kept : stored[c] \in Name /\ id[c] \in Id

TypeInv == TypeOK /\ KeptStored

(* The table lists not only the controls on the forms but also those an      *)
(* undo can bring back, so that no closing of another form takes their id.   *)
KeptListed ==
  \A c \in Kept : id[c] \in DOMAIN reses /\ c \in reses[id[c]].insts

(* A name finds an id that has it: no two names find one id. *)
NamesFind ==
  \A n \in DOMAIN named :
    named[n] \in DOMAIN reses /\ reses[named[n]].name = n

(* An id is found by its name, so that no two ids have one name; but for a   *)
(* name that an undo registered although another id had it.                  *)
IdsNamed ==
  \A i \in DOMAIN reses : reses[i].name \notin doubled =>
    reses[i].name \in DOMAIN named /\ named[reses[i].name] = i

TableInv == ~fault => KeptListed /\ NamesFind /\ IdsNamed

-----------------------------------------------------------------------------
(* Tables. *)

LEMMA PutFacts ==
  ASSUME NEW f, NEW x, NEW y
  PROVE  /\ DOMAIN Put(f, x, y) = DOMAIN f \cup {x}
         /\ Put(f, x, y)[x] = y
         /\ \A z \in DOMAIN f \ {x} : Put(f, x, y)[z] = f[z]
  BY DEF Put

LEMMA WithoutFacts ==
  ASSUME NEW f, NEW x
  PROVE  /\ DOMAIN Without(f, x) = DOMAIN f \ {x}
         /\ \A z \in DOMAIN f \ {x} : Without(f, x)[z] = f[z]
  BY DEF Without, Restrict

(* The control that is alone in a set of controls. *)
LEMMA OnlyOne ==
  ASSUME NEW S \in SUBSET Control, Cardinality(S) = 1, NEW c \in S
  PROVE  S = {c}
  BY TableAssumption, FS_Subset, FS_Singleton
(* What TypeOK says of the two indexes. *)
IdTable(t) ==
  /\ DOMAIN t \subseteq Id
  /\ \A i \in DOMAIN t : t[i] \in [name : Name, insts : SUBSET Control]

NameTable(t) == DOMAIN t \subseteq Name /\ \A n \in DOMAIN t : t[n] \in Id

LEMMA PutIdType ==
  ASSUME NEW t, IdTable(t), NEW i \in Id,
         NEW r \in [name : Name, insts : SUBSET Control]
  PROVE  IdTable(Put(t, i, r))
  BY DEF IdTable, Put

LEMMA PutNameType ==
  ASSUME NEW t, NameTable(t), NEW n \in Name, NEW i \in Id
  PROVE  NameTable(Put(t, n, i))
  BY DEF NameTable, Put

LEMMA WithoutType ==
  ASSUME NEW t, NEW x
  PROVE  /\ IdTable(t) => IdTable(Without(t, x))
         /\ NameTable(t) => NameTable(Without(t, x))
  BY DEF IdTable, NameTable, Without, Restrict

-----------------------------------------------------------------------------
(* Types. *)

LEMMA InitTypeInv == Init => TypeInv
<1>1. DOMAIN <<>> = {}
  OBVIOUS
<1>2. QED
  BY <1>1, TableAssumption DEF Init, TypeInv, TypeOK, KeptStored, Kept

LEMMA SetIDType ==
  ASSUME TypeInv, NEW S \in SUBSET Control, NEW i \in Id,
         NEW lost, setID(S, i, lost)
  PROVE  /\ id' \in [Control -> Id \cup {None}] /\ fault' \in BOOLEAN
         /\ \A c \in Kept : id'[c] \in Id
  BY DEF TypeInv, TypeOK, KeptStored, setID, Kept

LEMMA RenameType ==
  ASSUME TypeInv, NEW c \in On, NEW n \in Name, setResName(c, n)
  PROVE  TypeInv'
<1> DEFINE i == id[c]
<1>1. /\ i \in DOMAIN reses /\ i \in Id
      /\ reses[i] \in [name : Name, insts : SUBSET Control]
      /\ IdTable(reses) /\ NameTable(named)
  BY DEF setResName, TypeInv, TypeOK, IdTable, NameTable
<1>2. /\ IdTable(reses') /\ NameTable(named')
      /\ id' \in [Control -> Id \cup {None}] /\ fault' \in BOOLEAN
      /\ \A d \in Kept : id'[d] \in Id
  <2>1. CASE takeOver(c, n)
    <3> DEFINE j == named[n]
               t == [reses EXCEPT ![j].insts = @ \cup reses[i].insts]
    <3>1. /\ reses' = Without(t, i) /\ named' = Without(named, reses[i].name)
          /\ setID(reses[i].insts, j, FALSE) /\ n \in DOMAIN named
      BY <2>1 DEF takeOver
    <3>2. IdTable(t)
      <4>1. DOMAIN t = DOMAIN reses
        OBVIOUS
      <4>2. ASSUME NEW k \in DOMAIN reses
            PROVE  t[k] \in [name : Name, insts : SUBSET Control]
        <5>1. reses[k] \in [name : Name, insts : SUBSET Control]
          BY <1>1 DEF IdTable
        <5>2. CASE k = j
          BY <5>1, <5>2, <1>1
        <5>3. CASE k # j
          BY <5>1, <5>3
        <5>4. QED
          BY <5>2, <5>3
      <4>3. QED
        BY <1>1, <4>1, <4>2 DEF IdTable
    <3>3. IdTable(reses') /\ NameTable(named')
      BY <1>1, <3>1, <3>2, WithoutType, PutIdType, PutNameType
    <3>4. reses[i].insts \in SUBSET Control /\ j \in Id
      BY <1>1, <3>1 DEF NameTable
    <3>5. QED
      BY <3>1, <3>3, <3>4, SetIDType
  <2>2. CASE renameId(c, n)
    <3>1. PICK j \in IF n \in Reserved THEN {ReservedId[n]}
                     ELSE IF renumbered(c, n) THEN Fresh ELSE {i} :
            /\ reses' = Put(Without(reses, i), j, [reses[i] EXCEPT !.name = n])
            /\ named' = Put(Without(named, reses[i].name), n, j)
            /\ setID(IF j = i THEN {} ELSE reses[i].insts, j,
                     j \in DOMAIN reses \ {i})
      BY <2>2 DEF renameId
    <3>2. j \in Id
      BY <1>1, TableAssumption DEF Fresh, ReservedIds
    <3>3. [reses[i] EXCEPT !.name = n] \in [name : Name, insts : SUBSET Control]
      BY <1>1
    <3>4. IdTable(reses') /\ NameTable(named')
      BY <1>1, <3>1, <3>2, <3>3, WithoutType, PutIdType, PutNameType
    <3>5. (IF j = i THEN {} ELSE reses[i].insts) \in SUBSET Control
      BY <1>1
    <3>6. QED
      BY <3>1, <3>2, <3>4, <3>5, SetIDType
  <2>3. CASE splitOff(c, n)
    <3>1. PICK j \in Fresh :
            /\ reses' = Put(reses, j, [name |-> n, insts |-> {c}])
            /\ named' = Put(named, n, j)
            /\ setID({c}, j, FALSE)
      BY <2>3 DEF splitOff
    <3>2. j \in Id
      BY DEF Fresh
    <3>3. c \in Control /\ {c} \in SUBSET Control
      BY DEF On
    <3>4. [name |-> n, insts |-> {c}] \in [name : Name, insts : SUBSET Control]
      BY <3>3
    <3>5. IdTable(reses') /\ NameTable(named')
      BY <1>1, <3>1, <3>2, <3>4, WithoutType, PutIdType, PutNameType
    <3>6. QED
      BY <3>1, <3>2, <3>3, <3>5, SetIDType
  <2>4. QED
    BY <2>1, <2>2, <2>3 DEF setResName
<1>3. UNCHANGED <<stored, place, open, doubled>>
  BY DEF setResName
<1>4. QED
  BY <1>2, <1>3 DEF TypeInv, TypeOK, KeptStored, Kept, IdTable, NameTable
LEMMA NextTypeInv == TypeInv /\ [Next]_vars => TypeInv'
<1> SUFFICES ASSUME TypeInv, [Next]_vars PROVE TypeInv'
  OBVIOUS
<1>1. IdTable(reses) /\ NameTable(named)
  BY DEF TypeInv, TypeOK, IdTable, NameTable
<1>2. ASSUME NEW c \in Control, NEW n \in Name, create(c, n)
      PROVE  TypeInv'
  <2>1. PICK i \in Fresh :
          /\ reses' = Put(reses, i, [name |-> n, insts |-> {c}])
          /\ named' = Put(named, n, i)
          /\ id' = [id EXCEPT ![c] = i]
    BY <1>2 DEF create
  <2>2. i \in Id /\ [name |-> n, insts |-> {c}] \in [name : Name, insts : SUBSET Control]
    BY DEF Fresh
  <2>3. IdTable(reses') /\ NameTable(named')
    BY <1>1, <2>1, <2>2, PutIdType, PutNameType
  <2>4. /\ stored' = [stored EXCEPT ![c] = n]
        /\ place' = [place EXCEPT ![c] = "on"]
        /\ UNCHANGED <<open, fault, doubled>>
    BY <1>2 DEF create
  <2>5. QED
    BY <2>1, <2>2, <2>3, <2>4
    DEF TypeInv, TypeOK, KeptStored, Kept, IdTable, NameTable
<1>3. ASSUME NEW c \in Control, NEW n \in Name, renameInPanel(c, n)
      PROVE  TypeInv'
  BY <1>3, RenameType DEF renameInPanel
<1>4. ASSUME NEW c \in Control, delete(c)
      PROVE  TypeInv'
  <2>1. id[c] \in Id /\ reses[id[c]].name \in Name
    BY <1>1, <1>4 DEF delete, IdTable
  <2>2. QED
    BY <1>4, <2>1 DEF delete, On, TypeInv, TypeOK, KeptStored, Kept
<1>5. ASSUME NEW c \in Control, takeOff(c) \/ forget(c)
      PROVE  TypeInv'
  BY <1>5 DEF takeOff, forget, On, TypeInv, TypeOK, KeptStored, Kept
<1>6. ASSUME NEW c \in Control, restore(c)
      PROVE  TypeInv'
  <2> DEFINE n == stored[c]
             i == IF n \in Reserved THEN ReservedId[n] ELSE id[c]
  <2>1. /\ place[c] = "off" /\ place' = [place EXCEPT ![c] = "on"]
        /\ id' = [id EXCEPT ![c] = i] /\ UNCHANGED <<stored, open, fault>>
    BY <1>6 DEF restore
  <2>2. n \in Name /\ i \in Id
    BY <2>1, TableAssumption DEF TypeInv, KeptStored, Kept, ReservedIds
  <2>3. IdTable(reses') /\ NameTable(named')
    <3>1. CASE reses' = [reses EXCEPT ![i].insts = @ \cup {c}] /\ UNCHANGED named
      <4>1. ASSUME NEW k \in DOMAIN reses
            PROVE  reses'[k] \in [name : Name, insts : SUBSET Control]
        <5>1. reses[k] \in [name : Name, insts : SUBSET Control]
          BY <1>1 DEF IdTable
        <5>2. CASE k = i
          BY <3>1, <5>1, <5>2
        <5>3. CASE k # i
          BY <3>1, <5>1, <5>3
        <5>4. QED
          BY <5>2, <5>3
      <4>2. QED
        BY <1>1, <3>1, <4>1 DEF IdTable, NameTable
    <3>2. CASE /\ reses' = Put(reses, i, [name |-> n, insts |-> {c}])
               /\ named' = Put(named, n, i)
      <4>1. [name |-> n, insts |-> {c}] \in [name : Name, insts : SUBSET Control]
        BY <2>2
      <4>2. QED
        BY <1>1, <2>2, <3>2, <4>1, PutIdType, PutNameType
    <3>3. QED
      BY <1>6, <3>1, <3>2 DEF restore
  <2>4. doubled' \subseteq Name
    BY <1>6, <2>2 DEF restore, TypeInv, TypeOK
  <2>5. QED
    BY <2>1, <2>2, <2>3, <2>4
    DEF TypeInv, TypeOK, KeptStored, Kept, IdTable, NameTable
<1>7. ASSUME NEW i \in DOMAIN reses, NEW j \in Id, setResId(i, j)
      PROVE  TypeInv'
  <2>1. reses[i] \in [name : Name, insts : SUBSET Control]
    BY <1>1 DEF IdTable
  <2>2. /\ reses' = Put(Without(reses, i), j, reses[i])
        /\ named' = [n \in DOMAIN named |-> IF named[n] = i THEN j ELSE named[n]]
        /\ setID(reses[i].insts, j, FALSE) /\ UNCHANGED <<stored, place, open, doubled>>
    BY <1>7 DEF setResId
  <2>3. IdTable(reses') /\ NameTable(named')
    BY <1>1, <2>1, <2>2, WithoutType, PutIdType DEF NameTable
  <2>4. /\ id' \in [Control -> Id \cup {None}] /\ fault' \in BOOLEAN
        /\ \A c \in Kept : id'[c] \in Id
    <3>1. reses[i].insts \in SUBSET Control
      BY <2>1
    <3>2. QED
      BY <2>2, <3>1, SetIDType
  <2>5. QED
    BY <2>2, <2>3, <2>4 DEF TypeInv, TypeOK, KeptStored, Kept, IdTable, NameTable
<1>8. ASSUME NEW f \in Form, close(f)
      PROVE  TypeInv'
  <2>1. PICK early \in SUBSET {i \in DOMAIN reses : removeResEarly(f, i)} :
          LET removed == early \cup {i \in DOMAIN reses : removeRes(f, i)}
          IN /\ reses' = [i \in DOMAIN reses \ removed |->
                            [reses[i] EXCEPT !.insts = @ \ Leaving(f, i)]]
             /\ named' = Restrict(named, DOMAIN named \
                                           {reses[i].name : i \in removed})
    BY <1>8 DEF close
  <2>2. /\ DOMAIN reses' \subseteq DOMAIN reses
        /\ \A i \in DOMAIN reses' :
             reses'[i] = [reses[i] EXCEPT !.insts = @ \ Leaving(f, i)]
        /\ DOMAIN named' \subseteq DOMAIN named
        /\ \A n \in DOMAIN named' : named'[n] = named[n]
    BY <2>1 DEF Restrict
  <2>3. IdTable(reses')
    <3>1. ASSUME NEW i \in DOMAIN reses'
          PROVE  reses'[i] \in [name : Name, insts : SUBSET Control]
      <4>1. reses[i] \in [name : Name, insts : SUBSET Control]
        BY <1>1, <2>2 DEF IdTable
      <4>2. QED
        BY <2>2, <4>1
    <3>2. QED
      BY <1>1, <2>2, <3>1 DEF IdTable
  <2>4. NameTable(named')
    BY <1>1, <2>2 DEF NameTable
  <2>5. /\ place' = [c \in Control |-> IF FormOf[c] = f THEN "gone" ELSE place[c]]
        /\ open' = open \ {f} /\ UNCHANGED <<id, stored, fault, doubled>>
    BY <1>8 DEF close
  <2>6. QED
    BY <2>3, <2>4, <2>5 DEF TypeInv, TypeOK, KeptStored, Kept, IdTable, NameTable
<1>9. CASE UNCHANGED vars
  BY <1>9 DEF vars, TypeInv, TypeOK, KeptStored, Kept
<1>10. QED
  BY <1>2, <1>3, <1>4, <1>5, <1>6, <1>7, <1>8, <1>9 DEF Next

(* Every part of the table and of the controls keeps its type, and what an   *)
(* undo registers again has a name and an id (createRes, autoRegisterID,     *)
(* setResName, setResId, removeRes).                                         *)
THEOREM TypeCorrect == Spec => []TypeOK
<1>1. Spec => []TypeInv
  BY InitTypeInv, NextTypeInv, PTL DEF Spec
<1>2. QED
  BY <1>1, PTL DEF TypeInv
-----------------------------------------------------------------------------
(* The branches of setResName.  Each gives the control its name, keeps the   *)
(* two indexes and the controls in step, unless it overwrites a resource,    *)
(* and names no predefined id anew.                                          *)
Renamed(c, n) ==
  /\ id'[c] \in DOMAIN reses' /\ reses'[id'[c]].name = n
  /\ ~fault' => KeptListed' /\ NamesFind'
  /\ IdsNamed => IdsNamed'
  /\ PredefinedIdNamed => PredefinedIdNamed'

LEMMA TakeOverTable ==
  ASSUME TypeInv, KeptListed, NamesFind, NEW c \in On, NEW n \in Name,
         reses[id[c]].name # n, takeOver(c, n), place' = place,
         doubled' = doubled
  PROVE  Renamed(c, n)
<1> DEFINE i == id[c]
           j == named[n]
           t == [reses EXCEPT ![j].insts = @ \cup reses[i].insts]
<1>1. /\ c \in Kept /\ i \in DOMAIN reses /\ c \in reses[i].insts
      /\ n \in DOMAIN named /\ j \in DOMAIN reses /\ reses[j].name = n /\ i # j
  BY DEF On, Kept, KeptListed, NamesFind, takeOver
<1>2. \A k \in DOMAIN reses :
        reses[k] \in [name : Name, insts : SUBSET Control]
  BY DEF TypeInv, TypeOK
<1>3. /\ reses' = Without(t, i) /\ named' = Without(named, reses[i].name)
      /\ setID(reses[i].insts, j, FALSE)
  BY DEF takeOver
<1>4. /\ DOMAIN reses' = DOMAIN reses \ {i}
      /\ reses'[j] = [reses[j] EXCEPT !.insts = @ \cup reses[i].insts]
      /\ \A k \in DOMAIN reses \ {i, j} : reses'[k] = reses[k]
  BY <1>1, <1>3 DEF Without, Restrict
<1>5. /\ reses'[j].name = n
      /\ reses'[j].insts = reses[j].insts \cup reses[i].insts
  BY <1>1, <1>2, <1>4
<1>6. /\ DOMAIN named' = DOMAIN named \ {reses[i].name}
      /\ \A m \in DOMAIN named' : named'[m] = named[m]
  BY <1>3 DEF Without, Restrict
<1>7. \A d \in Control : id'[d] = IF d \in reses[i].insts THEN j ELSE id[d]
  BY <1>3 DEF setID
<1>8. id'[c] = j
  BY <1>1, <1>7 DEF Kept
<1>9. KeptListed'
  <2> SUFFICES ASSUME NEW d \in Control, place[d] \in {"on", "off"}
               PROVE  id'[d] \in DOMAIN reses' /\ d \in reses'[id'[d]].insts
    BY DEF KeptListed, Kept
  <2>1. d \in Kept
    BY DEF Kept
  <2>2. id[d] \in DOMAIN reses /\ d \in reses[id[d]].insts
    BY <2>1 DEF KeptListed
  <2>3. CASE d \in reses[i].insts
    <3>1. id'[d] = j
      BY <1>7, <2>3
    <3>2. j \in DOMAIN reses' /\ d \in reses'[j].insts
      BY <1>1, <1>4, <1>5, <2>3
    <3>3. QED
      BY <3>1, <3>2
  <2>4. CASE d \notin reses[i].insts
    <3>1. id'[d] = id[d] /\ id[d] # i
      BY <1>7, <2>2, <2>4
    <3>2. id[d] \in DOMAIN reses'
      BY <1>4, <2>2, <3>1
    <3>3. d \in reses'[id[d]].insts
      BY <1>4, <1>5, <2>2, <3>1
    <3>4. QED
      BY <3>1, <3>2, <3>3
  <2>5. QED
    BY <2>3, <2>4
<1>10. NamesFind'
  <2> SUFFICES ASSUME NEW m \in DOMAIN named'
               PROVE  named'[m] \in DOMAIN reses' /\ reses'[named'[m]].name = m
    BY DEF NamesFind
  <2>1. /\ m \in DOMAIN named /\ named'[m] = named[m] /\ m # reses[i].name
        /\ named[m] \in DOMAIN reses /\ reses[named[m]].name = m
    BY <1>6 DEF NamesFind
  <2>2. named[m] # i
    BY <2>1
  <2>3. QED
    BY <1>1, <1>4, <1>5, <2>1, <2>2
<1>11. ASSUME IdsNamed PROVE IdsNamed'
  <2> SUFFICES ASSUME NEW k \in DOMAIN reses', reses'[k].name \notin doubled'
               PROVE  /\ reses'[k].name \in DOMAIN named'
                      /\ named'[reses'[k].name] = k
    BY DEF IdsNamed
  <2>1. k \in DOMAIN reses /\ k # i /\ reses'[k].name = reses[k].name
    BY <1>1, <1>4, <1>5
  <2>2. /\ reses[k].name \in DOMAIN named /\ named[reses[k].name] = k
        /\ reses[i].name # reses[k].name
    BY <1>1, <1>11, <2>1 DEF IdsNamed
  <2>3. reses[k].name \in DOMAIN named'
    BY <1>6, <2>1, <2>2
  <2>4. QED
    BY <1>6, <2>1, <2>2, <2>3
<1>12. ASSUME PredefinedIdNamed PROVE PredefinedIdNamed'
  <2>1. \A k \in DOMAIN reses' : k \in DOMAIN reses /\ reses'[k].name = reses[k].name
    BY <1>1, <1>4, <1>5
  <2>2. QED
    BY <1>12, <2>1 DEF PredefinedIdNamed
<1>13. QED
  BY <1>1, <1>4, <1>5, <1>8, <1>9, <1>10, <1>11, <1>12 DEF Renamed
LEMMA RenameIdTable ==
  ASSUME TypeInv, KeptListed, NamesFind, NEW c \in On, NEW n \in Name,
         reses[id[c]].name # n, renameId(c, n), place' = place,
         doubled' = doubled
  PROVE  Renamed(c, n)
<1> DEFINE i == id[c]
<1>1. /\ c \in Kept /\ i \in DOMAIN reses /\ n \notin DOMAIN named
      /\ reses[i].insts = {c}
  <2>1. c \in Kept /\ i \in DOMAIN reses /\ c \in reses[i].insts
    BY DEF On, Kept, KeptListed
  <2>2. reses[i].insts \in SUBSET Control
    BY <2>1 DEF TypeInv, TypeOK
  <2>3. n \notin DOMAIN named /\ Cardinality(reses[i].insts) = 1
    BY DEF renameId, alone
  <2>4. QED
    BY <2>1, <2>2, <2>3, OnlyOne
<1>2. PICK j \in IF n \in Reserved THEN {ReservedId[n]}
                 ELSE IF renumbered(c, n) THEN Fresh ELSE {i} :
        /\ reses' = Put(Without(reses, i), j, [reses[i] EXCEPT !.name = n])
        /\ named' = Put(Without(named, reses[i].name), n, j)
        /\ setID(IF j = i THEN {} ELSE reses[i].insts, j,
                 j \in DOMAIN reses \ {i})
  BY DEF renameId
<1>3. \A k \in DOMAIN reses :
        reses[k] \in [name : Name, insts : SUBSET Control]
  BY DEF TypeInv, TypeOK
<1>4. /\ DOMAIN reses' = (DOMAIN reses \ {i}) \cup {j}
      /\ reses'[j] = [reses[i] EXCEPT !.name = n]
      /\ \A k \in DOMAIN reses \ {i, j} : reses'[k] = reses[k]
  BY <1>2 DEF Put, Without, Restrict
<1>5. reses'[j].name = n /\ reses'[j].insts = {c}
  BY <1>1, <1>3, <1>4
<1>6. /\ DOMAIN named' = (DOMAIN named \ {reses[i].name}) \cup {n}
      /\ named'[n] = j
      /\ \A m \in DOMAIN named \ {reses[i].name} : named'[m] = named[m]
  BY <1>1, <1>2 DEF Put, Without, Restrict
<1>7. \A d \in Control : id'[d] = IF d = c THEN j ELSE id[d]
  <2>1. ASSUME NEW d \in Control
        PROVE id'[d] = IF d \in (IF j = i THEN {} ELSE reses[i].insts) THEN j ELSE id[d]
    BY <1>2 DEF setID
  <2>2. QED
    BY <1>1, <2>1
<1>8. c \in Control /\ id'[c] = j
  BY <1>1, <1>7 DEF Kept
<1>9. ~fault' => j \notin DOMAIN reses \ {i}
  BY <1>2 DEF setID
<1>10. ASSUME ~fault' PROVE KeptListed'
  <2> SUFFICES ASSUME NEW d \in Control, place[d] \in {"on", "off"}
               PROVE  id'[d] \in DOMAIN reses' /\ d \in reses'[id'[d]].insts
    BY DEF KeptListed, Kept
  <2>1. id[d] \in DOMAIN reses /\ d \in reses[id[d]].insts
    BY DEF KeptListed, Kept
  <2>2. CASE d = c
    BY <1>4, <1>5, <1>8, <2>2
  <2>3. CASE d # c
    <3>1. id[d] # i
      BY <1>1, <2>1, <2>3
    <3>2. id[d] # j /\ id'[d] = id[d]
      BY <1>7, <1>9, <1>10, <2>1, <2>3, <3>1
    <3>3. QED
      BY <1>4, <2>1, <3>1, <3>2
  <2>4. QED
    BY <2>2, <2>3
<1>11. ASSUME ~fault' PROVE NamesFind'
  <2> SUFFICES ASSUME NEW m \in DOMAIN named'
               PROVE  named'[m] \in DOMAIN reses' /\ reses'[named'[m]].name = m
    BY DEF NamesFind
  <2>1. CASE m = n
    BY <1>4, <1>5, <1>6, <2>1
  <2>2. CASE m # n
    <3>1. /\ m \in DOMAIN named /\ m # reses[i].name /\ named'[m] = named[m]
          /\ named[m] \in DOMAIN reses /\ reses[named[m]].name = m
      BY <1>6, <2>2 DEF NamesFind
    <3>2. named[m] # i /\ named[m] # j
      BY <1>9, <1>11, <3>1
    <3>3. QED
      BY <1>4, <3>1, <3>2
  <2>3. QED
    BY <2>1, <2>2
<1>12. ASSUME IdsNamed PROVE IdsNamed'
  <2> SUFFICES ASSUME NEW k \in DOMAIN reses', reses'[k].name \notin doubled'
               PROVE  /\ reses'[k].name \in DOMAIN named'
                      /\ named'[reses'[k].name] = k
    BY DEF IdsNamed
  <2>1. CASE k = j
    BY <1>5, <1>6, <2>1
  <2>2. CASE k # j
    <3>1. k \in DOMAIN reses \ {i} /\ reses'[k].name = reses[k].name
      BY <1>4, <2>2
    <3>2. reses[k].name \in DOMAIN named /\ named[reses[k].name] = k
      BY <1>12, <3>1 DEF IdsNamed
    <3>3. reses[k].name # reses[i].name
      BY <1>1, <1>12, <3>1, <3>2 DEF IdsNamed
    <3>4. QED
      BY <1>6, <3>1, <3>2, <3>3
  <2>3. QED
    BY <2>1, <2>2
<1>13. ASSUME PredefinedIdNamed PROVE PredefinedIdNamed'
  <2> SUFFICES ASSUME NEW m \in Reserved, ReservedId[m] \in DOMAIN reses'
               PROVE  reses'[ReservedId[m]].name = m
    BY DEF PredefinedIdNamed
  <2>1. CASE ReservedId[m] = j
    <3>1. n \in Reserved
      BY <1>2, <2>1 DEF renumbered, Fresh, ReservedIds
    <3>2. n = m
      BY <1>2, <2>1, <3>1, TableAssumption
    <3>3. QED
      BY <1>5, <2>1, <3>2
  <2>2. CASE ReservedId[m] # j
    BY <1>4, <1>13, <2>2 DEF PredefinedIdNamed
  <2>3. QED
    BY <2>1, <2>2
<1>14. QED
  BY <1>4, <1>5, <1>8, <1>10, <1>11, <1>12, <1>13 DEF Renamed

(* A resource added under a free id for one control, whose id it becomes:    *)
(* what create and splitOff do with the table.                               *)
Added(c, n, j) ==
  /\ j \in Fresh
  /\ reses' = Put(reses, j, [name |-> n, insts |-> {c}])
  /\ named' = Put(named, n, j)
  /\ \A d \in Control : id'[d] = IF d = c THEN j ELSE id[d]

LEMMA AddedTable ==
  ASSUME KeptListed, NamesFind, NEW c \in Control, NEW n \in Name,
         n \notin DOMAIN named, NEW j, Added(c, n, j),
         \A d \in Control \ {c} : place'[d] = place[d], doubled' = doubled
  PROVE  Renamed(c, n)
<1>1. /\ DOMAIN reses' = DOMAIN reses \cup {j} /\ j \notin DOMAIN reses
      /\ reses'[j] = [name |-> n, insts |-> {c}]
      /\ \A k \in DOMAIN reses : reses'[k] = reses[k]
  BY DEF Added, Fresh, Put
<1>2. reses'[j].name = n /\ reses'[j].insts = {c}
  BY <1>1
<1>3. /\ DOMAIN named' = DOMAIN named \cup {n} /\ named'[n] = j
      /\ \A m \in DOMAIN named : named'[m] = named[m]
  BY DEF Added, Put
<1>4. \A d \in Control : id'[d] = IF d = c THEN j ELSE id[d]
  BY DEF Added
<1>5. KeptListed'
  <2> SUFFICES ASSUME NEW d \in Control, place'[d] \in {"on", "off"}
               PROVE  id'[d] \in DOMAIN reses' /\ d \in reses'[id'[d]].insts
    BY DEF KeptListed, Kept
  <2>1. CASE d = c
    BY <1>1, <1>2, <1>4, <2>1
  <2>2. CASE d # c
    <3>1. id[d] \in DOMAIN reses /\ d \in reses[id[d]].insts
      BY <2>2 DEF KeptListed, Kept
    <3>2. QED
      BY <1>1, <1>4, <2>2, <3>1
  <2>3. QED
    BY <2>1, <2>2
<1>6. NamesFind'
  <2> SUFFICES ASSUME NEW m \in DOMAIN named'
               PROVE  named'[m] \in DOMAIN reses' /\ reses'[named'[m]].name = m
    BY DEF NamesFind
  <2>1. CASE m = n
    BY <1>1, <1>2, <1>3, <2>1
  <2>2. CASE m # n
    BY <1>1, <1>3, <2>2 DEF NamesFind
  <2>3. QED
    BY <2>1, <2>2
<1>7. ASSUME IdsNamed PROVE IdsNamed'
  <2> SUFFICES ASSUME NEW k \in DOMAIN reses', reses'[k].name \notin doubled'
               PROVE  /\ reses'[k].name \in DOMAIN named'
                      /\ named'[reses'[k].name] = k
    BY DEF IdsNamed
  <2>1. CASE k = j
    BY <1>2, <1>3, <2>1
  <2>2. CASE k # j
    BY <1>1, <1>3, <1>7, <2>2 DEF IdsNamed
  <2>3. QED
    BY <2>1, <2>2
<1>8. ASSUME PredefinedIdNamed PROVE PredefinedIdNamed'
  <2>1. j \notin ReservedIds
    BY DEF Added, Fresh
  <2>2. QED
    BY <1>1, <1>8, <2>1 DEF PredefinedIdNamed, ReservedIds
<1>9. QED
  BY <1>1, <1>2, <1>4, <1>5, <1>6, <1>7, <1>8 DEF Renamed

LEMMA RenameTable ==
  ASSUME TypeInv, KeptListed, NamesFind, NEW c \in On, NEW n \in Name,
         setResName(c, n)
  PROVE  Renamed(c, n)
<1>1. place' = place /\ doubled' = doubled /\ reses[id[c]].name # n
  BY DEF setResName
<1>2. CASE takeOver(c, n)
  BY <1>1, <1>2, TakeOverTable
<1>3. CASE renameId(c, n)
  BY <1>1, <1>3, RenameIdTable
<1>4. CASE splitOff(c, n)
  <2>1. n \notin DOMAIN named /\ c \in Control
    BY <1>4 DEF splitOff, On
  <2>2. PICK j \in Fresh :
          /\ reses' = Put(reses, j, [name |-> n, insts |-> {c}])
          /\ named' = Put(named, n, j)
          /\ setID({c}, j, FALSE)
    BY <1>4 DEF splitOff
  <2>3. Added(c, n, j)
    BY <2>2 DEF Added, setID
  <2>4. QED
    BY <1>1, <2>1, <2>3, AddedTable
<1>5. QED
  BY <1>2, <1>3, <1>4 DEF setResName
-----------------------------------------------------------------------------
(* The other steps. *)

LEMMA RestoreTable ==
  ASSUME TypeInv, KeptListed, NamesFind, NEW c \in Control, restore(c)
  PROVE  /\ KeptListed' /\ NamesFind'
         /\ IdsNamed => IdsNamed'
         /\ PredefinedIdNamed => PredefinedIdNamed'
<1> DEFINE n == stored[c]
           i == IF n \in Reserved THEN ReservedId[n] ELSE id[c]
<1>1. /\ c \in Kept /\ place' = [place EXCEPT ![c] = "on"]
      /\ id' = [id EXCEPT ![c] = i]
  BY DEF restore, Kept
<1>2. /\ \A d \in Control : id'[d] = IF d = c THEN i ELSE id[d]
      /\ \A d \in Control \ {c} : place'[d] = place[d]
  BY <1>1 DEF TypeInv, TypeOK
<1>3. CASE /\ i \in DOMAIN reses
           /\ reses' = [reses EXCEPT ![i].insts = @ \cup {c}]
           /\ UNCHANGED <<named, doubled>>
  <2>1. reses[i] \in [name : Name, insts : SUBSET Control]
    BY <1>3 DEF TypeInv, TypeOK
  <2>2. /\ DOMAIN reses' = DOMAIN reses
        /\ reses'[i].name = reses[i].name
        /\ reses'[i].insts = reses[i].insts \cup {c}
        /\ \A k \in DOMAIN reses \ {i} : reses'[k] = reses[k]
    BY <1>3, <2>1
  <2>3. KeptListed'
    <3> SUFFICES ASSUME NEW d \in Control, place'[d] \in {"on", "off"}
                 PROVE  id'[d] \in DOMAIN reses' /\ d \in reses'[id'[d]].insts
      BY DEF KeptListed, Kept
    <3>1. CASE d = c
      BY <1>2, <1>3, <2>2, <3>1
    <3>2. CASE d # c
      <4>1. id[d] \in DOMAIN reses /\ d \in reses[id[d]].insts
        BY <1>2, <3>2 DEF KeptListed, Kept
      <4>2. QED
        BY <1>2, <2>2, <3>2, <4>1
    <3>3. QED
      BY <3>1, <3>2
  <2>4. \A k \in DOMAIN reses : reses'[k].name = reses[k].name
    BY <2>2
  <2>5. DOMAIN reses' = DOMAIN reses /\ named' = named /\ doubled' = doubled
    BY <1>3, <2>2
  <2>6. NamesFind' /\ (IdsNamed => IdsNamed')
    BY <2>4, <2>5 DEF NamesFind, IdsNamed
  <2>7. PredefinedIdNamed => PredefinedIdNamed'
    BY <2>4, <2>5 DEF PredefinedIdNamed
  <2>8. QED
    BY <2>3, <2>6, <2>7
<1>4. CASE /\ i \notin DOMAIN reses
           /\ reses' = Put(reses, i, [name |-> n, insts |-> {c}])
           /\ named' = Put(named, n, i)
           /\ doubled' = doubled \cup ({n} \cap DOMAIN named)
  <2>1. /\ DOMAIN reses' = DOMAIN reses \cup {i}
        /\ reses'[i].name = n /\ reses'[i].insts = {c}
        /\ \A k \in DOMAIN reses : reses'[k] = reses[k]
    BY <1>4 DEF Put
  <2>2. /\ DOMAIN named' = DOMAIN named \cup {n} /\ named'[n] = i
        /\ \A m \in DOMAIN named \ {n} : named'[m] = named[m]
    BY <1>4 DEF Put
  <2>3. KeptListed'
    <3> SUFFICES ASSUME NEW d \in Control, place'[d] \in {"on", "off"}
                 PROVE  id'[d] \in DOMAIN reses' /\ d \in reses'[id'[d]].insts
      BY DEF KeptListed, Kept
    <3>1. CASE d = c
      BY <1>2, <2>1, <3>1
    <3>2. CASE d # c
      <4>1. id[d] \in DOMAIN reses /\ d \in reses[id[d]].insts
        BY <1>2, <3>2 DEF KeptListed, Kept
      <4>2. QED
        BY <1>2, <2>1, <3>2, <4>1
    <3>3. QED
      BY <3>1, <3>2
  <2>4. NamesFind'
    <3> SUFFICES ASSUME NEW m \in DOMAIN named'
                 PROVE  named'[m] \in DOMAIN reses' /\ reses'[named'[m]].name = m
      BY DEF NamesFind
    <3>1. CASE m = n
      BY <2>1, <2>2, <3>1
    <3>2. CASE m # n
      BY <2>1, <2>2, <3>2 DEF NamesFind
    <3>3. QED
      BY <3>1, <3>2
  <2>5. ASSUME IdsNamed PROVE IdsNamed'
    <3> SUFFICES ASSUME NEW k \in DOMAIN reses', reses'[k].name \notin doubled'
                 PROVE  /\ reses'[k].name \in DOMAIN named'
                        /\ named'[reses'[k].name] = k
      BY DEF IdsNamed
    <3>1. CASE k = i
      BY <2>1, <2>2, <3>1
    <3>2. CASE k # i
      <4>1. /\ k \in DOMAIN reses /\ reses'[k].name = reses[k].name
            /\ reses[k].name \notin doubled
        BY <1>4, <2>1, <3>2
      <4>2. reses[k].name \in DOMAIN named /\ named[reses[k].name] = k
        BY <2>5, <4>1 DEF IdsNamed
      <4>3. reses[k].name # n
        BY <1>4, <4>1, <4>2
      <4>4. QED
        BY <2>2, <4>1, <4>2, <4>3
    <3>3. QED
      BY <3>1, <3>2
  <2>6. ASSUME PredefinedIdNamed PROVE PredefinedIdNamed'
    <3>1. n \in Reserved /\ i = ReservedId[n]
      BY <1>1, <1>4 DEF KeptListed
    <3>2. \A m \in Reserved : ReservedId[m] = i => m = n
      BY <3>1, TableAssumption
    <3>3. QED
      BY <2>1, <2>6, <3>2 DEF PredefinedIdNamed
  <2>7. QED
    BY <2>3, <2>4, <2>5, <2>6
<1>5. QED
  BY <1>3, <1>4 DEF restore

LEMMA SetResIdTable ==
  ASSUME TypeInv, KeptListed, NamesFind,
         NEW i \in DOMAIN reses, NEW j \in Id, setResId(i, j)
  PROVE  /\ KeptListed' /\ NamesFind'
         /\ IdsNamed => IdsNamed'
         /\ PredefinedIdNamed => PredefinedIdNamed'
<1>1. /\ reses' = Put(Without(reses, i), j, reses[i]) /\ j \notin DOMAIN reses \cup ReservedIds
      /\ named' = [n \in DOMAIN named |-> IF named[n] = i THEN j ELSE named[n]]
      /\ setID(reses[i].insts, j, FALSE) /\ UNCHANGED <<place, doubled>>
  BY DEF setResId
<1>2. /\ DOMAIN reses' = (DOMAIN reses \ {i}) \cup {j} /\ reses'[j] = reses[i]
      /\ \A k \in DOMAIN reses \ {i} : reses'[k] = reses[k]
  BY <1>1 DEF Put, Without, Restrict
<1>3. \A d \in Control : id'[d] = IF d \in reses[i].insts THEN j ELSE id[d]
  BY <1>1 DEF setID
<1>4. KeptListed'
  <2> SUFFICES ASSUME NEW d \in Control, place[d] \in {"on", "off"}
               PROVE  id'[d] \in DOMAIN reses' /\ d \in reses'[id'[d]].insts
    BY <1>1 DEF KeptListed, Kept
  <2>1. id[d] \in DOMAIN reses /\ d \in reses[id[d]].insts
    BY DEF KeptListed, Kept
  <2>2. QED
    BY <1>2, <1>3, <2>1
<1>5. NamesFind'
  BY <1>1, <1>2 DEF NamesFind
<1>6. ASSUME IdsNamed PROVE IdsNamed'
  <2> SUFFICES ASSUME NEW k \in DOMAIN reses', reses'[k].name \notin doubled'
               PROVE  /\ reses'[k].name \in DOMAIN named'
                      /\ named'[reses'[k].name] = k
    BY DEF IdsNamed
  <2>1. CASE k = j
    BY <1>1, <1>2, <1>6, <2>1 DEF IdsNamed
  <2>2. CASE k # j
    BY <1>1, <1>2, <1>6, <2>2 DEF IdsNamed
  <2>3. QED
    BY <2>1, <2>2
<1>7. ASSUME PredefinedIdNamed PROVE PredefinedIdNamed'
  BY <1>1, <1>2, <1>7 DEF PredefinedIdNamed, ReservedIds
<1>8. QED
  BY <1>4, <1>5, <1>6, <1>7

LEMMA CloseTable ==
  ASSUME TypeInv, KeptListed, NamesFind, NEW f \in Form, close(f)
  PROVE  /\ KeptListed' /\ NamesFind'
         /\ IdsNamed => IdsNamed'
         /\ PredefinedIdNamed => PredefinedIdNamed'
<1>1. PICK early \in SUBSET {i \in DOMAIN reses : removeResEarly(f, i)} :
        LET removed == early \cup {i \in DOMAIN reses : removeRes(f, i)}
        IN /\ reses' = [i \in DOMAIN reses \ removed |->
                          [reses[i] EXCEPT !.insts = @ \ Leaving(f, i)]]
           /\ named' = Restrict(named, DOMAIN named \
                                         {reses[i].name : i \in removed})
  BY DEF close
<1> DEFINE removed == early \cup {i \in DOMAIN reses : removeRes(f, i)}
<1>2. /\ DOMAIN reses' = DOMAIN reses \ removed
      /\ \A i \in DOMAIN reses' :
           /\ reses'[i].name = reses[i].name
           /\ reses'[i].insts = reses[i].insts \ Leaving(f, i)
  <2>1. \A i \in DOMAIN reses :
          reses[i] \in [name : Name, insts : SUBSET Control]
    BY DEF TypeInv, TypeOK
  <2>2. QED
    BY <1>1, <2>1
<1>3. /\ DOMAIN named' = DOMAIN named \ {reses[i].name : i \in removed}
      /\ \A m \in DOMAIN named' : named'[m] = named[m]
  BY <1>1 DEF Restrict
<1>4. removed \subseteq DOMAIN reses
  OBVIOUS
<1>5. /\ place' = [c \in Control |-> IF FormOf[c] = f THEN "gone" ELSE place[c]]
      /\ id' = id /\ doubled' = doubled
  BY DEF close
<1>6. \A k \in DOMAIN reses : Leaving(f, k) \subseteq reses[k].insts
  BY DEF Leaving, On, Kept, KeptListed
<1>8. KeptListed'
  <2> SUFFICES ASSUME NEW d \in Control, place'[d] \in {"on", "off"}
               PROVE  id[d] \in DOMAIN reses' /\ d \in reses'[id[d]].insts
    BY <1>5 DEF KeptListed, Kept
  <2> DEFINE k == id[d]
  <2>1. FormOf[d] # f /\ place[d] \in {"on", "off"}
    BY <1>5
  <2>2. k \in DOMAIN reses /\ d \in reses[k].insts
    BY <2>1 DEF KeptListed, Kept
  <2>3. d \notin Leaving(f, k)
    BY <2>1 DEF Leaving
  <2>4. ~ removeRes(f, k)
    <3>1. ~ reses[k].insts \subseteq Leaving(f, k)
      BY <2>2, <2>3
    <3>2. ASSUME Cardinality(reses[k].insts) = 1 PROVE Leaving(f, k) = {}
      <4>1. reses[k].insts \in SUBSET Control
        BY <2>2 DEF TypeInv, TypeOK
      <4>2. reses[k].insts = {d}
        BY <2>2, <3>2, <4>1, OnlyOne
      <4>3. QED
        BY <1>6, <2>2, <2>3, <4>2
    <3>3. QED
      BY <3>1, <3>2 DEF removeRes
  <2>5. ~ removeResEarly(f, k)
    BY <1>6, <2>2 DEF removeResEarly
  <2>6. k \notin removed
    BY <2>4, <2>5
  <2>7. QED
    BY <1>2, <2>2, <2>3, <2>6
<1>9. NamesFind'
  <2> SUFFICES ASSUME NEW m \in DOMAIN named'
               PROVE  named[m] \in DOMAIN reses' /\ reses'[named[m]].name = m
    BY <1>3 DEF NamesFind
  <2>1. named[m] \in DOMAIN reses /\ reses[named[m]].name = m
    BY <1>3 DEF NamesFind
  <2>2. named[m] \notin removed
    BY <1>3, <2>1
  <2>3. QED
    BY <1>2, <2>1, <2>2
<1>10. ASSUME IdsNamed PROVE IdsNamed'
  <2> SUFFICES ASSUME NEW k \in DOMAIN reses', reses'[k].name \notin doubled'
               PROVE  /\ reses'[k].name \in DOMAIN named'
                      /\ named'[reses'[k].name] = k
    BY DEF IdsNamed
  <2>1. /\ k \in DOMAIN reses \ removed /\ reses'[k].name = reses[k].name
        /\ reses[k].name \in DOMAIN named /\ named[reses[k].name] = k
    BY <1>2, <1>5, <1>10 DEF IdsNamed
  <2>2. \A r \in removed : reses[r].name # reses[k].name
    BY <1>2, <1>4, <1>5, <1>10, <2>1 DEF IdsNamed
  <2>3. QED
    BY <1>3, <2>1, <2>2
<1>11. ASSUME PredefinedIdNamed PROVE PredefinedIdNamed'
  BY <1>2, <1>11 DEF PredefinedIdNamed
<1>12. QED
  BY <1>8, <1>9, <1>10, <1>11
(* Every step at once: what it does to the agreement of the indexes.  The    *)
(* model ends with a fault, so that of a step into one only the names of     *)
(* predefined ids are claimed.                                               *)
LEMMA NextTable ==
  ASSUME TypeInv, KeptListed, NamesFind, ~fault, [Next]_vars
  PROVE  /\ ~fault' => KeptListed' /\ NamesFind'
         /\ IdsNamed => IdsNamed'
         /\ PredefinedIdNamed => PredefinedIdNamed'
<1>1. ASSUME NEW c \in Control, NEW n \in Name, create(c, n)
      PROVE  Renamed(c, n)
  <2>1. PICK i \in Fresh :
          /\ reses' = Put(reses, i, [name |-> n, insts |-> {c}])
          /\ named' = Put(named, n, i)
          /\ id' = [id EXCEPT ![c] = i]
    BY <1>1 DEF create
  <2>2. /\ Added(c, n, i) /\ \A d \in Control \ {c} : place'[d] = place[d]
    BY <1>1, <2>1 DEF Added, create, TypeInv, TypeOK
  <2>3. n \notin DOMAIN named /\ doubled' = doubled
    BY <1>1 DEF create
  <2>4. QED
    BY <2>2, <2>3, AddedTable
<1>2. ASSUME NEW c \in Control, NEW n \in Name, renameInPanel(c, n)
      PROVE  Renamed(c, n)
  BY <1>2, RenameTable DEF renameInPanel
<1>3. ASSUME NEW c \in Control, delete(c) \/ takeOff(c) \/ forget(c)
      PROVE  /\ KeptListed' /\ NamesFind' /\ (IdsNamed => IdsNamed')
             /\ PredefinedIdNamed => PredefinedIdNamed'
  <2>1. /\ UNCHANGED <<reses, named, id, doubled>> /\ c \in Kept
        /\ \A d \in Control \ {c} : place'[d] = place[d]
    BY <1>3 DEF delete, takeOff, forget, On, Kept, TypeInv, TypeOK
  <2>2. QED
    BY <2>1 DEF KeptListed, NamesFind, IdsNamed, PredefinedIdNamed, Kept
<1>4. CASE UNCHANGED vars
  BY <1>4 DEF vars, KeptListed, NamesFind, IdsNamed, PredefinedIdNamed, Kept
<1>5. QED
  BY <1>1, <1>2, <1>3, <1>4, RestoreTable, SetResIdTable, CloseTable
  DEF Next, Renamed

LEMMA NoStepFromFault == Next => ~fault
  BY DEF Next, create, renameInPanel, delete, takeOff, restore, forget,
         setResId, close

LEMMA NextTableInv ==
  TypeInv /\ TableInv /\ PredefinedIdNamed /\ [Next]_vars =>
    TableInv' /\ PredefinedIdNamed'
<1> SUFFICES ASSUME TypeInv, TableInv, PredefinedIdNamed, [Next]_vars
             PROVE  TableInv' /\ PredefinedIdNamed'
  OBVIOUS
<1>1. CASE UNCHANGED vars
  BY <1>1 DEF vars, TableInv, KeptListed, NamesFind, IdsNamed,
              PredefinedIdNamed, Kept
<1>2. CASE Next
  BY <1>2, NoStepFromFault, NextTable DEF TableInv
<1>3. QED
  BY <1>1, <1>2

LEMMA InitTable == Init => TableInv /\ PredefinedIdNamed
<1>1. DOMAIN <<>> = {}
  OBVIOUS
<1>2. QED
  BY <1>1 DEF Init, TableInv, KeptListed, Kept, NamesFind, IdsNamed,
              PredefinedIdNamed

LEMMA TableCorrect == Spec => [](TypeInv /\ TableInv /\ PredefinedIdNamed)
  BY InitTypeInv, NextTypeInv, InitTable, NextTableInv, PTL DEF Spec

(* Every control on a form has an id the table knows, which lists it: an     *)
(* undo command finds the name to store, a renumbering reaches every         *)
(* control, and no closing of another form drops the id.  With predefined    *)
(* names as well, as long as none of them overwrites an entry of the table.  *)
THEOREM OnFormListedCorrect == Spec => [](~fault => OnFormListed)
<1>1. TableInv => (~fault => OnFormListed)
  BY DEF TableInv, KeptListed, Kept, OnFormListed, On
<1>2. QED
  BY <1>1, TableCorrect, PTL

(* The two indexes and the controls agree, with any predefined names: a name *)
(* finds an id that has it and an id is found by its name, but for a         *)
(* predefined name that an undo registered, under the predefined id, while   *)
(* another id had it (createRes, setResName, setResId, removeRes).           *)
THEOREM IndexesCorrect == Spec => []IndexesAgree
<1>1. TableInv => IndexesAgree
  BY DEF TableInv, KeptListed, Kept, NamesFind, IdsNamed, IndexesAgree,
         OnFormListed, On
<1>2. QED
  BY <1>1, TableCorrect, PTL

(* What has a predefined id goes by its predefined name: no branch of        *)
(* setResName, no new number and no undo gives the id another one.           *)
THEOREM PredefinedCorrect == Spec => []PredefinedIdNamed
  BY TableCorrect, PTL

(* A control renamed in the panel has the name it was given, whichever       *)
(* branch of setResName changed the table; with predefined names as well.    *)
THEOREM RenameCorrect == Spec => NamedAsAsked
<1>1. TypeInv /\ TableInv /\ [Next]_vars =>
        [\A c \in Control, n \in Name :
           renameInPanel(c, n) =>
             id'[c] \in DOMAIN reses' /\ reses'[id'[c]].name = n]_vars
  <2> SUFFICES ASSUME TypeInv, TableInv,
                      NEW c \in Control, NEW n \in Name, renameInPanel(c, n)
               PROVE  id'[c] \in DOMAIN reses' /\ reses'[id'[c]].name = n
    OBVIOUS
  <2>1. ~fault /\ c \in On /\ setResName(c, n)
    BY DEF renameInPanel
  <2>2. QED
    BY <2>1, RenameTable DEF TableInv, Renamed
<1>2. QED
  BY <1>1, TableCorrect, PTL DEF Spec, NamedAsAsked
=============================================================================
