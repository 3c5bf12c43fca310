-------------------------- MODULE DeviceViewProofs --------------------------
(***************************************************************************)
(* For any number of objects: the crawler and the GUI thread never wait    *)
(* for each other over zObj_mutex, and what was collected is shown.        *)
(***************************************************************************)
EXTENDS DeviceView, FiniteSets, FiniteSetTheorems, TLAPS

\* The window is touched only at the first object of a collection, when no
\* timer is armed and no tick of it is being handled.
HandInv ==
  /\ pc \in {"disable", "push"} => addDataFlag = TRUE /\ gui # "fill"
  /\ pc = "disable" => timer = FALSE /\ gui # "ended"
  /\ timer = TRUE => addDataFlag = TRUE
  /\ gui = "ended" => addDataFlag = TRUE
  /\ timer \in BOOLEAN /\ addDataFlag \in BOOLEAN

\* Nothing is collected at the start.
LEMMA InitHand == Init => HandInv
BY DEF Init, HandInv

\* Every step keeps the hand-over in order.
LEMMA StepKeepsHand == HandInv /\ [Next]_vars => HandInv'
<1> SUFFICES ASSUME HandInv, [Next]_vars PROVE HandInv'
  OBVIOUS
<1> USE DEF HandInv
<1>1. CASE Enter
  BY <1>1 DEF Enter
<1>2. CASE DisableWindow
  BY <1>2 DEF DisableWindow
<1>3. CASE Push
  BY <1>3 DEF Push
<1>4. CASE TimerFires
  BY <1>4 DEF TimerFires, dataVars, crawlerVars
<1>5. CASE EndCollection
  BY <1>5 DEF EndCollection, crawlerVars
<1>6. CASE FillRow \/ FillEnds
  BY <1>6 DEF FillRow, FillEnds, dataVars, crawlerVars
<1>7. CASE Refresh
  BY <1>7 DEF Refresh, dataVars, crawlerVars
<1>8. CASE \E o \in Object : Register(o) \/ Remove(o)
  BY <1>8 DEF Register, Remove, dataVars
<1>9. CASE \E dead \in SUBSET registered : BeginRemoval(dead)
  BY <1>9 DEF BeginRemoval, dataVars
<1>10. CASE UNCHANGED vars
  BY <1>10 DEF vars, dataVars, crawlerVars
<1> QED
  BY <1>1, <1>2, <1>3, <1>4, <1>5, <1>6, <1>7, <1>8, <1>9, <1>10
     DEF Next, AddStep, FillStep

\* However many objects are found and however the timer falls, onAddData and
\* onAddDataEnded never block each other for good.
THEOREM NeverMutualWait == Spec => []NoMutualWait
<1>1. HandInv => NoMutualWait
  BY DEF HandInv, NoMutualWait
<1> QED
  BY <1>1, InitHand, StepKeepsHand, PTL DEF Spec
----------------------------------------------------------------------------
\* What has been collected is shown.

\* Objects created so far, and the ids that are in use.
Created == registered \cup gone
RowIds == {r.id : r \in rows}

\* Objects created that have not been pushed yet.
Owed == IF pc = "idle" THEN 0 ELSE 1

ViewTypeOK ==
  /\ registered \subseteq Object /\ gone \subseteq Object /\ removing \subseteq registered
  /\ registered \cap gone = {}
  /\ pc \in {"idle", "lock", "disable", "push"}
  /\ gui \in {"loop", "ended", "fill"}
  /\ objectList \in Seq(Object)
  /\ x \in 0..3
  /\ rows \subseteq [id : Object, object : Object, under : 0..N]

\* The object that is added has no channels yet, devices are created before
\* their channels, and a sweep takes the channels of a device with it.
FamilyInv ==
  /\ removing # {} => pc = "idle"
  /\ pc # "idle" => adding \in registered /\ \A o \in Created : Parent[o] # adding
  /\ \A o \in Created : Parent[o] \in Created \cup {Root}
  /\ \A o \in registered : Parent[o] \in gone \cup removing => o \in removing

\* The first object stands for the second and the third; no device comes into
\* the list behind a channel of its own.
ListInv ==
  /\ \A i \in 1..Len(objectList) : objectList[i] \in Created
  /\ pushed \subseteq Created
  /\ x = 0 => pushed = {} /\ objectList = << >> /\ \A o \in Created : pc # "idle" /\ o = adding
  /\ x \in 1..2 => /\ first \in Created /\ Parent[first] = Root
                   /\ pushed \subseteq {first}
                   /\ \A i \in 1..Len(objectList) : objectList[i] = first
  /\ \A i, j \in 1..Len(objectList) : i < j => objectList[j] # Parent[objectList[i]]

\* There are no more rows and waiting objects than objects were created.
CountInv == Cardinality(RowIds) + Len(objectList) + Owed <= Cardinality(Created)

\* Rows are of objects that were created and have ids of their own, and a device
\* that exists has its rows at the top.
RowInv ==
  /\ \A r \in rows : r.object \in Created
  /\ \A r, s \in rows : r.id = s.id => r = s
  /\ \A r \in rows : r.object \in registered /\ Parent[r.object] = Root => r.under = 0

Listed(o) == \E i \in 1..Len(objectList) : objectList[i] = o

Shown(o) ==
  \/ Parent[o] = Root /\ \E r \in RowsOf(o) : r.under = 0
  \/ \E r \in RowsOf(o), s \in RowsOf(Parent[o]) : r.under = s.id

\* The device has no row and none is coming.
DeviceUnseen(o) == Parent[o] # Root /\ RowsOf(Parent[o]) = {} /\ ~ Listed(Parent[o])

ShownInv ==
  \A o \in (pushed \cap registered) \ removing : Listed(o) \/ Shown(o) \/ DeviceUnseen(o)

ViewInv == ViewTypeOK /\ FamilyInv /\ ListInv /\ CountInv /\ RowInv /\ ShownInv

\* Nothing is registered or shown at the start.
LEMMA InitView == Init => ViewInv
<1> SUFFICES ASSUME Init PROVE ViewInv
  OBVIOUS
<1>1. Cardinality(RowIds) = 0 /\ Cardinality(Created) = 0
  <2>1. RowIds = {} /\ Created = {}
    BY DEF Init, RowIds, Created
  <2> QED
    BY <2>1, FS_EmptySet
<1>2. CountInv
  BY <1>1 DEF Init, CountInv, Owed
<1> QED
  BY <1>2 DEF Init, ViewInv, ViewTypeOK, FamilyInv, ListInv, RowInv, ShownInv, Created

\* The sets that are counted are finite.
LEMMA CountsAreFinite ==
  ASSUME ViewTypeOK
  PROVE  /\ IsFiniteSet(Object) /\ Cardinality(Object) = N
         /\ IsFiniteSet(Created) /\ Cardinality(Created) \in Nat /\ Cardinality(Created) <= N
         /\ IsFiniteSet(RowIds) /\ Cardinality(RowIds) \in Nat
<1>1. IsFiniteSet(Object) /\ Cardinality(Object) = N
  BY FS_Interval, ViewAssumption DEF Object
<1>2. Created \subseteq Object /\ RowIds \subseteq Object
  BY DEF ViewTypeOK, Created, RowIds
<1>3. IsFiniteSet(Created) /\ IsFiniteSet(RowIds) /\ Cardinality(Created) <= N
  BY <1>1, <1>2, FS_Subset
<1> QED
  BY <1>1, <1>3, FS_CardinalityType

\* There is always an id left for one more row.
LEMMA NewRowIsNew ==
  ASSUME ViewInv, objectList # << >>
  PROVE  NewRow \in Object /\ \A r \in rows : r.id # NewRow
<1>1. Len(objectList) \in Nat /\ Len(objectList) >= 1
  BY DEF ViewInv, ViewTypeOK
<1>2. Cardinality(RowIds) < N
  BY <1>1, CountsAreFinite, ViewAssumption DEF ViewInv, CountInv, Owed
<1>3. RowIds # Object
  BY <1>2, CountsAreFinite DEF ViewInv
<1>4. RowIds \subseteq Object
  BY DEF ViewInv, ViewTypeOK, RowIds
<1>5. \E n \in Object : \A r \in rows : r.id # n
  BY <1>3, <1>4 DEF RowIds
<1> QED
  BY <1>5 DEF NewRow

\* Steps that only hand control over.
LEMMA ControlView ==
  ASSUME ViewInv,
         UNCHANGED << registered, gone, removing, adding, objectList, x, first, rows, pushed >>,
         pc' \in {"idle", "lock", "disable", "push"}, gui' \in {"loop", "ended", "fill"},
         pc = "idle" <=> pc' = "idle"
  PROVE  ViewInv'
<1>1. Created' = Created /\ RowIds' = RowIds /\ Owed' = Owed
  BY DEF Created, RowIds, Owed
<1>2. ShownInv'
  BY DEF ViewInv, ShownInv, Listed, Shown, DeviceUnseen, RowsOf
<1>3. ViewTypeOK' /\ CountInv' /\ RowInv'
  BY <1>1 DEF ViewInv, ViewTypeOK, CountInv, RowInv
<1>4. FamilyInv' /\ ListInv'
  BY <1>1 DEF ViewInv, FamilyInv, ListInv
<1> QED
  BY <1>2, <1>3, <1>4 DEF ViewInv

\* factory::add: the object is new, so that nothing can be its channel yet.
LEMMA RegisterView ==
  ASSUME ViewInv, NEW o \in Object, Register(o)
  PROVE  ViewInv'
<1>1. /\ pc = "idle" /\ pc' = "lock" /\ adding' = o /\ removing = {}
      /\ o \notin Created /\ Parent[o] \in registered \cup {Root}
      /\ registered' = registered \cup {o} /\ Created' = Created \cup {o}
      /\ UNCHANGED << gone, removing, gui, objectList, x, first, rows, pushed >>
  BY DEF Register, Created, dataVars
<1>2. ViewTypeOK'
  BY <1>1 DEF ViewInv, ViewTypeOK, Created
<1>3. FamilyInv'
  <2>1. \A c \in Created \cup {o} : Parent[c] # o
    BY <1>1 DEF ViewInv, FamilyInv, Root, Object, Created
  <2>2. Parent[o] \notin gone
    BY <1>1, ViewAssumption DEF ViewInv, ViewTypeOK, Root, Object
  <2> QED
    BY <1>1, <2>1, <2>2 DEF ViewInv, FamilyInv, Created
<1>4. ListInv'
  BY <1>1 DEF ViewInv, ListInv
<1>5. CountInv'
  <2>1. Cardinality(Created') = Cardinality(Created) + 1
    BY <1>1, CountsAreFinite, FS_AddElement DEF ViewInv
  <2>2. RowIds' = RowIds /\ Owed = 0 /\ Owed' = 1
    BY <1>1 DEF RowIds, Owed
  <2>3. Len(objectList) \in Nat
    BY DEF ViewInv, ViewTypeOK
  <2> QED
    BY <1>1, <2>1, <2>2, <2>3, CountsAreFinite DEF ViewInv, CountInv
<1>6. RowInv'
  <2>1. ASSUME NEW r \in rows, r.object = o, Parent[o] = Root PROVE r.under = 0
    BY <1>1, <2>1 DEF ViewInv, RowInv
  <2> QED
    BY <1>1, <2>1 DEF ViewInv, RowInv
<1>7. ShownInv'
  <2>1. o \notin pushed
    BY <1>1 DEF ViewInv, ListInv
  <2> QED
    BY <1>1, <2>1 DEF ViewInv, ShownInv, Listed, Shown, DeviceUnseen, RowsOf
<1> QED
  BY <1>2, <1>3, <1>4, <1>5, <1>6, <1>7 DEF ViewInv

\* onAddData: the object, or in its place the first one, goes to the end.
LEMMA PushView ==
  ASSUME ViewInv, Push
  PROVE  ViewInv'
<1> DEFINE next == IF x \in 1..2 THEN first ELSE adding
<1>1. /\ pc = "push" /\ pc' = "idle" /\ adding' = None
      /\ objectList' = Append(objectList, next)
      /\ x' = (IF x < 3 THEN x + 1 ELSE 3)
      /\ first' = (IF x = 0 THEN adding ELSE first)
      /\ pushed' = pushed \cup {next}
      /\ UNCHANGED << registered, gone, removing, gui, rows >>
      /\ Created' = Created /\ removing = {}
  BY DEF Push, ViewInv, FamilyInv, Created
<1>2. /\ adding \in registered /\ Parent[adding] \in Created \cup {Root}
      /\ \A o \in Created : Parent[o] # adding
  BY <1>1 DEF ViewInv, FamilyInv, Created
<1>3. x \in 0..3 /\ objectList \in Seq(Object) /\ adding \in Object /\ Created \subseteq Object
  BY <1>2 DEF ViewInv, ViewTypeOK, Created
<1>4. next \in Created /\ next \in Object
  BY <1>2, <1>3 DEF ViewInv, ListInv, Created
<1>5. x = 0 => Parent[adding] = Root /\ pushed = {} /\ objectList = << >>
  BY <1>2 DEF ViewInv, ListInv, Created
<1>6. \A o \in Created : x # 0 \/ o = adding
  BY DEF ViewInv, ListInv
\* nothing in the list is a channel of what comes behind it
<1>7. \A i \in 1..Len(objectList) : next # Parent[objectList[i]]
  <2>1. CASE x \in 1..2
    BY <1>1, <2>1, ViewAssumption DEF ViewInv, ListInv, Root, Object, ViewTypeOK
  <2>2. CASE x \notin 1..2
    BY <1>2, <2>2 DEF ViewInv, ListInv
  <2> QED
    BY <2>1, <2>2
<1> HIDE DEF next
<1>8. /\ Len(objectList') = Len(objectList) + 1 /\ objectList' \in Seq(Object)
      /\ objectList'[Len(objectList) + 1] = next
      /\ \A i \in 1..Len(objectList) : objectList'[i] = objectList[i]
      /\ Len(objectList) \in Nat
  BY <1>1, <1>3, <1>4
<1>9. ViewTypeOK'
  BY <1>1, <1>3, <1>8 DEF ViewInv, ViewTypeOK
<1>10. FamilyInv'
  BY <1>1 DEF ViewInv, FamilyInv
<1>11. ListInv'
  <2>1. \A i \in 1..Len(objectList') : objectList'[i] \in Created
    BY <1>4, <1>8 DEF ViewInv, ListInv
  <2>2. pushed' \subseteq Created
    BY <1>1, <1>4 DEF ViewInv, ListInv
  <2>3. x' \in 1..2 =>
          /\ first' \in Created /\ Parent[first'] = Root
          /\ pushed' \subseteq {first'}
          /\ \A i \in 1..Len(objectList') : objectList'[i] = first'
    <3>1. CASE x = 0
      BY <1>1, <1>2, <1>5, <1>8, <3>1 DEF next, Created
    <3>2. CASE x \in 1..2
      BY <1>1, <1>8, <3>2 DEF next, ViewInv, ListInv
    <3>3. CASE x = 3
      BY <1>1, <3>3
    <3> QED
      BY <1>3, <3>1, <3>2, <3>3
  <2>4. \A i, j \in 1..Len(objectList') : i < j => objectList'[j] # Parent[objectList'[i]]
    <3> SUFFICES ASSUME NEW i \in 1..Len(objectList'), NEW j \in 1..Len(objectList'), i < j
                 PROVE  objectList'[j] # Parent[objectList'[i]]
      OBVIOUS
    <3>1. i \in 1..Len(objectList)
      BY <1>8
    <3>2. CASE j = Len(objectList) + 1
      BY <1>7, <1>8, <3>1, <3>2
    <3>3. CASE j # Len(objectList) + 1
      <4>1. j \in 1..Len(objectList)
        BY <1>8, <3>3
      <4> QED
        BY <1>8, <3>1, <4>1 DEF ViewInv, ListInv
    <3> QED
      BY <3>2, <3>3
  <2>5. x' # 0
    BY <1>1, <1>3
  <2> QED
    BY <1>1, <2>1, <2>2, <2>3, <2>4, <2>5 DEF ListInv
<1>12. CountInv'
  <2>1. RowIds' = RowIds /\ Owed = 1 /\ Owed' = 0
    BY <1>1 DEF RowIds, Owed
  <2> QED
    BY <1>1, <1>8, <2>1, CountsAreFinite DEF ViewInv, CountInv
<1>13. RowInv'
  BY <1>1 DEF ViewInv, RowInv
<1>14. ShownInv'
  <2> SUFFICES ASSUME NEW o \in (pushed' \cap registered) \ removing'
               PROVE  Listed(o)' \/ Shown(o)' \/ DeviceUnseen(o)'
    BY <1>1 DEF ShownInv
  <2>1. CASE o = next
    <3>1. Listed(o)'
      BY <1>8, <2>1 DEF Listed
    <3> QED
      BY <3>1
  <2>2. CASE o # next
    <3>1. o \in pushed /\ o \in Created
      BY <1>1, <2>2 DEF Created
    <3>2. Listed(o) => Listed(o)'
      BY <1>8 DEF Listed
    <3>3. Shown(o) => Shown(o)'
      BY <1>1 DEF Shown, RowsOf
    <3>4. next # Parent[o]
      <4>1. CASE x \in 1..2
        BY <2>2, <3>1, <4>1 DEF next, ViewInv, ListInv
      <4>2. CASE x \notin 1..2
        BY <1>2, <3>1, <4>2 DEF next
      <4> QED
        BY <4>1, <4>2
    <3>5. DeviceUnseen(o) => DeviceUnseen(o)'
      <4>1. ~ Listed(Parent[o]) => ~ Listed(Parent[o])'
        BY <1>8, <3>4 DEF Listed
      <4> QED
        BY <1>1, <4>1 DEF DeviceUnseen, RowsOf
    <3> QED
      BY <1>1, <3>1, <3>2, <3>3, <3>5 DEF ViewInv, ShownInv
  <2> QED
    BY <2>1, <2>2
<1> QED
  BY <1>9, <1>10, <1>11, <1>12, <1>13, <1>14 DEF ViewInv

\* factory::removeDead begins with a device and all its channels.
LEMMA BeginRemovalView ==
  ASSUME ViewInv, NEW dead \in SUBSET registered, BeginRemoval(dead)
  PROVE  ViewInv'
<1>1. /\ pc = "idle" /\ removing = {} /\ removing' = dead
      /\ \A o \in registered : Parent[o] \in dead => o \in dead
      /\ UNCHANGED << registered, gone, pc, adding, gui, objectList, x, first, rows, pushed >>
      /\ Created' = Created /\ RowIds' = RowIds /\ Owed' = Owed
  BY DEF BeginRemoval, dataVars, Created, RowIds, Owed
<1>2. ViewTypeOK' /\ CountInv' /\ RowInv' /\ ListInv'
  BY <1>1 DEF ViewInv, ViewTypeOK, CountInv, RowInv, ListInv
<1>3. FamilyInv'
  BY <1>1 DEF ViewInv, FamilyInv
<1>4. ShownInv'
  BY <1>1 DEF ViewInv, ShownInv, Listed, Shown, DeviceUnseen, RowsOf
<1> QED
  BY <1>2, <1>3, <1>4 DEF ViewInv

\* onRemoveData: the row that goes takes only rows of objects with it that are
\* removed in the same sweep.
LEMMA RemoveView ==
  ASSUME ViewInv, NEW o \in Object, Remove(o)
  PROVE  ViewInv'
<1>1. /\ o \in removing /\ removing' = removing \ {o}
      /\ registered' = registered \ {o} /\ gone' = gone \cup {o}
      /\ rows' \subseteq rows
      /\ UNCHANGED << pc, adding, gui, objectList, x, first, pushed >>
  BY DEF Remove, dataVars
<1>2. Created' = Created /\ o \in registered /\ pc = "idle"
  BY <1>1 DEF ViewInv, ViewTypeOK, FamilyInv, Created
<1>3. ViewTypeOK'
  BY <1>1, <1>2 DEF ViewInv, ViewTypeOK
<1>4. FamilyInv'
  BY <1>1, <1>2 DEF ViewInv, FamilyInv
<1>5. ListInv'
  BY <1>1, <1>2 DEF ViewInv, ListInv
<1>6. CountInv'
  <2>1. RowIds' \subseteq RowIds /\ Owed' = Owed
    BY <1>1 DEF RowIds, Owed
  <2>2. Cardinality(RowIds') \in Nat /\ Cardinality(RowIds') <= Cardinality(RowIds)
    BY <2>1, CountsAreFinite, FS_Subset, FS_CardinalityType DEF ViewInv
  <2>3. Len(objectList) \in Nat /\ Owed \in Nat
    BY DEF ViewInv, ViewTypeOK, Owed
  <2> QED
    BY <1>1, <1>2, <2>1, <2>2, <2>3, CountsAreFinite DEF ViewInv, CountInv
<1>7. RowInv'
  BY <1>1, <1>2 DEF ViewInv, RowInv
<1>8. ASSUME NEW c \in registered' \ removing', NEW r \in RowsOf(c),
             r.under = 0 \/ \E s \in RowsOf(Parent[c]) : r.under = s.id
      PROVE  r \in rows'
  <2>1. CASE RowsOf(o) = {}
    BY <2>1 DEF Remove, RowsOf
  <2>2. CASE RowsOf(o) # {}
    <3>1. PICK t \in RowsOf(o) : rows' = rows \ Subtree(t)
      BY <2>2 DEF Remove
    <3>2. r # t /\ t \in rows /\ t.id # 0
      BY <1>1 DEF RowsOf, ViewInv, ViewTypeOK, Object
    <3>3. r.under # t.id
      <4>1. ASSUME NEW s \in RowsOf(Parent[c]), s.id = t.id PROVE FALSE
        <5>1. s = t
          BY <3>2, <4>1 DEF RowsOf, ViewInv, RowInv
        <5>2. Parent[c] = o
          BY <4>1, <5>1 DEF RowsOf
        <5> QED
          BY <1>1, <5>2 DEF ViewInv, FamilyInv
      <4> QED
        BY <1>8, <3>2, <4>1
    <3> QED
      BY <3>1, <3>2, <3>3 DEF Subtree, RowsOf
  <2> QED
    BY <2>1, <2>2
<1>9. ShownInv'
  <2> SUFFICES ASSUME NEW c \in (pushed' \cap registered') \ removing'
               PROVE  Listed(c)' \/ Shown(c)' \/ DeviceUnseen(c)'
    BY DEF ShownInv
  <2>1. c \in (pushed \cap registered) \ removing
    BY <1>1
  <2>2. CASE Parent[c] = Root /\ \E r \in RowsOf(c) : r.under = 0
    <3>1. PICK r \in RowsOf(c) : r.under = 0
      BY <2>2
    <3>2. r \in RowsOf(c)'
      BY <1>8, <3>1 DEF RowsOf
    <3> QED
      BY <2>2, <3>1, <3>2 DEF Shown
  <2>3. CASE \E r \in RowsOf(c), s \in RowsOf(Parent[c]) : r.under = s.id
    <3>1. PICK r \in RowsOf(c), s \in RowsOf(Parent[c]) : r.under = s.id
      BY <2>3
    <3>2. r \in RowsOf(c)'
      BY <1>8, <3>1 DEF RowsOf
    <3>3. Parent[c] \in registered \ removing /\ Parent[c] # o
      <4>1. Parent[c] \in Created
        BY <3>1 DEF RowsOf, ViewInv, RowInv
      <4> QED
        BY <1>1, <2>1, <4>1 DEF ViewInv, FamilyInv, Created
    <3>4. s.under = 0
      <4>1. Parent[Parent[c]] = Root
        <5>1. c \in Object /\ Parent[c] \in Object
          BY <2>1, <3>3 DEF ViewInv, ViewTypeOK
        <5>2. Parent[c] # Root
          BY <5>1 DEF Root, Object
        <5> QED
          BY <5>1, <5>2, ViewAssumption
      <4> QED
        BY <3>1, <3>3, <4>1 DEF RowsOf, ViewInv, RowInv
    <3>5. s \in RowsOf(Parent[c])'
      BY <1>1, <1>8, <3>1, <3>3, <3>4 DEF RowsOf
    <3> QED
      BY <3>1, <3>2, <3>5 DEF Shown
  <2>4. Listed(c) => Listed(c)'
    BY <1>1 DEF Listed
  <2>5. DeviceUnseen(c) => DeviceUnseen(c)'
    BY <1>1 DEF DeviceUnseen, Listed, RowsOf
  <2> QED
    BY <2>1, <2>2, <2>3, <2>4, <2>5 DEF ViewInv, ShownInv, Shown
<1> QED
  BY <1>3, <1>4, <1>5, <1>6, <1>7, <1>9 DEF ViewInv

\* onAddDataEnded: the row goes below a row of the device, or nowhere when the
\* device has none; then none is behind it in the list either.
LEMMA FillView ==
  ASSUME ViewInv, FillRow
  PROVE  ViewInv'
<1>0. PICK o \in Object : o = Head(objectList)
  BY DEF FillRow, ViewInv, ViewTypeOK
<1> DEFINE Row(place) == [id |-> NewRow, object |-> o, under |-> place]
<1>1. /\ objectList # << >> /\ objectList' = Tail(objectList)
      /\ UNCHANGED << registered, gone, removing, pc, adding, gui, x, first, pushed >>
      /\ \/ \E place \in Places(o) : rows' = rows \cup {Row(place)}
         \/ Places(o) = {} /\ rows' = rows
  BY <1>0 DEF FillRow, crawlerVars
<1>2. Created' = Created /\ Owed' = Owed
  BY <1>1 DEF Created, Owed
<1>3. /\ Len(objectList) \in Nat /\ Len(objectList) >= 1
      /\ Len(objectList') = Len(objectList) - 1
      /\ objectList' \in Seq(Object) /\ o = objectList[1]
      /\ \A i \in 1..Len(objectList') : objectList'[i] = objectList[i + 1]
                                        /\ i + 1 \in 1..Len(objectList)
  BY <1>0, <1>1 DEF ViewInv, ViewTypeOK
<1>4. NewRow \in Object /\ \A r \in rows : r.id # NewRow
  BY <1>1, NewRowIsNew
<1>5. Places(o) \subseteq 0..N
  <2>1. \A r \in rows : r.id \in 0..N
    BY DEF ViewInv, ViewTypeOK, Object
  <2>2. {r.id : r \in rows} \subseteq 0..N /\ {r.id : r \in RowsOf(Parent[o])} \subseteq 0..N
    BY <2>1 DEF RowsOf
  <2>3. 0 \in 0..N
    BY ViewAssumption
  <2> QED
    BY <2>2, <2>3 DEF Places
<1>6. o \in Created
  BY <1>3 DEF ViewInv, ListInv
<1>7. \A place \in Places(o) : o \in registered /\ Parent[o] = Root => place = 0
  BY DEF Places, ViewInv, ViewTypeOK
<1>8. ViewTypeOK'
  <2>1. rows' \subseteq [id : Object, object : Object, under : 0..N]
    BY <1>1, <1>3, <1>4, <1>5 DEF ViewInv, ViewTypeOK
  <2> QED
    BY <1>1, <1>3, <2>1 DEF ViewInv, ViewTypeOK
<1>9. FamilyInv'
  BY <1>1, <1>2 DEF ViewInv, FamilyInv
<1>10. ListInv'
  <2>1. \A i \in 1..Len(objectList') : objectList'[i] \in Created
    BY <1>3 DEF ViewInv, ListInv
  <2>2. x # 0
    BY <1>1 DEF ViewInv, ListInv
  <2>3. x \in 1..2 => \A i \in 1..Len(objectList') : objectList'[i] = first
    BY <1>3 DEF ViewInv, ListInv
  <2>4. \A i, j \in 1..Len(objectList') : i < j => objectList'[j] # Parent[objectList'[i]]
    <3> SUFFICES ASSUME NEW i \in 1..Len(objectList'), NEW j \in 1..Len(objectList'), i < j
                 PROVE  objectList'[j] # Parent[objectList'[i]]
      OBVIOUS
    <3>1. /\ i + 1 \in 1..Len(objectList) /\ j + 1 \in 1..Len(objectList) /\ i + 1 < j + 1
          /\ objectList'[i] = objectList[i + 1] /\ objectList'[j] = objectList[j + 1]
      BY <1>3
    <3> QED
      BY <3>1 DEF ViewInv, ListInv
  <2> QED
    BY <1>1, <1>2, <2>1, <2>2, <2>3, <2>4 DEF ViewInv, ListInv
<1>11. CountInv'
  <2>1. RowIds' \subseteq RowIds \cup {NewRow}
    BY <1>1 DEF RowIds
  <2>2. /\ Cardinality(RowIds') \in Nat
        /\ Cardinality(RowIds') <= Cardinality(RowIds \cup {NewRow})
    BY <2>1, CountsAreFinite, FS_AddElement, FS_Subset, FS_CardinalityType DEF ViewInv
  <2>3. Cardinality(RowIds \cup {NewRow}) <= Cardinality(RowIds) + 1
    <3>1. IsFiniteSet(RowIds) /\ Cardinality(RowIds) \in Nat
      BY CountsAreFinite DEF ViewInv
    <3>2. Cardinality(RowIds \cup {NewRow}) =
            IF NewRow \in RowIds THEN Cardinality(RowIds) ELSE Cardinality(RowIds) + 1
      BY <3>1, FS_AddElement
    <3> QED
      BY <3>1, <3>2
  <2>4. Owed \in Nat
    BY DEF Owed
  <2>5. Cardinality(RowIds \cup {NewRow}) \in Nat
    BY CountsAreFinite, FS_AddElement, FS_CardinalityType DEF ViewInv
  <2> QED
    BY <1>2, <1>3, <2>2, <2>3, <2>4, <2>5, CountsAreFinite DEF ViewInv, CountInv
<1>12. RowInv'
  BY <1>1, <1>2, <1>4, <1>6, <1>7 DEF ViewInv, RowInv
<1>13. \A c : RowsOf(c) \subseteq RowsOf(c)'
  BY <1>1 DEF RowsOf
<1>14. ASSUME NEW c, c # o PROVE (Listed(c)' <=> Listed(c)) /\ RowsOf(c)' = RowsOf(c)
  <2>1. Listed(c) => Listed(c)'
    <3> SUFFICES ASSUME NEW i \in 1..Len(objectList), objectList[i] = c PROVE Listed(c)'
      BY DEF Listed
    <3>1. i # 1
      BY <1>3, <1>14
    <3>2. i - 1 \in 1..Len(objectList') /\ objectList'[i - 1] = objectList[(i - 1) + 1]
      BY <1>3, <3>1
    <3> QED
      BY <3>2 DEF Listed
  <2>2. Listed(c)' => Listed(c)
    BY <1>3 DEF Listed
  <2>3. RowsOf(c)' = RowsOf(c)
    BY <1>1, <1>14 DEF RowsOf
  <2> QED
    BY <2>1, <2>2, <2>3
<1>15. \A c : Shown(c) => Shown(c)'
  BY <1>13 DEF Shown
\* the row of the object itself
<1>16. ASSUME o \in registered PROVE Shown(o)' \/ DeviceUnseen(o)'
  <2>1. o \notin gone /\ Parent[o] # o
    <3>1. o \notin gone
      BY <1>16 DEF ViewInv, ViewTypeOK
    <3>2. o # Root
      BY DEF Root, Object
    <3> QED
      BY <3>1, <3>2, ViewAssumption
  <2>2. ASSUME NEW place \in Places(o), rows' = rows \cup {Row(place)} PROVE Shown(o)'
    <3>1. Row(place) \in RowsOf(o)'
      BY <2>2 DEF RowsOf
    <3>2. CASE Parent[o] = Root
      <4>1. Row(place).under = 0
        BY <1>7, <1>16, <2>2, <3>2
      <4> QED
        BY <3>1, <3>2, <4>1 DEF Shown
    <3>3. CASE Parent[o] # Root
      <4>1. PICK s \in RowsOf(Parent[o]) : place = s.id
        BY <2>1, <2>2, <3>3 DEF Places
      <4> QED
        BY <1>13, <3>1, <4>1 DEF Shown
    <3> QED
      BY <3>2, <3>3
  <2>3. CASE Places(o) = {} /\ rows' = rows
    <3>1. Parent[o] # Root /\ RowsOf(Parent[o]) = {}
      BY <2>1, <2>3 DEF Places
    <3>2. ~ Listed(Parent[o])'
      <4> SUFFICES ASSUME NEW i \in 1..Len(objectList'), objectList'[i] = Parent[o]
                   PROVE  FALSE
        BY DEF Listed
      <4>1. /\ i + 1 \in 1..Len(objectList) /\ 1 \in 1..Len(objectList) /\ 1 < i + 1
            /\ objectList[i + 1] = Parent[objectList[1]]
        BY <1>3
      <4> QED
        BY <4>1 DEF ViewInv, ListInv
    <3> QED
      BY <2>3, <3>1, <3>2 DEF DeviceUnseen, RowsOf
  <2> QED
    BY <1>1, <2>2, <2>3
<1>17. ShownInv'
  <2> SUFFICES ASSUME NEW c \in (pushed \cap registered) \ removing
               PROVE  Listed(c)' \/ Shown(c)' \/ DeviceUnseen(c)'
    BY <1>1 DEF ShownInv
  <2>1. CASE c = o
    BY <1>16, <2>1
  <2>2. CASE c # o
    <3>1. DeviceUnseen(c) => DeviceUnseen(c)'
      <4>1. DeviceUnseen(c) => Parent[c] # o
        BY <1>3 DEF DeviceUnseen, Listed
      <4> QED
        BY <1>14, <4>1 DEF DeviceUnseen
    <3> QED
      BY <1>14, <1>15, <2>2, <3>1 DEF ViewInv, ShownInv
  <2> QED
    BY <2>1, <2>2
<1> QED
  BY <1>8, <1>9, <1>10, <1>11, <1>12, <1>17 DEF ViewInv

\* F5 empties the tree; only what is still in the list counts as collected.
LEMMA RefreshView ==
  ASSUME ViewInv, Refresh
  PROVE  ViewInv'
<1>1. /\ rows' = {} /\ pushed' = {objectList[i] : i \in DOMAIN objectList}
      /\ UNCHANGED << registered, gone, removing, pc, adding, gui, objectList, x, first >>
      /\ Created' = Created /\ Owed' = Owed /\ RowIds' = {}
  BY DEF Refresh, crawlerVars, dataVars, Created, Owed, RowIds
<1>2. DOMAIN objectList = 1..Len(objectList) /\ Len(objectList) \in Nat
  BY DEF ViewInv, ViewTypeOK
<1>3. ViewTypeOK' /\ FamilyInv' /\ RowInv'
  BY <1>1 DEF ViewInv, ViewTypeOK, FamilyInv, RowInv
<1>4. ListInv'
  BY <1>1, <1>2 DEF ViewInv, ListInv
<1>5. CountInv'
  <2>1. Owed \in Nat
    BY DEF Owed
  <2> QED
    BY <1>1, <1>2, <2>1, CountsAreFinite, FS_EmptySet DEF ViewInv, CountInv
<1>6. ShownInv'
  BY <1>1, <1>2 DEF ShownInv, Listed
<1> QED
  BY <1>3, <1>4, <1>5, <1>6 DEF ViewInv

\* Every step of the two threads keeps ViewInv.
LEMMA StepView == ViewInv /\ [Next]_vars => ViewInv'
<1> SUFFICES ASSUME ViewInv, [Next]_vars PROVE ViewInv'
  OBVIOUS
<1>1. CASE Enter \/ DisableWindow \/ TimerFires \/ EndCollection \/ FillEnds
  <2>1. UNCHANGED << registered, gone, removing, adding, objectList, x, first, rows, pushed >>
    BY <1>1 DEF Enter, DisableWindow, TimerFires, EndCollection, FillEnds, crawlerVars, dataVars
  <2>2. /\ pc' \in {"idle", "lock", "disable", "push"} /\ gui' \in {"loop", "ended", "fill"}
        /\ pc = "idle" <=> pc' = "idle"
    BY <1>1 DEF Enter, DisableWindow, TimerFires, EndCollection, FillEnds, crawlerVars,
                ViewInv, ViewTypeOK
  <2> QED
    BY <2>1, <2>2, ControlView
<1>2. CASE UNCHANGED vars
  <2>1. /\ UNCHANGED << registered, gone, removing, adding, objectList, x, first, rows, pushed >>
        /\ UNCHANGED << pc, gui >>
    BY <1>2 DEF vars, crawlerVars, dataVars
  <2> QED
    BY <2>1, ControlView DEF ViewInv, ViewTypeOK
<1>3. ASSUME NEW o \in Object, Register(o) \/ Remove(o) PROVE ViewInv'
  BY <1>3, RegisterView, RemoveView
<1>4. ASSUME NEW dead \in SUBSET registered, BeginRemoval(dead) PROVE ViewInv'
  BY <1>4, BeginRemovalView
<1> QED
  BY <1>1, <1>2, <1>3, <1>4, PushView, FillView, RefreshView DEF Next, AddStep, FillStep

\* Whatever is found, removed and refreshed in whatever order: what went into
\* objectList has a row once the collection is over (onAddDataEnded), below a
\* row of its device, if the device has one.
THEOREM CollectedObjectsShow == Spec => []CollectedIsShown
<1>1. ViewInv => CollectedIsShown
  <2> SUFFICES ASSUME ViewInv, objectList = << >>, removing = {},
                      NEW o \in pushed \cap registered
               PROVE  \/ Parent[o] = Root /\ \E r \in RowsOf(o) : r.under = 0
                      \/ \E r \in RowsOf(o), s \in RowsOf(Parent[o]) : r.under = s.id
                      \/ Parent[o] # Root /\ RowsOf(Parent[o]) = {}
    BY DEF CollectedIsShown
  <2>1. ~ Listed(o)
    BY DEF Listed
  <2> QED
    BY <2>1 DEF ViewInv, ShownInv, Shown, DeviceUnseen
<1> QED
  BY <1>1, InitView, StepView, PTL DEF Spec

=============================================================================
