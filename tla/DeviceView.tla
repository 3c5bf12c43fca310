----------------------------- MODULE DeviceView -----------------------------
(***************************************************************************)
(* How the objects the crawler finds become rows of the device tree.       *)
(*                                                                         *)
(* The crawler thread calls onAddData and onRemoveData; the GUI thread     *)
(* collects what was added and shows it when WAIT_DATA_TIMER says that no  *)
(* more came for a second.  Both hold zObj_mutex, and whatever the crawler *)
(* does to a window waits until the GUI thread is back in its message      *)
(* loop.  The main window is disabled while objects are collected.         *)
(*                                                                         *)
(* An object is created once and destroyed once; paths found again are new *)
(* objects.  A row holds the pointer of its object.                        *)
(***************************************************************************)
EXTENDS Naturals, Sequences

CONSTANTS
  N,            \* number of objects ever created
  Parent,       \* Parent[o]: the device of a channel, or Root
  MaxRefresh    \* bound on the number of refreshes

Object == 1..N
Root == 0
None == 0

ASSUME ViewAssumption ==
  /\ N \in Nat
  /\ Parent \in [Object -> 0..N]
  /\ \A o \in Object : Parent[o] # Root => Parent[Parent[o]] = Root
  /\ MaxRefresh \in Nat

VARIABLES
  registered,   \* objects in the factory
  gone,         \* objects removed from it and destroyed
  removing,     \* objects the removeDead in progress has still to remove
  pc,           \* where the crawler thread is
  adding,       \* object it adds
  gui,          \* "loop", "ended" (waits for the mutex), "fill" (holds it)
  addDataFlag, enabled, timer, objectList,   \* of the main dialog
  x,            \* the static counter of onAddData, up to 3
  first,        \* the object that opened objectList when x was 0
  rows,         \* rows of the tree: id, object, id of the row above (or 0)
  refreshes,    \* number of refreshes so far
  pushed        \* history: objects that went into objectList themselves and
                \* that no refresh has wiped from the tree

crawlerVars == << registered, gone, removing, pc, adding >>
dataVars == << addDataFlag, enabled, timer, objectList, x, first >>
vars == << crawlerVars, gui, dataVars, rows, refreshes, pushed >>

Init ==
  /\ registered = {} /\ gone = {} /\ removing = {}
  /\ pc = "idle" /\ adding = None /\ gui = "loop"
  /\ addDataFlag = FALSE /\ enabled = TRUE /\ timer = FALSE
  /\ objectList = << >> /\ x = 0 /\ first = None
  /\ rows = {} /\ refreshes = 0 /\ pushed = {}

----------------------------------------------------------------------------
\* The crawler thread: factory::add and onAddData.

Register(o) ==
  /\ pc = "idle" /\ removing = {}
  /\ o \notin registered \cup gone
  /\ Parent[o] \in registered \cup {Root}
  /\ registered' = registered \cup {o}
  /\ pc' = "lock" /\ adding' = o
  /\ UNCHANGED << gone, removing, gui, dataVars, rows, refreshes, pushed >>

\* onAddData gets zObj_mutex and looks whether a collection is on.
Enter ==
  /\ pc = "lock" /\ gui # "fill"
  /\ pc' = IF addDataFlag THEN "push" ELSE "disable"
  /\ addDataFlag' = TRUE
  /\ UNCHANGED << registered, gone, removing, adding, gui, enabled, timer,
                  objectList, x, first, rows, refreshes, pushed >>

\* EnableWindow(FALSE) of a window of the other thread: that thread has to
\* take the message.
DisableWindow ==
  /\ pc = "disable" /\ gui = "loop"
  /\ pc' = "push" /\ enabled' = FALSE
  /\ UNCHANGED << registered, gone, removing, adding, gui, addDataFlag, timer,
                  objectList, x, first, rows, refreshes, pushed >>

\* Mutant: the timer is armed for the first object only.
PushUntimed ==
  LET next == IF x \in 1..2 THEN first ELSE adding
  IN  /\ pc = "push" /\ pc' = "idle" /\ adding' = None
      /\ objectList' = Append(objectList, next)
      /\ x' = IF x < 3 THEN x + 1 ELSE 3
      /\ first' = IF x = 0 THEN adding ELSE first
      /\ timer' = (timer \/ x = 0)
      /\ pushed' = pushed \cup {next}
      /\ UNCHANGED << registered, gone, removing, gui, addDataFlag, enabled,
                      rows, refreshes >>

\* The second and the third call push objectList[0] in place of their object.
\* When the list was cleared since the first call that element is out of
\* bounds; its storage still holds the pointer of the first object.
Push ==
  LET next == IF x \in 1..2 THEN first ELSE adding
  IN  /\ pc = "push" /\ pc' = "idle" /\ adding' = None
      /\ objectList' = Append(objectList, next)
      /\ x' = IF x < 3 THEN x + 1 ELSE 3
      /\ first' = IF x = 0 THEN adding ELSE first
      /\ timer' = TRUE
      /\ pushed' = pushed \cup {next}
      /\ UNCHANGED << registered, gone, removing, gui, addDataFlag, enabled,
                      rows, refreshes >>

----------------------------------------------------------------------------
\* factory::removeDead and onRemoveData.

\* A sweep begins; channels go with their device.
BeginRemoval(dead) ==
  /\ pc = "idle" /\ removing = {}
  /\ dead # {}
  /\ \A o \in registered : Parent[o] \in dead => o \in dead
  /\ removing' = dead
  /\ UNCHANGED << registered, gone, pc, adding, gui, dataVars, rows, refreshes,
                  pushed >>

\* DeleteItem takes the rows below the row with it.
Subtree(r) == {s \in rows : s = r \/ s.under = r.id}

RowsOf(o) == {r \in rows : r.object = o}

\* onRemoveData: FindItem stops at one row of the object.  objectList is left
\* as it is.
Remove(o) ==
  /\ o \in removing /\ gui = "loop"
  /\ IF RowsOf(o) = {} THEN UNCHANGED rows
     ELSE \E r \in RowsOf(o) : rows' = rows \ Subtree(r)
  /\ registered' = registered \ {o} /\ gone' = gone \cup {o}
  /\ removing' = removing \ {o}
  /\ UNCHANGED << pc, adding, gui, dataVars, refreshes, pushed >>

----------------------------------------------------------------------------
\* The GUI thread: onAddDataEnded and F5.

\* Mutant: the flag is lowered before the mutex is taken.
TimerFiresEarly ==
  /\ gui = "loop" /\ timer
  /\ gui' = "ended" /\ addDataFlag' = FALSE
  /\ UNCHANGED << crawlerVars, enabled, timer, objectList, x, first, rows,
                  refreshes, pushed >>

TimerFires ==
  /\ gui = "loop" /\ timer
  /\ gui' = "ended"
  /\ UNCHANGED << crawlerVars, dataVars, rows, refreshes, pushed >>

EndCollection ==
  /\ gui = "ended" /\ pc \in {"idle", "lock"}
  /\ gui' = "fill" /\ timer' = FALSE
  /\ addDataFlag' = FALSE
  /\ enabled' = (enabled \/ addDataFlag)
  /\ UNCHANGED << crawlerVars, objectList, x, first, rows, refreshes, pushed >>

\* CDevicesTree::AddRow037: the row goes below a row of the parent, to the top
\* for an object of the root, and nowhere when the parent has no row.  What
\* getParent() returns for a destroyed object is anything.
Places(o) ==
  IF o \in gone THEN {0} \cup {r.id : r \in rows}
  ELSE IF Parent[o] = Root THEN {0} ELSE {r.id : r \in RowsOf(Parent[o])}

NewRow == CHOOSE n \in Object : \A r \in rows : r.id # n

\* Mutant: every row goes to the top.
FillTop ==
  LET o == Head(objectList)
  IN  /\ gui = "fill" /\ objectList # << >>
      /\ objectList' = Tail(objectList)
      /\ rows' = rows \cup {[id |-> NewRow, object |-> o, under |-> 0]}
      /\ UNCHANGED << crawlerVars, gui, addDataFlag, enabled, timer, x, first,
                      refreshes, pushed >>

FillRow ==
  LET o == Head(objectList)
  IN  /\ gui = "fill" /\ objectList # << >>
      /\ objectList' = Tail(objectList)
      /\ \/ \E place \in Places(o) :
              rows' = rows \cup {[id |-> NewRow, object |-> o, under |-> place]}
         \/ Places(o) = {} /\ UNCHANGED rows
      /\ UNCHANGED << crawlerVars, gui, addDataFlag, enabled, timer, x, first,
                      refreshes, pushed >>

FillEnds ==
  /\ gui = "fill" /\ objectList = << >>
  /\ gui' = "loop"
  /\ UNCHANGED << crawlerVars, dataVars, rows, refreshes, pushed >>

Refresh ==
  /\ gui = "loop" /\ refreshes < MaxRefresh
  /\ refreshes' = refreshes + 1
  /\ rows' = {}
  /\ pushed' = {objectList[i] : i \in DOMAIN objectList}
  /\ UNCHANGED << crawlerVars, gui, dataVars >>

AddStep == Enter \/ DisableWindow \/ Push
FillStep == TimerFires \/ EndCollection \/ FillRow \/ FillEnds

Next ==
  \/ AddStep \/ FillStep \/ Refresh
  \/ \E o \in Object : Register(o) \/ Remove(o)
  \/ \E dead \in SUBSET registered : BeginRemoval(dead)

Spec == Init /\ [][Next]_vars

\* Both threads run; the timer fires once a second passes without an add, and
\* the objects of an update are finitely many.
FairSpec == Spec /\ WF_vars(AddStep) /\ WF_vars(FillStep)
----------------------------------------------------------------------------
\* Properties.

\* The crawler never waits for the GUI thread, mutex in hand, while the GUI
\* thread waits for the mutex: the window is touched only when no collection
\* is on, and then the timer is not armed (onAddData, onAddDataEnded).
NoMutualWait == ~(pc = "disable" /\ gui = "ended")

\* A disabled main window is enabled again, also when objects are added while
\* the collection before them is being shown.
WindowComesBack == ~enabled ~> enabled

\* Everything that went into objectList is shown once the collection is over,
\* if its device is, and below a row of the device.
CollectedIsShown ==
  gui = "loop" /\ objectList = << >> /\ removing = {} =>
    \A o \in pushed \cap registered :
      \/ Parent[o] = Root /\ \E r \in RowsOf(o) : r.under = 0
      \/ \E r \in RowsOf(o), s \in RowsOf(Parent[o]) : r.under = s.id
      \/ Parent[o] # Root /\ RowsOf(Parent[o]) = {}

\* "Filling of the tree" (main_dlg.cpp:230), what the listener of added
\* objects is for: before any refresh, what is registered and not waiting to be
\* shown has a row.
TreeIsFilled ==
  gui = "loop" /\ pc = "idle" /\ objectList = << >> /\ removing = {}
    /\ refreshes = 0 => \A o \in registered : RowsOf(o) # {}

=============================================================================
