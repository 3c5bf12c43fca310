---------------------------- MODULE RefreshRace ----------------------------
(***************************************************************************)
(* The factory under two threads.  A store to needWait or to an _alive, a  *)
(* test of needWait, and a change of the maps by add or by removeThis is a *)
(* step of its own.                                                        *)
(*                                                                         *)
(* The crawler thread kills, finds and removes objects; the GUI thread,    *)
(* from timer 3 of a refresh, kills and removes them too.  The only guard  *)
(* is needWait, a plain long that is tested in one step and set in         *)
(* another, and killAll does not look at it.  Module Crawler takes every   *)
(* call as one step; this module shows what of it survives without that.   *)
(*                                                                         *)
(* Paths, parents and chains are those of Factory, for trees of devices    *)
(* and channels.                                                           *)
(***************************************************************************)
EXTENDS Integers

CONSTANTS
  N, Parent,    \* as in Factory; the parent of a parent is the root
  Leaves,       \* what the crawler looks for
  MaxRefresh    \* bound on the number of refreshes

Path == 1..N
Root == 0
Node == 0..N
Threads == {"crawler", "gui"}
Nowhere == -1    \* a kill that has not visited the root yet
None == N + 1    \* no object

ASSUME RaceAssumption ==
  /\ N \in Nat
  /\ Parent \in [Path -> Node]
  /\ \A p \in Path : /\ Parent[p] < p
                     /\ Parent[p] # Root => Parent[Parent[p]] = Root
  /\ Leaves \subseteq Path
  /\ MaxRefresh \in Nat

VARIABLES
  objects, linked, alive,   \* as in Factory
  needWait,    \* factory::needWait
  present,     \* leaves the server shows
  pc,          \* pc[t]: what thread t does next
  pos,         \* pos[t]: where the kill of t stands
  left,        \* left[t]: objects the removal of t has still to examine
  todo,        \* leaves the update has still to look for
  climb,       \* object whose _alive the crawler stores next
  after,       \* object to climb from when this climb is over, or None
  refreshes    \* number of refreshes so far

vars == << objects, linked, alive, needWait, present, pc, pos, left, todo,
           climb, after, refreshes >>

Init ==
  /\ objects = {} /\ linked = {}
  /\ alive = [n \in Node |-> n = Root]
  /\ needWait = 0
  /\ present \in SUBSET Leaves
  /\ pc = [t \in Threads |-> IF t = "crawler" THEN "test" ELSE "idle"]
  /\ pos = [t \in Threads |-> Nowhere]
  /\ left = [t \in Threads |-> {}]
  /\ todo = {} /\ climb = None /\ after = None
  /\ refreshes = 0

Goto(t, label) == pc' = [pc EXCEPT ![t] = label]

----------------------------------------------------------------------------
\* factory::killAll by thread t: object::setAlive(false) visits the root and
\* then, in the order of the maps, what still hangs in the tree.
Hanging(p) == {p, Parent[p]} \subseteq {Root} \cup (objects \cap linked)

Ahead(t) == {n \in Node : n > pos[t] /\ (n = Root \/ Hanging(n))}

KillNext(t) ==
  /\ pc[t] = "kill"
  /\ \E n \in Ahead(t) :
       /\ \A m \in Ahead(t) : n <= m
       /\ alive' = [alive EXCEPT ![n] = FALSE]
       /\ pos' = [pos EXCEPT ![t] = n]
  /\ UNCHANGED << objects, linked, needWait, present, pc, left, todo, climb,
                  after, refreshes >>

KillDone(t) ==
  /\ pc[t] = "kill" /\ Ahead(t) = {}
  /\ Goto(t, IF t = "crawler" THEN "walk" ELSE "removeTest")
  /\ pos' = [pos EXCEPT ![t] = Nowhere]
  /\ todo' = IF t = "crawler" THEN Leaves ELSE todo
  /\ UNCHANGED << objects, linked, alive, needWait, present, left, climb,
                  after, refreshes >>

\* factory::removeDead by thread t.
RemoveTest(t) ==
  /\ pc[t] = "removeTest"
  /\ Goto(t, IF needWait = 0 THEN "removeTake"
             ELSE IF t = "crawler" THEN "test" ELSE "idle")
  /\ UNCHANGED << objects, linked, alive, needWait, present, pos, left, todo,
                  climb, after, refreshes >>

RemoveTake(t) ==
  /\ pc[t] = "removeTake" /\ Goto(t, "remove")
  /\ needWait' = 1
  /\ left' = [left EXCEPT ![t] = objects]
  /\ UNCHANGED << objects, linked, alive, present, pos, todo, climb, after,
                  refreshes >>

\* The hash map is walked in no particular order; object::removeThis cuts p
\* out of its parent and its children loose.
RemoveNext(t, p) ==
  /\ pc[t] = "remove" /\ p \in left[t]
  /\ left' = [left EXCEPT ![t] = @ \ {p}]
  /\ IF p \in objects /\ ~alive[p]
     THEN /\ objects' = objects \ {p}
          /\ linked' = linked \ ({p} \cup {c \in Path : Parent[c] = p})
     ELSE UNCHANGED << objects, linked >>
  /\ UNCHANGED << alive, needWait, present, pc, pos, todo, climb, after,
                  refreshes >>

RemoveDone(t) ==
  /\ pc[t] = "remove" /\ left[t] = {}
  /\ Goto(t, IF t = "crawler" THEN "test" ELSE "idle")
  /\ needWait' = 0
  /\ UNCHANGED << objects, linked, alive, present, pos, left, todo, climb,
                  after, refreshes >>

Removal(t) ==
  \/ KillNext(t) \/ KillDone(t) \/ RemoveTest(t) \/ RemoveTake(t)
  \/ (\E p \in Path : RemoveNext(t, p)) \/ RemoveDone(t)

----------------------------------------------------------------------------
\* crawler::update up to its removeDead.
UpdateTest ==
  /\ pc["crawler"] = "test"
  /\ Goto("crawler", IF needWait = 0 THEN "take" ELSE "removeTest")
  /\ UNCHANGED << objects, linked, alive, needWait, present, pos, left, todo,
                  climb, after, refreshes >>

UpdateTake ==
  /\ pc["crawler"] = "take" /\ Goto("crawler", "kill")
  /\ needWait' = 1
  /\ UNCHANGED << objects, linked, alive, present, pos, left, todo, climb,
                  after, refreshes >>

\* check_n_add: a registered leaf is marked alive, its device before it; a
\* new one is created with what it lacks, and then marked alive.
Visit(p) ==
  /\ pc["crawler"] = "walk" /\ p \in todo
  /\ todo' = todo \ {p}
  /\ IF p \notin present
     THEN UNCHANGED << objects, linked, alive, pc, climb, after >>
     ELSE LET device == Parent[p]
              new == IF p \in objects THEN {}
                     ELSE {p} \cup ({device} \ (objects \cup {Root}))
          IN  /\ Goto("crawler", "climb")
              /\ objects' = objects \cup new
              /\ linked' = linked \cup new
              /\ alive' = [n \in Node |-> alive[n] \/ n \in new]
              /\ IF /\ device # Root /\ p \in linked'
                    /\ p \in objects \/ device \in new
                 THEN climb' = device /\ after' = p
                 ELSE climb' = p /\ after' = None
  /\ UNCHANGED << needWait, present, pos, left, refreshes >>

\* Mutant: setAlive does not pass on to the parent.
ClimbNowhere ==
  /\ pc["crawler"] = "climb"
  /\ alive' = [alive EXCEPT ![climb] = TRUE]
  /\ IF after # None
     THEN climb' = after /\ after' = None /\ UNCHANGED pc
     ELSE climb' = None /\ Goto("crawler", "walk") /\ UNCHANGED after
  /\ UNCHANGED << objects, linked, needWait, present, pos, left, todo,
                  refreshes >>

\* object::setAlive(true), one store, then on to the parent.
Climb ==
  /\ pc["crawler"] = "climb"
  /\ alive' = [alive EXCEPT ![climb] = TRUE]
  /\ IF climb # Root /\ climb \in linked
     THEN climb' = Parent[climb] /\ UNCHANGED << pc, after >>
     ELSE IF after # None
     THEN climb' = after /\ after' = None /\ UNCHANGED pc
     ELSE climb' = None /\ Goto("crawler", "walk") /\ UNCHANGED after
  /\ UNCHANGED << objects, linked, needWait, present, pos, left, todo,
                  refreshes >>

\* Mutant: the update does not release the flag.
UpdateDoneHolding ==
  /\ pc["crawler"] = "walk" /\ todo = {}
  /\ Goto("crawler", "removeTest")
  /\ UNCHANGED << objects, linked, alive, needWait, present, pos, left, todo,
                  climb, after, refreshes >>

UpdateDone ==
  /\ pc["crawler"] = "walk" /\ todo = {}
  /\ Goto("crawler", "removeTest")
  /\ needWait' = 0
  /\ UNCHANGED << objects, linked, alive, present, pos, left, todo, climb,
                  after, refreshes >>

\* Timer 3 of a refresh.
RefreshTimer ==
  /\ pc["gui"] = "idle" /\ refreshes < MaxRefresh
  /\ refreshes' = refreshes + 1
  /\ Goto("gui", "kill")
  /\ UNCHANGED << objects, linked, alive, needWait, present, pos, left, todo,
                  climb, after >>

PlugOrUnplug(p) ==
  /\ present' = IF p \in present THEN present \ {p} ELSE present \cup {p}
  /\ UNCHANGED << objects, linked, alive, needWait, pc, pos, left, todo, climb,
                  after, refreshes >>

Next ==
  \/ \E t \in Threads : Removal(t)
  \/ UpdateTest \/ UpdateTake \/ Climb \/ UpdateDone \/ RefreshTimer
  \/ \E p \in Leaves : Visit(p) \/ PlugOrUnplug(p)

Spec == Init /\ [][Next]_vars

----------------------------------------------------------------------------
\* Properties.

Marking == pc["crawler"] \in {"kill", "climb"} \/ pc["gui"] = "kill"

\* A kill goes from devices to channels and a find from channels to devices,
\* so however their stores interleave, once both are over a live channel that
\* hangs in the tree has a live device (object::setAlive).
LifeSettlesUpward ==
  ~Marking => \A p \in objects \cap linked : alive[p] => alive[Parent[p]]

\* Both threads may get past the test of needWait, but the flag never stays
\* set once both are out: no update is locked out for good.
FlagIsReleased ==
  pc["gui"] = "idle" /\ pc["crawler"] \in {"test", "removeTest"} => needWait = 0

=============================================================================
