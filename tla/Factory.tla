------------------------------ MODULE Factory ------------------------------
(***************************************************************************)
(* The object registry of ZETDeviceManager: class factory (the map         *)
(* _objects, the waiters, the needWait flag) over the tree of class object *)
(* (_parent, _children, _alive, _changed).                                 *)
(*                                                                         *)
(* An object is named by its full path.  Paths are the numbers 1..N, the   *)
(* root of the tree is 0, and a path is greater than the path of its       *)
(* parent.  This module holds the state of the factory and one operator    *)
(* per method; the threads that call them are in Crawler.                  *)
(***************************************************************************)
EXTENDS Integers, FiniteSets

CONSTANTS
  N,          \* number of paths a device or a channel can have
  Parent,     \* Parent[p]: the path up to the last ";" (0: the root)
  Above,      \* Above[p]: the parent of p, its parent, ... up to the root
  WaitTicks   \* kWaitTimeMs (6000) in keep-alive ticks (100 ms)

Path == 1..N
Root == 0
Node == 0..N

ASSUME FactoryAssumption ==
  /\ N \in Nat
  /\ WaitTicks \in Nat \ {0}
  /\ Parent \in [Path -> Node]
  /\ \A p \in Path : Parent[p] < p

\* Above is the transitive closure of Parent: the chain from p to the root.
ASSUME AboveAssumption ==
  /\ Above \in [Path -> SUBSET Node]
  /\ \A p \in Path :
       Above[p] = {Parent[p]} \cup
                  (IF Parent[p] = Root THEN {} ELSE Above[Parent[p]])
  /\ \A p \in Path : \A q \in Above[p] :
       /\ q < p
       /\ q # Root => Above[q] \subseteq Above[p]
       /\ \A r \in Above[p] : q < r => q \in Above[r]

NotWaiting == -2   \* no entry in _waiters
Expired    == -1   \* entry whose time has run out

VARIABLES
  objects,    \* keys of _objects
  linked,     \* objects that hang in the tree: p is in the _children of its
              \* _parent and its _parent pointer is set
  alive,      \* _alive of the root and of every registered object
  changed,    \* _changed of the root
  waiters,    \* ticks a connecting controller has been waited for
  waitShown,  \* last value of _signal_wait: tree and list show "connecting"
  errors,     \* paths with _signal_err(object, true) not withdrawn
  needWait    \* 1 while objects are being created or removed

factoryVars == << objects, linked, alive, changed, waiters, waitShown,
                  errors, needWait >>

Waiting == {p \in Path : waiters[p] # NotWaiting}

FactoryTypeOK ==
  /\ objects \subseteq Path
  /\ linked \subseteq Path
  /\ alive \in [Node -> BOOLEAN]
  /\ changed \in BOOLEAN
  /\ waiters \in [Path -> {NotWaiting, Expired} \cup 0..(WaitTicks - 1)]
  /\ waitShown \in BOOLEAN
  /\ errors \subseteq Path
  /\ needWait \in {0, 1}

FactoryInit ==
  /\ objects = {}
  /\ linked = {}
  /\ alive = [n \in Node |-> n = Root]
  /\ changed = FALSE
  /\ waiters = [p \in Path |-> NotWaiting]
  /\ waitShown = FALSE
  /\ errors = {}
  /\ needWait = 0

----------------------------------------------------------------------------
\* p and its ancestors below the root.
Chain(p) == {p} \cup (Above[p] \ {Root})

\* Mutant: setAlive does not pass on to the parent.
ClimbNowhere(p, links) == {p}

\* object::setAlive(true): the object and the ancestors its _parent chain
\* reaches; the chain ends at the first object that is not linked.
Climb(p, links) ==
  {p} \cup {q \in Above[p] : \A r \in Chain(p) : r > q => r \in links}

\* object::setAlive(false) from the root: the objects _children lead to.
Reachable == {p \in objects : Chain(p) \subseteq linked \cap objects}

\* The objects factory::add(p) has to create: p and its ancestors below the
\* nearest registered one.
Missing(p) ==
  {q \in Chain(p) : \A r \in Chain(p) : r >= q => r \notin objects}

\* factory::add for an unregistered p: create, link, register, and let the
\* callback mark alive what was created.
AddObject(p) ==
  LET new == Missing(p)
      up  == Climb(p, linked \cup new)
  IN  /\ objects' = objects \cup new
      /\ linked' = linked \cup new
      /\ alive' = [n \in Node |-> alive[n] \/ n \in up]
      /\ changed' = (changed \/ Root \in up)

\* Mutant: the ancestors of an object that is found again are forgotten.
RefreshedAlone(p) == [alive EXCEPT ![p] = TRUE]

\* update_info on a registered p: setAlive() of the object.
Refreshed(p) == [n \in Node |-> alive[n] \/ n \in Climb(p, linked)]

\* Mutant: the kill stops below the root's own children.
KillTop ==
  alive' = [n \in Node |-> alive[n] /\ n # Root /\ Parent[n] # Root]

\* factory::killAll
KillAll ==
  alive' = [n \in Node |-> IF n = Root THEN FALSE
                           ELSE alive[n] /\ n \notin Reachable]

\* Mutant: nobody looks whether the last entry has gone.
DropWaitersSilently(S) ==
  /\ waiters' = [p \in Path |-> IF p \in S THEN NotWaiting ELSE waiters[p]]
  /\ errors' = errors \ {p \in S : waiters[p] = Expired /\ p \in objects}
  /\ UNCHANGED waitShown

\* The waiters left when the entries of S are erased, with the signals that
\* go with it: errors of erased expired entries are withdrawn, and the
\* indicator is switched off when the last entry goes.
DropWaiters(S) ==
  /\ waiters' = [p \in Path |-> IF p \in S THEN NotWaiting ELSE waiters[p]]
  /\ errors' = errors \ {p \in S : waiters[p] = Expired /\ p \in objects}
  /\ waitShown' = IF Waiting \cap S # {} /\ Waiting \subseteq S
                  THEN FALSE ELSE waitShown

\* Mutant: the waits of removed objects stay.
RemoveDeadKeepWaits ==
  LET dead == {p \in objects : ~alive[p]}
  IN  /\ objects' = objects \ dead
      /\ linked' = (linked \ dead) \ {p \in Path : Parent[p] \in dead}
      /\ changed' = (changed \/ dead \cap Reachable # {})
      /\ UNCHANGED << waiters, errors, waitShown >>

\* factory::removeDead, when needWait lets it run.
RemoveDead ==
  LET dead == {p \in objects : ~alive[p]}
  IN  /\ objects' = objects \ dead
      /\ linked' = (linked \ dead) \ {p \in Path : Parent[p] \in dead}
      /\ changed' = (changed \/ dead \cap Reachable # {})
      /\ DropWaiters(dead)

\* factory::start_wait
StartWait(p) ==
  /\ waitShown' = IF Waiting = {} THEN TRUE ELSE waitShown
  /\ waiters' = [waiters EXCEPT ![p] = IF @ = NotWaiting THEN 0 ELSE @]
  /\ UNCHANGED errors

\* factory::stop_wait
StopWait(p) == DropWaiters({p})

\* Mutant: a round's ticks replace the ones before it.
UpdateWaitLast(elapsed) ==
  LET ripe == {p \in Path : waiters[p] >= 0 /\ elapsed >= WaitTicks}
  IN  /\ waiters' = [p \in Path |->
                       IF p \in ripe THEN Expired
                       ELSE IF waiters[p] >= 0 THEN elapsed ELSE waiters[p]]
      /\ errors' = errors \cup (ripe \cap objects)
      /\ UNCHANGED waitShown

\* factory::update_wait after `elapsed' ticks of 100 ms.
UpdateWait(elapsed) ==
  LET ripe == {p \in Path : waiters[p] >= 0
                              /\ waiters[p] + elapsed >= WaitTicks}
  IN  /\ waiters' = [p \in Path |->
                       IF p \in ripe THEN Expired
                       ELSE IF waiters[p] >= 0 THEN waiters[p] + elapsed
                       ELSE waiters[p]]
      /\ errors' = errors \cup (ripe \cap objects)
      /\ UNCHANGED waitShown
=============================================================================
