---------------------------- MODULE RaceProofs ----------------------------
(***************************************************************************)
(* What survives threads that share state without a lock.  First the       *)
(* refresh: the marks of life agree once nobody is marking, and needWait is *)
(* released, for every tree of devices and channels and any number of      *)
(* refreshes.  Then the lamps, for any number of modules and inputs: the   *)
(* server stands aside while a module is away from it, and the lamps leave *)
(* the inputs as they were noted.                                          *)
(***************************************************************************)
EXTENDS RefreshRace, Blinker, TLAPS

----------------------------------------------------------------------------
\* The flag.

\* needWait is held by whoever is inside update or removeDead.
Holding ==
  \/ pc["gui"] = "remove"
  \/ pc["crawler"] \in {"kill", "walk", "climb", "remove"}

Labels(t) ==
  {"kill", "removeTest", "removeTake", "remove"} \cup
  IF t = "gui" THEN {"idle"} ELSE {"test", "take", "walk", "climb"}

\* Where the threads are, and that a flag that is set has a holder.
FlagInv ==
  /\ DOMAIN pc = Threads
  /\ \A t \in Threads : pc[t] \in Labels(t)
  /\ needWait \in {0, 1}
  /\ needWait = 1 => Holding

\* The crawler stands before its first test, the GUI thread outside.
LEMMA InitFlag == Init => FlagInv
BY DEF Init, FlagInv, Threads, Labels

\* Whoever leaves clears the flag; whoever clears it for the other leaves no
\* trace in FlagInv, which only says that a set flag has a holder.
LEMMA StepKeepsFlag == FlagInv /\ [Next]_vars => FlagInv'
<1> SUFFICES ASSUME FlagInv, [Next]_vars PROVE FlagInv'
  OBVIOUS
<1> USE DEF FlagInv, Threads, Labels, Goto, Holding
<1>1. ASSUME NEW t \in Threads, Removal(t) PROVE FlagInv'
  <2>1. CASE KillNext(t)
    BY <2>1 DEF KillNext
  <2>2. CASE KillDone(t)
    BY <2>2 DEF KillDone
  <2>3. CASE RemoveTest(t)
    BY <2>3 DEF RemoveTest
  <2>4. CASE RemoveTake(t)
    BY <2>4 DEF RemoveTake
  <2>5. ASSUME NEW p \in Path, RemoveNext(t, p) PROVE FlagInv'
    BY <2>5 DEF RemoveNext
  <2>6. CASE RemoveDone(t)
    BY <2>6 DEF RemoveDone
  <2> QED
    BY <1>1, <2>1, <2>2, <2>3, <2>4, <2>5, <2>6 DEF Removal
<1>2. CASE UpdateTest
  BY <1>2 DEF UpdateTest
<1>3. CASE UpdateTake
  BY <1>3 DEF UpdateTake
<1>4. CASE Climb
  BY <1>4 DEF Climb
<1>5. CASE UpdateDone
  BY <1>5 DEF UpdateDone
<1>6. CASE RefreshTimer
  BY <1>6 DEF RefreshTimer
<1>7. ASSUME NEW p \in Leaves, Visit(p) PROVE FlagInv'
  <2>1. pc["crawler"] = "walk" /\ pc' \in {pc, [pc EXCEPT !["crawler"] = "climb"]}
        /\ needWait' = needWait
    BY <1>7 DEF Visit
  <2> QED
    BY <2>1
<1>8. ASSUME NEW p \in Leaves, PlugOrUnplug(p) PROVE FlagInv'
  BY <1>8 DEF PlugOrUnplug
<1>9. CASE UNCHANGED vars
  BY <1>9 DEF vars
<1> QED
  BY <1>1, <1>2, <1>3, <1>4, <1>5, <1>6, <1>7, <1>8, <1>9 DEF Next

\* Both threads may be inside removeDead at once, and still no update is locked
\* out once both have left (factory::needWait).
THEOREM FlagGetsReleased == Spec => []FlagIsReleased
<1>1. FlagInv => FlagIsReleased
  BY DEF FlagInv, FlagIsReleased, Holding
<1> QED
  BY <1>1, InitFlag, StepKeepsFlag, PTL DEF Spec

----------------------------------------------------------------------------
\* The marks of life.

RaceTypeOK ==
  /\ objects \subseteq Path /\ linked \subseteq objects
  /\ alive \in [Node -> BOOLEAN]
  /\ pos \in [Threads -> Node \cup {Nowhere}]
  /\ DOMAIN pc = Threads
  /\ pc["crawler"] = "climb" => climb \in Node
  /\ after \in Path \cup {None}

\* Devices hang in the tree from their creation to their removal, and a channel
\* that hangs in the tree hangs from a device that does.
TreeHangs ==
  /\ \A p \in objects : Parent[p] = Root => p \in linked
  /\ \A p \in linked : Parent[p] = Root \/ Parent[p] \in linked

\* A kill that has passed the parent of p has not passed p yet.
KillComes(p) == \E t \in Threads : pc[t] = "kill" /\ pos[t] < p

\* The find in progress still goes through p to its parent, or stands there.
FindComes(p) ==
  pc["crawler"] = "climb" /\ (climb = p \/ climb = Parent[p] \/ after = p)

\* A live object below a dead parent is on its way to agree with it.
Settling ==
  \A p \in linked : alive[p] /\ ~alive[Parent[p]] => KillComes(p) \/ FindComes(p)

MarkInv == RaceTypeOK /\ TreeHangs /\ Settling

\* The invariant holds at the start.
LEMMA InitMarks == Init => MarkInv
BY RaceAssumption
   DEF Init, MarkInv, RaceTypeOK, TreeHangs, Settling, Threads, Node, Nowhere, None, Path, Root

\* A kill visits what hangs in the tree from the root downwards, so it makes a
\* dead parent only above what it has yet to visit.
LEMMA KillKeepsMarks ==
  ASSUME MarkInv, NEW t \in Threads, KillNext(t)
  PROVE  MarkInv'
<1> USE DEF MarkInv, RaceTypeOK, Node, Path, Root, Threads, Nowhere
<1>1. PICK n \in Ahead(t) : /\ \A m \in Ahead(t) : n <= m
                            /\ alive' = [alive EXCEPT ![n] = FALSE]
                            /\ pos' = [pos EXCEPT ![t] = n]
  BY DEF KillNext
<1>2. n \in Node /\ pc[t] = "kill"
  BY <1>1 DEF Ahead, KillNext
<1>3. RaceTypeOK'
  BY <1>1, <1>2 DEF KillNext
<1>4. TreeHangs'
  BY DEF TreeHangs, KillNext
<1>5. ASSUME NEW p \in linked, alive'[p], ~alive'[Parent[p]]
      PROVE  KillComes(p)' \/ FindComes(p)'
  <2>1. p \in Path /\ Parent[p] \in Node /\ Parent[p] < p /\ p # n /\ alive[p]
    BY <1>1, <1>2, <1>5, RaceAssumption
  <2>2. CASE Parent[p] = n
    <3>1. pc'[t] = "kill" /\ pos'[t] < p
      BY <1>1, <1>2, <2>1, <2>2 DEF KillNext
    <3> QED
      BY <3>1 DEF KillComes
  <2>3. CASE Parent[p] # n
    <3>1. KillComes(p) \/ FindComes(p)
      BY <1>1, <1>5, <2>1, <2>3 DEF Settling
    <3>2. CASE FindComes(p)
      BY <3>2 DEF FindComes, KillNext
    <3>3. ASSUME NEW u \in Threads, pc[u] = "kill", pos[u] < p PROVE KillComes(p)'
      <4>1. CASE u # t
        <5>1. pc'[u] = "kill" /\ pos'[u] < p
          BY <1>1, <3>3, <4>1 DEF KillNext
        <5> QED
          BY <5>1 DEF KillComes
      <4>2. CASE u = t
        <5>1. p \in Ahead(t)
          BY <2>1, <3>3, <4>2 DEF Ahead, Hanging, TreeHangs
        <5>2. pc'[t] = "kill" /\ pos'[t] < p
          BY <1>1, <1>2, <2>1, <5>1 DEF KillNext
        <5> QED
          BY <5>2 DEF KillComes
      <4> QED
        BY <4>1, <4>2
    <3> QED
      BY <3>1, <3>2, <3>3 DEF KillComes
  <2> QED
    BY <2>2, <2>3
<1>6. linked' = linked
  BY DEF KillNext
<1> QED
  BY <1>3, <1>4, <1>5, <1>6 DEF Settling

\* A kill is over when nothing that hangs in the tree lies ahead of it, so no
\* live object was waiting for it.
LEMMA KillDoneKeepsMarks ==
  ASSUME MarkInv, NEW t \in Threads, KillDone(t)
  PROVE  MarkInv'
<1> USE DEF MarkInv, RaceTypeOK, Node, Path, Root, Threads, Nowhere
<1>1. RaceTypeOK' /\ TreeHangs'
  BY DEF KillDone, Goto, TreeHangs
<1>2. ASSUME NEW p \in linked, alive[p], ~alive[Parent[p]]
      PROVE  KillComes(p)' \/ FindComes(p)'
  <2>1. p \in Path /\ Parent[p] \in Node
    BY RaceAssumption
  <2>2. KillComes(p) \/ FindComes(p)
    BY <1>2 DEF Settling
  <2>3. CASE FindComes(p)
    BY <2>3 DEF FindComes, KillDone, Goto
  <2>4. ASSUME NEW u \in Threads, pc[u] = "kill", pos[u] < p PROVE KillComes(p)'
    <3>1. u # t
      <4>1. SUFFICES ASSUME pos[t] < p PROVE FALSE
        BY <2>4
      <4>2. p \in Ahead(t)
        BY <2>1, <4>1 DEF Ahead, Hanging, TreeHangs
      <4> QED
        BY <4>2 DEF KillDone
    <3>2. pc'[u] = "kill" /\ pos'[u] < p
      BY <2>4, <3>1 DEF KillDone, Goto
    <3> QED
      BY <3>2 DEF KillComes
  <2> QED
    BY <2>2, <2>3, <2>4 DEF KillComes
<1> QED
  BY <1>1, <1>2 DEF Settling, KillDone

\* What is removed takes its channels out of the tree; the rest keeps its
\* parent and its mark.
LEMMA RemovalKeepsMarks ==
  ASSUME MarkInv, NEW t \in Threads, NEW p \in Path, RemoveNext(t, p)
  PROVE  MarkInv'
<1> USE DEF MarkInv, RaceTypeOK, Node, Path, Root, Threads, Nowhere
<1>0. /\ UNCHANGED << alive, pc, pos, climb, after >>
      /\ \/ UNCHANGED << objects, linked >>
         \/ /\ objects' = objects \ {p}
            /\ linked' = linked \ ({p} \cup {c \in Path : Parent[c] = p})
  BY DEF RemoveNext
<1>1. RaceTypeOK'
  BY <1>0 DEF None
<1>2. TreeHangs'
  <2>1. p # Root /\ \A q \in Path : Parent[q] # Root => Parent[q] \in Path
    BY RaceAssumption
  <2>2. ASSUME NEW q \in objects', Parent[q] = Root PROVE q \in linked'
    BY <1>0, <2>1, <2>2 DEF TreeHangs
  <2>3. ASSUME NEW q \in linked', Parent[q] # Root PROVE Parent[q] \in linked'
    <3>1. q \in linked /\ q \in Path /\ Parent[q] \in linked /\ Parent[Parent[q]] = Root
      BY <1>0, <2>3, RaceAssumption DEF TreeHangs
    <3> QED
      BY <1>0, <2>1, <2>3, <3>1
  <2> QED
    BY <2>2, <2>3 DEF TreeHangs
<1>3. linked' \subseteq linked /\ UNCHANGED << alive, pc, pos, climb, after >>
  BY <1>0
<1>4. Settling'
  BY <1>3 DEF Settling, KillComes, FindComes
<1> QED
  BY <1>1, <1>2, <1>4

\* Whoever is marked alive is followed by its parent.
LEMMA ClimbKeepsMarks ==
  ASSUME MarkInv, Climb
  PROVE  MarkInv'
<1> USE DEF MarkInv, RaceTypeOK, Node, Path, Root, Threads, Nowhere
<1>1. climb \in Node /\ pc["crawler"] = "climb" /\ alive' = [alive EXCEPT ![climb] = TRUE]
  BY DEF Climb
<1>2. RaceTypeOK'
  <2>1. /\ UNCHANGED << objects, linked, pos >>
        /\ pc' \in {pc, [pc EXCEPT !["crawler"] = "walk"]}
        /\ \/ climb # Root /\ climb' = Parent[climb] /\ after' = after
           \/ after # None /\ climb' = after /\ after' = None
           \/ pc'["crawler"] = "walk" /\ after' = after
    BY <1>1 DEF Climb, Goto
  <2> QED
    BY <1>1, <2>1, RaceAssumption DEF None
<1>3. TreeHangs'
  BY DEF Climb, TreeHangs
<1>4. ASSUME NEW p \in linked, alive'[p], ~alive'[Parent[p]]
      PROVE  KillComes(p)' \/ FindComes(p)'
  <2>1. p \in Path /\ Parent[p] \in Node /\ Parent[p] < p /\ climb # Parent[p] /\ p # None
    BY <1>1, <1>4, RaceAssumption DEF None
  <2>2. CASE climb = p
    BY <1>1, <2>1, <2>2 DEF Climb, FindComes
  <2>3. CASE climb # p /\ after = p
    BY <1>1, <2>1, <2>3 DEF Climb, FindComes, Goto
  <2>4. CASE climb # p /\ after # p
    <3>1. KillComes(p)
      BY <1>1, <1>4, <2>1, <2>4 DEF Settling, FindComes
    <3>2. PICK u \in Threads : pc[u] = "kill" /\ pos[u] < p
      BY <3>1 DEF KillComes
    <3>3. pc'[u] = "kill" /\ pos'[u] < p
      BY <1>1, <3>2 DEF Climb, Goto
    <3> QED
      BY <3>3 DEF KillComes
  <2> QED
    BY <2>2, <2>3, <2>4
<1> QED
  BY <1>2, <1>3, <1>4 DEF Settling, Climb

\* What check_n_add creates is alive, hangs in the tree, and is climbed from.
LEMMA VisitKeepsMarks ==
  ASSUME MarkInv, NEW p \in Leaves, Visit(p)
  PROVE  MarkInv'
<1> USE DEF MarkInv, RaceTypeOK, Node, Path, Root, Threads, Nowhere
<1>1. p \in Path /\ Parent[p] \in Node /\ Parent[p] < p /\ pc["crawler"] = "walk"
  BY RaceAssumption DEF Visit
<1>2. CASE p \notin present
  <2>1. UNCHANGED << objects, linked, alive, pc, pos, climb, after >>
    BY <1>2 DEF Visit
  <2> QED
    BY <2>1 DEF TreeHangs, Settling, KillComes, FindComes
<1>3. CASE p \in present
  <2> DEFINE device == Parent[p]
             new == IF p \in objects THEN {}
                    ELSE {p} \cup ({device} \ (objects \cup {Root}))
  <2>1. /\ pc' = [pc EXCEPT !["crawler"] = "climb"] /\ pos' = pos
        /\ objects' = objects \cup new /\ linked' = linked \cup new
        /\ alive' = [n \in Node |-> alive[n] \/ n \in new]
        /\ \/ climb' = device /\ after' = p
           \/ climb' = p /\ after' = None /\ device \notin new
    <3>1. /\ pc' = [pc EXCEPT !["crawler"] = "climb"] /\ pos' = pos
          /\ objects' = objects \cup new /\ linked' = linked \cup new
          /\ alive' = [n \in Node |-> alive[n] \/ n \in new]
      BY <1>3 DEF Visit, Goto
    <3>2. IF device # Root /\ p \in linked' /\ (p \in objects \/ device \in new)
          THEN climb' = device /\ after' = p
          ELSE climb' = p /\ after' = None
      BY <1>3, Zenon DEF Visit
    <3>3. device \in new => device # Root /\ p \in linked'
      BY <1>1, <3>1
    <3> QED
      BY <3>1, <3>2, <3>3
  <2>2. new \subseteq Path
    BY <1>1
  <2>3. RaceTypeOK'
    <3>1. objects' \subseteq Path /\ linked' \subseteq objects'
      BY <2>1, <2>2
    <3>2. alive' \in [Node -> BOOLEAN] /\ DOMAIN pc' = Threads
      BY <2>1
    <3>3. climb' \in Node /\ after' \in Path \cup {None}
      BY <1>1, <2>1
    <3> QED
      BY <2>1, <3>1, <3>2, <3>3
  <2>4. TreeHangs'
    BY <1>1, <2>1, RaceAssumption DEF TreeHangs
  <2>5. ASSUME NEW q \in linked', alive'[q], ~alive'[Parent[q]]
        PROVE  KillComes(q)' \/ FindComes(q)'
    <3>1. q \in Path /\ Parent[q] \in Node
      BY <2>1, <2>2, RaceAssumption
    <3>2. CASE q = p
      BY <1>1, <2>1, <3>2 DEF FindComes
    <3>3. CASE q = device /\ q \in new
      BY <2>1, <3>3 DEF FindComes
    <3>4. CASE q # p /\ q \notin new
      <4>1. q \in linked /\ alive[q] /\ ~alive[Parent[q]]
        BY <2>1, <2>5, <3>1, <3>4
      <4>2. PICK u \in Threads : pc[u] = "kill" /\ pos[u] < q
        BY <1>1, <4>1 DEF Settling, KillComes, FindComes
      <4>3. pc'[u] = "kill" /\ pos'[u] < q
        BY <1>1, <2>1, <4>2
      <4> QED
        BY <4>3 DEF KillComes
    <3> QED
      BY <3>2, <3>3, <3>4
  <2> QED
    BY <2>3, <2>4, <2>5 DEF Settling
<1> QED
  BY <1>2, <1>3

\* Every step keeps the invariant of tree and marks.
LEMMA StepKeepsMarks == MarkInv /\ [Next]_vars => MarkInv'
<1> SUFFICES ASSUME MarkInv, [Next]_vars PROVE MarkInv'
  OBVIOUS
<1> USE DEF MarkInv, RaceTypeOK, TreeHangs, Settling, KillComes, FindComes, Threads, Goto
<1>1. ASSUME NEW t \in Threads, Removal(t) PROVE MarkInv'
  <2>1. CASE KillNext(t)
    BY <2>1, KillKeepsMarks
  <2>2. CASE KillDone(t)
    BY <2>2, KillDoneKeepsMarks
  <2>3. CASE RemoveTest(t)
    BY <2>3 DEF RemoveTest
  <2>4. CASE RemoveTake(t)
    BY <2>4 DEF RemoveTake
  <2>5. ASSUME NEW p \in Path, RemoveNext(t, p) PROVE MarkInv'
    BY <2>5, RemovalKeepsMarks
  <2>6. CASE RemoveDone(t)
    BY <2>6 DEF RemoveDone
  <2> QED
    BY <1>1, <2>1, <2>2, <2>3, <2>4, <2>5, <2>6 DEF Removal
<1>2. CASE UpdateTest
  BY <1>2 DEF UpdateTest
<1>3. CASE UpdateTake
  BY <1>3 DEF UpdateTake
<1>4. CASE Climb
  BY <1>4, ClimbKeepsMarks
<1>5. CASE UpdateDone
  BY <1>5 DEF UpdateDone
<1>6. CASE RefreshTimer
  BY <1>6 DEF RefreshTimer
<1>7. ASSUME NEW p \in Leaves, Visit(p) PROVE MarkInv'
  BY <1>7, VisitKeepsMarks
<1>8. ASSUME NEW p \in Leaves, PlugOrUnplug(p) PROVE MarkInv'
  BY <1>8 DEF PlugOrUnplug
<1>9. CASE UNCHANGED vars
  BY <1>9 DEF vars
<1> QED
  BY <1>1, <1>2, <1>3, <1>4, <1>5, <1>6, <1>7, <1>8, <1>9 DEF Next

\* Two kills and a find may interleave store by store; when none of them is
\* under way, no live object hangs below a dead one (object::setAlive).
THEOREM MarksSettle == Spec => []LifeSettlesUpward
<1>1. MarkInv => LifeSettlesUpward
  BY DEF MarkInv, Settling, KillComes, FindComes, LifeSettlesUpward, Marking, Threads
<1> QED
  BY <1>1, InitMarks, StepKeepsMarks, PTL DEF Spec


----------------------------------------------------------------------------
\* At most one module is busy.

Leaving(t) == doing[t][1] \in {"join", "started"}
Quiet(t) == doing[t][1] \in {"idle", "remove"}

DoingTypeOK ==
  /\ DOMAIN doing = Actor /\ DOMAIN lamps = Module
  /\ \A t \in Actor :
       \/ doing[t] = Idle
       \/ \E w \in {"start", "remove", "join", "started"}, m \in Module : doing[t] = << w, m >>
  /\ doing["crawler"][1] # "start"
  /\ blinking \subseteq Module /\ known \subseteq Module
  /\ menu = NoMenu
     \/ \E m \in known \cup {NoModule}, b, c \in BOOLEAN :
          menu = [module |-> m, enabled |-> b, moved |-> c]
  /\ running \in BOOLEAN /\ isAnyBlinked \in BOOLEAN /\ overtaken \in BOOLEAN

\* What the crawler removes is no more there for the user, and what the user
\* starts is there until he has.
GoneIsGone ==
  /\ doing["crawler"][2] \notin known
  /\ doing["user"][1] = "start" => doing["user"][2] \in known \ blinking /\ menu = NoMenu
  /\ doing["user"][1] = "remove" => doing["user"][2] # menu.module

\* isAnyBlinked tells that a module has a blinker or is on its way back.
BusyIsTold == isAnyBlinked => blinking # {} \/ \E t \in Actor : Leaving(t)

\* Unless the user has overtaken a removal, it does so exactly, and there is one
\* such module and one thread busy with it.
OneIsBusy ==
  IF isAnyBlinked
  THEN \E m \in Module :
         \/ blinking = {m} /\ \A t \in Actor : Quiet(t)
         \/ /\ blinking = {}
            /\ \E t \in Actor : /\ doing[t] \in {<< "join", m >>, << "started", m >>}
                                /\ \A u \in Actor \ {t} : Quiet(u)
  ELSE blinking = {} /\ \A t \in Actor : ~Leaving(t)

\* A thread of lamps has a blinker, or somebody waits for its end.
LampsAreOwned ==
  \A m \in Module : lamps[m] # "none" =>
    m \in blinking \/ \E t \in Actor : doing[t] = << "join", m >>

\* The server is stopped for somebody only, and for whoever needs it unless the
\* user has overtaken a removal.
Away ==
  \/ doing["user"][1] = "start" \/ blinking # {}
  \/ \E t \in Actor : doing[t][1] = "join"
ServerStops == (~running => Away) /\ (Away => overtaken \/ ~running)

\* An open menu does not outlive what it was built for, unless the selection has
\* moved.
MenuIsFresh ==
  menu.enabled /\ ~menu.moved /\ menu.module \notin blinking => ~isAnyBlinked

StandsInv ==
  /\ DoingTypeOK /\ GoneIsGone /\ BusyIsTold /\ (overtaken \/ OneIsBusy)
  /\ LampsAreOwned /\ ServerStops /\ MenuIsFresh

\* Nothing blinks at the start.
LEMMA InitStands == BlinkInit => StandsInv
<1> SUFFICES ASSUME BlinkInit PROVE StandsInv
  OBVIOUS
<1>1. \A t \in Actor : doing[t] = Idle /\ doing[t][1] = "idle" /\ doing[t][2] = NoModule
  BY DEF BlinkInit, Idle
<1>2. DoingTypeOK
  BY <1>1 DEF BlinkInit, DoingTypeOK, Actor
<1>3. GoneIsGone
  BY <1>1, BlinkerAssumption DEF BlinkInit, GoneIsGone, Actor
<1>4. OneIsBusy /\ ServerStops /\ BusyIsTold
  BY <1>1 DEF BlinkInit, OneIsBusy, ServerStops, BusyIsTold, Away, Leaving, Actor
<1>5. LampsAreOwned /\ MenuIsFresh
  BY <1>1 DEF BlinkInit, LampsAreOwned, MenuIsFresh, Actor
<1> QED
  BY <1>2, <1>3, <1>4, <1>5 DEF StandsInv

\* The steps of a thread of lamps, of a menu that is closed, of the settings of
\* an input and of the crawler that finds a module.
LEMMA LampStepStands ==
  ASSUME StandsInv,
         UNCHANGED << doing, blinking, running, isAnyBlinked, overtaken >>,
         menu' \in {menu, NoMenu},
         known \subseteq known', known' \subseteq Module,
         known' = known \/ doing["crawler"] = Idle,
         DOMAIN lamps' = DOMAIN lamps,
         \A m \in Module : lamps[m] = "none" => lamps'[m] = "none"
  PROVE  StandsInv'
<1> USE DEF StandsInv
<1>1. DoingTypeOK'
  BY DEF DoingTypeOK, NoMenu
<1>2. GoneIsGone'
  <2>1. doing["crawler"][2] \notin known'
    BY BlinkerAssumption DEF GoneIsGone, Idle
  <2>2. ASSUME doing["user"][1] = "remove" PROVE doing["user"][2] # NoModule
    BY <2>2, BlinkerAssumption DEF DoingTypeOK, Actor, Idle
  <2> QED
    BY <2>1, <2>2 DEF GoneIsGone, NoMenu
<1>3. BusyIsTold' /\ (overtaken \/ OneIsBusy)'
  BY DEF BusyIsTold, OneIsBusy, Leaving, Quiet
<1>4. LampsAreOwned'
  BY DEF LampsAreOwned, DoingTypeOK
<1>5. ServerStops'
  BY DEF ServerStops, Away
<1>6. MenuIsFresh'
  BY DEF MenuIsFresh, NoMenu
<1> QED
  BY <1>1, <1>2, <1>3, <1>4, <1>5, <1>6

\* Opening a menu keeps blinkers and server apart.
LEMMA OpenMenuStands ==
  ASSUME StandsInv, NEW m \in Module, OpenMenu(m)
  PROVE  StandsInv'
<1> DEFINE b == m \in blinking \/ ~isAnyBlinked
<1> USE DEF StandsInv
<1>1. /\ menu' = [module |-> m, enabled |-> b, moved |-> FALSE] /\ doing["user"] = Idle
      /\ m \in known
      /\ UNCHANGED << doing, blinking, running, known, isAnyBlinked, overtaken, lamps >>
  BY DEF OpenMenu
<1>2. b \in BOOLEAN /\ doing["user"][1] \notin {"start", "remove"}
  BY <1>1 DEF Idle
<1>3. DoingTypeOK'
  BY <1>1, <1>2 DEF DoingTypeOK
<1>4. GoneIsGone'
  BY <1>1, <1>2 DEF GoneIsGone
<1>5. BusyIsTold' /\ (overtaken \/ OneIsBusy)' /\ LampsAreOwned' /\ ServerStops'
  BY <1>1 DEF BusyIsTold, OneIsBusy, LampsAreOwned, ServerStops, Away, Leaving, Quiet
<1>6. MenuIsFresh'
  BY <1>1, <1>2 DEF MenuIsFresh
<1> QED
  BY <1>3, <1>4, <1>5, <1>6

\* The user starts lamps only while nobody is busy with any, unless the
\* selection moved under the menu, which is then noted.
LEMMA StartStands ==
  ASSUME StandsInv, StartBlinking
  PROVE  StandsInv'
<1> USE DEF StandsInv
<1> DEFINE m == menu.module
<1>1. /\ menu.enabled /\ m \in Module \ blinking /\ menu' = NoMenu /\ running' = FALSE
      /\ doing["user"] = Idle /\ doing' = [doing EXCEPT !["user"] = << "start", m >>]
      /\ overtaken' = (overtaken \/ (menu.moved /\ isAnyBlinked))
      /\ UNCHANGED << known, isAnyBlinked, blinking, lamps >>
  BY DEF StartBlinking
<1>2. m \in known
  BY <1>1, BlinkerAssumption DEF DoingTypeOK, NoMenu
<1>3. /\ doing'["user"] = << "start", m >> /\ doing'["user"][1] = "start"
      /\ doing'["user"][2] = m /\ doing'["crawler"] = doing["crawler"]
      /\ doing["user"][1] = "idle"
  BY <1>1 DEF DoingTypeOK, Actor, Idle
<1>4. DoingTypeOK'
  <2>1. overtaken' \in BOOLEAN
    BY <1>1
  <2> QED
    BY <1>1, <1>3, <2>1, ZenonT(40) DEF DoingTypeOK, Actor
<1>5. GoneIsGone'
  BY <1>1, <1>2, <1>3 DEF GoneIsGone
<1>6. /\ \A t \in Actor : Leaving(t)' <=> Leaving(t)
      /\ \A t \in Actor, k \in Module : doing[t] = << "join", k >> => doing'[t] = doing[t]
  BY <1>1, <1>3 DEF Leaving, Actor, Idle
<1>7. BusyIsTold' /\ LampsAreOwned'
  BY <1>1, <1>6 DEF BusyIsTold, LampsAreOwned
<1>8. (overtaken \/ OneIsBusy)'
  <2>1. CASE overtaken'
    BY <2>1
  <2>2. CASE ~overtaken'
    <3>1. ~isAnyBlinked /\ OneIsBusy
      BY <1>1, <2>2 DEF MenuIsFresh
    <3> QED
      BY <1>1, <1>6, <3>1 DEF OneIsBusy
  <2> QED
    BY <2>1, <2>2
<1>9. ServerStops' /\ MenuIsFresh'
  BY <1>1, <1>3 DEF ServerStops, Away, MenuIsFresh, NoMenu
<1> QED
  BY <1>4, <1>5, <1>7, <1>8, <1>9

\* The module whose lamps the user starts has none running, nor anybody who
\* waits for their end.
LEMMA NewLampsAreOut ==
  ASSUME StandsInv, doing["user"][1] = "start"
  PROVE  /\ doing["user"][2] \in Module \ blinking
         /\ lamps[doing["user"][2]] = "none"
<1> DEFINE m == doing["user"][2]
<1> USE DEF StandsInv
<1>1. m \in known \ blinking /\ m \in Module
  BY DEF GoneIsGone, DoingTypeOK
<1>2. doing["user"] # << "join", m >>
  OBVIOUS
<1>3. doing["crawler"] # << "join", m >>
  BY <1>1 DEF GoneIsGone
<1> QED
  BY <1>1, <1>2, <1>3 DEF LampsAreOwned, Actor

\* The blinker the user starts keeps them apart: nobody else is busy.
LEMMA NewBlinkerStands ==
  ASSUME StandsInv, NewBlinker
  PROVE  StandsInv'
<1> USE DEF StandsInv
<1> DEFINE m == doing["user"][2]
<1>1. /\ doing["user"][1] = "start" /\ doing' = [doing EXCEPT !["user"] = Idle]
      /\ blinking' = blinking \cup {m} /\ isAnyBlinked' = TRUE
      /\ lamps' = [lamps EXCEPT ![m] = "open"]
      /\ UNCHANGED << menu, running, known, overtaken >>
  BY DEF NewBlinker
<1>2. m \in Module /\ menu = NoMenu
  BY <1>1 DEF DoingTypeOK, GoneIsGone
<1>3. /\ doing'["user"] = Idle /\ doing'["user"][1] = "idle"
      /\ doing'["crawler"] = doing["crawler"]
  BY <1>1 DEF DoingTypeOK, Actor, Idle
<1>4. DoingTypeOK'
  BY <1>1, <1>2, <1>3 DEF DoingTypeOK, Actor
<1>5. GoneIsGone'
  BY <1>1, <1>3 DEF GoneIsGone
<1>6. BusyIsTold'
  BY <1>1 DEF BusyIsTold
<1>7. (overtaken \/ OneIsBusy)'
  <2> SUFFICES ASSUME ~overtaken PROVE OneIsBusy'
    BY <1>1
  <2>1. ~Quiet("user") /\ ~Leaving("user")
    BY <1>1 DEF Quiet, Leaving
  <2>2. ASSUME isAnyBlinked PROVE FALSE
    <3>1. PICK t \in Actor : Leaving(t) /\ \A u \in Actor \ {t} : Quiet(u)
      BY <2>1, <2>2 DEF OneIsBusy, Leaving, Actor
    <3> QED
      BY <2>1, <3>1 DEF Actor
  <2>3. blinking' = {m} /\ ~Leaving("crawler")
    BY <1>1, <2>2 DEF OneIsBusy, Actor
  <2>4. \A t \in Actor : Quiet(t)'
    BY <1>3, <2>3 DEF DoingTypeOK, Quiet, Leaving, Actor, Idle
  <2> QED
    BY <1>1, <1>2, <2>3, <2>4 DEF OneIsBusy
<1>8. LampsAreOwned'
  <2>1. ASSUME NEW k \in Module, NEW t \in Actor, doing[t] = << "join", k >>
        PROVE  doing'[t] = << "join", k >>
    BY <1>1, <1>3, <2>1 DEF Actor
  <2> QED
    BY <1>1, <1>2, <2>1 DEF LampsAreOwned, DoingTypeOK
<1>9. ServerStops' /\ MenuIsFresh'
  BY <1>1, <1>2 DEF ServerStops, Away, MenuIsFresh, NoMenu
<1> QED
  BY <1>4, <1>5, <1>6, <1>7, <1>8, <1>9

\* Whoever puts out the lamps of m: no other module is busy, unless the user has
\* overtaken a removal.
LEMMA StopStands ==
  ASSUME StandsInv, NEW t \in Actor, Quiet(t), NEW m \in blinking, Stop(t, m),
         menu' \in {menu, NoMenu}, menu' # NoMenu => menu.module # m,
         t = "crawler" => m \notin known,
         UNCHANGED << running, known, isAnyBlinked, overtaken, lamps >>
  PROVE  StandsInv'
<1> USE DEF StandsInv
<1>1. /\ blinking' = blinking \ {m} /\ doing' = [doing EXCEPT ![t] = << "join", m >>]
      /\ UNCHANGED << running, known, isAnyBlinked, overtaken, lamps >>
  BY DEF Stop
<1>2. /\ m \in Module /\ doing'[t] = << "join", m >>
      /\ doing'[t][1] = "join" /\ doing'[t][2] = m
      /\ \A u \in Actor \ {t} : doing'[u] = doing[u]
  BY <1>1 DEF DoingTypeOK
<1>3. DoingTypeOK'
  <2>1. \A u \in Actor :
          \/ doing'[u] = Idle
          \/ \E w \in {"start", "remove", "join", "started"}, k \in Module :
               doing'[u] = << w, k >>
    BY <1>2 DEF DoingTypeOK
  <2>2. doing'["crawler"][1] # "start"
    BY <1>2 DEF DoingTypeOK, Actor
  <2>3. DOMAIN doing' = Actor /\ blinking' \subseteq Module
    BY <1>1 DEF DoingTypeOK
  <2>4. \/ menu' = NoMenu
        \/ \E k \in known \cup {NoModule}, b, c \in BOOLEAN :
             menu' = [module |-> k, enabled |-> b, moved |-> c]
    BY DEF DoingTypeOK
  <2> QED
    BY <1>1, <2>1, <2>2, <2>3, <2>4 DEF DoingTypeOK
<1>4. GoneIsGone'
  <2>1. doing'["crawler"][2] \notin known
    BY <1>2 DEF GoneIsGone, Actor
  <2>2. ASSUME doing'["user"][1] = "start"
        PROVE  doing'["user"][2] \in known \ blinking' /\ menu' = NoMenu
    BY <1>1, <1>2, <2>2 DEF GoneIsGone, Actor
  <2>3. ASSUME doing'["user"][1] = "remove" PROVE doing'["user"][2] # menu'.module
    <3>1. t # "user" /\ doing'["user"] = doing["user"]
      BY <1>2, <2>3 DEF Actor
    <3>2. doing["user"][2] \in Module /\ doing["user"][2] # menu.module
      BY <2>3, <3>1 DEF DoingTypeOK, GoneIsGone, Actor, Idle
    <3> QED
      BY <3>1, <3>2, BlinkerAssumption DEF NoMenu
  <2> QED
    BY <1>1, <2>1, <2>2, <2>3 DEF GoneIsGone
<1>5. BusyIsTold'
  BY <1>2 DEF BusyIsTold, Leaving
<1>6. (overtaken \/ OneIsBusy)'
  <2> SUFFICES ASSUME ~overtaken PROVE OneIsBusy'
    BY <1>1
  <2>1. isAnyBlinked /\ blinking = {m} /\ \A u \in Actor : Quiet(u)
    BY DEF OneIsBusy
  <2>2. blinking' = {} /\ \A u \in Actor \ {t} : Quiet(u)'
    BY <1>1, <1>2, <2>1 DEF Quiet
  <2> QED
    BY <1>1, <1>2, <2>1, <2>2 DEF OneIsBusy
<1>7. LampsAreOwned'
  <2>1. ASSUME NEW k \in Module, NEW u \in Actor, doing[u] = << "join", k >>
        PROVE  doing'[u] = << "join", k >>
    <3>1. u # t
      BY <2>1 DEF Quiet
    <3> QED
      BY <1>2, <2>1, <3>1
  <2> QED
    BY <1>1, <1>2, <2>1 DEF LampsAreOwned
<1>8. ServerStops'
  <2>1. Away /\ Away'
    BY <1>2 DEF Away
  <2> QED
    BY <1>1, <2>1 DEF ServerStops
<1>9. MenuIsFresh'
  BY <1>1 DEF MenuIsFresh, NoMenu
<1> QED
  BY <1>3, <1>4, <1>5, <1>6, <1>7, <1>8, <1>9

\* Taking out a row keeps them apart: the selection that moves is noted.
LEMMA RemovedStands ==
  ASSUME StandsInv, NEW t \in Actor, NEW m \in Module, Removed(t, m)
  PROVE  StandsInv'
<1> USE DEF StandsInv
<1>1. /\ doing[t] = Idle /\ doing["user"] = Idle /\ m \in known /\ known' = known \ {m}
      /\ doing' = [doing EXCEPT ![t] = << "remove", m >>]
      /\ UNCHANGED << running, isAnyBlinked, blinking, lamps, overtaken >>
  BY DEF Removed
<1>2. \/ m # menu.module /\ menu' = menu
      \/ \E s \in known' \cup {NoModule} : menu' = [menu EXCEPT !.module = s, !.moved = TRUE]
  BY DEF Removed
<1>3. /\ doing'[t] = << "remove", m >> /\ doing'[t][1] = "remove" /\ doing'[t][2] = m
      /\ \A u \in Actor \ {t} : doing'[u] = doing[u]
      /\ doing[t][1] = "idle" /\ doing["user"][1] = "idle"
  BY <1>1 DEF DoingTypeOK, Idle
<1>4. /\ menu' = NoMenu
         \/ \E k \in known' \cup {NoModule}, b, c \in BOOLEAN :
              menu' = [module |-> k, enabled |-> b, moved |-> c]
      /\ menu'.module \in known' \cup {NoModule}
      /\ menu' = menu \/ menu'.moved
  <2> DEFINE Typed(x) == \/ x = NoMenu
                         \/ \E k \in known' \cup {NoModule}, b, c \in BOOLEAN :
                              x = [module |-> k, enabled |-> b, moved |-> c]
  <2>1. \/ menu = NoMenu
        \/ \E k \in known \cup {NoModule}, b, c \in BOOLEAN :
             menu = [module |-> k, enabled |-> b, moved |-> c]
    BY DEF DoingTypeOK
  <2>2. CASE m # menu.module /\ menu' = menu
    <3>1. Typed(menu)
      BY <1>1, <2>1, <2>2 DEF NoMenu
    <3>2. menu.module \in known' \cup {NoModule}
      BY <3>1 DEF NoMenu
    <3> QED
      BY <2>2, <3>1, <3>2
  <2>3. ASSUME NEW s \in known' \cup {NoModule},
               menu' = [menu EXCEPT !.module = s, !.moved = TRUE]
        PROVE  menu'.module = s /\ menu'.moved /\ Typed(menu')
    <3>1. PICK k \in known \cup {NoModule}, b \in BOOLEAN, c \in BOOLEAN :
            menu = [module |-> k, enabled |-> b, moved |-> c]
      BY <2>1 DEF NoMenu
    <3>2. menu' = [module |-> s, enabled |-> b, moved |-> TRUE]
      BY <2>3, <3>1
    <3> QED
      BY <3>2
  <2> QED
    BY <1>2, <2>2, <2>3
<1>5. DoingTypeOK'
  <2>1. \A u \in Actor :
          \/ doing'[u] = Idle
          \/ \E w \in {"start", "remove", "join", "started"}, k \in Module :
               doing'[u] = << w, k >>
    BY <1>3 DEF DoingTypeOK
  <2>2. doing'["crawler"][1] # "start" /\ DOMAIN doing' = Actor /\ known' \subseteq Module
    BY <1>1, <1>3 DEF DoingTypeOK, Actor
  <2> QED
    BY <1>1, <1>4, <2>1, <2>2 DEF DoingTypeOK
<1>6. GoneIsGone'
  <2>1. doing'["crawler"][2] \notin known'
    BY <1>1, <1>3 DEF GoneIsGone, Actor
  <2>2. doing'["user"][1] # "start"
    BY <1>3 DEF Actor
  <2>3. ASSUME doing'["user"][1] = "remove" PROVE doing'["user"][2] # menu'.module
    <3>1. doing'["user"][2] = m
      BY <1>3, <2>3 DEF Actor
    <3> QED
      BY <1>1, <1>4, <3>1, BlinkerAssumption
  <2> QED
    BY <2>1, <2>2, <2>3 DEF GoneIsGone
<1>7. /\ \A u \in Actor : (Leaving(u)' <=> Leaving(u)) /\ (Quiet(u)' <=> Quiet(u))
      /\ \A u \in Actor : Leaving(u) => doing'[u] = doing[u]
      /\ \A u \in Actor : doing'[u][1] = "join" <=> doing[u][1] = "join"
      /\ doing'["user"][1] # "start"
  BY <1>3 DEF Leaving, Quiet, Actor
<1>8. BusyIsTold' /\ (overtaken \/ OneIsBusy)'
  <2>1. BusyIsTold'
    BY <1>1, <1>7 DEF BusyIsTold
  <2>2. ASSUME OneIsBusy PROVE OneIsBusy'
    <3>1. CASE ~isAnyBlinked
      BY <1>1, <1>7, <2>2, <3>1 DEF OneIsBusy
    <3>2. CASE isAnyBlinked
      <4>1. PICK k \in Module :
              \/ blinking = {k} /\ \A u \in Actor : Quiet(u)
              \/ /\ blinking = {}
                 /\ \E u \in Actor : /\ doing[u] \in {<< "join", k >>, << "started", k >>}
                                     /\ \A v \in Actor \ {u} : Quiet(v)
        BY <2>2, <3>2 DEF OneIsBusy
      <4>2. CASE blinking = {k} /\ \A u \in Actor : Quiet(u)
        BY <1>1, <1>7, <3>2, <4>2 DEF OneIsBusy
      <4>3. ASSUME NEW u \in Actor, blinking = {},
                   doing[u] \in {<< "join", k >>, << "started", k >>},
                   \A v \in Actor \ {u} : Quiet(v)
            PROVE  OneIsBusy'
        <5>1. doing'[u] = doing[u]
          BY <1>7, <4>3 DEF Leaving
        <5> QED
          BY <1>1, <1>7, <3>2, <4>3, <5>1 DEF OneIsBusy
      <4> QED
        BY <4>1, <4>2, <4>3
    <3> QED
      BY <3>1, <3>2
  <2> QED
    BY <1>1, <2>1, <2>2
<1>9. LampsAreOwned'
  <2>1. ASSUME NEW k \in Module, NEW u \in Actor, doing[u] = << "join", k >>
        PROVE  doing'[u] = << "join", k >>
    BY <1>7, <2>1 DEF Leaving
  <2> QED
    BY <1>1, <2>1 DEF LampsAreOwned
<1>10. ServerStops'
  <2>1. Away' <=> Away
    BY <1>1, <1>3, <1>7 DEF Away
  <2> QED
    BY <1>1, <2>1 DEF ServerStops
<1>11. MenuIsFresh'
  BY <1>1, <1>4 DEF MenuIsFresh
<1> QED
  BY <1>5, <1>6, <1>8, <1>9, <1>10, <1>11

\* A module that is destroyed while it blinks, or does not, keeps them apart.
LEMMA DestroyedStands ==
  ASSUME StandsInv, NEW t \in Actor, Destroyed(t)
  PROVE  StandsInv'
<1> USE DEF StandsInv
<1> DEFINE m == doing[t][2]
<1>1. /\ doing[t][1] = "remove"
      /\ IF m \in blinking THEN Stop(t, m)
         ELSE doing' = [doing EXCEPT ![t] = Idle] /\ UNCHANGED << blinking, interrupted >>
      /\ UNCHANGED << running, known, menu, isAnyBlinked, lamps, overtaken >>
  BY DEF Destroyed
<1>2. Quiet(t) /\ (t = "crawler" => m \notin known) /\ m \in Module
  BY <1>1 DEF Quiet, GoneIsGone, DoingTypeOK, Idle
<1>3. CASE m \in blinking
  <2>1. menu.module # m
    <3>1. CASE t = "user"
      BY <1>1, <3>1 DEF GoneIsGone
    <3>2. CASE t = "crawler"
      <4>1. menu.module \in known \cup {NoModule}
        BY DEF DoingTypeOK, NoMenu
      <4> QED
        BY <1>2, <3>2, <4>1, BlinkerAssumption
    <3> QED
      BY <3>1, <3>2 DEF Actor
  <2> QED
    BY <1>1, <1>2, <1>3, <2>1, StopStands
<1>4. CASE m \notin blinking
  <2>1. /\ doing'[t] = Idle /\ doing'[t][1] = "idle" /\ doing'[t][2] = NoModule
        /\ \A u \in Actor \ {t} : doing'[u] = doing[u]
        /\ doing' = [doing EXCEPT ![t] = Idle]
        /\ UNCHANGED << blinking, running, known, menu, isAnyBlinked, lamps, overtaken >>
    BY <1>1, <1>4 DEF DoingTypeOK, Idle
  <2>2. DoingTypeOK'
    <3>1. \A u \in Actor :
            \/ doing'[u] = Idle
            \/ \E w \in {"start", "remove", "join", "started"}, k \in Module :
                 doing'[u] = << w, k >>
      BY <2>1 DEF DoingTypeOK
    <3>2. doing'["crawler"][1] # "start" /\ DOMAIN doing' = Actor
      BY <2>1 DEF DoingTypeOK, Actor
    <3> QED
      BY <2>1, <3>1, <3>2 DEF DoingTypeOK
  <2>3. GoneIsGone'
    BY <2>1, BlinkerAssumption DEF GoneIsGone, DoingTypeOK, Actor
  <2>4. /\ \A u \in Actor : (Leaving(u)' <=> Leaving(u)) /\ (Quiet(u)' <=> Quiet(u))
        /\ \A u \in Actor : Leaving(u) => doing'[u] = doing[u]
        /\ \A u \in Actor : doing'[u][1] = "join" <=> doing[u][1] = "join"
        /\ doing'["user"][1] = "start" <=> doing["user"][1] = "start"
    BY <1>1, <2>1 DEF Leaving, Quiet, Actor
  <2>5. BusyIsTold' /\ (overtaken \/ OneIsBusy)'
    <3>1. BusyIsTold'
      BY <2>1, <2>4 DEF BusyIsTold
    <3>2. ASSUME OneIsBusy PROVE OneIsBusy'
      <4>1. CASE ~isAnyBlinked
        BY <2>1, <2>4, <3>2, <4>1 DEF OneIsBusy
      <4>2. CASE isAnyBlinked
        <5>1. PICK k \in Module :
                \/ blinking = {k} /\ \A u \in Actor : Quiet(u)
                \/ /\ blinking = {}
                   /\ \E u \in Actor : /\ doing[u] \in {<< "join", k >>, << "started", k >>}
                                       /\ \A v \in Actor \ {u} : Quiet(v)
          BY <3>2, <4>2 DEF OneIsBusy
        <5>2. CASE blinking = {k} /\ \A u \in Actor : Quiet(u)
          BY <2>1, <2>4, <4>2, <5>2 DEF OneIsBusy
        <5>3. ASSUME NEW u \in Actor, blinking = {},
                     doing[u] \in {<< "join", k >>, << "started", k >>},
                     \A v \in Actor \ {u} : Quiet(v)
              PROVE  OneIsBusy'
          <6>1. doing'[u] = doing[u]
            BY <2>4, <5>3 DEF Leaving
          <6> QED
            BY <2>1, <2>4, <4>2, <5>3, <6>1 DEF OneIsBusy
        <5> QED
          BY <5>1, <5>2, <5>3
      <4> QED
        BY <4>1, <4>2
    <3> QED
      BY <2>1, <3>1, <3>2
  <2>6. LampsAreOwned'
    <3>1. ASSUME NEW k \in Module, NEW u \in Actor, doing[u] = << "join", k >>
          PROVE  doing'[u] = << "join", k >>
      BY <2>4, <3>1 DEF Leaving
    <3> QED
      BY <2>1, <3>1 DEF LampsAreOwned
  <2>7. ServerStops' /\ MenuIsFresh'
    <3>1. Away' <=> Away
      BY <2>1, <2>4 DEF Away
    <3> QED
      BY <2>1, <3>1 DEF ServerStops, MenuIsFresh
  <2> QED
    BY <2>2, <2>3, <2>5, <2>6, <2>7
<1> QED
  BY <1>3, <1>4

\* The end of a wait for a blinker starts the server again and keeps them apart.
LEMMA JoinedStands ==
  ASSUME StandsInv, NEW t \in Actor, Joined(t)
  PROVE  StandsInv'
<1> USE DEF StandsInv
<1> DEFINE m == doing[t][2]
<1>1. /\ doing[t][1] = "join" /\ lamps[m] = "none" /\ running' = TRUE
      /\ doing' = [doing EXCEPT ![t] = << "started", m >>]
      /\ UNCHANGED << known, menu, isAnyBlinked, blinking, lamps, overtaken >>
  BY DEF Joined
<1>2. m \in Module /\ doing[t] = << "join", m >>
  BY <1>1 DEF DoingTypeOK, Idle
<1>3. /\ doing'[t] = << "started", m >> /\ doing'[t][1] = "started" /\ doing'[t][2] = m
      /\ \A u \in Actor \ {t} : doing'[u] = doing[u]
  BY <1>1 DEF DoingTypeOK
<1>4. DoingTypeOK'
  <2>1. \A u \in Actor :
          \/ doing'[u] = Idle
          \/ \E w \in {"start", "remove", "join", "started"}, k \in Module :
               doing'[u] = << w, k >>
    BY <1>2, <1>3 DEF DoingTypeOK
  <2>2. doing'["crawler"][1] # "start" /\ DOMAIN doing' = Actor
    BY <1>1, <1>3 DEF DoingTypeOK, Actor
  <2> QED
    BY <1>1, <2>1, <2>2 DEF DoingTypeOK
<1>5. GoneIsGone'
  BY <1>1, <1>3 DEF GoneIsGone, Actor
<1>6. BusyIsTold'
  BY <1>3 DEF BusyIsTold, Leaving
<1>7. ASSUME ~overtaken
      PROVE  /\ isAnyBlinked /\ blinking = {} /\ \A u \in Actor \ {t} : Quiet(u)
             /\ \A u \in Actor \ {t} : Quiet(u)'
  <2>1. isAnyBlinked /\ blinking = {}
    BY <1>1, <1>7 DEF OneIsBusy, Leaving, Quiet
  <2>2. \A u \in Actor \ {t} : Quiet(u)
    BY <1>1, <1>7, <2>1 DEF OneIsBusy, Quiet
  <2> QED
    BY <1>3, <2>1, <2>2 DEF Quiet
<1>8. (overtaken \/ OneIsBusy)'
  BY <1>1, <1>2, <1>3, <1>7 DEF OneIsBusy
<1>9. LampsAreOwned'
  <2>1. ASSUME NEW k \in Module, lamps[k] # "none", NEW u \in Actor, doing[u] = << "join", k >>
        PROVE  doing'[u] = << "join", k >>
    <3>1. u # t
      BY <1>1, <2>1
    <3> QED
      BY <1>3, <2>1, <3>1
  <2> QED
    BY <1>1, <2>1 DEF LampsAreOwned
<1>10. ServerStops'
  <2>1. ASSUME ~overtaken PROVE ~Away'
    BY <1>1, <1>3, <1>7, <2>1 DEF Away, Quiet, Actor
  <2> QED
    BY <1>1, <2>1 DEF ServerStops
<1>11. MenuIsFresh'
  BY <1>1 DEF MenuIsFresh
<1> QED
  BY <1>4, <1>5, <1>6, <1>8, <1>9, <1>10, <1>11

\* A thread that has stopped a blinker ends its turn and keeps them apart; if
\* nobody is busy then, nobody has been overtaken any more.
LEMMA StoppedStands ==
  ASSUME StandsInv, NEW t \in Actor, Stopped(t)
  PROVE  StandsInv'
<1> USE DEF StandsInv
<1>1. /\ doing[t][1] = "started" /\ isAnyBlinked' = FALSE /\ doing' = [doing EXCEPT ![t] = Idle]
      /\ overtaken' = (overtaken /\ (blinking # {} \/ \E u \in Actor \ {t} : doing[u] # Idle))
      /\ UNCHANGED << running, known, menu, blinking, lamps >>
  BY DEF Stopped
<1>2. /\ doing'[t] = Idle /\ doing'[t][1] = "idle" /\ doing'[t][2] = NoModule
      /\ \A u \in Actor \ {t} : doing'[u] = doing[u]
  BY <1>1 DEF DoingTypeOK, Idle
<1>3. DoingTypeOK'
  <2>1. \A u \in Actor :
          \/ doing'[u] = Idle
          \/ \E w \in {"start", "remove", "join", "started"}, k \in Module :
               doing'[u] = << w, k >>
    BY <1>2 DEF DoingTypeOK
  <2>2. doing'["crawler"][1] # "start" /\ DOMAIN doing' = Actor /\ overtaken' \in BOOLEAN
    BY <1>1, <1>2 DEF DoingTypeOK, Actor
  <2> QED
    BY <1>1, <2>1, <2>2 DEF DoingTypeOK
<1>4. GoneIsGone'
  BY <1>1, <1>2, BlinkerAssumption DEF GoneIsGone, DoingTypeOK, Actor
<1>5. ASSUME ~overtaken'
      PROVE  blinking = {} /\ \A u \in Actor \ {t} : Quiet(u)
  <2>1. CASE overtaken
    <3>1. blinking = {} /\ \A u \in Actor \ {t} : doing[u] = Idle
      BY <1>1, <1>5, <2>1
    <3> QED
      BY <3>1 DEF Quiet, Idle
  <2>2. CASE ~overtaken
    <3>1. isAnyBlinked /\ blinking = {}
      BY <1>1, <2>2 DEF OneIsBusy, Leaving, Quiet
    <3> QED
      BY <1>1, <2>2, <3>1 DEF OneIsBusy, Quiet
  <2> QED
    BY <2>1, <2>2
<1>6. ASSUME ~overtaken'
      PROVE  OneIsBusy' /\ ~Away'
  <2>1. \A u \in Actor : doing'[u][1] \in {"idle", "remove"}
    BY <1>2, <1>5, <1>6 DEF Quiet
  <2> QED
    BY <1>1, <1>5, <1>6, <2>1 DEF OneIsBusy, Leaving, Away, Actor
<1>7. LampsAreOwned'
  <2>1. ASSUME NEW k \in Module, NEW u \in Actor, doing[u] = << "join", k >>
        PROVE  doing'[u] = << "join", k >>
    <3>1. u # t
      BY <1>1, <2>1
    <3> QED
      BY <1>2, <2>1, <3>1
  <2> QED
    BY <1>1, <2>1 DEF LampsAreOwned
<1>8. ServerStops'
  <2>1. Away => Away'
    BY <1>1, <1>2 DEF Away, Actor
  <2>2. Away' => Away
    BY <1>1, <1>2 DEF Away, Actor
  <2> QED
    BY <1>1, <1>6, <2>1, <2>2 DEF ServerStops
<1>9. BusyIsTold' /\ MenuIsFresh'
  BY <1>1 DEF BusyIsTold, MenuIsFresh
<1> QED
  BY <1>3, <1>4, <1>6, <1>7, <1>8, <1>9

\* Every step keeps blinkers and server apart.
LEMMA StepStands == StandsInv /\ [BlinkNext]_blinkVars => StandsInv'
<1> SUFFICES ASSUME StandsInv, [BlinkNext]_blinkVars PROVE StandsInv'
  OBVIOUS
<1>1. CASE CloseMenu
  <2>1. menu' = NoMenu /\ UNCHANGED << doing, blinking, running, isAnyBlinked, overtaken, known,
                                       lamps >>
    BY <1>1 DEF CloseMenu
  <2> QED
    BY <2>1, LampStepStands DEF StandsInv, DoingTypeOK
<1>2. CASE StartBlinking
  BY <1>2, StartStands
<1>3. CASE NewBlinker
  BY <1>3, NewBlinkerStands
<1>4. CASE StopBlinking
  <2>1. /\ doing["user"] = Idle /\ menu.module \in blinking /\ Stop("user", menu.module)
        /\ menu' = NoMenu /\ UNCHANGED << running, known, isAnyBlinked, overtaken, lamps >>
    BY <1>4 DEF StopBlinking
  <2>2. Quiet("user")
    BY <2>1 DEF Quiet, Idle
  <2> QED
    BY <2>1, <2>2, StopStands DEF Actor
<1>5. ASSUME NEW t \in Actor, Destroyed(t) \/ Joined(t) \/ Stopped(t) PROVE StandsInv'
  BY <1>5, DestroyedStands, JoinedStands, StoppedStands
<1>6. ASSUME NEW m \in Module, OpenMenu(m) PROVE StandsInv'
  BY <1>6, OpenMenuStands
<1>7. ASSUME NEW m \in Module, NEW t \in Actor, Removed(t, m) PROVE StandsInv'
  BY <1>7, RemovedStands
<1>8. ASSUME NEW m \in Module, Open(m) \/ StartAdc(m) \/ Note(m) \/ Blink(m) \/ Wake(m)
                               \/ Interrupted(m)
      PROVE StandsInv'
  <2>1. UNCHANGED << doing, blinking, running, isAnyBlinked, overtaken, known, menu >>
    BY <1>8 DEF Open, StartAdc, Note, Blink, Wake, Interrupted
  <2>2. DOMAIN lamps' = DOMAIN lamps /\ \A k \in Module : lamps[k] = "none" => lamps'[k] = "none"
    <3> USE DEF Goes, StandsInv, DoingTypeOK
    <3>1. CASE Open(m)
      BY <3>1 DEF Open
    <3>2. CASE StartAdc(m) \/ Wake(m)
      BY <3>2 DEF StartAdc, Wake
    <3>3. CASE Note(m)
      BY <3>3 DEF Note
    <3>4. CASE Blink(m)
      BY <3>4 DEF Blink
    <3>5. CASE Interrupted(m)
      BY <3>5 DEF Interrupted
    <3> QED
      BY <1>8, <3>1, <3>2, <3>3, <3>4, <3>5
  <2> QED
    BY <2>1, <2>2, LampStepStands DEF StandsInv, DoingTypeOK
<1>9. ASSUME NEW m \in Module, Found(m) \/ \E x \in Setting, i \in Input : Change(m, x, i)
      PROVE StandsInv'
  <2>1. UNCHANGED << doing, blinking, running, isAnyBlinked, overtaken, menu, lamps >>
    BY <1>9 DEF Found, Change
  <2>2. /\ known \subseteq known' /\ known' \subseteq Module
        /\ known' = known \/ doing["crawler"] = Idle
    BY <1>9 DEF Found, Change, StandsInv, DoingTypeOK
  <2> QED
    BY <2>1, <2>2, LampStepStands
<1>10. CASE UNCHANGED blinkVars
  BY <1>10, LampStepStands DEF blinkVars, StandsInv, DoingTypeOK
<1> QED
  BY <1>1, <1>2, <1>3, <1>4, <1>5, <1>6, <1>7, <1>8, <1>9, <1>10 DEF BlinkNext

\* Whichever thread puts out the lamps of whichever module, the server is stopped
\* while a module is away from it, but for lamps that were started, from a menu
\* whose module was removed, before those of another were out; and without
\* exception it runs when nobody is busy with lamps (device::startBlinking,
\* device::stopBlinking).
THEOREM ServerAside == BlinkSpec => []ServerStandsAside
<1>1. StandsInv => ServerStandsAside
  <2> SUFFICES ASSUME StandsInv PROVE ServerStandsAside
    OBVIOUS
  <2>1. ASSUME NEW m \in Module, lamps[m] # "none", ~overtaken PROVE ~running
    <3>1. \A t \in Actor : doing[t] = << "join", m >> => doing[t][1] = "join"
      OBVIOUS
    <3> QED
      BY <2>1, <3>1 DEF StandsInv, LampsAreOwned, ServerStops, Away
  <2>2. ASSUME blinking = {}, \A t \in Actor : doing[t] = Idle
        PROVE  running /\ ~isAnyBlinked
    <3>1. \A t \in Actor : doing[t][1] = "idle"
      BY <2>2 DEF Idle
    <3>2. ~Away
      BY <2>2, <3>1 DEF Away, Actor
    <3>3. \A t \in Actor : ~Leaving(t)
      BY <3>1 DEF Leaving
    <3> QED
      BY <2>2, <3>2, <3>3 DEF StandsInv, ServerStops, BusyIsTold
  <2> QED
    BY <2>1, <2>2 DEF ServerStandsAside
<1> QED
  BY <1>1, InitStands, StepStands, PTL DEF BlinkSpec

----------------------------------------------------------------------------
\* The settings of the inputs.

Counted(m) == 0..(noted[m] - 1)

\* What the thread has noted, and what it has still to note, makes up what is
\* owed.
Owes(m, x) ==
  /\ lamps[m] \in {"none", "open", "pause"} => hw[m][x] = owed[m][x]
  /\ lamps[m] = "note" =>
       /\ copy[m][x] = owed[m][x] \cap Counted(m)
       /\ hw[m][x] \ Counted(m) = owed[m][x] \ Counted(m)
  /\ lamps[m] \in {"blink", "sleep"} => copy[m][x] = owed[m][x]

\* How far the thread has come with its notes.
Noted(m) ==
  /\ lamps[m] \in {"none", "open", "pause", "note", "blink", "sleep"}
  /\ lamps[m] \in {"open", "pause"} =>
       noted[m] = 0 /\ \A x \in Setting : copy[m][x] = {}
  /\ lamps[m] \in {"blink", "sleep"} => noted[m] = Inputs

TypeFits(m) ==
  /\ DOMAIN hw[m] = Setting /\ DOMAIN owed[m] = Setting /\ DOMAIN copy[m] = Setting
  /\ hw[m]["icp"] \subseteq Input /\ hw[m]["charge"] \subseteq Input
  /\ \A x \in Setting : owed[m][x] \subseteq Input
  /\ noted[m] \in 0..Inputs

Fine(m) ==
  TypeFits(m) /\ Noted(m) /\ \A x \in Setting : x # "on" \/ m \notin cut => Owes(m, x)

SettingsInv ==
  /\ DOMAIN hw = Module /\ DOMAIN owed = Module /\ DOMAIN copy = Module
  /\ DOMAIN noted = Module
  /\ \A m \in Module : Fine(m)

LampsInv == StandsInv /\ SettingsInv

\* At the start the modules' settings are their own.
LEMMA InitSettings == BlinkInit => SettingsInv
<1> SUFFICES ASSUME BlinkInit PROVE SettingsInv
  OBVIOUS
<1>1. ASSUME NEW m \in Module PROVE Fine(m)
  <2>1. \E i \in {{}, {0}} : hw[m] = [on |-> Input, icp |-> i, charge |-> Input \ i]
    BY DEF BlinkInit
  <2>2. /\ DOMAIN hw[m] = Setting
        /\ \A x \in Setting : hw[m][x] \subseteq Input
    BY <2>1, BlinkerAssumption DEF Setting, Input
  <2>3. owed[m] = hw[m] /\ noted[m] = 0 /\ lamps[m] = "none" /\ DOMAIN copy[m] = Setting
    BY DEF BlinkInit, Nothing
  <2> QED
    BY <2>2, <2>3, BlinkerAssumption DEF Fine, TypeFits, Noted, Owes, Setting
<1>2. DOMAIN hw = Module
  BY DEF BlinkInit
<1> QED
  BY <1>1, <1>2 DEF BlinkInit, SettingsInv

\* A step leaves a module fine of which it changes nothing.
LEMMA OthersStayFine ==
  ASSUME SettingsInv, NEW k \in Module,
         hw'[k] = hw[k], owed'[k] = owed[k], copy'[k] = copy[k], noted'[k] = noted[k],
         lamps'[k] = lamps[k], cut \subseteq cut'
  PROVE  Fine(k)'
BY DEF SettingsInv, Fine, TypeFits, Noted, Owes, Counted

\* New lamps start from what is owed.
LEMMA NewBlinkerFine ==
  ASSUME LampsInv, NewBlinker
  PROVE  SettingsInv'
<1> DEFINE m == doing["user"][2]
<1> USE DEF LampsInv
<1>1. /\ lamps' = [lamps EXCEPT ![m] = "open"] /\ noted' = [noted EXCEPT ![m] = 0]
      /\ copy' = [copy EXCEPT ![m] = Nothing] /\ UNCHANGED << hw, owed, cut >>
      /\ doing["user"][1] = "start"
  BY DEF NewBlinker
<1>2. m \in Module /\ lamps[m] = "none"
  BY <1>1, NewLampsAreOut
<1>3. ASSUME NEW k \in Module PROVE Fine(k)'
  <2>1. CASE k # m
    BY <1>1, <2>1, OthersStayFine DEF SettingsInv, StandsInv, DoingTypeOK
  <2>2. CASE k = m
    <3>1. lamps'[m] = "open" /\ noted'[m] = 0 /\ copy'[m] = Nothing
      BY <1>1, <1>2 DEF SettingsInv, StandsInv, DoingTypeOK
    <3>2. DOMAIN Nothing = Setting /\ \A x \in Setting : Nothing[x] = {}
      BY DEF Nothing
    <3> QED
      BY <1>1, <1>2, <2>2, <3>1, <3>2, BlinkerAssumption
         DEF SettingsInv, Fine, TypeFits, Noted, Owes
  <2> QED
    BY <2>1, <2>2
<1> QED
  BY <1>1, <1>3 DEF SettingsInv

\* The snapshot is not needed any more when its thread has ended.
LEMMA JoinedFine ==
  ASSUME LampsInv, NEW t \in Actor, Joined(t)
  PROVE  SettingsInv'
<1> DEFINE m == doing[t][2]
<1> USE DEF LampsInv
<1>1. /\ noted' = [noted EXCEPT ![m] = 0] /\ copy' = [copy EXCEPT ![m] = Nothing]
      /\ UNCHANGED << hw, lamps, owed, cut >> /\ doing[t][1] = "join" /\ lamps[m] = "none"
  BY DEF Joined
<1>2. m \in Module
  BY <1>1 DEF StandsInv, DoingTypeOK, Idle
<1>3. ASSUME NEW k \in Module PROVE Fine(k)'
  <2>1. CASE k # m
    BY <1>1, <2>1, OthersStayFine DEF SettingsInv
  <2>2. CASE k = m
    <3>1. noted'[m] = 0 /\ copy'[m] = Nothing
      BY <1>1, <1>2 DEF SettingsInv
    <3>2. DOMAIN Nothing = Setting /\ \A x \in Setting : Nothing[x] = {}
      BY DEF Nothing
    <3> QED
      BY <1>1, <1>2, <2>2, <3>1, <3>2, BlinkerAssumption
         DEF SettingsInv, Fine, TypeFits, Noted, Owes
  <2> QED
    BY <2>1, <2>2
<1> QED
  BY <1>1, <1>3 DEF SettingsInv

\* Opening, the end of the pause, and the end of a sleep touch no setting.
LEMMA MoveFine ==
  ASSUME LampsInv, NEW m \in Module, UNCHANGED << hw, owed, copy, noted, cut >>,
         \/ Goes(m, "open", "pause") \/ Goes(m, "open", "none")
         \/ Goes(m, "pause", "note") \/ Goes(m, "sleep", "blink")
  PROVE  SettingsInv'
<1> USE DEF LampsInv
<1>1. ASSUME NEW k \in Module PROVE Fine(k)'
  <2>1. CASE k # m
    <3>1. lamps'[k] = lamps[k]
      BY <2>1 DEF Goes, StandsInv, DoingTypeOK
    <3> QED
      BY <3>1, OthersStayFine
  <2>2. CASE k = m
    <3>1. \/ lamps[m] \in {"open", "pause"} /\ lamps'[m] \in {"none", "pause", "note"}
          \/ lamps[m] = "sleep" /\ lamps'[m] = "blink"
      BY DEF Goes, StandsInv, DoingTypeOK
    <3>2. noted[m] = 0 => Counted(m) = {}
      BY DEF Counted
    <3>3. Fine(m) /\ Counted(m)' = Counted(m)
      BY DEF SettingsInv, Counted
    <3>4. TypeFits(m)' /\ Noted(m)'
      BY <3>1, <3>3 DEF Fine, TypeFits, Noted
    <3>5. ASSUME NEW x \in Setting, x # "on" \/ m \notin cut PROVE Owes(m, x)'
      BY <3>1, <3>2, <3>3, <3>5 DEF Fine, Noted, Owes
    <3> QED
      BY <2>2, <3>4, <3>5 DEF Fine
  <2> QED
    BY <2>1, <2>2
<1> QED
  BY <1>1 DEF SettingsInv

\* The input that is noted next joins what is noted.
LEMMA NoteFine ==
  ASSUME LampsInv, NEW m \in Module, Note(m)
  PROVE  SettingsInv'
<1> USE DEF LampsInv
<1> DEFINE i == noted[m]
           Disconnected == [hw[m] EXCEPT !.icp = @ \ {i}, !.charge = @ \ {i}]
<1>1. /\ i < Inputs /\ lamps[m] = "note" /\ lamps' = [lamps EXCEPT ![m] = "note"]
      /\ noted' = [noted EXCEPT ![m] = i + 1] /\ UNCHANGED << owed, cut >>
      /\ copy' = [copy EXCEPT ![m] = [x \in Setting |-> @[x] \cup (hw[m][x] \cap {i})]]
      /\ hw' = [hw EXCEPT ![m].icp = @ \ {i}, ![m].charge = @ \ {i}]
  BY DEF Note, Goes
<1>2. ASSUME NEW k \in Module PROVE Fine(k)'
  <2>1. CASE k # m
    BY <1>1, <2>1, OthersStayFine DEF SettingsInv, StandsInv, DoingTypeOK
  <2>2. CASE k = m
    <3>1. Fine(m) /\ i \in 0..(Inputs - 1)
      BY <1>1, BlinkerAssumption DEF SettingsInv, Fine, TypeFits
    <3>2. /\ lamps'[m] = "note" /\ noted'[m] = i + 1
          /\ copy'[m] = [x \in Setting |-> copy[m][x] \cup (hw[m][x] \cap {i})]
      BY <1>1 DEF SettingsInv, StandsInv, DoingTypeOK
    <3>3. /\ DOMAIN hw'[m] = Setting /\ hw'[m]["on"] = hw[m]["on"]
          /\ hw'[m]["icp"] = hw[m]["icp"] \ {i} /\ hw'[m]["charge"] = hw[m]["charge"] \ {i}
      BY <1>1, <3>1 DEF SettingsInv, Fine, TypeFits, Setting
    <3>4. /\ Counted(m) = 0..(i - 1) /\ Counted(m)' = 0..i /\ i \notin Counted(m)
          /\ Counted(m)' = Counted(m) \cup {i}
      BY <3>1, <3>2, BlinkerAssumption DEF Counted
    <3>5. TypeFits(m)' /\ Noted(m)'
      <4>1. DOMAIN copy'[m] = Setting /\ noted'[m] \in 0..Inputs
        BY <3>1, <3>2, BlinkerAssumption
      <4>2. Noted(m)'
        BY <3>2 DEF Noted
      <4> QED
        BY <1>1, <3>1, <3>3, <4>1, <4>2 DEF Fine, TypeFits
    <3>6. ASSUME NEW x \in Setting, x # "on" \/ m \notin cut PROVE Owes(m, x)'
      <4>1. /\ copy[m][x] = owed[m][x] \cap Counted(m)
            /\ hw[m][x] \ Counted(m) = owed[m][x] \ Counted(m)
        BY <1>1, <3>1, <3>6 DEF Fine, Owes
      <4>2. copy'[m][x] = copy[m][x] \cup (hw[m][x] \cap {i})
        BY <3>2
      <4>3. hw'[m][x] \in {hw[m][x], hw[m][x] \ {i}}
        BY <3>3 DEF Setting
      <4>4. owed'[m][x] = owed[m][x]
        BY <1>1
      <4>5. copy'[m][x] = owed'[m][x] \cap Counted(m)'
        BY <3>4, <4>1, <4>2, <4>4
      <4>6. hw'[m][x] \ Counted(m)' = owed'[m][x] \ Counted(m)'
        BY <3>4, <4>1, <4>3, <4>4
      <4> QED
        BY <3>2, <4>5, <4>6 DEF Owes
    <3> QED
      BY <1>1, <2>2, <3>5, <3>6 DEF Fine
  <2> QED
    BY <2>1, <2>2
<1>3. DOMAIN hw' = Module /\ DOMAIN copy' = Module /\ DOMAIN noted' = Module
  BY <1>1 DEF SettingsInv
<1> QED
  BY <1>1, <1>2, <1>3 DEF SettingsInv

\* The lamps only take the inputs that are on.
LEMMA BlinkFine ==
  ASSUME LampsInv, NEW m \in Module, Blink(m)
  PROVE  SettingsInv'
<1> USE DEF LampsInv
<1>1. /\ noted[m] = Inputs /\ lamps[m] \in {"note", "blink"}
      /\ lamps' = [lamps EXCEPT ![m] = "sleep"] /\ UNCHANGED << owed, cut, copy, noted >>
      /\ \/ hw' = [hw EXCEPT ![m].on = {step[m].lit}]
         \/ hw' = hw
  BY DEF Blink, Goes
<1>2. ASSUME NEW k \in Module PROVE Fine(k)'
  <2>1. CASE k # m
    BY <1>1, <2>1, OthersStayFine DEF SettingsInv, StandsInv, DoingTypeOK
  <2>2. CASE k = m
    <3>1. Fine(m) /\ Counted(m) = Input /\ lamps'[m] = "sleep"
      BY <1>1 DEF SettingsInv, StandsInv, DoingTypeOK, Counted, Input
    <3>2. /\ DOMAIN hw'[m] = Setting
          /\ hw'[m]["icp"] = hw[m]["icp"] /\ hw'[m]["charge"] = hw[m]["charge"]
      BY <1>1, <3>1 DEF SettingsInv, Fine, TypeFits, Setting
    <3>3. TypeFits(m)' /\ Noted(m)'
      BY <1>1, <3>1, <3>2 DEF Fine, TypeFits, Noted
    <3>4. ASSUME NEW x \in Setting, x # "on" \/ m \notin cut PROVE Owes(m, x)'
      BY <1>1, <3>1, <3>4 DEF Fine, TypeFits, Owes
    <3> QED
      BY <1>1, <2>2, <3>3, <3>4 DEF Fine
  <2> QED
    BY <2>1, <2>2
<1>3. DOMAIN hw' = Module
  BY <1>1 DEF SettingsInv
<1> QED
  BY <1>1, <1>2, <1>3 DEF SettingsInv

\* What was noted comes back, and the rest has not been touched.
LEMMA InterruptedFine ==
  ASSUME LampsInv, NEW m \in Module, Interrupted(m)
  PROVE  SettingsInv'
<1> USE DEF LampsInv
<1> DEFINE Back(x) == (hw[m][x] \ Counted(m)) \cup (copy[m][x] \cap Counted(m))
<1>1. /\ lamps[m] \in {"pause", "sleep"} /\ lamps' = [lamps EXCEPT ![m] = "none"]
      /\ UNCHANGED << owed, copy, noted >>
  BY DEF Interrupted, Goes
<1>2. PICK taken \in BOOLEAN :
        /\ cut' = IF lamps[m] = "pause" \/ ~taken THEN cut \cup {m} ELSE cut
        /\ hw' = [hw EXCEPT ![m] = [Restored(m) EXCEPT !.on = IF taken THEN @ ELSE hw[m].on]]
  BY DEF Interrupted
<1>3. ASSUME NEW k \in Module PROVE Fine(k)'
  <2>1. CASE k # m
    BY <1>1, <1>2, <2>1, OthersStayFine DEF SettingsInv, StandsInv, DoingTypeOK
  <2>2. CASE k = m
    <3>1. Fine(m) /\ lamps'[m] = "none"
      BY <1>1 DEF SettingsInv, StandsInv, DoingTypeOK
    <3>2. Restored(m) = [on |-> copy[m]["on"], icp |-> Back("icp"), charge |-> Back("charge")]
      BY DEF Restored, Counted
    <3>3. hw'[m] = [Restored(m) EXCEPT !.on = IF taken THEN @ ELSE hw[m].on]
      BY <1>2 DEF SettingsInv
    <3>4. /\ DOMAIN hw'[m] = Setting
          /\ hw'[m]["icp"] = Back("icp") /\ hw'[m]["charge"] = Back("charge")
          /\ taken => hw'[m]["on"] = copy[m]["on"]
      BY <3>2, <3>3 DEF Setting
    <3>5. \A x \in {"icp", "charge"} : Back(x) = owed[m][x]
      <4> SUFFICES ASSUME NEW x \in {"icp", "charge"} PROVE Back(x) = owed[m][x]
        OBVIOUS
      <4>1. Owes(m, x) /\ Noted(m) /\ owed[m][x] \subseteq Input /\ hw[m][x] \subseteq Input
        BY <3>1 DEF Fine, TypeFits, Setting
      <4>2. CASE lamps[m] = "pause"
        <5>1. Counted(m) = {}
          BY <4>1, <4>2 DEF Noted, Counted
        <5> QED
          BY <4>1, <4>2, <5>1 DEF Owes
      <4>3. CASE lamps[m] = "sleep"
        <5>1. Counted(m) = Input
          BY <4>1, <4>3 DEF Noted, Counted, Input
        <5> QED
          BY <4>1, <4>3, <5>1 DEF Owes
      <4> QED
        BY <1>1, <4>2, <4>3
    <3>6. TypeFits(m)' /\ Noted(m)'
      BY <1>1, <3>1, <3>4, <3>5 DEF Fine, TypeFits, Noted, Setting
    <3>7. ASSUME NEW x \in Setting, x # "on" \/ m \notin cut' PROVE Owes(m, x)'
      <4>1. CASE x # "on"
        BY <1>1, <3>1, <3>4, <3>5, <4>1 DEF Owes, Setting
      <4>2. CASE x = "on"
        <5>1. taken /\ lamps[m] = "sleep" /\ m \notin cut
          BY <1>1, <1>2, <3>7, <4>2
        <5>2. copy[m][x] = owed[m][x]
          BY <3>1, <5>1 DEF Fine, Owes
        <5> QED
          BY <1>1, <3>1, <3>4, <4>2, <5>1, <5>2 DEF Owes
      <4> QED
        BY <4>1, <4>2
    <3> QED
      BY <2>2, <3>6, <3>7 DEF Fine
  <2> QED
    BY <2>1, <2>2
<1>4. DOMAIN hw' = Module
  BY <1>2 DEF SettingsInv
<1> QED
  BY <1>1, <1>3, <1>4 DEF SettingsInv

\* A switch that is thrown changes one input.
LEMMA ToggledOneInput ==
  ASSUME NEW s, DOMAIN s = Setting, NEW x \in Setting, NEW i
  PROVE  /\ DOMAIN Toggled(s, x, i) = Setting
         /\ \A y \in Setting : Toggled(s, x, i)[y] \in {s[y], s[y] \ {i}, s[y] \cup {i}}
<1>1. CASE i \in s[x]
  BY <1>1 DEF Toggled
<1>2. CASE i \notin s[x]
  <2> DEFINE t == [y \in Setting |-> IF y = x THEN s[y] \cup {i}
                    ELSE IF {x, y} = {"icp", "charge"} THEN s[y] \ {i} ELSE s[y]]
  <2>1. Toggled(s, x, i) = t
    BY <1>2 DEF Toggled
  <2>2. \A y \in Setting : t[y] \in {s[y], s[y] \ {i}, s[y] \cup {i}}
    OBVIOUS
  <2> QED
    BY <2>1, <2>2
<1> QED
  BY <1>1, <1>2

\* What is changed before it is noted is owed; what is changed afterwards is
\* not.
LEMMA ChangeFine ==
  ASSUME LampsInv, NEW m \in Module, NEW y \in Setting, NEW i \in Input, Change(m, y, i)
  PROVE  SettingsInv'
<1> USE DEF LampsInv
<1> DEFINE early == \/ lamps[m] \in {"none", "open", "pause"}
                    \/ lamps[m] = "note" /\ noted[m] <= i
<1>1. /\ hw' = [hw EXCEPT ![m] = Toggled(@, y, i)]
      /\ owed' = IF early
                 THEN [owed EXCEPT ![m] =
                         [x \in Setting |-> (@[x] \ {i}) \cup (hw'[m][x] \cap {i})]]
                 ELSE owed
      /\ UNCHANGED << lamps, copy, noted, cut >>
  BY DEF Change
<1>2. ASSUME NEW k \in Module PROVE Fine(k)'
  <2>1. CASE k # m
    BY <1>1, <2>1, OthersStayFine DEF SettingsInv
  <2>2. CASE k = m
    <3>1. Fine(m)
      BY DEF SettingsInv
    <3>2. /\ DOMAIN hw'[m] = Setting
          /\ \A x \in Setting : hw'[m][x] \in {hw[m][x], hw[m][x] \ {i}, hw[m][x] \cup {i}}
      BY <1>1, <3>1, ToggledOneInput DEF SettingsInv, Fine, TypeFits
    <3>3. /\ DOMAIN owed'[m] = Setting
          /\ \A x \in Setting :
               owed'[m][x] = IF early THEN (owed[m][x] \ {i}) \cup (hw'[m][x] \cap {i})
                                      ELSE owed[m][x]
      BY <1>1, <3>1 DEF SettingsInv, Fine, TypeFits
    <3>4. TypeFits(m)' /\ Noted(m)'
      <4>1. \A x \in Setting : owed'[m][x] \subseteq Input
        BY <3>1, <3>3 DEF Fine, TypeFits
      <4>2. \A x \in {"icp", "charge"} : hw'[m][x] \subseteq Input
        BY <3>1, <3>2 DEF Fine, TypeFits, Setting
      <4> QED
        BY <1>1, <3>1, <3>2, <3>3, <4>1, <4>2 DEF Fine, TypeFits, Noted
    <3>5. ASSUME NEW x \in Setting, x # "on" \/ m \notin cut' PROVE Owes(m, x)'
      <4>1. Owes(m, x) /\ hw'[m][x] \in {hw[m][x], hw[m][x] \ {i}, hw[m][x] \cup {i}}
        BY <1>1, <3>1, <3>2, <3>5 DEF Fine
      <4>2. CASE lamps[m] \in {"none", "open", "pause"}
        <5>1. owed'[m][x] = (owed[m][x] \ {i}) \cup (hw'[m][x] \cap {i})
          BY <3>3, <4>2
        <5>2. hw[m][x] = owed[m][x]
          BY <4>1, <4>2 DEF Owes
        <5>3. hw'[m][x] = owed'[m][x]
          BY <4>1, <5>1, <5>2
        <5> QED
          BY <1>1, <4>2, <5>3 DEF Owes
      <4>3. CASE lamps[m] = "note" /\ early
        <5>1. i \notin Counted(m)
          BY <3>1, <4>3, BlinkerAssumption DEF Counted, Fine, TypeFits, Input
        <5>2. /\ copy[m][x] = owed[m][x] \cap Counted(m)
              /\ hw[m][x] \ Counted(m) = owed[m][x] \ Counted(m)
              /\ owed'[m][x] = (owed[m][x] \ {i}) \cup (hw'[m][x] \cap {i})
          BY <3>3, <4>1, <4>3 DEF Owes
        <5>3. copy[m][x] = owed'[m][x] \cap Counted(m)
          BY <5>1, <5>2
        <5>4. hw'[m][x] \ Counted(m) = owed'[m][x] \ Counted(m)
          BY <4>1, <5>1, <5>2
        <5> QED
          BY <1>1, <4>3, <5>3, <5>4 DEF Owes, Counted
      <4>4. CASE lamps[m] = "note" /\ ~early
        <5>1. i \in Counted(m)
          BY <3>1, <4>4, BlinkerAssumption DEF Counted, Fine, TypeFits, Input
        <5>2. /\ copy[m][x] = owed[m][x] \cap Counted(m)
              /\ hw[m][x] \ Counted(m) = owed[m][x] \ Counted(m)
              /\ owed'[m][x] = owed[m][x]
          BY <3>3, <4>1, <4>4 DEF Owes
        <5>3. hw'[m][x] \ Counted(m) = owed'[m][x] \ Counted(m)
          BY <4>1, <5>1, <5>2
        <5> QED
          BY <1>1, <4>4, <5>2, <5>3 DEF Owes, Counted
      <4>5. CASE lamps[m] \in {"blink", "sleep"}
        BY <1>1, <3>3, <4>1, <4>5 DEF Owes
      <4> QED
        BY <3>1, <4>2, <4>3, <4>4, <4>5 DEF Fine, Noted
    <3> QED
      BY <2>2, <3>4, <3>5 DEF Fine
  <2> QED
    BY <2>1, <2>2
<1>3. DOMAIN hw' = Module /\ DOMAIN owed' = Module
  BY <1>1 DEF SettingsInv
<1> QED
  BY <1>1, <1>2, <1>3 DEF SettingsInv

\* Every step keeps the lamps' settings where they can be given back.
LEMMA StepKeepsSettings == LampsInv /\ [BlinkNext]_blinkVars => LampsInv'
<1> SUFFICES ASSUME LampsInv, [BlinkNext]_blinkVars PROVE SettingsInv'
  BY StepStands DEF LampsInv
<1>1. ASSUME UNCHANGED << hw, owed, copy, noted, lamps, cut >> PROVE SettingsInv'
  BY <1>1 DEF LampsInv, SettingsInv, Fine, TypeFits, Noted, Owes, Counted
<1>2. CASE CloseMenu \/ StartBlinking \/ StopBlinking
  BY <1>1, <1>2 DEF CloseMenu, StartBlinking, StopBlinking
<1>3. CASE NewBlinker
  BY <1>3, NewBlinkerFine
<1>4. ASSUME NEW t \in Actor, Destroyed(t) \/ Joined(t) \/ Stopped(t) PROVE SettingsInv'
  BY <1>1, <1>4, JoinedFine DEF Destroyed, Stopped
<1>5. ASSUME NEW m \in Module, OpenMenu(m) \/ Found(m) PROVE SettingsInv'
  BY <1>1, <1>5 DEF OpenMenu, Found
<1>6. ASSUME NEW m \in Module, NEW t \in Actor, Removed(t, m) PROVE SettingsInv'
  BY <1>1, <1>6 DEF Removed
<1>7. ASSUME NEW m \in Module, Open(m) \/ StartAdc(m) \/ Wake(m) PROVE SettingsInv'
  BY <1>7, MoveFine DEF Open, StartAdc, Wake
<1>8. ASSUME NEW m \in Module, Note(m) \/ Blink(m) \/ Interrupted(m) PROVE SettingsInv'
  BY <1>8, NoteFine, BlinkFine, InterruptedFine
<1>9. ASSUME NEW m \in Module, NEW x \in Setting, NEW i \in Input, Change(m, x, i)
      PROVE  SettingsInv'
  BY <1>9, ChangeFine
<1>10. CASE UNCHANGED blinkVars
  BY <1>1, <1>10 DEF blinkVars
<1> QED
  BY <1>2, <1>3, <1>4, <1>5, <1>6, <1>7, <1>8, <1>9, <1>10 DEF BlinkNext

\* Whoever changes settings meanwhile and whoever puts the lamps out, supply and
\* amplifiers of every input are afterwards what is owed, and so is what is on
\* unless the thread was cut short (blinker::createSnapshot, restoreSnapshot).
THEOREM NoTraceIsLeft == BlinkSpec => []LampsLeaveNoTrace
<1>1. BlinkInit => LampsInv
  BY InitStands, InitSettings DEF LampsInv
<1>2. LampsInv => LampsLeaveNoTrace
  BY DEF LampsInv, SettingsInv, Fine, Owes, LampsLeaveNoTrace, Setting
<1> QED
  BY <1>1, <1>2, StepKeepsSettings, PTL DEF BlinkSpec

===========================================================================
