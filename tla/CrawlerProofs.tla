--------------------------- MODULE CrawlerProofs ---------------------------
(***************************************************************************)
(* Proofs about Crawler, for any forest of paths and any set of            *)
(* controllers.  The inductive invariant joins the invariants the runs     *)
(* check with one about the walk: while needWait is held nobody else       *)
(* removes, and what was seen since the last kill is alive.                *)
(***************************************************************************)
EXTENDS Crawler, TLAPS

WalkInv ==
  /\ needWait = 1 <=> pc \in {"walk", "info"}
  /\ pc = "info" => checked \in Controllers
  /\ \A p \in objects \cap seen : alive[p]

TreeInv == TreeIntact /\ AliveUpward

IInv == CrawlerTypeOK /\ TreeInv /\ WaitersConsistent /\ AnnouncedAreRegistered /\ WalkInv

----------------------------------------------------------------------------
\* Facts about the forest and the operators over it.

\* A chain consists of paths, and the chain of an ancestor is part of it.
LEMMA ChainFacts ==
  ASSUME NEW p \in Path
  PROVE  /\ Chain(p) \subseteq Path
         /\ p \in Chain(p)
         /\ \A q \in Chain(p) : Chain(q) \subseteq Chain(p)
<1>1. /\ Above[p] \subseteq Node
      /\ \A q \in Above[p] : q # Root => Above[q] \subseteq Above[p]
  BY AboveAssumption
<1>2. Chain(p) \subseteq Path
  BY <1>1 DEF Chain, Path, Node, Root
<1>3. \A q \in Chain(p) : Chain(q) \subseteq Chain(p)
  BY <1>1 DEF Chain
<1> QED
  BY <1>2, <1>3 DEF Chain

\* setAlive(true) reaches the root when the whole chain is linked.
LEMMA ClimbAll ==
  ASSUME NEW p \in Path, NEW links, Chain(p) \subseteq links
  PROVE  Climb(p, links) = {p} \cup Above[p]
BY DEF Climb

\* What factory::add creates closes the gap to the registered objects.
LEMMA MissingFacts ==
  ASSUME TreeIntact, CrawlerTypeOK, NEW p \in Path, p \notin objects
  PROVE  /\ Missing(p) \subseteq Chain(p)
         /\ p \in Missing(p)
         /\ Chain(p) \subseteq objects \cup Missing(p)
         /\ Missing(p) \cap objects = {}
<1>1. Missing(p) \subseteq Chain(p)
  BY DEF Missing
<1>2. /\ Above[p] \subseteq Node
      /\ \A q \in Above[p] : q < p
      /\ \A q \in Above[p] : \A r \in Above[p] : q < r => q \in Above[r]
  BY AboveAssumption
<1>3. N \in Nat
  BY FactoryAssumption
<1>4. p \in Missing(p)
  <2>1. ASSUME NEW r \in Chain(p), r >= p  PROVE r \notin objects
    BY <2>1, <1>2, <1>3 DEF Chain, Path, Node, Root
  <2> QED
    BY <2>1, ChainFacts DEF Missing
<1>5. ASSUME NEW q \in Chain(p), q \notin Missing(p)
      PROVE  q \in objects
  <2>1. PICK r \in Chain(p) : r >= q /\ r \in objects
    BY <1>5 DEF Missing
  <2>2. r # p /\ r \in Above[p] /\ r # Root
    BY <2>1 DEF Chain
  <2>3. CASE r = q
    BY <2>1, <2>3
  <2>4. CASE r # q
    <3>1. q < r /\ q \in Above[p] /\ q # Root
      BY <2>1, <2>2, <2>4, <1>2, <1>3 DEF Chain, Path, Node, Root
    <3>2. q \in Chain(r)
      BY <3>1, <2>2, <1>2 DEF Chain
    <3> QED
      BY <3>2, <2>1 DEF TreeIntact
  <2> QED
    BY <2>3, <2>4
<1>6. ASSUME NEW q \in Missing(p)  PROVE q \notin objects
  <2>1. q \in Chain(p) /\ q >= q
    BY <1>1, <1>2, <1>3, ChainFacts DEF Path
  <2> QED
    BY <2>1 DEF Missing
<1> QED
  BY <1>1, <1>4, <1>5, <1>6

\* factory::add keeps the tree whole, and what it adds is alive.
LEMMA AddKeepsTree ==
  ASSUME CrawlerTypeOK, TreeInv, NEW p \in Path, p \notin objects, AddObject(p)
  PROVE  /\ TreeInv'
         /\ objects' = objects \cup Missing(p)
         /\ Chain(p) \subseteq objects'
         /\ objects' \subseteq Path /\ linked' \subseteq Path
         /\ alive' \in [Node -> BOOLEAN]
         /\ changed' \in BOOLEAN
         /\ \A q \in Node : alive[q] => alive'[q]
         /\ \A q \in Chain(p) : alive'[q]
         /\ p \in objects'
<1>1. /\ Missing(p) \subseteq Chain(p)
      /\ p \in Missing(p)
      /\ Chain(p) \subseteq objects \cup Missing(p)
  BY MissingFacts DEF TreeInv
<1>2. /\ linked = objects /\ objects \subseteq Path
      /\ \A q \in objects : Chain(q) \subseteq objects
      /\ \A q \in objects : alive[q] => \A r \in Above[q] : alive[r]
      /\ alive \in [Node -> BOOLEAN] /\ changed \in BOOLEAN
  BY DEF TreeInv, TreeIntact, AliveUpward, CrawlerTypeOK, FactoryTypeOK
<1>3. Climb(p, linked \cup Missing(p)) = {p} \cup Above[p]
  BY <1>1, <1>2, ClimbAll
<1>4. /\ objects' = objects \cup Missing(p)
      /\ linked' = linked \cup Missing(p)
      /\ alive' = [n \in Node |-> alive[n] \/ n \in {p} \cup Above[p]]
      /\ changed' = (changed \/ Root \in {p} \cup Above[p])
  BY <1>3 DEF AddObject
<1>5. \A q \in Chain(p) : Chain(q) \subseteq Chain(p)
  BY ChainFacts
<1>6. Chain(p) \subseteq Path /\ Path \subseteq Node
  BY ChainFacts, FactoryAssumption DEF Path, Node
<1>7. TreeIntact'
  <2>1. linked' = objects'
    BY <1>2, <1>4
  <2>2. \A q \in objects' : Chain(q) \subseteq objects'
    BY <1>1, <1>2, <1>4, <1>5
  <2> QED
    BY <2>1, <2>2 DEF TreeIntact, Chain
<1>8. AliveUpward'
  <2> SUFFICES ASSUME NEW q \in objects', alive'[q], NEW r \in Above[q]
               PROVE  alive'[r]
    BY DEF AliveUpward
  <2>1. q \in Path /\ r \in Node
    BY <1>1, <1>2, <1>4, <1>6, AboveAssumption
  <2>2. CASE q \in Chain(p)
    <3>1. r \in {p} \cup Above[p]
      BY <2>2, AboveAssumption DEF Chain
    <3> QED
      BY <3>1, <2>1, <1>4
  <2>3. CASE q \notin Chain(p)
    <3>1. q \in objects
      BY <2>3, <1>1, <1>4
    <3>2. q \notin {p} \cup Above[p]
      BY <2>3, <2>1 DEF Chain, Path, Root
    <3>3. alive[q]
      BY <3>2, <2>1, <1>4, <1>6
    <3> QED
      BY <3>1, <3>3, <2>1, <1>2, <1>4
  <2> QED
    BY <2>2, <2>3
<1>9. /\ \A q \in Node : alive[q] => alive'[q]
      /\ \A q \in Chain(p) : alive'[q]
  BY <1>4, <1>6 DEF Chain
<1> QED
  BY <1>1, <1>2, <1>4, <1>6, <1>7, <1>8, <1>9 DEF TreeInv

\* update_info on a registered object keeps the tree whole.
LEMMA RefreshKeepsTree ==
  ASSUME CrawlerTypeOK, TreeInv, NEW p \in objects,
         alive' = Refreshed(p), UNCHANGED << objects, linked >>
  PROVE  /\ TreeInv'
         /\ Climb(p, linked) = {p} \cup Above[p]
         /\ alive' \in [Node -> BOOLEAN]
         /\ \A q \in Node : alive[q] => alive'[q]
         /\ \A q \in Chain(p) : alive'[q]
<1>1. /\ linked = objects /\ objects \subseteq Path
      /\ \A q \in objects : Chain(q) \subseteq objects
      /\ \A q \in objects : alive[q] => \A r \in Above[q] : alive[r]
      /\ alive \in [Node -> BOOLEAN]
  BY DEF TreeInv, TreeIntact, AliveUpward, CrawlerTypeOK, FactoryTypeOK
<1>2. Climb(p, linked) = {p} \cup Above[p]
  BY <1>1, ClimbAll
<1>3. alive' = [n \in Node |-> alive[n] \/ n \in {p} \cup Above[p]]
  BY <1>2 DEF Refreshed
<1>4. TreeIntact'
  BY <1>1 DEF TreeIntact, Chain
<1>5. Path \subseteq Node
  BY FactoryAssumption DEF Path, Node
<1>6. AliveUpward'
  <2> SUFFICES ASSUME NEW q \in objects, alive'[q], NEW r \in Above[q]
               PROVE  alive'[r]
    BY DEF AliveUpward
  <2>1. q \in Path /\ r \in Node /\ q # Root
    BY <1>1, AboveAssumption DEF Path, Root
  <2>2. CASE q \in {p} \cup Above[p]
    <3>1. r \in Above[p]
      BY <2>1, <2>2, <1>1, AboveAssumption
    <3> QED
      BY <3>1, <2>1, <1>3
  <2>3. CASE q \notin {p} \cup Above[p]
    BY <2>3, <2>1, <1>1, <1>3, <1>5
  <2> QED
    BY <2>2, <2>3
<1>7. /\ \A q \in Node : alive[q] => alive'[q]
      /\ \A q \in Chain(p) : alive'[q]
  BY <1>1, <1>3, <1>5, ChainFacts DEF Chain
<1> QED
  BY <1>2, <1>3, <1>4, <1>6, <1>7 DEF TreeInv

\* killAll reaches every registered object.
LEMMA KillKeepsTree ==
  ASSUME CrawlerTypeOK, TreeInv, KillAll, UNCHANGED << objects, linked >>
  PROVE  /\ TreeInv'
         /\ alive' \in [Node -> BOOLEAN]
<1>1. /\ Reachable = objects /\ objects \subseteq Path /\ alive \in [Node -> BOOLEAN]
  BY DEF TreeInv, TreeIntact, Reachable, CrawlerTypeOK, FactoryTypeOK
<1>2. /\ alive' \in [Node -> BOOLEAN]
      /\ \A q \in objects : ~alive'[q]
  <2>1. alive' = [n \in Node |-> IF n = Root THEN FALSE
                                 ELSE alive[n] /\ n \notin objects]
    BY <1>1 DEF KillAll
  <2>2. \A q \in objects : q \in Node /\ q # Root
    BY <1>1, FactoryAssumption DEF Node, Path, Root
  <2>3. \A q \in objects : ~alive'[q]
    BY <2>1, <2>2
  <2>4. alive' \in [Node -> BOOLEAN]
    BY <2>1
  <2> QED
    BY <2>3, <2>4
<1>3. TreeIntact' /\ AliveUpward'
  BY <1>2 DEF TreeInv, TreeIntact, AliveUpward, Chain
<1> QED
  BY <1>2, <1>3 DEF TreeInv

\* removeDead takes whole subtrees.
LEMMA RemoveKeepsTree ==
  ASSUME CrawlerTypeOK, TreeInv, RemoveDead, UNCHANGED alive
  PROVE  /\ TreeInv'
         /\ objects' = {p \in objects : alive[p]}
         /\ linked' = objects'
         /\ changed' \in BOOLEAN
<1> DEFINE dead == {p \in objects : ~alive[p]}
<1>1. /\ linked = objects /\ objects \subseteq Path
      /\ \A q \in objects : Chain(q) \subseteq objects
      /\ \A q \in objects : alive[q] => \A r \in Above[q] : alive[r]
      /\ alive \in [Node -> BOOLEAN] /\ changed \in BOOLEAN
  BY DEF TreeInv, TreeIntact, AliveUpward, CrawlerTypeOK, FactoryTypeOK
<1>2. /\ objects' = objects \ dead
      /\ linked' = (linked \ dead) \ {p \in Path : Parent[p] \in dead}
      /\ changed' = (changed \/ dead \cap Reachable # {})
  BY DEF RemoveDead
<1>3. objects' = {p \in objects : alive[p]}
  BY <1>2
<1>4. \A p \in objects : Parent[p] \in dead => p \in dead
  <2> SUFFICES ASSUME NEW p \in objects, Parent[p] \in dead, alive[p]
               PROVE  FALSE
    OBVIOUS
  <2>1. Parent[p] \in Above[p]
    BY <1>1, AboveAssumption
  <2> QED
    BY <2>1, <1>1
<1>5. linked' = objects'
  BY <1>1, <1>2, <1>4
<1>6. \A q \in objects' : Chain(q) \subseteq objects'
  BY <1>1, <1>3 DEF Chain
<1>7. TreeIntact' /\ AliveUpward'
  BY <1>1, <1>3, <1>5, <1>6 DEF TreeIntact, AliveUpward, Chain
<1> QED
  BY <1>2, <1>3, <1>5, <1>7, <1>1 DEF TreeInv

----------------------------------------------------------------------------
\* Facts about the waiters.

WaiterTypeOK ==
  /\ waiters \in [Path -> {NotWaiting, Expired} \cup 0..(WaitTicks - 1)]
  /\ waitShown \in BOOLEAN
  /\ errors \subseteq Path

\* Erasing entries keeps indicator and errors in step with the waits, if the
\* objects still waited for stay registered.
LEMMA DropKeepsWaiters ==
  ASSUME CrawlerTypeOK, WaitersConsistent, NEW S, DropWaiters(S),
         Waiting \ S \subseteq objects'
  PROVE  WaitersConsistent' /\ WaiterTypeOK'
<1>1. WaiterTypeOK
  BY DEF CrawlerTypeOK, FactoryTypeOK, WaiterTypeOK
<1>2. /\ waiters' = [p \in Path |-> IF p \in S THEN NotWaiting ELSE waiters[p]]
      /\ errors' = errors \ {p \in S : waiters[p] = Expired /\ p \in objects}
      /\ waitShown' = IF Waiting \cap S # {} /\ Waiting \subseteq S
                      THEN FALSE ELSE waitShown
  BY DEF DropWaiters
<1>3. Waiting' = Waiting \ S
  BY <1>2 DEF Waiting
<1>4. waitShown' = (Waiting' # {})
  BY <1>1, <1>2, <1>3 DEF WaitersConsistent, WaiterTypeOK
<1>5. errors' = {p \in Path : waiters'[p] = Expired}
  BY <1>2 DEF WaitersConsistent, Waiting, NotWaiting, Expired
<1>6. WaiterTypeOK'
  BY <1>1, <1>2 DEF WaiterTypeOK
<1> QED
  BY <1>3, <1>4, <1>5, <1>6 DEF WaitersConsistent

\* A wait begins for a registered object.
LEMMA StartKeepsWaiters ==
  ASSUME CrawlerTypeOK, WaitersConsistent, NEW c \in Path, StartWait(c),
         objects \subseteq objects', c \in objects'
  PROVE  WaitersConsistent' /\ WaiterTypeOK'
<1>1. WaiterTypeOK
  BY DEF CrawlerTypeOK, FactoryTypeOK, WaiterTypeOK
<1>2. /\ waitShown' = IF Waiting = {} THEN TRUE ELSE waitShown
      /\ waiters' = [waiters EXCEPT ![c] = IF @ = NotWaiting THEN 0 ELSE @]
      /\ errors' = errors
  BY DEF StartWait
<1>3. WaitTicks \in Nat \ {0}
  BY FactoryAssumption
<1>4. /\ waiters'[c] # NotWaiting
      /\ waiters'[c] = Expired <=> waiters[c] = Expired
      /\ waiters' \in [Path -> {NotWaiting, Expired} \cup 0..(WaitTicks - 1)]
      /\ \A p \in Path \ {c} : waiters'[p] = waiters[p]
  BY <1>1, <1>2, <1>3 DEF WaiterTypeOK, NotWaiting, Expired
<1>5. Waiting' = Waiting \cup {c}
  BY <1>4 DEF Waiting
<1>6. errors' = {p \in Path : waiters'[p] = Expired}
  BY <1>2, <1>4 DEF WaitersConsistent
<1> QED
  BY <1>1, <1>2, <1>4, <1>5, <1>6 DEF WaitersConsistent, WaiterTypeOK

\* Waits age and run out, and every one that runs out raises its error.
LEMMA AgeKeepsWaiters ==
  ASSUME CrawlerTypeOK, WaitersConsistent, UpdateWait(ticks), UNCHANGED objects
  PROVE  WaitersConsistent' /\ WaiterTypeOK'
<1> DEFINE ripe == {p \in Path : waiters[p] >= 0
                                   /\ waiters[p] + ticks >= WaitTicks}
<1>1. WaiterTypeOK
  BY DEF CrawlerTypeOK, FactoryTypeOK, WaiterTypeOK
<1>2. WaitTicks \in Nat \ {0} /\ ticks \in Nat
  BY FactoryAssumption, CrawlerAssumption DEF CrawlerTypeOK
<1>3. /\ waiters' = [p \in Path |->
                       IF p \in ripe THEN Expired
                       ELSE IF waiters[p] >= 0 THEN waiters[p] + ticks
                       ELSE waiters[p]]
      /\ errors' = errors \cup (ripe \cap objects)
      /\ waitShown' = waitShown
  BY DEF UpdateWait
<1>4. ripe \subseteq Waiting
  BY <1>1 DEF Waiting, WaiterTypeOK, NotWaiting, Expired
<1>5. \A p \in Path :
         /\ waiters'[p] \in {NotWaiting, Expired} \cup 0..(WaitTicks - 1)
         /\ waiters'[p] # NotWaiting <=> waiters[p] # NotWaiting
         /\ waiters'[p] = Expired <=> waiters[p] = Expired \/ p \in ripe
  BY <1>1, <1>2, <1>3 DEF WaiterTypeOK, NotWaiting, Expired
<1>6. Waiting' = Waiting
  BY <1>5 DEF Waiting
<1>7. errors' = {p \in Path : waiters'[p] = Expired}
  BY <1>3, <1>4, <1>5 DEF WaitersConsistent
<1>8. WaiterTypeOK'
  BY <1>1, <1>3, <1>5, <1>7 DEF WaiterTypeOK
<1> QED
  BY <1>3, <1>6, <1>7, <1>8 DEF WaitersConsistent

----------------------------------------------------------------------------
\* The inductive invariant.

\* Steps that touch neither the factory nor what was announced.
LEMMA Untouched ==
  ASSUME IInv, UNCHANGED << objects, linked, alive, waiters, waitShown, errors,
                            announced >>
  PROVE  TreeInv' /\ WaitersConsistent' /\ AnnouncedAreRegistered'
BY DEF IInv, TreeInv, TreeIntact, AliveUpward, Chain, WaitersConsistent,
       Waiting, AnnouncedAreRegistered

\* The program starts with nothing registered.
LEMMA InitIInv == Init => IInv
<1> SUFFICES ASSUME Init PROVE IInv
  OBVIOUS
<1> USE DEF Init, FactoryInit
<1>1. CrawlerTypeOK
  <2>1. FactoryTypeOK
    BY FactoryAssumption DEF FactoryTypeOK, NotWaiting
  <2>2. ticks \in 0..UpdateTicks /\ refreshes \in 0..MaxRefresh
    BY CrawlerAssumption
  <2>3. info \in [Controllers -> {"none", "down", "up"}]
    OBVIOUS
  <2> QED
    BY <2>1, <2>2, <2>3 DEF CrawlerTypeOK, None
<1>2. TreeInv
  BY DEF TreeInv, TreeIntact, AliveUpward
<1>3. WaitersConsistent
  <2>1. \A p \in Path : waiters[p] = NotWaiting
    OBVIOUS
  <2>2. Waiting = {}
    BY <2>1 DEF Waiting
  <2>3. {p \in Path : waiters[p] = Expired} = {}
    BY <2>1 DEF NotWaiting, Expired
  <2> QED
    BY <2>2, <2>3 DEF WaitersConsistent
<1>4. AnnouncedAreRegistered /\ WalkInv
  BY DEF AnnouncedAreRegistered, WalkInv
<1> QED
  BY <1>1, <1>2, <1>3, <1>4 DEF IInv

\* removeDead, or its refusal, with the signals to the views.
LEMMA RemovalKeeps ==
  ASSUME CrawlerTypeOK, TreeInv, WaitersConsistent, AnnouncedAreRegistered, WalkInv,
         RemoveDeadSignalled \/ UNCHANGED << objects, linked, changed, waiters,
                                       waitShown, errors, announced >>,
         pc' \in {"top", "tick", "age", "begin", "walk", "info", "sweep", "end"},
         gui' \in {"idle", "remove"},
         UNCHANGED << alive, needWait, ticks, todo, checked, inited, allowed,
                      requested, waitModify, timer3, refreshes, present,
                      link, info, seen >>
  PROVE  /\ CrawlerTypeOK' /\ TreeInv' /\ WaitersConsistent' /\ AnnouncedAreRegistered'
         /\ objects' \subseteq objects
<1>1. CASE RemoveDeadSignalled
  <2>1. /\ RemoveDead
        /\ announced' = announced \ {p \in objects : ~alive[p]}
        /\ alive' = alive
    BY <1>1 DEF RemoveDeadSignalled
  <2>2. /\ TreeInv'
        /\ objects' = {p \in objects : alive[p]}
        /\ linked' = objects'
        /\ changed' \in BOOLEAN
    BY <2>1, RemoveKeepsTree
  <2>3. WaitersConsistent' /\ WaiterTypeOK'
    <3>1. Waiting \ {p \in objects : ~alive[p]} \subseteq objects'
      BY <2>2 DEF WaitersConsistent
    <3> QED
      BY <2>1, <3>1, DropKeepsWaiters DEF RemoveDead
  <2>4. AnnouncedAreRegistered'
    BY <2>1, <2>2 DEF AnnouncedAreRegistered
  <2>5. CrawlerTypeOK'
    BY <2>1, <2>2, <2>3 DEF CrawlerTypeOK, FactoryTypeOK, WaiterTypeOK
  <2> QED
    BY <2>2, <2>3, <2>4, <2>5
<1>2. CASE UNCHANGED << objects, linked, changed, waiters, waitShown, errors,
                        announced >>
  <2>1. CrawlerTypeOK'
    BY <1>2 DEF CrawlerTypeOK, FactoryTypeOK
  <2>2. TreeInv' /\ WaitersConsistent' /\ AnnouncedAreRegistered'
    BY <1>2 DEF TreeInv, TreeIntact, AliveUpward, Chain, WaitersConsistent,
                Waiting, AnnouncedAreRegistered
  <2> QED
    BY <1>2, <2>1, <2>2
<1> QED
  BY <1>1, <1>2

\* What std::crawler does to one leaf.
LEMMA VisitLeafKeeps ==
  ASSUME IInv, NEW p \in Leaves, VisitLeaf(p)
  PROVE  IInv'
<1>1. /\ pc = "walk" /\ todo' = todo \ {p}
      /\ UNCHANGED << waiters, waitShown, errors, needWait, pc, ticks, checked,
                      inited, allowed, requested, waitModify, timer3, gui,
                      refreshes, present, link >>
  BY DEF VisitLeaf, worldVars
<1>2. CrawlerTypeOK /\ TreeInv /\ WaitersConsistent /\ AnnouncedAreRegistered /\ WalkInv
  BY DEF IInv
<1>3. p \in Path /\ Chain(p) \subseteq Path
  BY CrawlerAssumption, ChainFacts
<1>4. CASE p \notin present
  <2>1. UNCHANGED << objects, linked, alive, changed, info, announced, seen >>
    BY <1>4 DEF VisitLeaf
  <2>2. CrawlerTypeOK'
    BY <1>1, <1>2, <2>1 DEF CrawlerTypeOK, FactoryTypeOK
  <2>3. WalkInv'
    BY <1>1, <1>2, <2>1 DEF WalkInv
  <2> QED
    BY <1>1, <2>1, <2>2, <2>3, Untouched DEF IInv
<1>5. CASE p \in present /\ p \in objects
  <2>1. /\ alive' = Refreshed(p)
        /\ seen' = seen \cup (Climb(p, linked) \ {Root})
        /\ UNCHANGED << objects, linked, changed, info, announced >>
    BY <1>5 DEF VisitLeaf
  <2>2. /\ TreeInv'
        /\ Climb(p, linked) = {p} \cup Above[p]
        /\ alive' \in [Node -> BOOLEAN]
        /\ \A q \in Node : alive[q] => alive'[q]
        /\ \A q \in Chain(p) : alive'[q]
    BY <1>2, <1>5, <2>1, RefreshKeepsTree
  <2>3. seen' = seen \cup Chain(p)
    BY <2>1, <2>2, <1>3 DEF Chain, Path, Root
  <2>4. CrawlerTypeOK'
    BY <1>1, <1>2, <1>3, <2>1, <2>2, <2>3 DEF CrawlerTypeOK, FactoryTypeOK
  <2>5. WalkInv'
    BY <1>1, <1>2, <2>1, <2>2, <2>3, FactoryAssumption
       DEF WalkInv, CrawlerTypeOK, FactoryTypeOK, Path, Node
  <2>6. WaitersConsistent' /\ AnnouncedAreRegistered'
    BY <1>1, <1>2, <2>1 DEF WaitersConsistent, Waiting, AnnouncedAreRegistered
  <2> QED
    BY <2>2, <2>4, <2>5, <2>6 DEF IInv
<1>6. CASE p \in present /\ p \notin objects
  <2>1. /\ AddObject(p)
        /\ info' = [c \in Controllers |->
                      IF c \in Missing(p) THEN "none" ELSE info[c]]
        /\ announced' = announced \cup Missing(p)
        /\ seen' = seen \cup Chain(p)
    BY <1>6 DEF VisitLeaf
  <2>2. /\ TreeInv'
        /\ objects' = objects \cup Missing(p)
        /\ objects' \subseteq Path /\ linked' \subseteq Path
        /\ alive' \in [Node -> BOOLEAN] /\ changed' \in BOOLEAN
        /\ \A q \in Node : alive[q] => alive'[q]
        /\ \A q \in Chain(p) : alive'[q]
    BY <1>2, <1>3, <1>6, <2>1, AddKeepsTree
  <2>3. Missing(p) \subseteq Chain(p)
    BY DEF Missing
  <2>4. info' \in [Controllers -> {"none", "down", "up"}]
    BY <1>2, <2>1 DEF CrawlerTypeOK
  <2>5. CrawlerTypeOK'
    BY <1>1, <1>2, <1>3, <2>1, <2>2, <2>3, <2>4
       DEF CrawlerTypeOK, FactoryTypeOK
  <2>6. \A q \in objects' \cap seen' : alive'[q]
    BY <1>2, <2>1, <2>2, <2>3, FactoryAssumption
       DEF WalkInv, CrawlerTypeOK, FactoryTypeOK, Path, Node
  <2>7. WalkInv'
    BY <1>1, <1>2, <2>6 DEF WalkInv
  <2>8. WaitersConsistent' /\ AnnouncedAreRegistered'
    BY <1>1, <1>2, <2>1, <2>2 DEF WaitersConsistent, Waiting, AnnouncedAreRegistered
  <2> QED
    BY <2>2, <2>5, <2>7, <2>8 DEF IInv
<1> QED
  BY <1>4, <1>5, <1>6

\* What _7xxx::crawler does to one controller.
LEMMA UpdateControllerKeeps ==
  ASSUME IInv, UpdateController
  PROVE  IInv'
<1> DEFINE c == checked
<1>1. /\ pc = "info" /\ pc' = "walk" /\ checked' = None
      /\ seen' = seen \cup {c}
      /\ info' = [info EXCEPT ![c] = link[c]]
      /\ UNCHANGED << needWait, ticks, todo, inited, allowed, requested,
                      waitModify, timer3, gui, refreshes, present, link >>
  BY DEF UpdateController, worldVars
<1>2. CrawlerTypeOK /\ TreeInv /\ WaitersConsistent /\ AnnouncedAreRegistered /\ WalkInv
  BY DEF IInv
<1>3. c \in Controllers /\ c \in Path
  BY <1>1, <1>2, CrawlerAssumption DEF WalkInv
<1>4. /\ TreeInv'
      /\ objects \subseteq objects' /\ c \in objects'
      /\ objects' \subseteq Path /\ linked' \subseteq Path
      /\ alive' \in [Node -> BOOLEAN] /\ changed' \in BOOLEAN
      /\ \A q \in Node : alive[q] => alive'[q]
      /\ \A q \in Chain(c) : alive'[q]
      /\ announced' \subseteq objects'
      /\ objects' \ objects \subseteq Chain(c)
  <2>1. CASE c \in objects
    <3>1. alive' = Refreshed(c) /\ UNCHANGED << objects, linked, changed, announced >>
      BY <2>1 DEF UpdateController
    <3> QED
      BY <2>1, <3>1, <1>2, RefreshKeepsTree
         DEF CrawlerTypeOK, FactoryTypeOK, AnnouncedAreRegistered
  <2>2. CASE c \notin objects
    <3>1. AddObject(c) /\ announced' = announced \cup Missing(c)
      BY <2>2 DEF UpdateController
    <3>2. Missing(c) \subseteq Chain(c)
      BY DEF Missing
    <3>3. /\ TreeInv'
          /\ objects' = objects \cup Missing(c)
          /\ objects' \subseteq Path /\ linked' \subseteq Path
          /\ alive' \in [Node -> BOOLEAN] /\ changed' \in BOOLEAN
          /\ \A q \in Node : alive[q] => alive'[q]
          /\ \A q \in Chain(c) : alive'[q]
          /\ c \in objects'
      BY <2>2, <3>1, <1>2, <1>3, AddKeepsTree
    <3> QED
      BY <3>1, <3>2, <3>3, <1>2 DEF AnnouncedAreRegistered
  <2> QED
    BY <2>1, <2>2
<1>5. WaitersConsistent' /\ WaiterTypeOK'
  <2>1. CASE UNCHANGED << waiters, waitShown, errors >>
    BY <2>1, <1>2, <1>4 DEF WaitersConsistent, Waiting, WaiterTypeOK,
                            CrawlerTypeOK, FactoryTypeOK
  <2>2. CASE StartWait(c)
    BY <2>2, <1>2, <1>3, <1>4, StartKeepsWaiters
  <2>3. CASE StopWait(c)
    <3>1. Waiting \ {c} \subseteq objects'
      BY <1>2, <1>4 DEF WaitersConsistent
    <3> QED
      BY <2>3, <3>1, <1>2, DropKeepsWaiters DEF StopWait
  <2> QED
    BY <2>1, <2>2, <2>3 DEF UpdateController
<1>6. CrawlerTypeOK'
  <2>1. info' \in [Controllers -> {"none", "down", "up"}]
    BY <1>1, <1>2, <1>3 DEF CrawlerTypeOK, Links
  <2>2. FactoryTypeOK'
    BY <1>1, <1>2, <1>4, <1>5 DEF CrawlerTypeOK, FactoryTypeOK, WaiterTypeOK
  <2> QED
    BY <1>1, <1>2, <1>3, <1>4, <2>1, <2>2 DEF CrawlerTypeOK
<1>7. \A q \in objects' \cap seen' : alive'[q]
  BY <1>1, <1>2, <1>3, <1>4, ChainFacts, FactoryAssumption
     DEF WalkInv, CrawlerTypeOK, FactoryTypeOK, Path, Node
<1>8. WalkInv'
  BY <1>1, <1>2, <1>7 DEF WalkInv
<1> QED
  BY <1>4, <1>5, <1>6, <1>8 DEF IInv, AnnouncedAreRegistered

\* The rest of the crawler thread.
LEMMA CrawlerKeeps ==
  ASSUME IInv, CrawlerStep
  PROVE  IInv'
<1>0. CrawlerTypeOK /\ TreeInv /\ WaitersConsistent /\ AnnouncedAreRegistered /\ WalkInv
  BY DEF IInv
<1> USE DEF guiVars, worldVars, factoryVars
<1>1. CASE StartRound
  <2> USE <1>1 DEF StartRound
  <2>1. CrawlerTypeOK'
    BY <1>0, CrawlerAssumption DEF CrawlerTypeOK, FactoryTypeOK
  <2>2. WalkInv'
    BY <1>0 DEF WalkInv
  <2> QED
    BY <2>1, <2>2, Untouched DEF IInv
<1>2. CASE Tick
  <2> USE <1>2 DEF Tick
  <2>1. CrawlerTypeOK'
    BY <1>0, CrawlerAssumption DEF CrawlerTypeOK, FactoryTypeOK
  <2>2. WalkInv'
    BY <1>0 DEF WalkInv
  <2> QED
    BY <2>1, <2>2, Untouched DEF IInv
<1>3. CASE Age
  <2>1. /\ UpdateWait(ticks)
        /\ pc = "age" /\ pc' \in {"begin", "end"}
        /\ UNCHANGED << objects, linked, alive, changed, needWait, ticks, todo,
                        checked, inited, guiVars, worldVars, info, seen >>
    BY <1>3 DEF Age
  <2>2. WaitersConsistent' /\ WaiterTypeOK'
    BY <2>1, <1>0, AgeKeepsWaiters
  <2>3. CrawlerTypeOK'
    BY <2>1, <2>2, <1>0 DEF CrawlerTypeOK, FactoryTypeOK, WaiterTypeOK
  <2>4. WalkInv'
    BY <2>1, <1>0 DEF WalkInv
  <2>5. TreeInv' /\ AnnouncedAreRegistered'
    BY <2>1, <1>0 DEF TreeInv, TreeIntact, AliveUpward, Chain, AnnouncedAreRegistered
  <2> QED
    BY <2>2, <2>3, <2>4, <2>5 DEF IInv
<1>4. CASE BeginUpdate
  <2>0. /\ pc = "begin"
        /\ UNCHANGED << objects, linked, waiters, waitShown, errors, ticks,
                        checked, inited, guiVars, worldVars, info >>
    BY <1>4 DEF BeginUpdate
  <2>1. CASE needWait = 0
    <3>1. /\ needWait' = 1 /\ changed' = FALSE /\ KillAll
          /\ seen' = {} /\ todo' = Leaves \cup Controllers /\ pc' = "walk"
      BY <1>4, <2>1 DEF BeginUpdate
    <3>2. TreeInv' /\ alive' \in [Node -> BOOLEAN]
      BY <2>0, <3>1, <1>0, KillKeepsTree
    <3>3. CrawlerTypeOK'
      BY <2>0, <3>1, <3>2, <1>0 DEF CrawlerTypeOK, FactoryTypeOK
    <3>4. WalkInv' /\ WaitersConsistent' /\ AnnouncedAreRegistered'
      BY <2>0, <3>1, <1>0 DEF WalkInv, WaitersConsistent, Waiting, AnnouncedAreRegistered
    <3> QED
      BY <3>2, <3>3, <3>4 DEF IInv
  <2>2. CASE needWait # 0
    <3>1. pc' = "sweep" /\ UNCHANGED << needWait, changed, alive, seen, todo >>
      BY <1>4, <2>2 DEF BeginUpdate
    <3>2. CrawlerTypeOK'
      BY <2>0, <3>1, <1>0 DEF CrawlerTypeOK, FactoryTypeOK
    <3>3. WalkInv'
      BY <2>0, <2>2, <3>1, <1>0 DEF WalkInv, CrawlerTypeOK, FactoryTypeOK
    <3> QED
      BY <2>0, <3>1, <3>2, <3>3, Untouched DEF IInv
  <2> QED
    BY <2>1, <2>2
<1>5. CASE \E p \in Leaves : VisitLeaf(p)
  BY <1>5, VisitLeafKeeps
<1>6. CASE \E c \in Controllers : CheckController(c)
  <2>1. PICK c \in Controllers : CheckController(c)
    BY <1>6
  <2>2. /\ pc = "walk" /\ todo' = todo \ {c}
        /\ \/ pc' = "info" /\ checked' = c
           \/ UNCHANGED << pc, checked >>
        /\ UNCHANGED << factoryVars, ticks, inited, guiVars, worldVars, info,
                        seen >>
    BY <2>1 DEF CheckController
  <2>3. CrawlerTypeOK'
    BY <2>2, <1>0 DEF CrawlerTypeOK, FactoryTypeOK
  <2>4. WalkInv'
    BY <2>2, <1>0 DEF WalkInv
  <2> QED
    BY <2>2, <2>3, <2>4, Untouched DEF IInv
<1>7. CASE UpdateController
  BY <1>7, UpdateControllerKeeps
<1>8. CASE EndWalk
  <2> USE <1>8 DEF EndWalk
  <2>1. CrawlerTypeOK'
    BY <1>0 DEF CrawlerTypeOK, FactoryTypeOK
  <2>2. WalkInv'
    BY <1>0 DEF WalkInv
  <2> QED
    BY <2>1, <2>2, Untouched DEF IInv
<1>9. CASE Sweep
  <2>1. /\ pc = "sweep" /\ pc' = "end"
        /\ RemoveDeadSignalled \/ UNCHANGED << objects, linked, changed, waiters,
                                         waitShown, errors, announced >>
        /\ UNCHANGED << alive, needWait, ticks, todo, checked, inited, allowed,
                        requested, waitModify, timer3, gui, refreshes,
                        present, link, info, seen >>
        /\ gui' \in {"idle", "remove"}
    BY <1>9, <1>0 DEF Sweep, CrawlerTypeOK
  <2>2. CrawlerTypeOK' /\ TreeInv' /\ WaitersConsistent' /\ AnnouncedAreRegistered'
        /\ objects' \subseteq objects
    BY <2>1, <1>0, RemovalKeeps
  <2>3. WalkInv'
    BY <2>1, <2>2, <1>0 DEF WalkInv
  <2> QED
    BY <2>2, <2>3 DEF IInv
<1>10. CASE EndRound
  <2> USE <1>10 DEF EndRound
  <2>1. CrawlerTypeOK'
    BY <1>0 DEF CrawlerTypeOK, FactoryTypeOK
  <2>2. WalkInv'
    BY <1>0 DEF WalkInv
  <2> QED
    BY <2>1, <2>2, Untouched DEF IInv
<1> QED
  BY <1>1, <1>2, <1>3, <1>4, <1>5, <1>6, <1>7, <1>8, <1>9, <1>10
     DEF CrawlerStep

\* The GUI thread and the world.
LEMMA OthersKeep ==
  ASSUME IInv, GuiStep \/ WorldStep
  PROVE  IInv'
<1>0. CrawlerTypeOK /\ TreeInv /\ WaitersConsistent /\ AnnouncedAreRegistered /\ WalkInv
  BY DEF IInv
<1> USE DEF loopVars, guiVars, worldVars, factoryVars
<1>1. CASE \/ Pause \/ Resume \/ RequestUpdate
           \/ \E wait \in BOOLEAN : SetWaitThread(wait)
  <2>1. /\ UNCHANGED << factoryVars, loopVars, announced, timer3, gui, refreshes,
                        worldVars, info, seen >>
        /\ {allowed', requested', waitModify'} \subseteq BOOLEAN
    BY <1>0, <1>1 DEF Pause, Resume, RequestUpdate, SetWaitThread, CrawlerTypeOK
  <2>2. CrawlerTypeOK'
    BY <2>1, <1>0 DEF CrawlerTypeOK, FactoryTypeOK
  <2>3. WalkInv'
    BY <2>1, <1>0 DEF WalkInv
  <2> QED
    BY <2>1, <2>2, <2>3, Untouched DEF IInv
<1>2. CASE Refresh
  <2>1. CrawlerTypeOK'
    BY <1>0, <1>2, CrawlerAssumption DEF Refresh, CrawlerTypeOK, FactoryTypeOK
  <2>2. WalkInv' /\ AnnouncedAreRegistered'
    BY <1>0, <1>2 DEF Refresh, WalkInv, AnnouncedAreRegistered
  <2>3. TreeInv' /\ WaitersConsistent'
    BY <1>0, <1>2 DEF Refresh, TreeInv, TreeIntact, AliveUpward, Chain,
                      WaitersConsistent, Waiting
  <2> QED
    BY <2>1, <2>2, <2>3 DEF IInv
<1>3. CASE RefreshKill
  <2>1. /\ KillAll /\ seen' = {} /\ timer3' = FALSE /\ gui' = "remove"
        /\ UNCHANGED << objects, linked, changed, waiters, waitShown, errors,
                        needWait, loopVars, allowed, requested, waitModify,
                        announced, refreshes, worldVars, info >>
    BY <1>3 DEF RefreshKill
  <2>2. TreeInv' /\ alive' \in [Node -> BOOLEAN]
    BY <2>1, <1>0, KillKeepsTree
  <2>3. CrawlerTypeOK'
    BY <2>1, <2>2, <1>0 DEF CrawlerTypeOK, FactoryTypeOK
  <2>4. WalkInv' /\ AnnouncedAreRegistered' /\ WaitersConsistent'
    BY <2>1, <1>0 DEF WalkInv, AnnouncedAreRegistered, WaitersConsistent, Waiting
  <2> QED
    BY <2>2, <2>3, <2>4 DEF IInv
<1>4. CASE RefreshRemove
  <2>1. /\ gui' = "idle" /\ pc' = pc
        /\ RemoveDeadSignalled \/ UNCHANGED << objects, linked, changed, waiters,
                                         waitShown, errors, announced >>
        /\ UNCHANGED << alive, needWait, ticks, todo, checked, inited, allowed,
                        requested, waitModify, timer3, refreshes, present,
                        link, info, seen >>
        /\ pc' \in {"top", "tick", "age", "begin", "walk", "info", "sweep", "end"}
    BY <1>4, <1>0 DEF RefreshRemove, CrawlerTypeOK
  <2>2. CrawlerTypeOK' /\ TreeInv' /\ WaitersConsistent' /\ AnnouncedAreRegistered'
        /\ objects' \subseteq objects
    BY <2>1, <1>0, RemovalKeeps
  <2>3. WalkInv'
    BY <2>1, <2>2, <1>0 DEF WalkInv
  <2> QED
    BY <2>2, <2>3 DEF IInv
<1>5. CASE WorldStep
  <2>1. /\ UNCHANGED << factoryVars, loopVars, guiVars, info, seen >>
        /\ present' \subseteq Leaves /\ link' \in [Controllers -> Links]
    BY <1>0, <1>5 DEF WorldStep, PlugOrUnplug, ChangeLink, CrawlerTypeOK
  <2>2. CrawlerTypeOK'
    BY <2>1, <1>0 DEF CrawlerTypeOK, FactoryTypeOK
  <2>3. WalkInv'
    BY <2>1, <1>0 DEF WalkInv
  <2> QED
    BY <2>1, <2>2, <2>3, Untouched DEF IInv
<1> QED
  BY <1>1, <1>2, <1>3, <1>4, <1>5 DEF GuiStep

\* Every step of the three keeps the inductive invariant.
LEMMA StepKeeps == IInv /\ [Next]_vars => IInv'
<1> SUFFICES ASSUME IInv, [Next]_vars PROVE IInv'
  OBVIOUS
<1>1. CASE UNCHANGED vars
  <2>1. CrawlerTypeOK' /\ WalkInv'
    BY <1>1 DEF IInv, CrawlerTypeOK, FactoryTypeOK, WalkInv, vars, factoryVars,
                loopVars, guiVars, worldVars
  <2> QED
    BY <1>1, <2>1, Untouched DEF IInv, vars, factoryVars, guiVars
<1> QED
  BY <1>1, CrawlerKeeps, OthersKeep DEF Next

\* The inductive invariant holds throughout: the theorems below are its parts.
THEOREM Invariant == Spec => []IInv
BY InitIInv, StepKeeps, PTL DEF Spec

\* For every forest of paths: however kills, visits and removals interleave,
\* the types hold, ...
THEOREM TypeCorrect == Spec => []CrawlerTypeOK
BY Invariant, PTL DEF IInv

\* ... no channel outlives its device and none is out of a kill's reach,
THEOREM TreeStaysIntact == Spec => []TreeIntact
BY Invariant, PTL DEF IInv, TreeInv

\* ... a live object has live ancestors,
THEOREM LifeReachesUp == Spec => []AliveUpward
BY Invariant, PTL DEF IInv, TreeInv

\* ... indicator, errors and waits agree,
THEOREM WaitersAgree == Spec => []WaitersConsistent
BY Invariant, PTL DEF IInv

\* ... and nothing that is gone stays announced.
THEOREM NothingGoneIsAnnounced == Spec => []AnnouncedAreRegistered
BY Invariant, PTL DEF IInv

----------------------------------------------------------------------------
\* What a step may do to the registered objects: grow, or drop the dead ones
\* while needWait is free.
LEMMA ObjectsStep ==
  ASSUME IInv, [Next]_vars
  PROVE  \/ objects \subseteq objects'
         \/ objects' = {p \in objects : alive[p]} /\ needWait = 0
<1> USE DEF factoryVars, loopVars, guiVars, worldVars
<1>1. CASE UNCHANGED vars
  BY <1>1 DEF vars
<1>2. CASE \E p \in Leaves : VisitLeaf(p)
  BY <1>2 DEF VisitLeaf, AddObject
<1>3. CASE UpdateController
  BY <1>3 DEF UpdateController, AddObject
<1>4. CASE Sweep \/ RefreshRemove
  <2>1. (RemoveDeadSignalled /\ needWait = 0) \/ UNCHANGED objects
    BY <1>4 DEF Sweep, RefreshRemove
  <2> QED
    BY <2>1 DEF RemoveDeadSignalled, RemoveDead
<1>5. CASE StartRound \/ Tick \/ Age \/ BeginUpdate \/ EndWalk \/ EndRound
  BY <1>5 DEF StartRound, Tick, Age, BeginUpdate, EndWalk, EndRound
<1>6. CASE \E c \in Controllers : CheckController(c)
  BY <1>6 DEF CheckController
<1>7. CASE Pause \/ Resume \/ RequestUpdate \/ Refresh \/ RefreshKill
  BY <1>7 DEF Pause, Resume, RequestUpdate, Refresh, RefreshKill
<1>8. CASE \E wait \in BOOLEAN : SetWaitThread(wait)
  BY <1>8 DEF SetWaitThread
<1>9. CASE WorldStep
  BY <1>9 DEF WorldStep, PlugOrUnplug, ChangeLink
<1> QED
  BY <1>1, <1>2, <1>3, <1>4, <1>5, <1>6, <1>7, <1>8, <1>9
     DEF Next, CrawlerStep, GuiStep

\* What was found since the last kill survives every removal, also one that
\* the refresh timer starts in the middle of an update.
THEOREM FoundObjectsSurvive == Spec => FoundSurvives
<1>1. IInv /\ [Next]_vars => [(objects \ objects') \cap seen = {}]_vars
  <2> SUFFICES ASSUME IInv, [Next]_vars, NEW p \in objects, p \in seen
               PROVE  p \in objects'
    OBVIOUS
  <2>1. alive[p]
    BY DEF IInv, WalkInv
  <2> QED
    BY <2>1, ObjectsStep
<1> QED
  BY <1>1, Invariant, PTL DEF Spec, FoundSurvives

\* No object is removed while an update creates objects.
THEOREM RemovalWaits == Spec => RemovedOutsideWalk
<1>1. IInv /\ [Next]_vars
        => [objects \ objects' # {} => pc \notin {"walk", "info"}]_vars
  BY ObjectsStep DEF IInv, WalkInv
<1> QED
  BY <1>1, Invariant, PTL DEF Spec, RemovedOutsideWalk

----------------------------------------------------------------------------
\* The crawler implements the registry.

\* Whatever a step does to the registry, the indicator agrees with the waits
\* after it; so it is enough that the rest of the step is one of the registry.
LEMMA RegistryStep ==
  ASSUME IInv', \/ \E p \in Path : Promised!Find(p)
                \/ \E S \in SUBSET Path : Promised!Lose(S) \/ Promised!GiveUp(S)
  PROVE  Promised!Next
<1>1. waitShown' = (Waiting' # {})
  BY DEF IInv, WaitersConsistent
<1> QED
  BY <1>1 DEF Promised!Next, Promised!Path, Path

\* What is added for p is what p lacks of its chain.
LEMMA AddIsFind ==
  ASSUME IInv, NEW p \in Path,
         p \in objects => objects' = objects,
         p \notin objects => AddObject(p)
  PROVE  objects' = objects \cup {p} \cup (Above[p] \ {0})
<1>1. TreeInv /\ CrawlerTypeOK
  BY DEF IInv
<1>2. CASE p \in objects
  BY <1>1, <1>2 DEF TreeInv, TreeIntact, Chain, Root
<1>3. CASE p \notin objects
  <2>1. /\ objects' = objects \cup Missing(p)
        /\ Missing(p) \subseteq Chain(p)
        /\ Chain(p) \subseteq objects \cup Missing(p)
    BY <1>1, <1>3, MissingFacts DEF AddObject, TreeInv
  <2> QED
    BY <2>1 DEF Chain, Root
<1> QED
  BY <1>2, <1>3

\* A visit of a leaf is a find that leaves the waits alone, or nothing.
LEMMA VisitIsFind ==
  ASSUME IInv, IInv', NEW p \in Leaves, VisitLeaf(p)
  PROVE  [Promised!Next]_(Promised!vars)
<1>1. p \in Path
  BY CrawlerAssumption
<1>2. UNCHANGED << waiters, waitShown, errors >>
  BY DEF VisitLeaf
<1>3. Waiting' = Waiting
  BY <1>2 DEF Waiting
<1>4. CASE p \notin present
  <2>1. UNCHANGED objects
    BY <1>4 DEF VisitLeaf
  <2> QED
    BY <1>2, <1>3, <2>1 DEF Promised!vars
<1>5. CASE p \in present
  <2>1. /\ p \in objects => objects' = objects
        /\ p \notin objects => AddObject(p)
    BY <1>5 DEF VisitLeaf
  <2>2. Promised!Find(p)
    BY <1>1, <1>2, <1>3, <2>1, AddIsFind DEF Promised!Find
  <2> QED
    BY <1>1, <2>2, RegistryStep
<1> QED
  BY <1>4, <1>5

\* An update of a controller is a find that may begin a wait or end it.
LEMMA UpdateIsFind ==
  ASSUME IInv, IInv', UpdateController
  PROVE  [Promised!Next]_(Promised!vars)
<1> DEFINE c == checked
<1>1. WaitersConsistent /\ CrawlerTypeOK
  BY DEF IInv
<1>2. c \in Path
  BY CrawlerAssumption DEF IInv, WalkInv, UpdateController
<1>3. objects' = objects \cup {c} \cup (Above[c] \ {0})
  <2>1. /\ c \in objects => objects' = objects
        /\ c \notin objects => AddObject(c)
    BY DEF UpdateController
  <2> QED
    BY <1>2, <2>1, AddIsFind
<1>4. \/ Waiting' = Waiting /\ errors' = errors
      \/ Waiting' = Waiting \cup {c} /\ errors' = errors
      \/ Waiting' = Waiting \ {c} /\ errors' = errors \ {c}
  <2>1. CASE UNCHANGED << waiters, waitShown, errors >>
    BY <2>1 DEF Waiting
  <2>2. CASE StartWait(c)
    <3>1. /\ waiters \in [Path -> {NotWaiting, Expired} \cup 0..(WaitTicks - 1)]
          /\ waiters' = [waiters EXCEPT ![c] = IF @ = NotWaiting THEN 0 ELSE @]
          /\ errors' = errors
      BY <2>2, <1>1 DEF StartWait, CrawlerTypeOK, FactoryTypeOK
    <3>2. /\ waiters'[c] # NotWaiting
          /\ \A p \in Path \ {c} : waiters'[p] = waiters[p]
      BY <3>1, <1>2 DEF NotWaiting
    <3>3. Waiting' = Waiting \cup {c}
      BY <3>2, <1>2 DEF Waiting
    <3> QED
      BY <3>1, <3>3
  <2>3. CASE StopWait(c)
    <3>1. /\ waiters' = [p \in Path |-> IF p = c THEN NotWaiting ELSE waiters[p]]
          /\ errors' = errors \ {p \in {c} : waiters[p] = Expired /\ p \in objects}
      BY <2>3 DEF StopWait, DropWaiters
    <3>2. Waiting' = Waiting \ {c}
      BY <3>1 DEF Waiting
    <3>3. errors' = errors \ {c}
      BY <3>1, <1>1, <1>2 DEF WaitersConsistent, Waiting, NotWaiting, Expired
    <3> QED
      BY <3>2, <3>3
  <2> QED
    BY <2>1, <2>2, <2>3 DEF UpdateController
<1>5. Promised!Find(c)
  BY <1>3, <1>4 DEF Promised!Find
<1> QED
  BY <1>2, <1>5, RegistryStep

\* A removal that needWait lets through loses the dead objects and their waits.
LEMMA RemovalIsLose ==
  ASSUME IInv, IInv', RemoveDeadSignalled
  PROVE  Promised!Next
<1> DEFINE dead == {p \in objects : ~alive[p]}
<1>1. WaitersConsistent /\ CrawlerTypeOK /\ TreeInv
  BY DEF IInv
<1>2. dead \in SUBSET Path
  BY <1>1 DEF CrawlerTypeOK, FactoryTypeOK
<1>3. /\ objects' = objects \ dead
      /\ waiters' = [p \in Path |-> IF p \in dead THEN NotWaiting ELSE waiters[p]]
      /\ errors' = errors \ {p \in dead : waiters[p] = Expired /\ p \in objects}
  BY DEF RemoveDeadSignalled, RemoveDead, DropWaiters
<1>4. Waiting' = Waiting \ dead
  BY <1>3 DEF Waiting
<1>5. errors' = errors \ dead
  BY <1>1, <1>3 DEF WaitersConsistent
<1>6. \A p \in objects : Above[p] \cap dead # {} => p \in dead
  BY <1>1 DEF TreeInv, AliveUpward
<1>7. Promised!Lose(dead)
  BY <1>3, <1>4, <1>5, <1>6 DEF Promised!Lose
<1> QED
  BY <1>2, <1>7, RegistryStep

\* Aging gives up the waits that are ripe.
LEMMA AgingIsGiveUp ==
  ASSUME IInv, IInv', Age
  PROVE  Promised!Next
<1> DEFINE ripe == {p \in Path : waiters[p] >= 0
                                   /\ waiters[p] + ticks >= WaitTicks}
<1>1. WaitersConsistent /\ CrawlerTypeOK
  BY DEF IInv
<1>2. ticks \in Nat /\ WaitTicks \in Nat \ {0}
  BY <1>1, FactoryAssumption, CrawlerAssumption DEF CrawlerTypeOK
<1>3. /\ waiters' = [p \in Path |->
                       IF p \in ripe THEN Expired
                       ELSE IF waiters[p] >= 0 THEN waiters[p] + ticks
                       ELSE waiters[p]]
      /\ errors' = errors \cup (ripe \cap objects)
      /\ UNCHANGED objects
  BY DEF Age, UpdateWait
<1>4. waiters \in [Path -> {NotWaiting, Expired} \cup 0..(WaitTicks - 1)]
  BY <1>1 DEF CrawlerTypeOK, FactoryTypeOK
<1>5. \A p \in Path : waiters'[p] # NotWaiting <=> waiters[p] # NotWaiting
  BY <1>2, <1>3, <1>4 DEF NotWaiting, Expired
<1>6. Waiting' = Waiting
  BY <1>5 DEF Waiting
<1>7. ripe \subseteq Waiting /\ ripe \in SUBSET Path
  BY <1>4 DEF Waiting, NotWaiting, Expired
<1>8. errors' = errors \cup ripe
  BY <1>1, <1>3, <1>7 DEF WaitersConsistent
<1>9. Promised!GiveUp(ripe)
  BY <1>3, <1>6, <1>7, <1>8 DEF Promised!GiveUp
<1> QED
  BY <1>7, <1>9, RegistryStep

\* For every forest of paths, the crawler, the refresh and the waits behave as
\* the registry the dialogs rely on: a device is never lost without its
\* channels, a wait never outlives its object, and the indicator agrees.
THEOREM CrawlerImplementsRegistry == Spec => ImplementsRegistry
<1>1. Init => Promised!Init
  <2> SUFFICES ASSUME Init PROVE Promised!Init
    OBVIOUS
  <2>1. Waiting = {}
    BY DEF Init, FactoryInit, Waiting
  <2> QED
    BY <2>1 DEF Init, FactoryInit, Promised!Init
<1>2. IInv /\ IInv' /\ [Next]_vars => [Promised!Next]_(Promised!vars)
  <2> SUFFICES ASSUME IInv, IInv', [Next]_vars
               PROVE  [Promised!Next]_(Promised!vars)
    OBVIOUS
  <2>1. CASE \E p \in Leaves : VisitLeaf(p)
    BY <2>1, VisitIsFind
  <2>2. CASE UpdateController
    BY <2>2, UpdateIsFind
  <2>3. CASE Age
    BY <2>3, AgingIsGiveUp
  <2>4. CASE UNCHANGED << objects, waiters, waitShown, errors >>
    BY <2>4 DEF Promised!vars, Waiting
  <2>5. CASE Sweep \/ RefreshRemove
    <3>1. CASE RemoveDeadSignalled
      BY <3>1, RemovalIsLose
    <3> QED
      BY <2>4, <2>5, <3>1 DEF Sweep, RefreshRemove
  <2> USE DEF factoryVars
  <2>6. CASE StartRound \/ Tick \/ BeginUpdate \/ EndWalk \/ EndRound
    BY <2>4, <2>6 DEF StartRound, Tick, BeginUpdate, EndWalk, EndRound
  <2>7. CASE \E c \in Controllers : CheckController(c)
    BY <2>4, <2>7 DEF CheckController
  <2>8. CASE Pause \/ Resume \/ RequestUpdate \/ Refresh \/ RefreshKill
    BY <2>4, <2>8 DEF Pause, Resume, RequestUpdate, Refresh, RefreshKill
  <2>9. CASE (\E wait \in BOOLEAN : SetWaitThread(wait)) \/ WorldStep
    BY <2>4, <2>9 DEF SetWaitThread, WorldStep, PlugOrUnplug, ChangeLink
  <2>10. CASE UNCHANGED vars
    BY <2>4, <2>10 DEF vars
  <2> QED
    BY <2>1, <2>2, <2>3, <2>5, <2>6, <2>7, <2>8, <2>9, <2>10
       DEF Next, CrawlerStep, GuiStep
<1> QED
  BY <1>1, <1>2, Invariant, PTL DEF Spec, ImplementsRegistry, Promised!Spec
=============================================================================
