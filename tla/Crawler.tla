------------------------------ MODULE Crawler ------------------------------
(***************************************************************************)
(* The crawler thread (crawler::update_thread) over the factory, and what  *)
(* the GUI thread does to both: pause and resume, update requests, the     *)
(* hold while a modified configuration is saved, and the refresh of F5,    *)
(* whose timer kills and removes every object.                             *)
(*                                                                         *)
(* A call of a factory method is one step here; module RefreshRace looks   *)
(* inside the calls.  The world outside is `present' (the channels of the  *)
(* server and the drives that can be seen) and `link' (the shared memory   *)
(* in which MODBUSZETLAB publishes its controllers).                       *)
(***************************************************************************)
EXTENDS Factory

CONSTANTS
  Leaves,       \* paths std::crawler::update looks for
  Controllers,  \* Ethernet controllers _7xxx::crawler::update looks for
  UpdateTicks,  \* update_period_ms in keep-alive ticks
  MaxRefresh    \* bound on the number of times F5 is pressed

ASSUME CrawlerAssumption ==
  /\ Leaves \subseteq Path
  /\ Controllers \subseteq Path
  /\ Leaves \cap Controllers = {}
  /\ \A c \in Controllers : Parent[c] = Root
  /\ UpdateTicks \in Nat \ {0}
  /\ MaxRefresh \in Nat

VARIABLES
  pc,            \* where the crawler thread is in update_thread and update
  ticks,         \* the loop counter of update_thread
  todo,          \* paths the update in progress has still to look for
  checked,       \* controller that passed check_info, not yet updated
  allowed,       \* _allowed
  inited,        \* _inited
  requested,     \* _update_requested
  waitModify,    \* WaitModify
  present,       \* leaves the server or the drives show
  link,          \* state of a controller in shared memory
  info,          \* _info of the controller object, as last copied
  announced,     \* objects whose add signal was given and that neither their
                 \* removal nor a refresh has wiped from the views since
  timer3,        \* timer 3 of the dialog is armed
  gui,           \* "idle", or "remove" between killAll and removeDead
  refreshes,     \* number of refreshes so far
  seen           \* history: objects marked alive since the last kill

guiVars == << allowed, requested, waitModify, announced, timer3, gui,
              refreshes >>
worldVars == << present, link >>
loopVars == << pc, ticks, todo, checked, inited >>
vars == << factoryVars, loopVars, guiVars, worldVars, info, seen >>

None == 0    \* no controller

Links == {"down", "up"}   \* "up": connected or accepted

CrawlerTypeOK ==
  /\ FactoryTypeOK
  /\ pc \in {"top", "tick", "age", "begin", "walk", "info", "sweep", "end"}
  /\ ticks \in 0..UpdateTicks
  /\ todo \subseteq Leaves \cup Controllers
  /\ checked \in Controllers \cup {None}
  /\ allowed \in BOOLEAN
  /\ inited \in BOOLEAN
  /\ requested \in BOOLEAN
  /\ waitModify \in BOOLEAN
  /\ present \subseteq Leaves
  /\ link \in [Controllers -> Links]
  /\ info \in [Controllers -> {"none", "down", "up"}]
  /\ announced \subseteq Path
  /\ timer3 \in BOOLEAN
  /\ gui \in {"idle", "remove"}
  /\ refreshes \in 0..MaxRefresh
  /\ seen \subseteq Path

Init ==
  /\ FactoryInit
  /\ pc = "top" /\ ticks = 0 /\ todo = {} /\ checked = None
  /\ allowed = TRUE /\ inited = FALSE
  /\ requested = FALSE /\ waitModify = FALSE
  /\ present \in SUBSET Leaves
  /\ link \in [Controllers -> Links]
  /\ info = [c \in Controllers |-> "none"]
  /\ announced = {} /\ timer3 = FALSE /\ gui = "idle" /\ refreshes = 0
  /\ seen = {}

----------------------------------------------------------------------------
\* The crawler thread.

\* One round starts unless a configuration is being saved or read.
StartRound ==
  /\ pc = "top" /\ ~waitModify
  /\ pc' = "tick" /\ ticks' = 0
  /\ UNCHANGED << factoryVars, todo, checked, inited, guiVars, worldVars,
                  info, seen >>

\* Mutant: the loop runs once too often.
TickOnce ==
  /\ pc = "tick"
  /\ IF ticks <= UpdateTicks /\ ~requested
     THEN pc' = pc /\ ticks' = ticks + 1
     ELSE pc' = "age" /\ UNCHANGED ticks
  /\ UNCHANGED << factoryVars, todo, checked, inited, guiVars, worldVars,
                  info, seen >>

\* A keep-alive tick; a request ends the wait, and its tick is not counted.
Tick ==
  /\ pc = "tick"
  /\ IF ticks < UpdateTicks
     THEN IF requested
          THEN pc' = "age" /\ UNCHANGED ticks
          ELSE pc' = pc /\ ticks' = ticks + 1
     ELSE pc' = "age" /\ UNCHANGED ticks
  /\ UNCHANGED << factoryVars, todo, checked, inited, guiVars, worldVars,
                  info, seen >>

\* factory::update_wait, then update() if it is allowed.
Age ==
  /\ pc = "age"
  /\ UpdateWait(ticks)
  /\ pc' = IF allowed THEN "begin" ELSE "end"
  /\ UNCHANGED << objects, linked, alive, changed, needWait, ticks, todo,
                  checked, inited, guiVars, worldVars, info, seen >>

\* Mutant: the kill is left out.
BeginWithoutKill ==
  /\ pc = "begin" /\ needWait = 0
  /\ needWait' = 1 /\ changed' = FALSE
  /\ seen' = {} /\ todo' = Leaves \cup Controllers /\ pc' = "walk"
  /\ UNCHANGED << objects, linked, alive, waiters, waitShown, errors, ticks,
                  checked, inited, guiVars, worldVars, info >>

\* The head of update(): everything is dead until it is found again.
BeginUpdate ==
  /\ pc = "begin"
  /\ IF needWait = 0
     THEN /\ needWait' = 1 /\ changed' = FALSE
          /\ KillAll
          /\ seen' = {}
          /\ todo' = Leaves \cup Controllers
          /\ pc' = "walk"
     ELSE /\ pc' = "sweep"
          /\ UNCHANGED << needWait, changed, alive, seen, todo >>
  /\ UNCHANGED << objects, linked, waiters, waitShown, errors, ticks, checked,
                  inited, guiVars, worldVars, info >>

\* std::crawler::check_n_add and its siblings, for a leaf that is there.
\* The controllers come first: _7xxx::crawler::update runs before
\* std::crawler::update.
VisitLeaf(p) ==
  /\ pc = "walk" /\ p \in todo \cap Leaves /\ todo \cap Controllers = {}
  /\ todo' = todo \ {p}
  /\ IF p \notin present
     THEN UNCHANGED << objects, linked, alive, changed, info, announced, seen >>
     ELSE IF p \in objects
     THEN /\ alive' = Refreshed(p)
          /\ seen' = seen \cup (Climb(p, linked) \ {Root})
          /\ UNCHANGED << objects, linked, changed, info, announced >>
     ELSE /\ AddObject(p)
          /\ info' = [c \in Controllers |->
                        IF c \in Missing(p) THEN "none" ELSE info[c]]
          /\ announced' = announced \cup Missing(p)
          /\ seen' = seen \cup Chain(p)
  /\ UNCHANGED << waiters, waitShown, errors, needWait, pc, ticks, checked,
                  inited, allowed, requested, waitModify, timer3, gui,
                  refreshes, worldVars >>

\* _7xxx::crawler::check_info: only connected controllers are shown.
CheckController(c) ==
  /\ pc = "walk" /\ c \in todo \cap Controllers
  /\ todo' = todo \ {c}
  /\ IF link[c] = "up" THEN pc' = "info" /\ checked' = c
                       ELSE UNCHANGED << pc, checked >>
  /\ UNCHANGED << factoryVars, ticks, inited, guiVars, worldVars, info, seen >>

\* _7xxx::crawler::check_n_add: shared memory is read a second time.
UpdateController ==
  LET c   == checked
      now == link[c]
      old == IF c \in objects THEN info[c] ELSE "none"
  IN  /\ pc = "info" /\ pc' = "walk" /\ checked' = None
      /\ IF c \in objects
         THEN /\ alive' = Refreshed(c)
              /\ UNCHANGED << objects, linked, changed, announced >>
         ELSE /\ AddObject(c)
              /\ announced' = announced \cup Missing(c)
      /\ seen' = seen \cup {c}
      /\ info' = [info EXCEPT ![c] = now]
      /\ IF now = old THEN UNCHANGED << waiters, waitShown, errors >>
         ELSE IF now = "down" THEN StartWait(c) ELSE StopWait(c)
      /\ UNCHANGED << needWait, ticks, todo, inited, allowed, requested,
                      waitModify, timer3, gui, refreshes, worldVars >>

\* Mutant: needWait is not released.
EndWalkHolding ==
  /\ pc = "walk" /\ todo = {} /\ pc' = "sweep"
  /\ UNCHANGED << factoryVars, ticks, todo, checked, inited, guiVars, worldVars,
                  info, seen >>

\* update() has looked everywhere.
EndWalk ==
  /\ pc = "walk" /\ todo = {}
  /\ pc' = "sweep" /\ needWait' = 0
  /\ UNCHANGED << objects, linked, alive, changed, waiters, waitShown, errors,
                  ticks, todo, checked, inited, guiVars, worldVars, info,
                  seen >>

\* Mutant: removed objects are not signalled.
RemoveDeadSilently == RemoveDead /\ UNCHANGED announced

\* factory::removeDead signals each removed object, and its rows go.
RemoveDeadSignalled ==
  /\ RemoveDead
  /\ announced' = announced \ {p \in objects : ~alive[p]}

\* The tail of update().
Sweep ==
  /\ pc = "sweep" /\ pc' = "end"
  /\ IF needWait = 0 THEN RemoveDeadSignalled
     ELSE UNCHANGED << objects, linked, changed, waiters, waitShown, errors,
                       announced >>
  /\ UNCHANGED << alive, needWait, ticks, todo, checked, inited, allowed,
                  requested, waitModify, timer3, gui, refreshes, worldVars,
                  info, seen >>

\* A request that came while update() ran is forgotten here.
EndRound ==
  /\ pc = "end" /\ pc' = "top"
  /\ requested' = FALSE /\ inited' = TRUE
  /\ UNCHANGED << factoryVars, ticks, todo, checked, allowed, waitModify,
                  announced, timer3, gui, refreshes, worldVars, info, seen >>

CrawlerStep ==
  \/ StartRound \/ Tick \/ Age \/ BeginUpdate
  \/ \E p \in Leaves : VisitLeaf(p)
  \/ \E c \in Controllers : CheckController(c)
  \/ UpdateController \/ EndWalk \/ Sweep \/ EndRound

----------------------------------------------------------------------------
\* The GUI thread.  Between killAll and removeDead of timer 3 it does
\* nothing else.

Pause ==
  /\ gui = "idle" /\ allowed /\ allowed' = FALSE
  /\ UNCHANGED << factoryVars, loopVars, requested, waitModify, announced,
                  timer3, gui, refreshes, worldVars, info, seen >>

Resume ==
  /\ gui = "idle" /\ ~allowed /\ allowed' = TRUE
  /\ UNCHANGED << factoryVars, loopVars, requested, waitModify, announced,
                  timer3, gui, refreshes, worldVars, info, seen >>

\* The user connects or accepts a controller.
RequestUpdate ==
  /\ gui = "idle" /\ ~requested /\ requested' = TRUE
  /\ UNCHANGED << factoryVars, loopVars, allowed, waitModify, announced,
                  timer3, gui, refreshes, worldVars, info, seen >>

\* OnServerModify and its timer 1.
SetWaitThread(wait) ==
  /\ gui = "idle" /\ waitModify # wait /\ waitModify' = wait
  /\ UNCHANGED << factoryVars, loopVars, allowed, requested, announced,
                  timer3, gui, refreshes, worldVars, info, seen >>

\* F5: the views are emptied now, the objects a quarter of a second later.
Refresh ==
  /\ gui = "idle" /\ refreshes < MaxRefresh
  /\ refreshes' = refreshes + 1
  /\ announced' = {} /\ timer3' = TRUE
  /\ UNCHANGED << factoryVars, loopVars, allowed, requested, waitModify, gui,
                  worldVars, info, seen >>

RefreshKill ==
  /\ gui = "idle" /\ timer3
  /\ timer3' = FALSE /\ gui' = "remove"
  /\ KillAll
  /\ seen' = {}
  /\ UNCHANGED << objects, linked, changed, waiters, waitShown, errors,
                  needWait, loopVars, allowed, requested, waitModify,
                  announced, refreshes, worldVars, info >>

RefreshRemove ==
  /\ gui = "remove" /\ gui' = "idle"
  /\ IF needWait = 0 THEN RemoveDeadSignalled
     ELSE UNCHANGED << objects, linked, changed, waiters, waitShown, errors,
                       announced >>
  /\ UNCHANGED << alive, needWait, loopVars, allowed, requested, waitModify,
                  timer3, refreshes, worldVars, info, seen >>

GuiStep ==
  \/ Pause \/ Resume \/ RequestUpdate
  \/ \E wait \in BOOLEAN : SetWaitThread(wait)
  \/ Refresh \/ RefreshKill \/ RefreshRemove

----------------------------------------------------------------------------
\* The world: channels come and go, controllers change state.

PlugOrUnplug(p) ==
  /\ present' = IF p \in present THEN present \ {p} ELSE present \cup {p}
  /\ UNCHANGED << factoryVars, loopVars, guiVars, link, info, seen >>

ChangeLink(c, state) ==
  /\ link[c] # state
  /\ link' = [link EXCEPT ![c] = state]
  /\ UNCHANGED << factoryVars, loopVars, guiVars, present, info, seen >>

WorldStep ==
  \/ \E p \in Leaves : PlugOrUnplug(p)
  \/ \E c \in Controllers, state \in Links : ChangeLink(c, state)

Next == CrawlerStep \/ GuiStep \/ WorldStep

Spec == Init /\ [][Next]_vars

\* The thread runs while the program does; a timer that is armed fires and
\* its handler ends; dialogs and saves that hold the crawler end only in the
\* assumptions of the properties.
Fairness ==
  /\ WF_vars(CrawlerStep)
  /\ WF_vars(RefreshKill)
  /\ WF_vars(RefreshRemove)

FairSpec == Spec /\ Fairness
----------------------------------------------------------------------------
\* Properties.

\* Every registered object hangs in the tree below registered ancestors, so a
\* kill from the root reaches it and no channel outlives its device
\* (factory::add, object::removeThis).
TreeIntact ==
  /\ linked = objects
  /\ \A p \in objects : Chain(p) \subseteq objects

\* A live object has live ancestors, whatever the order of kills and visits
\* (object::setAlive): removeDead never takes a device from under a channel
\* that was just found.
AliveUpward == \A p \in objects : alive[p] => \A q \in Above[p] : alive[q]

\* The "connecting" indicator is on exactly while something is waited for,
\* only registered objects are waited for, and ZETLAB shows an error exactly
\* for the waits that ran out (start_wait, stop_wait, update_wait, removeDead).
WaitersConsistent ==
  /\ waitShown = (Waiting # {})
  /\ Waiting \subseteq objects
  /\ errors = {p \in Path : waiters[p] = Expired}

\* What the views were told of is registered: every removal reaches them,
\* also one that meets a refresh (factory::removeDead, onRemoveData).
AnnouncedAreRegistered == announced \subseteq objects

\* An object found since the last kill is not removed, neither by the crawler
\* nor by the refresh timer that meets it half way through an update.
FoundSurvives == [][(objects \ objects') \cap seen = {}]_vars

\* The registry as the rest of the program knows it.
Promised == INSTANCE Registry WITH
  known <- objects, waited <- Waiting, indicator <- waitShown, failed <- errors

\* The crawler and the refresh timer together implement the registry that
\* the dialogs rely on: nothing is lost without its channels, no wait survives
\* its object, and the indicator never disagrees with the waits.
ImplementsRegistry == Promised!Spec

\* Objects are removed only while no update is creating them: needWait is
\* honoured by both callers of removeDead.
RemovedOutsideWalk ==
  [][objects \ objects' # {} => pc \notin {"walk", "info"}]_vars

\* Nothing holds the crawler.
Running == allowed /\ ~waitModify

\* What stays plugged in is registered for good once nothing holds the crawler
\* (crawler::update).
FoundEventually ==
  \A p \in Leaves : <>[](p \in present /\ Running) => <>[](p \in objects)

\* What stays unplugged leaves for good once nothing holds the crawler
\* (factory::removeDead).
LostEventually ==
  \A p \in Leaves : <>[](p \notin present /\ Running) => <>[](p \notin objects)

\* A wait ends or runs out, unless saves hold the thread or requests cut
\* every round short before its first tick is counted.
WaitResolved ==
  <>[](~waitModify /\ ~requested) =>
    \A c \in Controllers : waiters[c] >= 0 ~> waiters[c] < 0

=============================================================================
