------------------------------ MODULE Blinker ------------------------------
(***************************************************************************)
(* The lamps of a module, by which the user finds it: a thread takes the   *)
(* module from the server, notes which of its inputs are on, supplied with *)
(* ICP and connected to the charge amplifier, lets the lamps of the inputs *)
(* run to and fro, and puts everything back when it is interrupted.        *)
(*                                                                         *)
(* The GUI thread starts and stops the lamps from a menu.  A device that   *)
(* is removed stops them too, in the thread that removes it: the crawler   *)
(* or, after a refresh, the GUI.  Its row is taken out first, by a message *)
(* to the GUI, which an open menu lets through: the selection moves to     *)
(* another row, and what is chosen in the menu is done to that one.        *)
(***************************************************************************)
EXTENDS Integers

CONSTANTS
  Module,      \* the modules
  Inputs,      \* the number of inputs of each
  WithLamps,   \* modules of a kind that has lamps
  MaxStarts,   \* bounds: how often lamps are started,
  MaxChanges   \*         and settings of inputs changed

Input == 0..(Inputs - 1)
Setting == {"on", "icp", "charge"}
NoModule == "no module"

ASSUME BlinkerAssumption ==
  /\ NoModule \notin Module /\ WithLamps \subseteq Module
  /\ Inputs \in Nat /\ Inputs > 1
  /\ MaxStarts \in Nat /\ MaxChanges \in Nat

Actor == {"user", "crawler"}
Idle == << "idle", NoModule >>

VARIABLES
  hw,            \* hw[m][x]: inputs of m that have setting x
  running,       \* the server runs
  known,         \* modules that are registered
  menu,          \* the open menu: the module selected, whether Blink is enabled,
                 \* and whether the selection has moved since
  doing,         \* doing[t]: what thread t does, with which module
  isAnyBlinked,
  blinking,      \* modules that have a blinker
  interrupted,   \* modules whose thread is to end
  lamps,         \* lamps[m]: where the thread of m is
  noted,         \* noted[m]: number of inputs noted
  copy,          \* copy[m]: the settings noted
  step,          \* step[m]: the lamp that is lit next, and its direction
  owed,          \* history: settings to be there when the lamps are off
  cut,           \* history: modules whose thread was interrupted in its pause,
                 \* or whose driver refused to switch all inputs off
  overtaken,     \* history: lamps were started, from a menu whose module was
                 \* removed, before those of another were out
  starts, changes

blinkVars == << hw, running, known, menu, doing, isAnyBlinked, blinking, interrupted, lamps,
                noted, copy, step, owed, cut, overtaken, starts, changes >>

NoMenu == [module |-> NoModule, enabled |-> FALSE, moved |-> FALSE]
Nothing == [x \in Setting |-> {}]
First == [lit |-> 0, param |-> 0]

BlinkInit ==
  /\ hw \in [Module -> {[on |-> Input, icp |-> i, charge |-> Input \ i] : i \in {{}, {0}}}]
  /\ running = TRUE /\ known = Module /\ menu = NoMenu
  /\ doing = [t \in Actor |-> Idle] /\ isAnyBlinked = FALSE
  /\ blinking = {} /\ interrupted = {}
  /\ lamps = [m \in Module |-> "none"] /\ noted = [m \in Module |-> 0]
  /\ copy = [m \in Module |-> Nothing] /\ step = [m \in Module |-> First]
  /\ owed = hw /\ cut = {} /\ overtaken = FALSE /\ starts = 0 /\ changes = 0

----------------------------------------------------------------------------
\* The menu and the threads that stop lamps.

\* Mutant: the menu does not look whether other lamps run.
OpenMenuAlways(m) ==
  /\ doing["user"] = Idle /\ menu = NoMenu /\ m \in known
  /\ menu' = [module |-> m, enabled |-> TRUE, moved |-> FALSE]
  /\ UNCHANGED << hw, running, known, doing, isAnyBlinked, blinking, interrupted, lamps, noted,
                  copy, step, owed, cut, overtaken, starts, changes >>

\* The menu of a module is built.
OpenMenu(m) ==
  /\ doing["user"] = Idle /\ menu = NoMenu /\ m \in known
  /\ menu' = [module |-> m, enabled |-> m \in blinking \/ ~isAnyBlinked, moved |-> FALSE]
  /\ UNCHANGED << hw, running, known, doing, isAnyBlinked, blinking, interrupted, lamps, noted,
                  copy, step, owed, cut, overtaken, starts, changes >>

CloseMenu ==
  /\ doing["user"] = Idle /\ menu # NoMenu /\ menu' = NoMenu
  /\ UNCHANGED << hw, running, known, doing, isAnyBlinked, blinking, interrupted, lamps, noted,
                  copy, step, owed, cut, overtaken, starts, changes >>

\* OnBlinkRequest for a module whose lamps are off: startBlinking stops the
\* server first, and asks nobody whether other lamps run.
StartBlinking ==
  /\ doing["user"] = Idle /\ menu.enabled /\ menu.module \in Module \ blinking
  /\ starts < MaxStarts /\ starts' = starts + 1
  /\ menu' = NoMenu /\ running' = FALSE
  /\ doing' = [doing EXCEPT !["user"] = << "start", menu.module >>]
  /\ overtaken' = (overtaken \/ (menu.moved /\ isAnyBlinked))
  /\ UNCHANGED << hw, known, isAnyBlinked, blinking, interrupted, lamps, noted, copy, step, owed,
                  cut, changes >>

NewBlinker ==
  LET m == doing["user"][2]
  IN  /\ doing["user"][1] = "start" /\ doing' = [doing EXCEPT !["user"] = Idle]
      /\ blinking' = blinking \cup {m} /\ isAnyBlinked' = TRUE
      /\ lamps' = [lamps EXCEPT ![m] = "open"] /\ noted' = [noted EXCEPT ![m] = 0]
      /\ copy' = [copy EXCEPT ![m] = Nothing] /\ step' = [step EXCEPT ![m] = First]
      /\ UNCHANGED << hw, running, known, menu, interrupted, owed, cut, overtaken, starts,
                      changes >>

\* stopBlinking: the blinker is gone before its thread is.
Stop(t, m) ==
  /\ blinking' = blinking \ {m} /\ interrupted' = interrupted \cup {m}
  /\ doing' = [doing EXCEPT ![t] = << "join", m >>]

\* OnBlinkRequest for a module whose lamps run.
StopBlinking ==
  /\ doing["user"] = Idle /\ menu.enabled /\ menu.module \in blinking
  /\ Stop("user", menu.module) /\ menu' = NoMenu
  /\ UNCHANGED << hw, running, known, isAnyBlinked, lamps, noted, copy, step, owed, cut,
                  overtaken, starts, changes >>

\* The destructor of blinker waits for the thread; the snapshot goes with it.
Joined(t) ==
  LET m == doing[t][2]
  IN  /\ doing[t][1] = "join" /\ lamps[m] = "none" /\ running' = TRUE
      /\ doing' = [doing EXCEPT ![t] = << "started", m >>]
      /\ interrupted' = interrupted \ {m}
      /\ noted' = [noted EXCEPT ![m] = 0] /\ copy' = [copy EXCEPT ![m] = Nothing]
      /\ step' = [step EXCEPT ![m] = First]
      /\ UNCHANGED << hw, known, menu, isAnyBlinked, blinking, lamps, owed, cut, overtaken,
                      starts, changes >>

Stopped(t) ==
  /\ doing[t][1] = "started" /\ isAnyBlinked' = FALSE /\ doing' = [doing EXCEPT ![t] = Idle]
  /\ overtaken' = (overtaken /\ (blinking # {} \/ \E u \in Actor \ {t} : doing[u] # Idle))
  /\ UNCHANGED << hw, running, known, menu, blinking, interrupted, lamps, noted, copy, step,
                  owed, cut, starts, changes >>

\* A device is removed from the rows, which the GUI thread does between two
\* messages; where it was selected, another row is, or none.
Removed(t, m) ==
  /\ doing[t] = Idle /\ doing["user"] = Idle /\ m \in known /\ known' = known \ {m}
  /\ doing' = [doing EXCEPT ![t] = << "remove", m >>]
  /\ IF m = menu.module
     THEN \E s \in known' \cup {NoModule} :
            menu' = [menu EXCEPT !.module = s, !.moved = TRUE]
     ELSE menu' = menu
  /\ UNCHANGED << hw, running, isAnyBlinked, blinking, interrupted, lamps, noted, copy, step,
                  owed, cut, overtaken, starts, changes >>

\* Then its object is destroyed, which stops its lamps.
Destroyed(t) ==
  LET m == doing[t][2]
  IN  /\ doing[t][1] = "remove"
      /\ IF m \in blinking THEN Stop(t, m)
         ELSE doing' = [doing EXCEPT ![t] = Idle] /\ UNCHANGED << blinking, interrupted >>
      /\ UNCHANGED << hw, running, known, menu, isAnyBlinked, lamps, noted, copy, step, owed,
                      cut, overtaken, starts, changes >>

\* The crawler finds the module again: a new object, without a blinker.
Found(m) ==
  /\ doing["crawler"] = Idle /\ m \notin known /\ known' = known \cup {m}
  /\ UNCHANGED << hw, running, menu, doing, isAnyBlinked, blinking, interrupted, lamps, noted,
                  copy, step, owed, cut, overtaken, starts, changes >>

----------------------------------------------------------------------------
\* The thread of a module.

Goes(m, from, to) == lamps[m] = from /\ lamps' = [lamps EXCEPT ![m] = to]

\* blinker::open; a thread that cannot open the module ends.
Open(m) ==
  /\ \E to \in {"pause", "none"} : Goes(m, "open", to)
  /\ UNCHANGED << hw, running, known, menu, doing, isAnyBlinked, blinking, interrupted, noted,
                  copy, step, owed, cut, overtaken, starts, changes >>

StartAdc(m) ==
  /\ m \notin interrupted /\ Goes(m, "pause", "note")
  /\ UNCHANGED << hw, running, known, menu, doing, isAnyBlinked, blinking, interrupted, noted,
                  copy, step, owed, cut, overtaken, starts, changes >>

\* One turn of the loop of createSnapshot: the next input is noted, and
\* supply and amplifier are disconnected.
Note(m) ==
  LET i == noted[m]
  IN  /\ i < Inputs /\ Goes(m, "note", "note") /\ noted' = [noted EXCEPT ![m] = i + 1]
      /\ copy' = [copy EXCEPT ![m] = [x \in Setting |-> @[x] \cup (hw[m][x] \cap {i})]]
      /\ hw' = [hw EXCEPT ![m].icp = @ \ {i}, ![m].charge = @ \ {i}]
      /\ UNCHANGED << running, known, menu, doing, isAnyBlinked, blinking, interrupted, step, owed,
                      cut, overtaken, starts, changes >>

\* blink_func_2: the direction turns at either end.
NextStep(s) ==
  LET p == IF s.param = 0 THEN 1 ELSE s.param
      param == IF s.lit + p = Inputs THEN -1 ELSE IF s.lit = 0 THEN 1 ELSE p
  IN  [lit |-> s.lit + param, param |-> param]

\* blinker::blink: only the input whose lamp is lit is on.
Blink(m) ==
  /\ noted[m] = Inputs /\ \E from \in {"note", "blink"} : Goes(m, from, "sleep")
  /\ IF m \in WithLamps
     THEN /\ hw' = [hw EXCEPT ![m].on = {step[m].lit}]
          /\ step' = [step EXCEPT ![m] = NextStep(@)]
     ELSE UNCHANGED << hw, step >>
  /\ UNCHANGED << running, known, menu, doing, isAnyBlinked, blinking, interrupted, noted, copy,
                  owed, cut, overtaken, starts, changes >>

Wake(m) ==
  /\ m \notin interrupted /\ Goes(m, "sleep", "blink")
  /\ UNCHANGED << hw, running, known, menu, doing, isAnyBlinked, blinking, interrupted, noted,
                  copy, step, owed, cut, overtaken, starts, changes >>

\* Mutant: the charge amplifiers stay disconnected.
RestoredButCharge(m) ==
  LET inputs == 0..(noted[m] - 1)
      Back(x) == (hw[m][x] \ inputs) \cup (copy[m][x] \cap inputs)
  IN  [on |-> copy[m].on, icp |-> Back("icp"), charge |-> hw[m].charge]

\* restoreSnapshot
Restored(m) ==
  LET inputs == 0..(noted[m] - 1)
      Back(x) == (hw[m][x] \ inputs) \cup (copy[m][x] \cap inputs)
  IN  [on |-> copy[m].on, icp |-> Back("icp"), charge |-> Back("charge")]

\* The thread is interrupted where it sleeps, which may be before it has noted
\* anything: then it switches all inputs off, if the driver takes an empty
\* mask.
Interrupted(m) ==
  /\ m \in interrupted /\ \E from \in {"pause", "sleep"} : Goes(m, from, "none")
  /\ \E taken \in BOOLEAN :
       /\ Restored(m).on # {} => taken
       /\ cut' = IF lamps[m] = "pause" \/ ~taken THEN cut \cup {m} ELSE cut
       /\ hw' = [hw EXCEPT ![m] = [Restored(m) EXCEPT !.on = IF taken THEN @ ELSE hw[m].on]]
  /\ UNCHANGED << running, known, menu, doing, isAnyBlinked, blinking, interrupted, noted, copy,
                  step, owed, overtaken, starts, changes >>

\* channel::setICP and setCharge: the one that is switched on switches the
\* other off.
Toggled(s, x, i) ==
  IF i \in s[x] THEN [s EXCEPT ![x] = @ \ {i}]
  ELSE [y \in Setting |-> IF y = x THEN s[y] \cup {i}
                         ELSE IF {x, y} = {"icp", "charge"} THEN s[y] \ {i} ELSE s[y]]

\* An input is set from the dialog of its channel.  What is set behind the
\* back of the snapshot is lost when the lamps are put out.
Change(m, x, i) ==
  LET early == lamps[m] \in {"none", "open", "pause"} \/ (lamps[m] = "note" /\ noted[m] <= i)
  IN  /\ doing["user"] = Idle /\ menu = NoMenu /\ m \in known
      /\ changes < MaxChanges /\ changes' = changes + 1
      /\ hw' = [hw EXCEPT ![m] = Toggled(@, x, i)]
      /\ owed' = IF early
                 THEN [owed EXCEPT ![m] =
                         [y \in Setting |-> (@[y] \ {i}) \cup (hw'[m][y] \cap {i})]]
                 ELSE owed
      /\ UNCHANGED << running, known, menu, doing, isAnyBlinked, blinking, interrupted, lamps,
                      noted, copy, step, cut, overtaken, starts >>

BlinkNext ==
  \/ CloseMenu \/ StartBlinking \/ NewBlinker \/ StopBlinking
  \/ \E t \in Actor : Destroyed(t) \/ Joined(t) \/ Stopped(t)
  \/ \E m \in Module :
       \/ OpenMenu(m) \/ Found(m)
       \/ \E t \in Actor : Removed(t, m)
       \/ Open(m) \/ StartAdc(m) \/ Note(m) \/ Blink(m) \/ Wake(m) \/ Interrupted(m)
       \/ \E x \in Setting, i \in Input : Change(m, x, i)

BlinkSpec == BlinkInit /\ [][BlinkNext]_blinkVars

----------------------------------------------------------------------------
\* Whichever thread puts the lamps out, and wherever it finds their thread, the
\* inputs are then as they were noted, or changed before they were noted
\* (blinker.cpp:142-167); the inputs that are on are not, where the thread was
\* interrupted in its pause (blinker.cpp:49), or all inputs were off and the
\* driver does not take an empty mask.
LampsLeaveNoTrace ==
  \A m \in Module :
    lamps[m] = "none" =>
      /\ hw[m].icp = owed[m].icp /\ hw[m].charge = owed[m].charge
      /\ m \notin cut => hw[m].on = owed[m].on

\* The server is stopped as long as a module is away from it, whichever thread
\* puts out the lamps of which module: the menu offers no second module, for it
\* goes by isAnyBlinked, which is cleared last.  Only the user who opened the menu
\* of a module before it was removed can start the lamps of the one selected then
\* while those of another are being put out; the removal starts the server under
\* them.  Even so the server runs, and isAnyBlinked is clear, when nobody is busy
\* with lamps (device_std.cpp:1521-1546, main_dlg.cpp:1197-1204, 2552-2578).
ServerStandsAside ==
  /\ ~overtaken => \A m \in Module : lamps[m] \in {"note", "blink", "sleep"} => ~running
  /\ blinking = {} /\ (\A t \in Actor : doing[t] = Idle) => running /\ ~isAnyBlinked
=============================================================================
