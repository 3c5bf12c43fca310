--------------------------- MODULE MCRefreshRace ---------------------------
(***************************************************************************)
(* The GUI thread against other threads: a refresh against the crawler,    *)
(* over two devices (1, 3) with one channel each (2, 4); and the lamps of  *)
(* two modules, of which one has none to light, against the crawler and    *)
(* their own threads.  A behaviour is about one of them, so their states   *)
(* add up.                                                                 *)
(***************************************************************************)
EXTENDS RefreshRace, Blinker

VARIABLE about

MCParent == << 0, 1, 0, 3 >>

\* What a behaviour is not about.
RefreshIdle ==
  /\ objects = {} /\ linked = {} /\ alive = << >> /\ needWait = 0 /\ present = {}
  /\ pc = [t \in Threads |-> IF t = "crawler" THEN "test" ELSE "idle"]
  /\ pos = << >> /\ left = << >> /\ todo = {} /\ climb = None /\ after = None /\ refreshes = 0
LampsIdle ==
  /\ BlinkInit /\ \A m \in Module : hw[m].icp = {}

RaceInit ==
  \/ about = "refresh" /\ Init /\ LampsIdle
  \/ about = "lamps" /\ BlinkInit /\ RefreshIdle

InRefresh == about = "refresh" /\ UNCHANGED << about, blinkVars >>
InLamps == about = "lamps" /\ UNCHANGED << about, vars >>

\* Next and BlinkNext.
RaceNext ==
  \/ InRefresh /\ \E t \in Threads : KillNext(t)
  \/ InRefresh /\ \E t \in Threads : KillDone(t)
  \/ InRefresh /\ \E t \in Threads : RemoveTest(t)
  \/ InRefresh /\ \E t \in Threads : RemoveTake(t)
  \/ InRefresh /\ \E t \in Threads, p \in Path : RemoveNext(t, p)
  \/ InRefresh /\ \E t \in Threads : RemoveDone(t)
  \/ InRefresh /\ UpdateTest
  \/ InRefresh /\ UpdateTake
  \/ InRefresh /\ Climb
  \/ InRefresh /\ UpdateDone
  \/ InRefresh /\ RefreshTimer
  \/ InRefresh /\ \E p \in Leaves : Visit(p)
  \/ InRefresh /\ \E p \in Leaves : PlugOrUnplug(p)
  \/ InLamps /\ \E m \in Module : OpenMenu(m)
  \/ InLamps /\ CloseMenu
  \/ InLamps /\ StartBlinking
  \/ InLamps /\ NewBlinker
  \/ InLamps /\ StopBlinking
  \/ InLamps /\ \E t \in Actor : Destroyed(t)
  \/ InLamps /\ \E t \in Actor : Joined(t)
  \/ InLamps /\ \E t \in Actor : Stopped(t)
  \/ InLamps /\ \E t \in Actor, m \in Module : Removed(t, m)
  \/ InLamps /\ \E m \in Module : Found(m)
  \/ InLamps /\ \E m \in Module : Open(m)
  \/ InLamps /\ \E m \in Module : StartAdc(m)
  \/ InLamps /\ \E m \in Module : Note(m)
  \/ InLamps /\ \E m \in Module : Blink(m)
  \/ InLamps /\ \E m \in Module : Wake(m)
  \/ InLamps /\ \E m \in Module : Interrupted(m)
  \/ InLamps /\ \E m \in Module, x \in Setting, i \in Input : Change(m, x, i)

RaceSpec == RaceInit /\ [][RaceNext]_<< about, vars, blinkVars >>
=============================================================================
