------------------------------- MODULE MCPages -------------------------------
(***************************************************************************)
(* Three dialogs of which one is open: the page of a ZET 037 channel, two  *)
(* channels in one slot and one unit of every kind that matters; the form  *)
(* of a recorder; the properties of a unit, one unit per combination of    *)
(* pages.  A behaviour is about one of them, so their states add up.       *)
(***************************************************************************)
EXTENDS Zet037Tab, WriteProp, DeviceTabs, TLC

CONSTANTS a, b
VARIABLE dialog

\* A channel of ZET 037.
Sym == Permutations({a, b})
MCSlot == (a :> 1) @@ (b :> 1)
MCDimension == ("N" :> 1) @@ ("kN" :> 1)
MCPower == ("N" :> 0) @@ ("kN" :> 1)
MCTyped037 ==
  [exc |-> {0}, k |-> {Bad, 3}, poisson |-> {2}, modulus |-> {0}, outer |-> {0}, inner |-> {9},
   range |-> {0}, resistance |-> {0}, sense |-> {4}, nsh |-> {1}, tc |-> {1}]

Channel037(sensor, scheme, mode) ==
  [sensor |-> sensor, scheme |-> scheme, mode |-> mode, exc |-> 2, unit |-> "N",
   unitSense |-> UnitSenseFor(scheme), sense |-> [of |-> << "typed", 1 >>, power |-> 0],
   k |-> 2, poisson |-> 0, modulus |-> 2, outer |-> 3, inner |-> 1, range |-> 10, output |-> 2,
   resistance |-> 100, nsh |-> -1, tc |-> 0]

Bridge == [quarter_r1_i |-> "quarter", half_3w_i |-> "half3", half_5w_u |-> "half5",
           full_4w_i |-> "full4", full_4w_u |-> "full4", full_6w_u |-> "full6"]
Ways ==
  {<< "resistor", x, [bridge |-> Bridge[x], load |-> "b1"] >> : x \in DOMAIN Bridge}
  \cup {<< "resistor", "full_6w_u", [bridge |-> "full6", load |-> "t2"] >>,
        << "sensor", "full_4w_u", [bridge |-> "full4", load |-> "tc1"] >>,
        << "user", "half_5w_u", [bridge |-> "half5", load |-> "t1"] >>}
  \cup {<< w[1], w[2], NoMode037 >> :
          w \in {<< "lvdt", "lvdt_u" >>, << "tr", "tr_i" >>, << "tc", "tc_u" >>,
                 << "diff_u", "diff_t" >>, << "current", "current_t" >>,
                 << "unknown", "unknown" >>}}
MCFull037 == {[c \in {a, b} |-> Channel037(w[1], w[2], w[3])] : w \in Ways}
MCClips037 == {Channel037("unknown", "unknown", NoMode037)}

\* A recorder.
Params == SetDefaultParams(NoMode)
MCSaved ==
  {[Params EXCEPT !.event = 1, !.how = 2, !.control = 1, !.port = 2, !.ana = 1],
   [Params EXCEPT !.event = 1, !.how = 1, !.gen = 1, !.rec = 1,
                 !.mode = [NoMode EXCEPT !.endless = 1]]}

\* A unit.
Settings ==
  [adc |-> 10, dac |-> 10, out |-> {1}, ena |-> {}, selftest |-> 0, label |-> 12, net |-> 1,
   timeout |-> 100, radios |-> 0, id |-> "own", dhcp |-> FALSE, ftp |-> TRUE, lines |-> "neither",
   ptp |-> [master |-> TRUE, slave |-> TRUE, number |-> 3, priority |-> 4],
   start |-> 0, minutes |-> 0, gen |-> [on |-> FALSE, offset |-> 1, sine |-> 5], pps |-> FALSE,
   act |-> {1}, code |-> 2, place |-> 50]
PlainUnit ==
  [tabs |-> {}, zsp |-> FALSE, lines |-> FALSE, gps |-> FALSE, oldGps |-> FALSE, coupled |-> FALSE,
   adcs |-> {10, 25, 50}, dacs |-> {10, 100}, device |-> Settings]
WithTabs(t) == [PlainUnit EXCEPT !.tabs = t]
MCUnit ==
  {[WithTabs({"frequency", "description", "ip", "sync"})
      EXCEPT !.lines = TRUE, !.device.lines = l] : l \in {"slave", "partly"}}
  \cup {[WithTabs({"frequency", "ports", "dc"}) EXCEPT !.coupled = TRUE],
        [WithTabs({"frequency", "sync"}) EXCEPT !.gps = TRUE, !.oldGps = TRUE],
        [WithTabs({"frequency", "actuator"}) EXCEPT !.device.adc = 20],
        WithTabs({"sine", "pps"}),
        [WithTabs({"frequency", "ports", "ip", "registrator", "selftest", "metadata"})
           EXCEPT !.zsp = TRUE],
        [WithTabs({"frequency", "registrator"})
           EXCEPT !.zsp = TRUE, !.device.start = 7, !.device.minutes = 45]}
MCOffered ==
  [adc |-> {10, 50}, dac |-> {10, 100}, selftest |-> {1}, code |-> {2, 3},
   place |-> {95, Minus, NoNumber}, label |-> {5, 31}, net |-> {2}, timeout |-> {2, 1093},
   radios |-> {0, 1}, ptp |-> {300, Empty}, minutes |-> {0, 20}, offset |-> {3}]
MCUnread == {[net |-> 0, timeout |-> 9, radios |-> 1]}

\* Where a dialog is that a behaviour is not about.
ChannelIdle ==
  /\ chan = << >> /\ service = FALSE /\ shownOn = NoChannel /\ memento = << >>
  /\ form = EmptyForm /\ own = {} /\ agreed = {} /\ choices = 0
RecorderIdle ==
  /\ kind = "" /\ config = << >> /\ temp = NoFile /\ dac = FALSE /\ param = NoFile
  /\ page = << >> /\ shownFor = "" /\ stage = "none" /\ refused = FALSE /\ readOk = FALSE
  /\ acts = 0
DeviceIdle ==
  /\ unit = Closed /\ device = Closed /\ tabs = {} /\ active = NoTab /\ box = Closed
  /\ member = Closed /\ snapshot = Closed /\ was = Closed /\ left = "" /\ edits = 0
  /\ others = 0 /\ faults = 0

PagesInit ==
  \/ dialog = "channel" /\ ZetInit /\ RecorderIdle /\ DeviceIdle
  \/ dialog = "recorder" /\ WpInit /\ ChannelIdle /\ DeviceIdle
  \/ dialog = "device" /\ TabsInit /\ ChannelIdle /\ RecorderIdle

InChannel == dialog = "channel" /\ UNCHANGED << dialog, wpVars, tabVars >>
InRecorder == dialog = "recorder" /\ UNCHANGED << dialog, zetVars, tabVars >>
InDevice == dialog = "device" /\ UNCHANGED << dialog, zetVars, wpVars >>

\* ZetNext, WpNext and TabsNext.
PagesNext ==
  \/ InChannel /\ \E c \in Channel : OpenPage(c)
  \/ InChannel /\ \E x \in Sensors : SelectSensor(x)
  \/ InChannel /\ \E x \in form.schemes : SelectScheme(x)
  \/ InChannel /\ \E x \in form.modes : SelectMode(x)
  \/ InChannel /\ \E u \in ResistorUnits : SelectUnitEx(u)
  \/ InChannel /\ \E u \in PlainUnits : SelectUnit(u)
  \/ InChannel /\ \E u \in PlainUnits : EditUnit(u)
  \/ InChannel /\ \E v \in Typed["exc"] : EditExc(v)
  \/ InChannel /\ \E n \in DOMAIN Typed \ {"exc", "sense", "nsh", "tc"} :
                     \E v \in Typed[n] : EditNumber(n, v)
  \/ InChannel /\ \E v \in Typed["sense"] : EditSense(v)
  \/ InChannel /\ \E n \in {"nsh", "tc"} : \E v \in Typed[n] : SelectThermometer(n, v)
  \/ InChannel /\ EditRest
  \/ InChannel /\ \E r \in Clips037 : Paste(r)
  \/ InChannel /\ ClosePage
  \/ InChannel /\ CancelPage
  \/ InRecorder /\ \E r \in Recorder, attempt \in {"first", "later", "never"},
                      how \in Transfer, junk \in Saved : OpenForm(r, attempt, how, junk)
  \/ InRecorder /\ \E t \in {0, MaxTime, MaxTime + 1} : EnterTime(t)
  \/ InRecorder /\ \E t \in 0..1 : EnterDelay(t)
  \/ InRecorder /\ ClickEvent
  \/ InRecorder /\ ClickSinGen
  \/ InRecorder /\ ClickLevelControl
  \/ InRecorder /\ \E x \in {"dig", "ana", "tmr"} : ClickStart(x)
  \/ InRecorder /\ \E x \in {"primary", "secondary"} : ClickData(x)
  \/ InRecorder /\ \E i \in 0..1 : SelectNum(i)
  \/ InRecorder /\ \E i \in 0..1 : SelectPort(i)
  \/ InRecorder /\ \E mode \in {m \in DataMode : m.wait = m.split /\ m.replace = 0} :
                      SettingsData(mode)
  \/ InRecorder /\ \E yes \in BOOLEAN : ClickSave(yes)
  \/ InRecorder /\ \E yes \in BOOLEAN : ClickSaveDelta(yes)
  \/ InRecorder /\ \E how \in Transfer : WriteBack(how)
  \/ InRecorder /\ ClickCancel
  \/ InDevice /\ \E fails \in {{}} \cup {{x} : x \in Readings} : \E junk \in Unread :
                   \E t \in unit.tabs : OpenDialog(fails, junk, t)
  \/ InDevice /\ \E t \in tabs : \E read \in BOOLEAN : Switch(t, read)
  \/ InDevice /\ \E v \in Offered["adc"] : SelectAdc(v)
  \/ InDevice /\ \E v \in Offered["dac"] : SelectDac(v)
  \/ InDevice /\ \E x \in {"out", "ena"} : \E p \in Port : ClickPort(x, p)
  \/ InDevice /\ \E x \in {"out", "ena"} : \E p \in Port : OtherProgram(x, p)
  \/ InDevice /\ \E x \in {"out", "ena"} : ClickGroup(x)
  \/ InDevice /\ PortsTimer
  \/ InDevice /\ \E i \in Actuator : \E ok \in BOOLEAN : ClickActuator(i, ok)
  \/ InDevice /\ \E ok \in BOOLEAN : ClickActuators(ok)
  \/ InDevice /\ \E v \in Offered["selftest"] : SelectSelftest(v)
  \/ InDevice /\ \E n \in Offered["code"] : EditCode(n)
  \/ InDevice /\ \E v \in Offered["place"] : EditPlace(v)
  \/ InDevice /\ \E n \in Offered["label"] : EditLabel(n)
  \/ InDevice /\ \E v \in Offered["net"] : EditNet(v)
  \/ InDevice /\ ClickDhcp
  \/ InDevice /\ ClickFtp
  \/ InDevice /\ \E v \in Offered["timeout"] : EditTimeout(v)
  \/ InDevice /\ \E v \in Offered["radios"] : ClickRadios(v)
  \/ InDevice /\ IpTimer
  \/ InDevice /\ \E x \in {"master", "slave"} : ClickLines(x)
  \/ InDevice /\ ClickMaster
  \/ InDevice /\ ClickSlave
  \/ InDevice /\ SyncTimer
  \/ InDevice /\ \E v \in Offered["ptp"] : EditDomain(v)
  \/ InDevice /\ \E v \in Offered["ptp"] : EditPriority(v)
  \/ InDevice /\ \E s \in {0, 1} : SelectStart(s)
  \/ InDevice /\ ClickEndless
  \/ InDevice /\ \E v \in Offered["minutes"] : EditDuration(v)
  \/ InDevice /\ ClickGenerator
  \/ InDevice /\ \E v \in Offered["offset"] : EditOffset(v)
  \/ InDevice /\ \E v \in Offered["offset"] : EditSine(v)
  \/ InDevice /\ ClickPps
  \/ InDevice /\ \E fails \in SUBSET {"ip", "id", "sync"} : PressOk(fails)
  \/ InDevice /\ PressCancel

PagesSpec == PagesInit /\ [][PagesNext]_<< dialog, zetVars, wpVars, tabVars >>
=============================================================================
