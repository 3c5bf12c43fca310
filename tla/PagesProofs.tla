----------------------------- MODULE PagesProofs -----------------------------
(***************************************************************************)
(* For any units, settings and choices: what the pages of a dialog leave   *)
(* behind, and what the form of a recorder leaves on its card.             *)
(***************************************************************************)
EXTENDS DeviceTabs, Zet037Tab, WriteProp, TLAPS

\* The settings that Cancel takes back, or that are never written before OK.
Kept == Setting \ {"act", "code", "place"}

\* Those of them that are written while the dialog is open.
Live == {"adc", "dac", "out", "ena", "selftest"}

IsUnitSetting(d) == d = [x \in Setting |-> d[x]]

\* While the dialog is open its snapshot is that of the device as it was found,
\* and a setting that differs from it is one that the snapshot has, on a dialog
\* with a page that restores it.
SnapshotInv ==
  active # NoTab =>
    /\ left = "" /\ active \in tabs
    /\ "frequency" \in tabs \/ tabs \subseteq {"sine", "pps"}
    /\ was = [f \in DOMAIN was |-> was[f]] /\ "opened" \in DOMAIN was
    /\ IsUnitSetting(was.opened)
    /\ \A x \in Live : x \in DOMAIN snapshot /\ snapshot[x] = was.opened[x]
    /\ \A x \in Kept : device[x] # was.opened[x] => x \in Live /\ "frequency" \in tabs

TabsInv ==
  /\ unit \in Unit /\ IsUnitSetting(device)
  /\ SnapshotInv
  /\ left # "" => active = NoTab
  /\ CancelGivesBack

----------------------------------------------------------------------------
\* The settings of the device at the start.
LEMMA InitTabs == TabsInit => TabsInv
<1> SUFFICES ASSUME TabsInit PROVE TabsInv
  OBVIOUS
<1>1. unit \in Unit /\ device = unit.device /\ active = NoTab /\ left = ""
  BY DEF TabsInit
<1>2. IsUnitSetting(device)
  BY <1>1, DeviceTabsAssumption DEF IsUnitSetting
<1> QED
  BY <1>1, <1>2 DEF TabsInv, SnapshotInv, CancelGivesBack

\* The dialog stays open, and of the settings only some that Cancel can handle
\* change.
LEMMA OpenTabs ==
  ASSUME TabsInv, active # NoTab, active' # NoTab, active' \in tabs,
         UNCHANGED << unit, tabs, snapshot, left >>,
         was' = [f \in DOMAIN was' |-> was'[f]], "opened" \in DOMAIN was',
         was'.opened = was.opened,
         IsUnitSetting(device'),
         \A x \in Kept : device'[x] = device[x] \/ (x \in Live /\ "frequency" \in tabs)
  PROVE  TabsInv'
<1>1. left' = "" /\ SnapshotInv'
  BY DEF TabsInv, SnapshotInv
<1> QED
  BY <1>1 DEF TabsInv, CancelGivesBack

\* Histories are kept beside what the dialog found.
LEMMA WasKept ==
  ASSUME TabsInv, active # NoTab
  PROVE  /\ was = [f \in DOMAIN was |-> was[f]] /\ "opened" \in DOMAIN was
         /\ \A f, v : f # "opened" =>
              LET w == [was EXCEPT ![f] = v]
              IN  w = [g \in DOMAIN w |-> w[g]] /\ "opened" \in DOMAIN w
                  /\ w.opened = was.opened
BY DEF TabsInv, SnapshotInv

\* The pages that keep what the user does until OK, and the timers.
LEMMA ChooseTabs ==
  ASSUME TabsInv,
         \/ \E t, x, v : Choose(t, x, v) /\ t # NoTab
         \/ \E t \in tabs, read \in BOOLEAN : Switch(t, read)
         \/ PortsTimer \/ IpTimer \/ SyncTimer \/ ClickEndless
  PROVE  TabsInv'
<1>1. /\ active # NoTab
      /\ UNCHANGED << unit, device, tabs, snapshot, left >>
  BY DEF Choose, Doing, Switch, PortsTimer, IpTimer, SyncTimer, ClickEndless, NoTab
<1>2. active' \in tabs
  BY <1>1 DEF Choose, Switch, PortsTimer, IpTimer, SyncTimer, ClickEndless, TabsInv, SnapshotInv
<1>3. \/ was' = was
      \/ \E v : was' = [was EXCEPT !.chosen = v] \/ was' = [was EXCEPT !.putBack = v]
  BY DEF Choose, Switch, PortsTimer, IpTimer, SyncTimer, ClickEndless
<1>4. /\ was' = [f \in DOMAIN was' |-> was'[f]] /\ "opened" \in DOMAIN was'
      /\ was'.opened = was.opened
  BY <1>1, <1>3, WasKept
<1>5. IsUnitSetting(device)
  BY DEF TabsInv
<1>6. CASE active' # NoTab
  BY <1>1, <1>2, <1>4, <1>5, <1>6, OpenTabs DEF IsUnitSetting
<1>7. CASE active' = NoTab
  BY <1>1, <1>7 DEF TabsInv, SnapshotInv, CancelGivesBack
<1> QED
  BY <1>6, <1>7

\* The pages that write at once what the user chooses.
LEMMA ChooseNowTabs ==
  ASSUME TabsInv, NEW t, t # NoTab, NEW d, IsUnitSetting(d),
         \A x \in Kept : d[x] = device[x] \/ (x \in Live /\ t \notin {"sine", "pps"}),
         Doing(t), device' = d,
         \/ \E v : was' = [was EXCEPT !.chosen = v]
         \/ \E v, w : was' = [was EXCEPT !.chosen = v, !.lost = w],
         UNCHANGED << unit, tabs, active, snapshot, left >>
  PROVE  TabsInv'
<1>1. active = t /\ active' = t /\ active # NoTab /\ t \in tabs
  BY DEF Doing, TabsInv, SnapshotInv
<1>2. /\ was' = [f \in DOMAIN was' |-> was'[f]] /\ "opened" \in DOMAIN was'
      /\ was'.opened = was.opened
  BY <1>1, WasKept
<1>3. t \notin {"sine", "pps"} => "frequency" \in tabs
  BY <1>1 DEF TabsInv, SnapshotInv
<1> QED
  BY <1>1, <1>2, <1>3, OpenTabs

\* Frequencies, ports, selftest and the written settings that Cancel leaves.
LEMMA LiveTabs ==
  ASSUME TabsInv,
         \/ \E v : SelectAdc(v) \/ SelectDac(v) \/ SelectSelftest(v)
                   \/ EditCode(v) \/ EditPlace(v)
         \/ \E x \in {"out", "ena"} : \E p : ClickPort(x, p)
         \/ \E x \in {"out", "ena"} : ClickGroup(x)
         \/ \E i, ok : ClickActuator(i, ok)
         \/ \E ok : ClickActuators(ok)
  PROVE  TabsInv'
<1> DEFINE Now(t, d) ==
      /\ Doing(t) /\ device' = d
      /\ \/ \E v : was' = [was EXCEPT !.chosen = v]
         \/ \E v, w : was' = [was EXCEPT !.chosen = v, !.lost = w]
      /\ UNCHANGED << unit, tabs, active, snapshot, left >>
<1>1. IsUnitSetting(device)
  BY DEF TabsInv
<1>2. ASSUME NEW v, SelectAdc(v) PROVE TabsInv'
  <2>1. \E w : Now("frequency", [device EXCEPT !.adc = v, !.dac = w])
    BY <1>2 DEF SelectAdc
  <2>2. PICK w : Now("frequency", [device EXCEPT !.adc = v, !.dac = w])
    BY <2>1
  <2> DEFINE d == [device EXCEPT !.adc = v, !.dac = w]
  <2>3. IsUnitSetting(d) /\ \A x \in Kept : d[x] = device[x] \/ x \in Live
    BY <1>1 DEF IsUnitSetting, Setting, Live, Kept
  <2> HIDE DEF d
  <2> QED
    BY <2>2, <2>3, ChooseNowTabs DEF d, NoTab
<1>3. ASSUME NEW v, SelectDac(v) PROVE TabsInv'
  <2> DEFINE d == [device EXCEPT !.dac = v]
  <2>1. Now("frequency", d)
    BY <1>3 DEF SelectDac, ChooseNow
  <2>2. IsUnitSetting(d) /\ \A x \in Kept : d[x] = device[x] \/ x \in Live
    BY <1>1 DEF IsUnitSetting, Setting, Live, Kept
  <2> HIDE DEF d
  <2> QED
    BY <2>1, <2>2, ChooseNowTabs DEF NoTab
<1>4. ASSUME NEW v, SelectSelftest(v) PROVE TabsInv'
  <2> DEFINE d == [device EXCEPT !.selftest = v]
  <2>1. Now("selftest", d)
    BY <1>4 DEF SelectSelftest, ChooseNow
  <2>2. IsUnitSetting(d) /\ \A x \in Kept : d[x] = device[x] \/ x \in Live
    BY <1>1 DEF IsUnitSetting, Setting, Live, Kept
  <2> HIDE DEF d
  <2> QED
    BY <2>1, <2>2, ChooseNowTabs DEF NoTab
<1>5. ASSUME NEW v, EditCode(v) PROVE TabsInv'
  <2> DEFINE d == [device EXCEPT !.code = v]
  <2>1. Now("metadata", d)
    BY <1>5 DEF EditCode, ChooseNow
  <2>2. IsUnitSetting(d) /\ \A x \in Kept : d[x] = device[x]
    BY <1>1 DEF IsUnitSetting, Setting, Kept
  <2> HIDE DEF d
  <2> QED
    BY <2>1, <2>2, ChooseNowTabs DEF NoTab
<1>6. ASSUME NEW v, EditPlace(v) PROVE TabsInv'
  <2> DEFINE d(w) == [device EXCEPT !.place = w]
  <2>1. CASE v \in {Minus, NoNumber}
    <3>1. /\ active # NoTab /\ active' = active /\ active \in tabs
          /\ UNCHANGED << unit, tabs, snapshot, left, was, device >>
      BY <1>6, <2>1 DEF EditPlace, Doing, TabsInv, SnapshotInv, NoTab
    <3> QED
      BY <1>1, <3>1, WasKept, OpenTabs DEF IsUnitSetting
  <2>2. CASE v \notin {Minus, NoNumber}
    <3>1. Now("metadata", d(Degrees(v)))
      BY <1>6, <2>2 DEF EditPlace, ChooseNow
    <3>2. \A w : IsUnitSetting(d(w)) /\ \A x \in Kept : d(w)[x] = device[x]
      BY <1>1 DEF IsUnitSetting, Setting, Kept
    <3> HIDE DEF d
    <3> QED
      BY <3>1, <3>2, ChooseNowTabs DEF NoTab
  <2> QED
    BY <2>1, <2>2
<1>7. ASSUME NEW ports, NEW b, Now("ports", Written(ports, b)) PROVE TabsInv'
  <2>1. /\ IsUnitSetting(Written(ports, b))
        /\ \A x \in Kept : Written(ports, b)[x] = device[x] \/ x \in Live
    BY <1>1 DEF Written, IsUnitSetting, Setting, Live, Kept
  <2> QED
    BY <1>7, <2>1, ChooseNowTabs DEF NoTab
<1>8. ASSUME NEW x, NEW p, ClickPort(x, p) \/ ClickGroup(x) PROVE TabsInv'
  <2>1. \E ports, b : Now("ports", Written(ports, b))
    BY <1>8 DEF ClickPort, ClickGroup, ChooseNow
  <2> HIDE DEF Now
  <2> QED
    BY <1>7, <2>1
<1>9. ASSUME NEW v, NEW w, NEW ok, SetActuators(v, w, ok) PROVE TabsInv'
  <2> DEFINE d(u) == [device EXCEPT !.act = u]
  <2>1. \E u : Now("actuator", d(u))
    BY <1>9 DEF SetActuators
  <2>2. \A u : IsUnitSetting(d(u)) /\ \A x \in Kept : d(u)[x] = device[x]
    BY <1>1 DEF IsUnitSetting, Setting, Kept
  <2> HIDE DEF d
  <2> QED
    BY <2>1, <2>2, ChooseNowTabs DEF NoTab
<1> QED
  BY <1>2, <1>3, <1>4, <1>5, <1>6, <1>8, <1>9 DEF ClickActuator, ClickActuators

\* Another program switches a port, which Cancel will switch back.
LEMMA OtherTabs ==
  ASSUME TabsInv, NEW x \in {"out", "ena"}, NEW p, OtherProgram(x, p)
  PROVE  TabsInv'
<1>1. /\ active # NoTab /\ "ports" \in tabs
      /\ UNCHANGED << unit, tabs, active, snapshot, left >>
  BY DEF OtherProgram
<1>2. active \in tabs /\ "frequency" \in tabs
  BY <1>1 DEF TabsInv, SnapshotInv
<1>3. /\ was' = [f \in DOMAIN was' |-> was'[f]] /\ "opened" \in DOMAIN was'
      /\ was'.opened = was.opened
  BY <1>1, WasKept DEF OtherProgram
<1>4. PICK v : device' = [device EXCEPT ![x] = v]
  BY DEF OtherProgram
<1>5. /\ IsUnitSetting(device')
      /\ \A y \in Kept : device'[y] = device[y] \/ y \in Live
  BY <1>4 DEF TabsInv, IsUnitSetting, Setting, Live, Kept
<1> QED
  BY <1>1, <1>2, <1>3, <1>5, OpenTabs

\* The dialog opens: the snapshot is taken, and the page that restores it is
\* there, whatever could not be read.
LEMMA OpeningTabs ==
  ASSUME TabsInv,
         NEW fails \in {{}} \cup {{x} : x \in Readings}, NEW junk \in Unread, NEW t \in unit.tabs,
         OpenDialog(fails, junk, t)
  PROVE  TabsInv'
<1>1. /\ left = "" /\ UNCHANGED << unit, device, left >> /\ tabs' = Shown(fails)
      /\ active' = t /\ t \in Shown(fails) /\ snapshot' = Memento
  BY DEF OpenDialog
<1>2. /\ was' = [f \in DOMAIN was' |-> was'[f]] /\ "opened" \in DOMAIN was'
      /\ was'.opened = device
  BY DEF OpenDialog
<1>3. unit \in Unit /\ IsUnitSetting(device)
  BY DEF TabsInv
<1>4. "frequency" \in Shown(fails) \/ Shown(fails) \subseteq {"sine", "pps"}
  <2>1. << "have", "frequency" >> \notin Readings
    BY DEF Readings
  <2>2. << "have", "frequency" >> \notin fails
    BY <2>1
  <2>3. "frequency" \in unit.tabs \/ unit.tabs \subseteq {"sine", "pps"}
    BY <1>3, DeviceTabsAssumption DEF ChannelPage
  <2> QED
    BY <2>2, <2>3 DEF Shown
<1>5. \A x \in Live : x \in DOMAIN snapshot' /\ snapshot'[x] = device[x]
  <2>1. /\ DOMAIN Memento = Live
        /\ Memento["adc"] = device["adc"] /\ Memento["dac"] = device["dac"]
        /\ Memento["out"] = device["out"] /\ Memento["ena"] = device["ena"]
        /\ Memento["selftest"] = device["selftest"]
    BY DEF Memento, Live
  <2> QED
    BY <1>1, <2>1 DEF Live
<1>6. SnapshotInv'
  BY <1>1, <1>2, <1>3, <1>4, <1>5 DEF SnapshotInv
<1> QED
  BY <1>1, <1>3, <1>6 DEF TabsInv, CancelGivesBack

\* What writeEthSettings and the page of a recorder write, whatever the values.
Differs(d, e, X) == IsUnitSetting(e) /\ \A x \in Setting \ X : e[x] = d[x]

Recording(d, start, minutes) == [d EXCEPT !.start = start, !.minutes = minutes]
Ethernet(d, net, timeout, radios, id) ==
  [d EXCEPT !.net = net, !.timeout = timeout, !.radios = radios, !.id = id]

Address(d) == [d EXCEPT !.net = box.net, !.dhcp = box.dhcp, !.ftp = box.ftp]

\* Writing the address changes only its three fields, to what the page shows.
LEMMA AddressWritten ==
  ASSUME NEW d, IsUnitSetting(d)
  PROVE  LET e == Address(d)
         IN  /\ Differs(d, e, {"net", "dhcp", "ftp"})
             /\ e.net = box.net /\ e.dhcp = box.dhcp /\ e.ftp = box.ftp
BY DEF Address, Differs, IsUnitSetting, Setting

\* Writing the recording changes only its two fields.
LEMMA RecorderWritten ==
  ASSUME NEW d, IsUnitSetting(d), NEW start, NEW minutes
  PROVE  LET e == Recording(d, start, minutes)
         IN  /\ Differs(d, e, {"start", "minutes"})
             /\ e.start = start /\ e.minutes = minutes
BY DEF Recording, Differs, IsUnitSetting, Setting

\* Writing the network of a unit changes only its four fields.
LEMMA EthernetWritten ==
  ASSUME NEW d, IsUnitSetting(d), NEW net, NEW timeout, NEW radios, NEW id
  PROVE  LET e == Ethernet(d, net, timeout, radios, id)
         IN  /\ Differs(d, e, {"net", "timeout", "radios", "id"})
             /\ e.net = net /\ e.timeout = timeout /\ e.radios = radios /\ e.id = id
BY DEF Ethernet, Differs, IsUnitSetting, Setting

\* Saving the page of a recorder is writing the recording it shows.
LEMMA RecorderSaved ==
  ASSUME NEW d
  PROVE  SavedRegistrator(d) =
           Recording(d, box.start % 65536, IF box.endless THEN 0 ELSE box.minutes)
BY DEF SavedRegistrator, Recording

\* Saving the page of the network is writing the fields whose calls succeed.
LEMMA EthernetSaved ==
  ASSUME NEW d, NEW fails
  PROVE  SavedNet(d, fails) =
           IF unit.zsp THEN Address(d)
           ELSE IF "ip" \in fails THEN d
           ELSE Ethernet(d, box.net, (box.timeout * 60) % 65536, box.radios,
                         IF "id" \in fails THEN "any" ELSE d.id)
BY DEF SavedNet, Ethernet, Address

\* The dialog is left.
LEMMA LeaveTabs ==
  ASSUME TabsInv, PressCancel \/ \E fails : PressOk(fails)
  PROVE  TabsInv'
<1>1. active # NoTab /\ active' = NoTab /\ unit' = unit /\ left' \in {"ok", "cancel"}
  BY DEF PressCancel, PressOk, Close
<1>2. SnapshotInv' /\ unit' \in Unit
  BY <1>1 DEF SnapshotInv, TabsInv
<1>3. IsUnitSetting(device)
  BY DEF TabsInv
<1>4. CASE PressCancel
  <2>1. /\ was' = was
        /\ device' = IF tabs \cap {"frequency", "ports", "actuator"} # {}
                     THEN RestoreMemento(device) ELSE device
    BY <1>4 DEF PressCancel
  <2>2. /\ \A x \in Live : snapshot[x] = was.opened[x]
        /\ \A x \in Kept : device[x] # was.opened[x] => x \in Live /\ "frequency" \in tabs
    BY <1>1 DEF TabsInv, SnapshotInv
  <2>3. /\ IsUnitSetting(RestoreMemento(device))
        /\ \A x \in Kept \ Live : RestoreMemento(device)[x] = device[x]
        /\ \A x \in Live : RestoreMemento(device)[x] = snapshot[x]
    BY <1>3 DEF RestoreMemento, IsUnitSetting, Setting, Kept, Live
  <2>4. IsUnitSetting(device') /\ \A x \in Kept : device'[x] = was.opened[x]
    BY <1>3, <2>1, <2>2, <2>3
  <2>5. DOMAIN device' = Setting
    BY <2>4 DEF IsUnitSetting
  <2> QED
    BY <1>1, <1>2, <2>1, <2>4, <2>5 DEF TabsInv, CancelGivesBack, Kept
<1>5. ASSUME NEW fails, PressOk(fails) PROVE TabsInv'
  <2>1. left' = "ok" /\ device' = OnOK(fails)
    BY <1>5 DEF PressOk
  <2>2. ASSUME NEW d, IsUnitSetting(d)
        PROVE  /\ IsUnitSetting(SavedLabel(d)) /\ IsUnitSetting(SavedNet(d, fails))
               /\ IsUnitSetting(SavedSync(d, fails)) /\ IsUnitSetting(SavedRegistrator(d))
               /\ IsUnitSetting(SavedSine(d)) /\ IsUnitSetting(SavedPps(d))
               /\ IsUnitSetting(SavedDc(d))
    <3>1. /\ IsUnitSetting(SavedLabel(d)) /\ IsUnitSetting(SavedSine(d))
          /\ IsUnitSetting(SavedPps(d)) /\ IsUnitSetting(SavedDc(d))
      BY <2>2 DEF IsUnitSetting, SavedLabel, SavedSine, SavedPps, SavedDc
    <3>2. IsUnitSetting(SavedNet(d, fails)) /\ IsUnitSetting(SavedRegistrator(d))
      <4>1. IsUnitSetting(SavedRegistrator(d))
        BY <2>2, RecorderSaved, RecorderWritten DEF Differs
      <4> QED
        BY <2>2, <4>1, EthernetSaved, AddressWritten, EthernetWritten DEF Differs
    <3>3. IsUnitSetting(SavedSync(d, fails))
      <4>1. \A v : IsUnitSetting([d EXCEPT !.lines = v])
        BY <2>2 DEF IsUnitSetting
      <4>2. ASSUME NEW e, IsUnitSetting(e) PROVE IsUnitSetting(SavedPtp(e, fails))
        BY <4>2 DEF IsUnitSetting, SavedPtp
      <4> QED
        BY <2>2, <4>1, <4>2 DEF SavedSync
    <3> QED
      BY <3>1, <3>2, <3>3
  <2>3. IsUnitSetting(OnOK(fails))
    BY <1>3, <2>2 DEF OnOK
  <2> QED
    BY <1>1, <1>2, <2>1, <2>3 DEF TabsInv, CancelGivesBack
<1> QED
  BY <1>4, <1>5

\* Every step of the dialog keeps the invariant.
LEMMA StepTabs == TabsInv /\ [TabsNext]_tabVars => TabsInv'
<1> SUFFICES ASSUME TabsInv, [TabsNext]_tabVars PROVE TabsInv'
  OBVIOUS
<1>1. CASE UNCHANGED tabVars
  BY <1>1 DEF tabVars, TabsInv, SnapshotInv, CancelGivesBack
<1>2. CASE \E fails \in {{}} \cup {{x} : x \in Readings} : \E junk \in Unread :
             \E t \in unit.tabs : OpenDialog(fails, junk, t)
  BY <1>2, OpeningTabs
<1>3. CASE \E t \in tabs : \E read \in BOOLEAN : Switch(t, read)
  BY <1>3, ChooseTabs
<1>4. CASE PortsTimer \/ IpTimer \/ SyncTimer \/ ClickEndless
  BY <1>4, ChooseTabs
<1>5. CASE \/ \E v \in Offered["adc"] : SelectAdc(v)
           \/ \E v \in Offered["dac"] : SelectDac(v)
           \/ \E v \in Offered["selftest"] : SelectSelftest(v)
           \/ \E n \in Offered["code"] : EditCode(n)
           \/ \E v \in Offered["place"] : EditPlace(v)
           \/ \E x \in {"out", "ena"} : \E p \in Port : ClickPort(x, p)
           \/ \E x \in {"out", "ena"} : ClickGroup(x)
           \/ \E i \in Actuator : \E ok \in BOOLEAN : ClickActuator(i, ok)
           \/ \E ok \in BOOLEAN : ClickActuators(ok)
  BY <1>5, LiveTabs
<1>6. CASE \E x \in {"out", "ena"} : \E p \in Port : OtherProgram(x, p)
  BY <1>6, OtherTabs
<1>7. CASE \/ \E n \in Offered["label"] : EditLabel(n)
           \/ \E v \in Offered["net"] : EditNet(v)
           \/ ClickDhcp \/ ClickFtp
           \/ \E v \in Offered["timeout"] : EditTimeout(v)
           \/ \E v \in Offered["radios"] : ClickRadios(v)
           \/ \E x \in {"master", "slave"} : ClickLines(x)
           \/ ClickMaster \/ ClickSlave
           \/ \E v \in Offered["ptp"] : EditDomain(v) \/ EditPriority(v)
           \/ \E s \in {0, 1} : SelectStart(s)
           \/ \E v \in Offered["minutes"] : EditDuration(v)
           \/ ClickGenerator
           \/ \E v \in Offered["offset"] : EditOffset(v) \/ EditSine(v)
           \/ ClickPps
  <2>1. CASE \/ \E n \in Offered["label"] : EditLabel(n)
             \/ \E s \in {0, 1} : SelectStart(s)
             \/ \E v \in Offered["minutes"] : EditDuration(v)
             \/ ClickPps
    BY <2>1, ChooseTabs DEF EditLabel, SelectStart, EditDuration, ClickPps, NoTab
  <2>2. CASE \/ \E v \in Offered["net"] : EditNet(v)
             \/ ClickDhcp \/ ClickFtp
             \/ \E v \in Offered["timeout"] : EditTimeout(v)
             \/ \E v \in Offered["radios"] : ClickRadios(v)
    BY <2>2, ChooseTabs DEF EditNet, ClickDhcp, ClickFtp, EditTimeout, ClickRadios, NoTab
  <2>3. ASSUME NEW t, NEW x, NEW v, Choose(t, x, v), t # NoTab PROVE TabsInv'
    BY <2>3, ChooseTabs
  <2>4. CASE ClickGenerator \/ \E v \in Offered["offset"] : EditOffset(v) \/ EditSine(v)
    <3>1. \E t \in {"dc", "sine"} : \E v : Choose(t, "gen", v)
      BY <2>4, Zenon DEF ClickGenerator, EditOffset, EditSine
    <3> QED
      BY <2>3, <3>1 DEF NoTab
  <2>5. CASE \E x \in {"master", "slave"} : ClickLines(x)
    BY <2>3, <2>5 DEF ClickLines, NoTab
  <2>6. CASE ClickMaster \/ ClickSlave \/ \E v \in Offered["ptp"] : EditDomain(v) \/ EditPriority(v)
    <3>1. \E v : Choose("sync", "ptp", v)
      BY <2>6, Zenon DEF ClickMaster, ClickSlave, ChooseSync, EditDomain, EditPriority
    <3> QED
      BY <2>3, <3>1 DEF NoTab
  <2> QED
    BY <1>7, <2>1, <2>2, <2>4, <2>5, <2>6
<1>8. CASE PressCancel \/ \E fails \in SUBSET {"ip", "id", "sync"} : PressOk(fails)
  BY <1>8, LeaveTabs
<1> QED
  BY <1>1, <1>2, <1>3, <1>4, <1>5, <1>6, <1>7, <1>8 DEF TabsNext

\* After Cancel every setting that the dialog can take back is as it was when
\* it opened, for units with any pages: of the pages that write at once only
\* those of the actuators and of the metadata write what no snapshot has.
THEOREM CancelIsComplete == TabsSpec => []CancelGivesBack
<1>1. TabsInv => CancelGivesBack
  BY DEF TabsInv
<1> QED
  BY <1>1, InitTabs, StepTabs, PTL DEF TabsSpec

----------------------------------------------------------------------------
\* OK writes what was chosen.

BoxField ==
  {"adc", "dac", "label", "out", "ena", "net", "timeout", "radios", "dhcp", "ftp", "lines", "ptp",
   "start", "endless", "minutes", "gen", "pps", "act", "selftest", "code", "place"}

History == {"opened", "trusted", "lost", "disturbed", "putBack", "chosen"}

\* The settings that are the same in the device, whatever happens to them, as
\* the user chose them; the hardware id is never offered.
Direct == {"adc", "dac", "selftest", "code", "place", "id"}

\* The settings of which the page holds what was chosen.
Plain == {"label", "net", "dhcp", "ftp", "gen", "pps"}

Shapes ==
  /\ box = [x \in BoxField |-> box[x]]
  /\ was = [f \in History |-> was[f]]
  /\ IsUnitSetting(was.chosen)

\* What was read belongs to a page that is shown.
OnPages == tabs \subseteq unit.tabs /\ \A x \in was.trusted : \E t \in tabs : x \in SettingsOf(t)

Values ==
  /\ box.ptp \in Synchronisation /\ box.gen \in Generator /\ box.endless \in BOOLEAN
  /\ was.chosen.label \in Nat
  /\ "timeout" \in was.trusted => was.chosen.timeout \in Nat
  /\ was.chosen.start \in {0, 1, Undefined}

\* The controls of the pages that are saved later are ahead of the device.
Later ==
  /\ \A x \in Plain : x \in was.trusted => box[x] = was.chosen[x]
  /\ \A x \in {"timeout", "radios"} :
       x \in was.trusted /\ ~was.putBack => box[x] = was.chosen[x]
  /\ "ptp" \in was.trusted => box.ptp = was.chosen.ptp \/ (unit.oldGps /\ was.chosen.ptp.slave)
  /\ was.chosen.lines # "partly" => box.lines = was.chosen.lines
  /\ box.start = was.chosen.start
  /\ was.chosen.minutes <= 30 =>
       was.chosen.minutes = IF box.endless THEN 0 ELSE box.minutes

\* Of the pages that write at once the device has it already.
Now ==
  /\ \A x \in Direct : device[x] = was.chosen[x]
  /\ ~unit.lines => device.lines = was.chosen.lines
  /\ "act" \notin was.lost => device.act = was.chosen.act
  /\ ~was.disturbed =>
       \A x \in {"out", "ena"} :
         device[x] = was.chosen[x] /\ box[x] = device[x] /\ device[x] \subseteq Port

Held == Shapes /\ OnPages /\ Values /\ Later /\ Now

ChoiceInv ==
  /\ active = NoTab /\ left = "" => device = unit.device
  /\ active # NoTab => Held
  /\ OkWritesChoices

\* While the dialog is not left nothing is promised yet.
LEMMA StillOpen ==
  ASSUME TabsInv, active # NoTab, UNCHANGED left, Held', active' # NoTab
  PROVE  ChoiceInv'
BY DEF TabsInv, SnapshotInv, ChoiceInv, OkWritesChoices

\* The pages that are there stay those that belong to the unit.
LEMMA PagesKept ==
  ASSUME OnPages, UNCHANGED << unit, tabs >>, was'.trusted = was.trusted
  PROVE  OnPages'
BY DEF OnPages, SettingsOf

\* Before a dialog opens nothing was chosen.
LEMMA InitChoice == TabsInit => ChoiceInv
BY DEF TabsInit, ChoiceInv, OkWritesChoices

\* What the user chooses on a page that is saved later.
Suits(x, v) ==
  /\ x \in Plain \cup {"timeout", "radios", "ptp", "lines", "start", "minutes"}
  /\ x \in {"label", "timeout"} => v \in Nat
  /\ x = "gen" => v \in Generator
  /\ x = "ptp" => v \in Synchronisation
  /\ x = "lines" => unit.lines
  /\ x = "start" => v \in {0, 1}
  /\ x = "minutes" => ~box.endless

\* What was chosen last is what the control of that page shows.
LEMMA ChooseHeld ==
  ASSUME Held, NEW t, NEW x, NEW v, Choose(t, x, v), Suits(x, v)
  PROVE  Held'
<1>1. /\ box' = [box EXCEPT ![x] = v] /\ was' = [was EXCEPT !.chosen[x] = v]
      /\ UNCHANGED << unit, device, tabs >>
  BY DEF Choose
<1>2. x \in BoxField /\ x \in Setting /\ x \notin Direct \cup {"out", "ena", "act"}
  BY DEF Suits, Plain, BoxField, Setting, Direct
<1>3. /\ DOMAIN box = BoxField /\ DOMAIN was = History /\ DOMAIN was.chosen = Setting
  BY DEF Held, Shapes, IsUnitSetting
<1>4. Shapes'
  BY <1>1, <1>2, <1>3 DEF Held, Shapes, IsUnitSetting, History
<1>5. /\ was'.trusted = was.trusted /\ was'.lost = was.lost /\ was'.disturbed = was.disturbed
      /\ was'.putBack = was.putBack
      /\ \A y \in Setting : was'.chosen[y] = IF y = x THEN v ELSE was.chosen[y]
      /\ \A y \in BoxField : box'[y] = IF y = x THEN v ELSE box[y]
  BY <1>1, <1>2, <1>3 DEF History
<1>6. OnPages'
  BY <1>1, <1>5 DEF Held, OnPages, SettingsOf
<1>7. Values'
  BY <1>5 DEF Held, Values, Suits, Plain, Setting, BoxField
<1>8. Later'
  <2>1. \A y \in Plain : y \in was'.trusted => box'[y] = was'.chosen[y]
    BY <1>5 DEF Held, Later, Plain, Setting, BoxField
  <2>2. \A y \in {"timeout", "radios"} :
          y \in was'.trusted /\ ~was'.putBack => box'[y] = was'.chosen[y]
    BY <1>5 DEF Held, Later, Setting, BoxField
  <2>3. "ptp" \in was'.trusted =>
          box'.ptp = was'.chosen.ptp \/ (unit'.oldGps /\ was'.chosen.ptp.slave)
    BY <1>1, <1>5 DEF Held, Later, Setting, BoxField
  <2>4. /\ was'.chosen.lines # "partly" => box'.lines = was'.chosen.lines
        /\ box'.start = was'.chosen.start
    BY <1>5 DEF Held, Later, Setting, BoxField
  <2>5. was'.chosen.minutes <= 30 =>
          was'.chosen.minutes = IF box'.endless THEN 0 ELSE box'.minutes
    BY <1>5 DEF Held, Later, Suits, Setting, BoxField, Plain
  <2> QED
    BY <2>1, <2>2, <2>3, <2>4, <2>5 DEF Later
<1>9. Now'
  <2>1. /\ \A y \in Direct : device'[y] = was'.chosen[y]
        /\ "act" \notin was'.lost => device'.act = was'.chosen.act
    BY <1>1, <1>2, <1>5 DEF Held, Now, Direct, Setting
  <2>2. ~unit'.lines => device'.lines = was'.chosen.lines
    BY <1>1, <1>5 DEF Held, Now, Suits, Setting
  <2>3. ~was'.disturbed =>
          \A y \in {"out", "ena"} :
            device'[y] = was'.chosen[y] /\ box'[y] = device'[y] /\ device'[y] \subseteq Port
    BY <1>1, <1>2, <1>5 DEF Held, Now, Setting, BoxField
  <2> QED
    BY <2>1, <2>2, <2>3 DEF Now
<1> QED
  BY <1>4, <1>6, <1>7, <1>8, <1>9 DEF Held

\* The two halves of a step that leaves the dialog open.
LEMMA LaterPages ==
  ASSUME TabsInv, ChoiceInv,
         \/ \E n \in Offered["label"] : EditLabel(n)
         \/ \E v \in Offered["net"] : EditNet(v)
         \/ ClickDhcp \/ ClickFtp
         \/ \E v \in Offered["timeout"] : EditTimeout(v)
         \/ \E v \in Offered["radios"] : ClickRadios(v)
         \/ \E x \in {"master", "slave"} : ClickLines(x)
         \/ ClickMaster \/ ClickSlave
         \/ \E v \in Offered["ptp"] : EditDomain(v) \/ EditPriority(v)
         \/ \E s \in {0, 1} : SelectStart(s)
         \/ \E v \in Offered["minutes"] : EditDuration(v)
         \/ ClickGenerator
         \/ \E v \in Offered["offset"] : EditOffset(v) \/ EditSine(v)
         \/ ClickPps
  PROVE  ChoiceInv'
<1>1. ASSUME NEW t, NEW x, NEW v, Choose(t, x, v), t # NoTab, Suits(x, v)
      PROVE  ChoiceInv'
  <2>1. active # NoTab /\ active' = active /\ left' = left
    BY <1>1 DEF Choose, Doing
  <2>2. Held'
    BY <1>1, <2>1, ChooseHeld DEF ChoiceInv
  <2> QED
    BY <2>1, <2>2, StillOpen
<1>2. active # NoTab => Held
  BY DEF ChoiceInv
<1>3. CASE \/ \E n \in Offered["label"] : EditLabel(n)
           \/ \E v \in Offered["net"] : EditNet(v)
           \/ ClickDhcp \/ ClickFtp
           \/ \E v \in Offered["timeout"] : EditTimeout(v)
           \/ \E v \in Offered["radios"] : ClickRadios(v)
           \/ \E x \in {"master", "slave"} : ClickLines(x)
  <2>1. CASE \E n \in Offered["label"] : EditLabel(n)
    BY <1>1, <2>1, DeviceTabsAssumption DEF EditLabel, Suits, Plain, NoTab
  <2>2. CASE \/ \E v \in Offered["net"] : EditNet(v)
             \/ \E v \in Offered["radios"] : ClickRadios(v)
    BY <1>1, <2>2 DEF EditNet, ClickRadios, Suits, Plain, NoTab
  <2>3. CASE ClickDhcp \/ ClickFtp
    BY <1>1, <2>3 DEF ClickDhcp, ClickFtp, Suits, Plain, NoTab
  <2>4. CASE \E v \in Offered["timeout"] : EditTimeout(v)
    BY <1>1, <2>4, DeviceTabsAssumption DEF EditTimeout, Suits, Plain, NoTab
  <2>5. CASE \E x \in {"master", "slave"} : ClickLines(x)
    <3>1. unit.lines /\ \E v : Choose("sync", "lines", v)
      BY <2>5 DEF ClickLines
    <3>2. \A v : Suits("lines", v)
      BY <3>1 DEF Suits, Plain
    <3> QED
      BY <1>1, <3>1, <3>2 DEF NoTab
  <2> QED
    BY <1>3, <2>1, <2>2, <2>3, <2>4, <2>5
<1>4. CASE \/ \E s \in {0, 1} : SelectStart(s)
           \/ \E v \in Offered["minutes"] : EditDuration(v)
           \/ ClickPps
  <2>1. CASE \E s \in {0, 1} : SelectStart(s)
    BY <1>1, <2>1 DEF SelectStart, Suits, Plain, NoTab
  <2>2. CASE \E v \in Offered["minutes"] : EditDuration(v)
    BY <1>1, <2>2 DEF EditDuration, Suits, Plain, NoTab
  <2>3. CASE ClickPps
    BY <1>1, <2>3 DEF ClickPps, Suits, Plain, NoTab
  <2> QED
    BY <1>4, <2>1, <2>2, <2>3
<1>5. CASE ClickMaster \/ ClickSlave \/ \E v \in Offered["ptp"] : EditDomain(v) \/ EditPriority(v)
  <2>1. active = "sync" /\ active # NoTab
    BY <1>5 DEF ClickMaster, ClickSlave, EditDomain, EditPriority, ChooseSync, NoTab
  <2>2. box.ptp \in Synchronisation
    BY <1>2, <2>1 DEF Held, Values
  <2>3. \A v \in Offered["ptp"] : TypedNumber(v) \in Nat
    BY DeviceTabsAssumption DEF TypedNumber
  <2>4. \E v \in Synchronisation : ChooseSync(v)
    <3>1. CASE ClickMaster
      <4>1. [box.ptp EXCEPT !.master = ~@] \in Synchronisation
        BY <2>2 DEF Synchronisation
      <4> QED
        BY <3>1, <4>1 DEF ClickMaster
    <3>2. CASE ClickSlave
      <4>1. [box.ptp EXCEPT !.slave = ~@] \in Synchronisation
        BY <2>2 DEF Synchronisation
      <4> QED
        BY <3>2, <4>1 DEF ClickSlave
    <3>3. ASSUME NEW v \in Offered["ptp"], EditDomain(v) \/ EditPriority(v)
          PROVE  \E w \in Synchronisation : ChooseSync(w)
      <4>1. /\ [box.ptp EXCEPT !.number = TypedNumber(v)] \in Synchronisation
            /\ [box.ptp EXCEPT !.priority = TypedNumber(v)] \in Synchronisation
        BY <2>2, <2>3 DEF Synchronisation
      <4> QED
        BY <3>3, <4>1 DEF EditDomain, EditPriority
    <3> QED
      BY <1>5, <3>1, <3>2, <3>3
  <2>5. \A v \in Synchronisation : Suits("ptp", v)
    BY DEF Suits, Plain
  <2> QED
    BY <1>1, <2>4, <2>5 DEF ChooseSync, NoTab
<1>6. CASE ClickGenerator \/ \E v \in Offered["offset"] : EditOffset(v) \/ EditSine(v)
  <2>1. active # NoTab
    BY <1>6 DEF ClickGenerator, EditOffset, EditSine, Choose, Doing, NoTab
  <2>2. box.gen \in Generator
    BY <1>2, <2>1 DEF Held, Values
  <2>3. \E t \in {"dc", "sine"} : \E g \in Generator : Choose(t, "gen", g)
    <3>1. CASE ClickGenerator
      <4>1. [box.gen EXCEPT !.on = ~@] \in Generator
        BY <2>2 DEF Generator
      <4> QED
        BY <3>1, <4>1 DEF ClickGenerator
    <3>2. ASSUME NEW v \in Offered["offset"], EditOffset(v) \/ EditSine(v)
          PROVE  \E t \in {"dc", "sine"} : \E g \in Generator : Choose(t, "gen", g)
      <4>1. v \in Int
        BY DeviceTabsAssumption
      <4>2. /\ [box.gen EXCEPT !.offset = v] \in Generator
            /\ [box.gen EXCEPT !.sine = v] \in Generator
        BY <2>2, <4>1 DEF Generator
      <4> QED
        BY <3>2, <4>2 DEF EditOffset, EditSine
    <3> QED
      BY <1>6, <3>1, <3>2
  <2>4. \A g \in Generator : Suits("gen", g)
    BY DEF Suits, Plain
  <2> QED
    BY <1>1, <2>3, <2>4 DEF NoTab
<1> QED
  BY <1>3, <1>4, <1>5, <1>6

\* The timers and pages coming to the front; a box that a timer puts back is
\* remembered.
LEMMA TimersKeepHeld ==
  ASSUME TabsInv, ChoiceInv,
         \/ \E t \in tabs : \E read \in BOOLEAN : Switch(t, read)
         \/ PortsTimer \/ IpTimer \/ SyncTimer \/ ClickEndless
  PROVE  ChoiceInv'
<1>1. active # NoTab /\ left' = left /\ UNCHANGED << unit, device, tabs >> /\ Held
  BY DEF Switch, PortsTimer, IpTimer, SyncTimer, ClickEndless, Doing, NoTab, ChoiceInv
<1>2. active' # NoTab
  <2>1. active' \in tabs
    BY DEF Switch, PortsTimer, IpTimer, SyncTimer, ClickEndless, Doing, TabsInv, SnapshotInv,
           NoTab
  <2>2. NoTab \notin tabs
    <3>1. unit.tabs \subseteq Page \cup ChannelPage
      BY DeviceTabsAssumption DEF TabsInv
    <3>2. tabs \subseteq unit.tabs
      BY <1>1 DEF Held, OnPages
    <3> QED
      BY <3>1, <3>2 DEF Page, ChannelPage, NoTab
  <2> QED
    BY <2>1, <2>2
<1>3. Shapes /\ OnPages /\ Values /\ Later /\ Now
  BY <1>1 DEF Held
<1>4. Held'
  <2>1. CASE (\E t \in tabs : \E read \in BOOLEAN : Switch(t, read)) \/ SyncTimer
    <3>1. UNCHANGED << box, was >>
      BY <2>1 DEF Switch, SyncTimer
    <3> QED
      <4>1. OnPages'
        BY <1>1, <1>3, <3>1, PagesKept
      <4>2. Shapes' /\ Values' /\ Now'
        BY <1>1, <1>3, <3>1 DEF Shapes, IsUnitSetting, Values, Now
      <4>3. Later'
        BY <1>1, <1>3, <3>1 DEF Later
      <4> QED
        BY <4>1, <4>2, <4>3 DEF Held
  <2>2. CASE PortsTimer
    <3>1. /\ was' = was /\ box' = [x \in BoxField |-> box'[x]]
          /\ box'.out = device.out /\ box'.ena = device.ena
          /\ \A x \in BoxField \ {"out", "ena"} : box'[x] = box[x]
      BY <1>3, <2>2 DEF PortsTimer, Shapes, BoxField
    <3>2. Shapes' /\ OnPages' /\ Values'
      BY <1>1, <1>3, <3>1 DEF Shapes, IsUnitSetting, OnPages, SettingsOf, Values, BoxField
    <3>3. Later'
      BY <1>1, <1>3, <3>1 DEF Later, BoxField, Plain
    <3>4. Now'
      BY <1>1, <1>3, <3>1 DEF Now
    <3> QED
      BY <3>2, <3>3, <3>4 DEF Held
  <2>3. CASE IpTimer
    <3>1. /\ box' = [x \in BoxField |-> box'[x]]
          /\ \A x \in BoxField \ {"timeout", "radios"} : box'[x] = box[x]
          /\ was' = [was EXCEPT !.putBack = @ \/ box' # box]
      BY <1>3, <2>3 DEF IpTimer, Shapes, BoxField
    <3>2. /\ was' = [f \in History |-> was'[f]]
          /\ \A f \in History \ {"putBack"} : was'[f] = was[f]
          /\ ~was'.putBack => ~was.putBack /\ box' = box
      BY <1>3, <3>1 DEF Shapes, History
    <3>3. Shapes' /\ OnPages' /\ Values'
      BY <1>1, <1>3, <3>1, <3>2
      DEF Shapes, IsUnitSetting, OnPages, SettingsOf, Values, BoxField, History
    <3>4. Later'
      BY <1>1, <1>3, <3>1, <3>2 DEF Later, BoxField, Plain, History
    <3>5. Now'
      BY <1>1, <1>3, <3>1, <3>2 DEF Now, BoxField, History
    <3> QED
      BY <3>3, <3>4, <3>5 DEF Held
  <2>4. CASE ClickEndless
    <3>1. /\ box' = [x \in BoxField |-> box'[x]] /\ box'.endless = ~box.endless
          /\ \A x \in BoxField \ {"endless"} : box'[x] = box[x]
      BY <1>3, <2>4 DEF ClickEndless, Shapes, BoxField
    <3>2. /\ was' = [f \in History |-> was'[f]]
          /\ \A f \in History \ {"chosen"} : was'[f] = was[f]
          /\ IsUnitSetting(was'.chosen)
          /\ was'.chosen.minutes = IF box.endless THEN box.minutes ELSE 0
          /\ \A x \in Setting \ {"minutes"} : was'.chosen[x] = was.chosen[x]
      BY <1>3, <2>4 DEF ClickEndless, Shapes, History, IsUnitSetting, Setting
    <3>3. Shapes' /\ OnPages' /\ Values'
      <4>1. OnPages'
        BY <1>1, <1>3, <3>2, PagesKept DEF History
      <4>2. Shapes'
        BY <3>1, <3>2 DEF Shapes
      <4>3. Values'
        BY <1>1, <1>3, <3>1, <3>2 DEF Values, BoxField, History, Setting
      <4> QED
        BY <4>1, <4>2, <4>3
    <3>4. Later'
      <4>1. /\ box.endless \in BOOLEAN
            /\ \A x \in BoxField \ {"endless"} : box'[x] = box[x]
            /\ \A x \in Setting \ {"minutes"} : was'.chosen[x] = was.chosen[x]
        BY <1>3, <3>1, <3>2 DEF Values
      <4>2. was'.chosen.minutes = IF box'.endless THEN 0 ELSE box'.minutes
        BY <3>1, <3>2, <4>1 DEF BoxField
      <4>3. was'.trusted = was.trusted /\ was'.putBack = was.putBack
        BY <3>2 DEF History
      <4> QED
        BY <1>1, <1>3, <4>1, <4>2, <4>3 DEF Later, BoxField, Plain, Setting
    <3>5. Now'
      BY <1>1, <1>3, <3>1, <3>2 DEF Now, BoxField, History, Setting, Direct
    <3> QED
      BY <3>3, <3>4, <3>5 DEF Held
  <2> QED
    BY <2>1, <2>2, <2>3, <2>4
<1> QED
  BY <1>1, <1>2, <1>4, StillOpen

\* What writes at once: the controls and the device, and what is chosen, of the
\* settings in some set only.
LEMMA NowHeld ==
  ASSUME Held, UNCHANGED << unit, tabs >>,
         NEW X \in SUBSET (Direct \cup {"out", "ena", "act"}),
         box' = [x \in BoxField |-> box'[x]], was' = [f \in History |-> was'[f]],
         IsUnitSetting(was'.chosen),
         was'.trusted = was.trusted, was'.putBack = was.putBack,
         \A x \in BoxField \ X : box'[x] = box[x],
         \A x \in Setting \ X : was'.chosen[x] = was.chosen[x] /\ device'[x] = device[x],
         Now'
  PROVE  Held'
<1>1. Shapes' /\ OnPages'
  BY PagesKept DEF Held, Shapes
<1>2. "label" \notin X /\ "timeout" \notin X /\ "ptp" \notin X /\ "gen" \notin X
      /\ "endless" \notin X /\ "start" \notin X /\ "minutes" \notin X /\ "lines" \notin X
      /\ "radios" \notin X /\ X \cap Plain = {}
  BY DEF Direct, Plain
<1>3. Values'
  BY <1>2 DEF Held, Values, BoxField, Setting
<1>4. Later'
  BY <1>2 DEF Held, Later, BoxField, Setting, Plain
<1> QED
  BY <1>1, <1>3, <1>4 DEF Held

\* The pages that write at once hold what was chosen, the device as well.
LEMMA NowPages ==
  ASSUME TabsInv, ChoiceInv,
         \/ \E v \in Offered["adc"] : SelectAdc(v)
         \/ \E v \in Offered["dac"] : SelectDac(v)
         \/ \E v \in Offered["selftest"] : SelectSelftest(v)
         \/ \E n \in Offered["code"] : EditCode(n)
         \/ \E v \in Offered["place"] : EditPlace(v)
         \/ \E x \in {"out", "ena"} : \E p \in Port : ClickPort(x, p)
         \/ \E x \in {"out", "ena"} : ClickGroup(x)
         \/ \E i \in Actuator : \E ok \in BOOLEAN : ClickActuator(i, ok)
         \/ \E ok \in BOOLEAN : ClickActuators(ok)
  PROVE  ChoiceInv'
<1> DEFINE Quiet == UNCHANGED << unit, tabs, active, left >> /\ active # NoTab
<1>1. ASSUME Quiet, Held' PROVE ChoiceInv'
  BY <1>1, StillOpen
<1>2. ASSUME Quiet PROVE Held /\ Shapes /\ Now /\ IsUnitSetting(device)
  BY <1>2 DEF ChoiceInv, Held, TabsInv
<1>3. ASSUME NEW v \in Offered["adc"], SelectAdc(v) PROVE ChoiceInv'
  <2>1. Quiet
    BY <1>3 DEF SelectAdc, Doing, NoTab
  <2>2. Held /\ Shapes /\ Now /\ IsUnitSetting(device)
    BY <1>2, <2>1
  <2> DEFINE b == unit.coupled /\ Coupled(v) \in unit.dacs
             w == Coupled(v)
  <2>3. /\ device' = [device EXCEPT !.adc = v, !.dac = IF b THEN w ELSE @]
        /\ box' = [box EXCEPT !.adc = v, !.dac = IF b THEN w ELSE @]
        /\ was' = [was EXCEPT !.chosen.adc = v, !.chosen.dac = IF b THEN w ELSE @]
    BY <1>3, Zenon DEF SelectAdc
  <2> HIDE DEF b, w
  <2>4. /\ box' = [x \in BoxField |-> box'[x]]
        /\ \A x \in BoxField \ {"adc", "dac"} : box'[x] = box[x]
    BY <2>2, <2>3 DEF Shapes, BoxField
  <2>5. /\ was' = [f \in History |-> was'[f]] /\ IsUnitSetting(was'.chosen)
        /\ \A f \in History \ {"chosen"} : was'[f] = was[f]
        /\ was'.chosen.adc = v /\ was'.chosen.dac = IF b THEN w ELSE was.chosen.dac
        /\ \A x \in Setting \ {"adc", "dac"} : was'.chosen[x] = was.chosen[x]
    BY <2>2, <2>3 DEF Shapes, History, IsUnitSetting, Setting
  <2>6. /\ device'.adc = v /\ device'.dac = IF b THEN w ELSE device.dac
        /\ \A x \in Setting \ {"adc", "dac"} : device'[x] = device[x]
    BY <2>2, <2>3 DEF IsUnitSetting, Setting
  <2>7. Now'
    BY <2>1, <2>2, <2>4, <2>5, <2>6 DEF Now, Direct, Setting, BoxField, History
  <2>8. {"adc", "dac"} \subseteq Direct \cup {"out", "ena", "act"}
    BY DEF Direct
  <2>9. Held'
    BY <2>1, <2>2, <2>4, <2>5, <2>6, <2>7, <2>8, NowHeld DEF History
  <2> QED
    BY <1>1, <2>1, <2>9
<1>4. ASSUME NEW t, NEW x \in Direct \cap BoxField, NEW v, t # NoTab,
             ChooseNow(t, x, v, [device EXCEPT ![x] = v])
      PROVE  ChoiceInv'
  <2>1. Quiet
    BY <1>4 DEF ChooseNow, Doing
  <2>2. Held /\ Shapes /\ Now /\ IsUnitSetting(device)
    BY <1>2, <2>1
  <2>3. x \in Setting
    BY DEF Direct, Setting
  <2>4. /\ box' = [y \in BoxField |-> box'[y]]
        /\ \A y \in BoxField \ {x} : box'[y] = box[y]
    BY <1>4, <2>2 DEF ChooseNow, Shapes
  <2>5. /\ was' = [f \in History |-> was'[f]] /\ IsUnitSetting(was'.chosen)
        /\ \A f \in History \ {"chosen"} : was'[f] = was[f]
        /\ was'.chosen[x] = v
        /\ \A y \in Setting \ {x} : was'.chosen[y] = was.chosen[y]
    BY <1>4, <2>2, <2>3 DEF ChooseNow, Shapes, History, IsUnitSetting
  <2>6. device'[x] = v /\ \A y \in Setting \ {x} : device'[y] = device[y]
    BY <1>4, <2>2, <2>3 DEF ChooseNow, IsUnitSetting
  <2>7. Now'
    BY <2>1, <2>2, <2>3, <2>4, <2>5, <2>6 DEF Now, Direct, Setting, BoxField, History
  <2>8. Held'
    BY <2>1, <2>2, <2>4, <2>5, <2>6, <2>7, NowHeld DEF History
  <2> QED
    BY <1>1, <2>1, <2>8
<1>5. CASE \/ \E v \in Offered["dac"] : SelectDac(v)
           \/ \E v \in Offered["selftest"] : SelectSelftest(v)
           \/ \E n \in Offered["code"] : EditCode(n)
  <2>1. {"dac", "selftest", "code"} \subseteq Direct \cap BoxField
    BY DEF Direct, BoxField
  <2> QED
    BY <1>4, <1>5, <2>1 DEF SelectDac, SelectSelftest, EditCode, NoTab
<1>6. ASSUME NEW v \in Offered["place"], EditPlace(v) PROVE ChoiceInv'
  <2>1. CASE v \notin {Minus, NoNumber}
    <3>1. "place" \in Direct \cap BoxField
      BY DEF Direct, BoxField
    <3> QED
      BY <1>4, <1>6, <2>1, <3>1 DEF EditPlace, NoTab
  <2>2. CASE v \in {Minus, NoNumber}
    <3>1. Quiet /\ UNCHANGED << device, was >>
      BY <1>6, <2>2 DEF EditPlace, Doing, NoTab
    <3>2. Held /\ Shapes /\ Now
      BY <1>2, <3>1
    <3>3. /\ box' = [y \in BoxField |-> box'[y]]
          /\ \A y \in BoxField \ {"place"} : box'[y] = box[y]
      BY <1>6, <2>2, <3>2 DEF EditPlace, Shapes
    <3>4. Now'
      BY <3>1, <3>2, <3>3 DEF Now, BoxField
    <3>5. "place" \in Direct /\ was = [f \in History |-> was[f]] /\ IsUnitSetting(was.chosen)
      BY <3>2 DEF Direct, Shapes
    <3>6. Held'
      BY <3>1, <3>2, <3>3, <3>4, <3>5, NowHeld
    <3> QED
      BY <1>1, <3>1, <3>6
  <2> QED
    BY <2>1, <2>2
<1>7. ASSUME NEW x \in {"out", "ena"}, NEW ports \in SUBSET Port, NEW v,
             ChooseNow("ports", x, v, Written(ports, [box EXCEPT ![x] = v])),
             was.disturbed \/ (v \subseteq Port /\ v \ ports = box[x] \ ports)
      PROVE  ChoiceInv'
  <2>1. Quiet
    BY <1>7 DEF ChooseNow, Doing, NoTab
  <2>2. Held /\ Shapes /\ Now /\ IsUnitSetting(device)
    BY <1>2, <2>1
  <2>3. x \in Setting /\ x \in BoxField /\ {"out", "ena"} \subseteq Setting \cap BoxField
    BY DEF Setting, BoxField
  <2>4. /\ box' = [y \in BoxField |-> box'[y]] /\ box'[x] = v
        /\ \A y \in BoxField \ {x} : box'[y] = box[y]
        /\ box' = [box EXCEPT ![x] = v]
    BY <1>7, <2>2, <2>3 DEF ChooseNow, Shapes
  <2>5. /\ was' = [f \in History |-> was'[f]] /\ IsUnitSetting(was'.chosen)
        /\ \A f \in History \ {"chosen"} : was'[f] = was[f]
        /\ was'.chosen[x] = v
        /\ \A y \in Setting \ {x} : was'.chosen[y] = was.chosen[y]
    BY <1>7, <2>2, <2>3 DEF ChooseNow, Shapes, History, IsUnitSetting
  <2>6. /\ \A y \in {"out", "ena"} :
             device'[y] = (device[y] \ ports) \cup (box'[y] \cap ports)
        /\ \A y \in Setting \ {"out", "ena"} : device'[y] = device[y]
    <3>1. device' = Written(ports, box')
      BY <1>7, <2>4 DEF ChooseNow
    <3> QED
      BY <2>2, <2>3, <3>1 DEF Written, IsUnitSetting
  <2>7. ~was.disturbed =>
          \A y \in {"out", "ena"} :
            device'[y] = was'.chosen[y] /\ box'[y] = device'[y] /\ device'[y] \subseteq Port
    <3> SUFFICES ASSUME ~was.disturbed, NEW y \in {"out", "ena"}
                 PROVE  /\ device'[y] = was'.chosen[y] /\ box'[y] = device'[y]
                        /\ device'[y] \subseteq Port
      OBVIOUS
    <3>1. /\ device[y] = was.chosen[y] /\ box[y] = device[y] /\ device[y] \subseteq Port
      BY <2>2 DEF Now
    <3>2. box'[y] \ ports = box[y] \ ports /\ box'[y] \subseteq Port
      BY <1>7, <2>3, <2>4, <3>1
    <3>3. device'[y] = box'[y]
      BY <2>6, <3>1, <3>2
    <3>4. was'.chosen[y] = box'[y]
      BY <2>3, <2>4, <2>5, <3>1
    <3> QED
      BY <3>2, <3>3, <3>4
  <2>8. Now'
    BY <2>1, <2>2, <2>4, <2>5, <2>6, <2>7 DEF Now, Direct, Setting, History
  <2>9. Held'
    <3>1. {"out", "ena"} \subseteq Direct \cup {"out", "ena", "act"}
      OBVIOUS
    <3> QED
      BY <2>1, <2>2, <2>4, <2>5, <2>6, <2>8, <3>1, NowHeld DEF History
  <2> QED
    BY <1>1, <2>1, <2>9
<1>8. ASSUME NEW x \in {"out", "ena"}, NEW p \in Port, ClickPort(x, p) PROVE ChoiceInv'
  <2>1. PICK v : /\ v = IF p \in box[x] THEN box[x] \ {p} ELSE box[x] \cup {p}
                 /\ ChooseNow("ports", x, v, Written({p}, [box EXCEPT ![x] = v]))
    BY <1>8 DEF ClickPort
  <2>2. Quiet
    BY <2>1 DEF ChooseNow, Doing, NoTab
  <2>3. ~was.disturbed => box[x] \subseteq Port
    BY <1>2, <2>2 DEF Now
  <2>4. was.disturbed \/ (v \subseteq Port /\ v \ {p} = box[x] \ {p})
    BY <2>1, <2>3
  <2> QED
    BY <1>7, <2>1, <2>4
<1>9. ASSUME NEW x \in {"out", "ena"}, ClickGroup(x) PROVE ChoiceInv'
  <2>1. PICK v : /\ v = IF box[x] = {} THEN Port ELSE {}
                 /\ ChooseNow("ports", x, v, Written(Port, [box EXCEPT ![x] = v]))
    BY <1>9 DEF ClickGroup, GroupClicked
  <2>2. Quiet
    BY <2>1 DEF ChooseNow, Doing, NoTab
  <2>3. ~was.disturbed => box[x] \subseteq Port
    BY <1>2, <2>2 DEF Now
  <2>4. was.disturbed \/ (v \subseteq Port /\ v \ Port = box[x] \ Port)
    BY <2>1, <2>3
  <2> QED
    BY <1>7, <2>1, <2>4
<1>10. ASSUME NEW v, NEW w, NEW ok \in BOOLEAN, SetActuators(v, w, ok) PROVE ChoiceInv'
  <2>1. Quiet
    BY <1>10 DEF SetActuators, Doing, NoTab
  <2>2. Held /\ Shapes /\ Now /\ IsUnitSetting(device)
    BY <1>2, <2>1
  <2>3. /\ box' = [y \in BoxField |-> box'[y]]
        /\ \A y \in BoxField \ {"act"} : box'[y] = box[y]
    BY <1>10, <2>2 DEF SetActuators, Shapes
  <2>4. /\ was' = [f \in History |-> was'[f]] /\ IsUnitSetting(was'.chosen)
        /\ \A f \in History \ {"chosen", "lost"} : was'[f] = was[f]
        /\ "act" \notin was'.lost => ok
        /\ was'.chosen.act = v
        /\ \A y \in Setting \ {"act"} : was'.chosen[y] = was.chosen[y]
    BY <1>10, <2>2 DEF SetActuators, Shapes, History, IsUnitSetting, Setting
  <2>5. /\ ok => device'.act = v
        /\ \A y \in Setting \ {"act"} : device'[y] = device[y]
    BY <1>10, <2>2 DEF SetActuators, IsUnitSetting, Setting
  <2>6. Now'
    BY <2>1, <2>2, <2>3, <2>4, <2>5 DEF Now, Direct, Setting, History, BoxField
  <2>7. {"act"} \subseteq Direct \cup {"out", "ena", "act"}
    OBVIOUS
  <2>8. Held'
    BY <2>1, <2>2, <2>3, <2>4, <2>5, <2>6, <2>7, NowHeld DEF History
  <2> QED
    BY <1>1, <2>1, <2>8
<1> QED
  BY <1>3, <1>5, <1>6, <1>8, <1>9, <1>10 DEF ClickActuator, ClickActuators

\* Another program moves ports behind the pages, and the note of the choice with them.
LEMMA OtherKeepsHeld ==
  ASSUME TabsInv, ChoiceInv, NEW x \in {"out", "ena"}, NEW p, OtherProgram(x, p)
  PROVE  ChoiceInv'
<1>1. /\ active # NoTab /\ UNCHANGED << unit, tabs, active, left, box >>
  BY DEF OtherProgram
<1>2. Held /\ Shapes /\ Now /\ IsUnitSetting(device)
  BY <1>1 DEF ChoiceInv, Held, TabsInv
<1>3. PICK v : device' = [device EXCEPT ![x] = v]
  BY DEF OtherProgram
<1>4. \A y \in Setting \ {"out", "ena"} : device'[y] = device[y]
  BY <1>2, <1>3 DEF IsUnitSetting
<1>5. /\ was' = [f \in History |-> was'[f]] /\ was'.disturbed = TRUE
      /\ \A f \in History \ {"disturbed"} : was'[f] = was[f]
  BY <1>2 DEF OtherProgram, Shapes, History
<1>6. Now'
  BY <1>1, <1>2, <1>4, <1>5 DEF Now, Direct, Setting, History
<1>7. /\ {"out", "ena"} \subseteq Direct \cup {"out", "ena", "act"}
      /\ box = [y \in BoxField |-> box[y]] /\ IsUnitSetting(was.chosen)
  BY <1>2 DEF Shapes
<1>8. Held'
  BY <1>1, <1>2, <1>4, <1>5, <1>6, <1>7, NowHeld DEF History
<1> QED
  BY <1>1, <1>8, StillOpen

\* The page of a setting.
LEMMA PageOf ==
  ASSUME unit \in Unit, NEW t \in unit.tabs, NEW x \in SettingsOf(t)
  PROVE  /\ x = "label" => t = "description"
         /\ x \in {"net", "timeout", "radios", "id", "dhcp", "ftp"} => t = "ip"
         /\ x \in {"timeout", "radios", "id"} => ~unit.zsp
         /\ x \in {"dhcp", "ftp"} => unit.zsp
         /\ x \in {"lines", "ptp"} => t = "sync"
         /\ x \in {"start", "minutes"} => t = "registrator"
         /\ x = "gen" => t \in {"dc", "sine"}
         /\ x = "pps" => t = "pps"
         /\ x \in Setting
<1>1. t \in Page
  BY DeviceTabsAssumption DEF Page, ChannelPage
<1> QED
  BY <1>1 DEF Page, SettingsOf, Setting

\* A device has no sine, and a channel has no generator but that.
LEMMA OneGenerator ==
  ASSUME unit \in Unit PROVE ~("dc" \in unit.tabs /\ "sine" \in unit.tabs)
BY DeviceTabsAssumption DEF Page, ChannelPage

\* What was read is what the device has.
LEMMA TrustedRead ==
  ASSUME unit \in Unit, NEW fails \in SUBSET Readings, NEW x \in Trusted(fails)
  PROVE  /\ \E t \in Shown(fails) : x \in SettingsOf(t)
         /\ x = "label" => << "read", "description" >> \notin fails
         /\ x \in {"net", "timeout", "radios"} => << "read", "ip" >> \notin fails
         /\ x = "ptp" => << "read", "sync" >> \notin fails
         /\ x = "gen" => << "read", "dc" >> \notin fails /\ << "read", "sine" >> \notin fails
         /\ x = "pps" => << "read", "pps" >> \notin fails
<1>1. PICK t \in Shown(fails) :
        x \in SettingsOf(t) \ (IF << "read", t >> \in fails
                               THEN IF t = "sync" THEN {"ptp"} ELSE SettingsOf(t) ELSE {})
  BY DEF Trusted
<1>2. t \in unit.tabs
  BY DEF Shown
<1>3. << "read", t >> \in fails => t = "sync" /\ x # "ptp"
  BY <1>1
<1>4. x = "gen" => << "read", "dc" >> \notin fails /\ << "read", "sine" >> \notin fails
  <2> SUFFICES ASSUME x = "gen", NEW s \in {"dc", "sine"}, << "read", s >> \in fails PROVE FALSE
    OBVIOUS
  <2>1. s \in unit.tabs
    BY DEF Readings
  <2>2. t \in {"dc", "sine"}
    BY <1>1, <1>2, PageOf
  <2>3. s = t
    BY <1>2, <2>1, <2>2, OneGenerator
  <2> QED
    BY <1>3, <2>2, <2>3
<1> QED
  BY <1>1, <1>2, <1>3, <1>4, PageOf

\* When a dialog opens the pages show what they read, and nothing is chosen yet.
LEMMA OpeningHeld ==
  ASSUME TabsInv, ChoiceInv,
         NEW fails \in {{}} \cup {{x} : x \in Readings}, NEW junk \in Unread, NEW t \in unit.tabs,
         OpenDialog(fails, junk, t)
  PROVE  ChoiceInv'
<1>1. /\ device = unit.device /\ UNCHANGED << unit, device, left >> /\ left = ""
      /\ tabs' = Shown(fails) /\ active' = t /\ active = NoTab
  BY DEF OpenDialog, ChoiceInv
<1>2. unit \in Unit /\ fails \in SUBSET Readings /\ IsUnitSetting(device)
  BY DEF TabsInv
<1>3. box' = Controls(fails, junk)
  BY DEF OpenDialog
<1>4. /\ was' = [f \in History |-> was'[f]]
      /\ was'.trusted = Trusted(fails) /\ was'.lost = {} /\ was'.disturbed = FALSE
      /\ was'.putBack = FALSE
      /\ was'.chosen = [device EXCEPT !.timeout = box'.timeout, !.start = StartRead(device.start)]
  BY <1>3 DEF OpenDialog, History
<1>5. /\ IsUnitSetting(was'.chosen) /\ was'.chosen.timeout = box'.timeout
      /\ was'.chosen.start = StartRead(device.start)
      /\ \A x \in Setting \ {"timeout", "start"} : was'.chosen[x] = device[x]
  BY <1>2, <1>4 DEF IsUnitSetting, Setting
<1> DEFINE Read(s) == << "read", s >> \notin fails
           net == NetShown(Read("ip"), junk)
<1>6. /\ box' = [x \in BoxField |-> box'[x]]
      /\ box'.label = IF Read("description") THEN device.label ELSE 0
      /\ box'.out = device.out /\ box'.ena = device.ena
      /\ box'.net = net.net /\ box'.timeout = net.timeout /\ box'.radios = net.radios
      /\ box'.dhcp = device.dhcp /\ box'.ftp = device.ftp
      /\ box'.lines = LinesRead(device.lines)
      /\ box'.ptp = SyncRead(device.ptp, Read("sync"))
      /\ box'.start = StartRead(device.start) /\ box'.endless = (device.minutes = 0)
      /\ box'.minutes = MinutesShown /\ box'.gen = GeneratorShown(Read("dc") /\ Read("sine"))
      /\ box'.pps = (Read("pps") /\ device.pps)
  <2> HIDE DEF net
  <2>1. Controls(fails, junk) = [x \in BoxField |-> Controls(fails, junk)[x]]
    BY DEF Controls, BoxField
  <2> QED
    BY <1>3, <2>1 DEF Controls, net
<1> HIDE DEF Read, net
<1>7. /\ device.ptp \in Synchronisation /\ device.gen \in Generator /\ device.pps \in BOOLEAN
      /\ device.label \in Nat /\ device.timeout \in Nat /\ device.minutes \in Nat
      /\ device.out \subseteq Port /\ device.ena \subseteq Port
  BY <1>1, <1>2, DeviceTabsAssumption
<1>8. Read("ip") => net = [net |-> device.net, timeout |-> device.timeout \div 60,
                           radios |-> device.radios]
  BY DEF net, NetShown
<1>9. Shapes' /\ OnPages'
  <2>1. Shapes'
    BY <1>4, <1>5, <1>6 DEF Shapes
  <2>2. Shown(fails) \subseteq unit.tabs
    BY DEF Shown
  <2>3. \A x \in Trusted(fails) : \E s \in Shown(fails) : x \in SettingsOf(s)
    BY <1>2, TrustedRead
  <2> QED
    BY <1>1, <1>4, <2>1, <2>2, <2>3 DEF OnPages, SettingsOf
<1>10. Values'
  <2>1. box'.ptp \in Synchronisation
    <3>1. NoSync \in Synchronisation
      BY DEF NoSync, Synchronisation
    <3>2. [device.ptp EXCEPT !.slave = FALSE] \in Synchronisation
      BY <1>7 DEF Synchronisation
    <3> QED
      BY <1>6, <1>7, <3>1, <3>2 DEF SyncRead
  <2>2. box'.gen \in Generator
    BY <1>6, <1>7 DEF GeneratorShown, NoGenerator, Generator
  <2>3. was'.chosen.label \in Nat /\ was'.chosen.start \in {0, 1, Undefined}
    BY <1>5, <1>7 DEF StartRead, Setting
  <2>4. "timeout" \in was'.trusted => was'.chosen.timeout \in Nat
    <3> SUFFICES ASSUME "timeout" \in Trusted(fails) PROVE box'.timeout \in Nat
      BY <1>4, <1>5
    <3>1. Read("ip")
      BY <1>2, TrustedRead DEF Read
    <3>2. device.timeout \div 60 \in Nat
      BY <1>7
    <3> QED
      BY <1>6, <1>8, <3>1, <3>2
  <2> QED
    BY <1>6, <2>1, <2>2, <2>3, <2>4 DEF Values
<1>11. Later'
  <2>1. \A x \in Plain : x \in Trusted(fails) => box'[x] = device[x]
    <3>1. "label" \in Trusted(fails) => box'.label = device.label
      BY <1>2, <1>6, TrustedRead DEF Read
    <3>2. "net" \in Trusted(fails) => box'.net = device.net
      BY <1>2, <1>6, <1>8, TrustedRead DEF Read
    <3>3. "gen" \in Trusted(fails) => box'.gen = device.gen
      BY <1>2, <1>6, TrustedRead DEF Read, GeneratorShown
    <3>4. "pps" \in Trusted(fails) => box'.pps = device.pps
      BY <1>2, <1>6, <1>7, TrustedRead DEF Read
    <3> QED
      BY <1>6, <3>1, <3>2, <3>3, <3>4 DEF Plain
  <2>2. "radios" \in Trusted(fails) => box'.radios = device.radios
    BY <1>2, <1>6, <1>8, TrustedRead DEF Read
  <2>3. "ptp" \in Trusted(fails) => box'.ptp = device.ptp \/ (unit.oldGps /\ device.ptp.slave)
    <3> SUFFICES ASSUME "ptp" \in Trusted(fails)
                 PROVE  box'.ptp = device.ptp \/ (unit.oldGps /\ device.ptp.slave)
      OBVIOUS
    <3>1. box'.ptp = SyncRead(device.ptp, TRUE)
      BY <1>2, <1>6, TrustedRead DEF Read, SyncRead
    <3>2. ~device.ptp.slave => [device.ptp EXCEPT !.slave = FALSE] = device.ptp
      BY <1>7 DEF Synchronisation
    <3> QED
      BY <3>1, <3>2 DEF SyncRead
  <2>4. device.lines # "partly" => box'.lines = device.lines
    BY <1>6 DEF LinesRead
  <2>5. device.minutes <= 30 => device.minutes = IF box'.endless THEN 0 ELSE box'.minutes
    <3>1. CASE device.minutes = 0
      <4>1. box'.endless
        BY <1>6, <3>1
      <4> QED
        BY <3>1, <4>1
    <3>2. CASE device.minutes # 0
      <4>1. ~box'.endless /\ box'.minutes = Duration(device.minutes)
        BY <1>6, <3>2 DEF MinutesShown
      <4>2. device.minutes <= 30 => Duration(device.minutes) = device.minutes
        BY <1>7, <3>2 DEF Duration
      <4> QED
        BY <4>1, <4>2
    <3> QED
      BY <3>1, <3>2
  <2>6. \A x \in Plain \cup {"radios", "ptp", "lines", "minutes"} : was'.chosen[x] = device[x]
    BY <1>5 DEF Plain, Setting
  <2>7. \A x \in Plain : x \in was'.trusted => box'[x] = was'.chosen[x]
    BY <1>4, <2>1, <2>6
  <2>8. /\ "radios" \in was'.trusted => box'.radios = was'.chosen.radios
        /\ box'.timeout = was'.chosen.timeout /\ box'.start = was'.chosen.start
    BY <1>4, <1>5, <1>6, <2>2, <2>6
  <2>9. "ptp" \in was'.trusted =>
          box'.ptp = was'.chosen.ptp \/ (unit'.oldGps /\ was'.chosen.ptp.slave)
    BY <1>1, <1>4, <2>3, <2>6
  <2>10. was'.chosen.lines # "partly" => box'.lines = was'.chosen.lines
    BY <2>4, <2>6
  <2>11. was'.chosen.minutes <= 30 =>
           was'.chosen.minutes = IF box'.endless THEN 0 ELSE box'.minutes
    BY <2>5, <2>6
  <2> QED
    BY <2>7, <2>8, <2>9, <2>10, <2>11 DEF Later
<1>12. Now'
  BY <1>1, <1>4, <1>5, <1>6, <1>7 DEF Now, Direct, Setting
<1>13. Held'
  BY <1>9, <1>10, <1>11, <1>12 DEF Held
<1> QED
  BY <1>1, <1>13 DEF ChoiceInv, OkWritesChoices

\* What OK leaves of every setting.
LEMMA OkWrites ==
  ASSUME IsUnitSetting(device), NEW fails
  PROVE  LET d == OnOK(fails)
             net == "ip" \in tabs /\ (unit.zsp \/ "ip" \notin fails)
             sync == "sync" \in tabs
         IN  /\ "description" \in tabs => d.label = IF box.label > 30 THEN 30 ELSE box.label
             /\ net => d.net = box.net
             /\ net /\ unit.zsp => d.dhcp = box.dhcp /\ d.ftp = box.ftp
             /\ net /\ ~unit.zsp => /\ d.timeout = (box.timeout * 60) % 65536
                                    /\ d.radios = box.radios
             /\ "id" \notin fails => d.id = device.id
             /\ sync => d.lines = IF unit.lines THEN box.lines ELSE device.lines
             /\ sync /\ "sync" \notin fails =>
                  d.ptp = [box.ptp EXCEPT !.number = @ % 256, !.priority = @ % 256]
             /\ "registrator" \in tabs =>
                  /\ d.start = box.start % 65536
                  /\ d.minutes = IF box.endless THEN 0 ELSE box.minutes
             /\ "sine" \in tabs /\ "dc" \notin tabs => d.gen = box.gen
             /\ "dc" \in tabs => d.gen = [box.gen EXCEPT !.sine = 0]
             /\ "pps" \in tabs => d.pps = box.pps
             /\ \A x \in (Direct \ {"id"}) \cup {"out", "ena", "act"} : d[x] = device[x]
<1> DEFINE If(t, d, e) == IF t \in tabs THEN e ELSE d
           d1 == If("description", device, SavedLabel(device))
           d2 == If("ip", d1, SavedNet(d1, fails))
           d3 == If("sync", d2, SavedSync(d2, fails))
           d4 == If("registrator", d3, SavedRegistrator(d3))
           d5 == If("sine", d4, SavedSine(d4))
           d6 == If("pps", d5, SavedPps(d5))
           d7 == If("dc", d6, SavedDc(d6))
           net == "ip" \in tabs /\ (unit.zsp \/ "ip" \notin fails)
           Same(d, e, X) == Differs(d, e, X)
<1>0. OnOK(fails) = d7
  BY DEF OnOK
<1> USE DEF Differs
<1>1. /\ Same(device, d1, {"label"})
      /\ "description" \in tabs => d1.label = IF box.label > 30 THEN 30 ELSE box.label
  BY DEF SavedLabel, IsUnitSetting, Setting
<1> HIDE DEF d1
<1>2. /\ Same(d1, d2, {"net", "dhcp", "ftp", "timeout", "radios", "id"})
      /\ net => d2.net = box.net
      /\ net /\ unit.zsp => d2.dhcp = box.dhcp /\ d2.ftp = box.ftp
      /\ net /\ ~unit.zsp => /\ d2.timeout = (box.timeout * 60) % 65536
                             /\ d2.radios = box.radios
      /\ "id" \notin fails => d2.id = d1.id
  <2> DEFINE z == Address(d1)
             w == Ethernet(d1, box.net, (box.timeout * 60) % 65536, box.radios,
                           IF "id" \in fails THEN "any" ELSE d1.id)
  <2>1. /\ Same(d1, z, {"net", "dhcp", "ftp"})
        /\ z.net = box.net /\ z.dhcp = box.dhcp /\ z.ftp = box.ftp /\ z.id = d1.id
    BY <1>1, AddressWritten DEF Setting
  <2>2. /\ Differs(d1, w, {"net", "timeout", "radios", "id"})
        /\ w.net = box.net /\ w.timeout = (box.timeout * 60) % 65536 /\ w.radios = box.radios
        /\ "id" \notin fails => w.id = d1.id
    BY <1>1, EthernetWritten
  <2>3. d2 = IF "ip" \notin tabs THEN d1 ELSE IF unit.zsp THEN z
             ELSE IF "ip" \in fails THEN d1 ELSE w
    BY EthernetSaved
  <2> HIDE DEF z, w, d2
  <2> QED
    BY <1>1, <2>1, <2>2, <2>3 DEF Differs
<1> HIDE DEF d2
<1>3. /\ Same(d2, d3, {"lines", "ptp"})
      /\ "sync" \in tabs => d3.lines = IF unit.lines THEN box.lines ELSE d2.lines
      /\ "sync" \in tabs /\ "sync" \notin fails =>
           d3.ptp = [box.ptp EXCEPT !.number = @ % 256, !.priority = @ % 256]
  <2> DEFINE e == IF unit.lines THEN [d2 EXCEPT !.lines = box.lines] ELSE d2
  <2>1. /\ Same(d2, e, {"lines"})
        /\ e.lines = IF unit.lines THEN box.lines ELSE d2.lines
    BY <1>2 DEF IsUnitSetting, Setting
  <2>2. d3 = IF "sync" \in tabs THEN SavedPtp(e, fails) ELSE d2
    BY DEF SavedSync
  <2> HIDE DEF e, d3
  <2>3. /\ Same(e, SavedPtp(e, fails), {"ptp"})
        /\ "sync" \notin fails =>
             SavedPtp(e, fails).ptp = [box.ptp EXCEPT !.number = @ % 256, !.priority = @ % 256]
    BY <2>1 DEF SavedPtp, IsUnitSetting, Setting
  <2> QED
    BY <1>2, <2>1, <2>2, <2>3 DEF Setting
<1> HIDE DEF d3
<1>4. /\ Same(d3, d4, {"start", "minutes"})
      /\ "registrator" \in tabs => /\ d4.start = box.start % 65536
                                   /\ d4.minutes = IF box.endless THEN 0 ELSE box.minutes
  <2> DEFINE v == SavedRegistrator(d3)
  <2>1. /\ Differs(d3, v, {"start", "minutes"})
        /\ v.start = box.start % 65536 /\ v.minutes = IF box.endless THEN 0 ELSE box.minutes
    BY <1>3, RecorderSaved, RecorderWritten
  <2> HIDE DEF v
  <2> QED
    BY <1>3, <2>1 DEF v, Differs
<1> HIDE DEF d4
<1>5. Same(d4, d5, {"gen"}) /\ ("sine" \in tabs => d5.gen = box.gen)
  BY <1>4 DEF SavedSine, IsUnitSetting, Setting
<1> HIDE DEF d5
<1>6. Same(d5, d6, {"pps"}) /\ ("pps" \in tabs => d6.pps = box.pps)
  BY <1>5 DEF SavedPps, IsUnitSetting, Setting
<1> HIDE DEF d6
<1>7. /\ Same(d6, d7, {"gen"}) /\ ("dc" \in tabs => d7.gen = [box.gen EXCEPT !.sine = 0])
      /\ "dc" \notin tabs => d7 = d6
  BY <1>6 DEF SavedDc, IsUnitSetting, Setting
<1> HIDE DEF d7, net
<1>8. /\ "description" \in tabs => d7.label = IF box.label > 30 THEN 30 ELSE box.label
      /\ net => d7.net = box.net
      /\ net /\ unit.zsp => d7.dhcp = box.dhcp /\ d7.ftp = box.ftp
      /\ net /\ ~unit.zsp => /\ d7.timeout = (box.timeout * 60) % 65536
                             /\ d7.radios = box.radios
      /\ "id" \notin fails => d7.id = device.id
  <2>1. \A x \in {"label", "net", "dhcp", "ftp", "timeout", "radios", "id"} : d7[x] = d2[x]
    BY <1>3, <1>4, <1>5, <1>6, <1>7 DEF Setting
  <2>2. d2.label = d1.label /\ d1.id = device.id
    BY <1>1, <1>2 DEF Setting
  <2> QED
    BY <1>1, <1>2, <2>1, <2>2
<1>9. /\ "sync" \in tabs => d7.lines = IF unit.lines THEN box.lines ELSE device.lines
      /\ "sync" \in tabs /\ "sync" \notin fails =>
           d7.ptp = [box.ptp EXCEPT !.number = @ % 256, !.priority = @ % 256]
      /\ "registrator" \in tabs => /\ d7.start = box.start % 65536
                                   /\ d7.minutes = IF box.endless THEN 0 ELSE box.minutes
  <2>1. d7.lines = d3.lines /\ d7.ptp = d3.ptp /\ d2.lines = device.lines
    BY <1>1, <1>2, <1>4, <1>5, <1>6, <1>7 DEF Setting
  <2>2. d7.start = d4.start /\ d7.minutes = d4.minutes
    BY <1>5, <1>6, <1>7 DEF Setting
  <2> QED
    BY <1>3, <1>4, <2>1, <2>2
<1>10. /\ "sine" \in tabs /\ "dc" \notin tabs => d7.gen = box.gen
       /\ "dc" \in tabs => d7.gen = [box.gen EXCEPT !.sine = 0]
       /\ "pps" \in tabs => d7.pps = box.pps
  BY <1>5, <1>6, <1>7 DEF Setting
<1>11. \A x \in (Direct \ {"id"}) \cup {"out", "ena", "act"} : d7[x] = device[x]
  BY <1>1, <1>2, <1>3, <1>4, <1>5, <1>6, <1>7 DEF Direct, Setting
<1> QED
  BY <1>0, <1>8, <1>9, <1>10, <1>11 DEF net

\* Leaving the dialog by either button keeps what is claimed of the choices.
LEMMA LeaveWrites ==
  ASSUME TabsInv, ChoiceInv,
         PressCancel \/ \E fails \in SUBSET {"ip", "id", "sync"} : PressOk(fails)
  PROVE  ChoiceInv'
<1>1. active # NoTab /\ active' = NoTab /\ unit' = unit /\ left' \in {"ok", "cancel"}
  BY DEF PressCancel, PressOk, Close
<1>2. CASE PressCancel
  BY <1>1, <1>2 DEF PressCancel, ChoiceInv, OkWritesChoices
<1>3. ASSUME NEW fails \in SUBSET {"ip", "id", "sync"}, PressOk(fails) PROVE OkWritesChoices'
  <2>1. /\ device' = OnOK(fails) /\ IsUnitSetting(device) /\ unit \in Unit
        /\ was' = [was EXCEPT !.lost = @ \cup Lost(fails)]
        /\ Held /\ Shapes /\ OnPages /\ Values /\ Later /\ Now
    BY <1>1, <1>3 DEF PressOk, TabsInv, ChoiceInv, Held
  <2> DEFINE d == device'
             c == was.chosen
  <2>2. /\ was'.lost = was.lost \cup Lost(fails)
        /\ was'.trusted = was.trusted /\ was'.chosen = c /\ was'.disturbed = was.disturbed
        /\ was'.putBack = was.putBack
    BY <2>1 DEF Shapes, History
  <2> SUFFICES ASSUME NEW x \in was.trusted, x \notin was.lost, x \notin Lost(fails), Fits(x)'
               PROVE  CASE x = "timeout" -> d.timeout = 60 * c.timeout
                        [] x = "gen" -> /\ d.gen.on = c.gen.on
                                        /\ d.gen.offset = c.gen.offset
                                        /\ "sine" \in unit.tabs => d.gen = c.gen
                        [] OTHER -> d[x] = c[x]
    BY <1>1, <2>2, Zenon DEF OkWritesChoices
  <2>3. Fits(x)
    BY <1>1, <2>2 DEF Fits
  <2>4. PICK t \in tabs : x \in SettingsOf(t)
    BY <2>1 DEF OnPages
  <2>5. /\ t \in unit.tabs
        /\ x = "label" => t = "description"
        /\ x \in {"net", "timeout", "radios", "id", "dhcp", "ftp"} => t = "ip"
        /\ x \in {"timeout", "radios", "id"} => ~unit.zsp
        /\ x \in {"dhcp", "ftp"} => unit.zsp
        /\ x \in {"lines", "ptp"} => t = "sync"
        /\ x \in {"start", "minutes"} => t = "registrator"
        /\ x = "gen" => t \in {"dc", "sine"}
        /\ x = "pps" => t = "pps"
        /\ x \in Setting
    BY <2>1, <2>4, PageOf DEF OnPages
  <2>6. /\ x \in {"net", "timeout", "radios"} => "ip" \notin fails
        /\ x = "id" => "id" \notin fails
        /\ x = "ptp" => "sync" \notin fails
    BY DEF Lost
  <2>7. x \in {"label", "net", "dhcp", "ftp", "gen", "pps"} => box[x] = c[x]
    BY <2>1 DEF Later, Plain
  <2>8. c.label \in Nat /\ (x = "timeout" => c.timeout \in Nat) /\ c.start \in {0, 1, -1}
    BY <2>1 DEF Values, Undefined
  <2> HIDE DEF d, c
  <2>9. CASE x \in {"label", "net", "dhcp", "ftp", "pps"}
    <3>1. x = "label" => d.label = c.label
      <4> SUFFICES ASSUME x = "label" PROVE d.label = c.label
        OBVIOUS
      <4>1. c.label <= 30
        BY <2>3 DEF Fits, c
      <4>2. d.label = IF c.label > 30 THEN 30 ELSE c.label
        BY <2>1, <2>4, <2>5, <2>7, OkWrites DEF d
      <4> QED
        BY <2>8, <4>1, <4>2
    <3>2. x = "net" => d.net = box.net
      BY <2>1, <2>4, <2>5, <2>6, OkWrites DEF d
    <3>3. x \in {"dhcp", "ftp"} => d[x] = box[x]
      BY <2>1, <2>4, <2>5, OkWrites DEF d
    <3>4. x = "pps" => d.pps = box.pps
      BY <2>1, <2>4, <2>5, OkWrites DEF d
    <3> QED
      BY <2>7, <2>9, <3>1, <3>2, <3>3, <3>4
  <2>10. CASE x = "timeout"
    <3>1. c.timeout <= 1092 /\ ~was.putBack
      BY <2>3, <2>10 DEF Fits, c
    <3>2. box.timeout = c.timeout
      BY <2>1, <2>10, <3>1 DEF Later, c
    <3>3. d.timeout = (box.timeout * 60) % 65536
      BY <2>1, <2>4, <2>5, <2>6, <2>10, OkWrites DEF d
    <3>4. d.timeout = 60 * c.timeout
      BY <2>8, <2>10, <3>1, <3>2, <3>3
    <3> QED
      BY <2>10, <3>4
  <2>11. CASE x = "radios"
    <3>1. ~was.putBack
      BY <2>3, <2>11 DEF Fits
    <3>2. box.radios = c.radios
      BY <2>1, <2>11, <3>1 DEF Later, c
    <3>3. d.radios = box.radios
      BY <2>1, <2>4, <2>5, <2>6, <2>11, OkWrites DEF d
    <3> QED
      BY <2>11, <3>2, <3>3
  <2>12. CASE x = "id"
    <3>1. d.id = device.id
      BY <2>1, <2>6, <2>12, OkWrites DEF d
    <3> QED
      BY <2>1, <2>12, <3>1 DEF Now, Direct, c
  <2>13. CASE x = "lines"
    <3>1. box.lines = c.lines
      BY <2>1, <2>3, <2>13 DEF Fits, Later, c
    <3>2. d.lines = IF unit.lines THEN box.lines ELSE device.lines
      BY <2>1, <2>4, <2>5, <2>13, OkWrites DEF d
    <3>3. ~unit.lines => device.lines = c.lines
      BY <2>1 DEF Now, c
    <3> QED
      BY <2>13, <3>1, <3>2, <3>3
  <2>14. CASE x = "ptp"
    <3>1. /\ c.ptp.number < 256 /\ c.ptp.priority < 256
          /\ ~(unit.oldGps /\ c.ptp.slave)
      BY <2>3, <2>14 DEF Fits, c
    <3>2. box.ptp = c.ptp /\ box.ptp \in Synchronisation
      BY <2>1, <2>14, <3>1 DEF Later, Values, c
    <3>3. d.ptp = [box.ptp EXCEPT !.number = @ % 256, !.priority = @ % 256]
      BY <2>1, <2>4, <2>5, <2>6, <2>14, OkWrites DEF d
    <3>4. /\ box.ptp.number \in Nat /\ box.ptp.priority \in Nat
          /\ box.ptp = [f \in {"master", "slave", "number", "priority"} |-> box.ptp[f]]
      BY <3>2 DEF Synchronisation
    <3>5. box.ptp.number % 256 = box.ptp.number /\ box.ptp.priority % 256 = box.ptp.priority
      BY <3>1, <3>2, <3>4
    <3>6. d.ptp = [box.ptp EXCEPT !.number = box.ptp.number, !.priority = box.ptp.priority]
      BY <3>3, <3>5
    <3>7. d.ptp = box.ptp
      BY <3>4, <3>6
    <3> QED
      BY <2>14, <3>2, <3>7
  <2>15. CASE x = "start"
    <3>1. c.start # -1
      BY <2>3, <2>15 DEF Fits, Undefined, c
    <3>2. box.start = c.start
      BY <2>1 DEF Later, c
    <3>3. d.start = box.start % 65536
      BY <2>1, <2>4, <2>5, <2>15, OkWrites DEF d
    <3>4. d.start = c.start
      BY <2>8, <3>1, <3>2, <3>3
    <3> QED
      BY <2>15, <3>4
  <2>16. CASE x = "minutes"
    <3>1. c.minutes <= 30
      BY <2>3, <2>16 DEF Fits, c
    <3>2. d.minutes = IF box.endless THEN 0 ELSE box.minutes
      BY <2>1, <2>4, <2>5, <2>16, OkWrites DEF d
    <3>3. c.minutes = IF box.endless THEN 0 ELSE box.minutes
      BY <2>1, <3>1 DEF Later, c
    <3> QED
      BY <2>16, <3>2, <3>3
  <2>17. CASE x = "gen"
    <3>1. ~("dc" \in unit.tabs /\ "sine" \in unit.tabs) /\ tabs \subseteq unit.tabs
      BY <2>1, OneGenerator DEF OnPages
    <3>2. box.gen = c.gen /\ box.gen \in Generator
      BY <2>1, <2>7, <2>17 DEF Values
    <3>3. CASE t = "sine"
      <4>1. d.gen = box.gen
        BY <2>1, <2>4, <3>1, <3>3, OkWrites DEF d
      <4> QED
        BY <2>17, <3>2, <4>1
    <3>4. CASE t = "dc"
      <4>1. d.gen = [box.gen EXCEPT !.sine = 0]
        BY <2>1, <2>4, <3>4, OkWrites DEF d
      <4>2. "sine" \notin unit.tabs
        BY <2>5, <3>1, <3>4
      <4>3. d.gen.on = box.gen.on /\ d.gen.offset = box.gen.offset
        BY <3>2, <4>1 DEF Generator
      <4> QED
        BY <2>17, <3>2, <4>2, <4>3
    <3> QED
      BY <2>5, <2>17, <3>3, <3>4
  <2>18. CASE x \in {"adc", "dac", "selftest", "code", "place", "out", "ena", "act"}
    <3>1. d[x] = device[x]
      BY <2>1, <2>18, OkWrites DEF d, Direct
    <3>2. x \in {"out", "ena"} => ~was.disturbed
      BY <2>3 DEF Fits
    <3>3. device[x] = c[x]
      BY <2>1, <2>18, <3>2 DEF Now, Direct, c
    <3> QED
      BY <2>18, <3>1, <3>3
  <2> QED
    BY <2>5, <2>9, <2>10, <2>11, <2>12, <2>13, <2>14, <2>15, <2>16, <2>17, <2>18 DEF Setting
<1> QED
  BY <1>1, <1>2, <1>3 DEF ChoiceInv

\* Every step of the dialog keeps page, device and choices together.
LEMMA StepChoice == TabsInv /\ ChoiceInv /\ [TabsNext]_tabVars => ChoiceInv'
<1> SUFFICES ASSUME TabsInv, ChoiceInv, [TabsNext]_tabVars PROVE ChoiceInv'
  OBVIOUS
<1>1. CASE UNCHANGED tabVars
  <2>1. Held => Held'
    <3> SUFFICES ASSUME Held PROVE Held'
      OBVIOUS
    <3>1. OnPages'
      BY <1>1, PagesKept DEF tabVars, Held
    <3>2. Shapes' /\ Values' /\ Now'
      BY <1>1 DEF tabVars, Held, Shapes, IsUnitSetting, Values, Now
    <3>3. Later'
      BY <1>1 DEF tabVars, Held, Later
    <3> QED
      BY <3>1, <3>2, <3>3 DEF Held
  <2>2. OkWritesChoices'
    BY <1>1 DEF tabVars, ChoiceInv, OkWritesChoices, Fits
  <2> QED
    BY <1>1, <2>1, <2>2 DEF tabVars, ChoiceInv
<1>2. CASE \E fails \in {{}} \cup {{x} : x \in Readings} : \E junk \in Unread :
             \E t \in unit.tabs : OpenDialog(fails, junk, t)
  BY <1>2, OpeningHeld
<1>3. CASE \/ \E t \in tabs : \E read \in BOOLEAN : Switch(t, read)
           \/ PortsTimer \/ IpTimer \/ SyncTimer \/ ClickEndless
  BY <1>3, TimersKeepHeld
<1>4. CASE \/ \E v \in Offered["adc"] : SelectAdc(v)
           \/ \E v \in Offered["dac"] : SelectDac(v)
           \/ \E v \in Offered["selftest"] : SelectSelftest(v)
           \/ \E n \in Offered["code"] : EditCode(n)
           \/ \E v \in Offered["place"] : EditPlace(v)
           \/ \E x \in {"out", "ena"} : \E p \in Port : ClickPort(x, p)
           \/ \E x \in {"out", "ena"} : ClickGroup(x)
           \/ \E i \in Actuator : \E ok \in BOOLEAN : ClickActuator(i, ok)
           \/ \E ok \in BOOLEAN : ClickActuators(ok)
  BY <1>4, NowPages
<1>5. CASE \E x \in {"out", "ena"} : \E p \in Port : OtherProgram(x, p)
  BY <1>5, OtherKeepsHeld
<1>6. CASE \/ \E n \in Offered["label"] : EditLabel(n)
           \/ \E v \in Offered["net"] : EditNet(v)
           \/ ClickDhcp \/ ClickFtp
           \/ \E v \in Offered["timeout"] : EditTimeout(v)
           \/ \E v \in Offered["radios"] : ClickRadios(v)
           \/ \E x \in {"master", "slave"} : ClickLines(x)
           \/ ClickMaster \/ ClickSlave
           \/ \E v \in Offered["ptp"] : EditDomain(v) \/ EditPriority(v)
           \/ \E s \in {0, 1} : SelectStart(s)
           \/ \E v \in Offered["minutes"] : EditDuration(v)
           \/ ClickGenerator
           \/ \E v \in Offered["offset"] : EditOffset(v) \/ EditSine(v)
           \/ ClickPps
  BY <1>6, LaterPages
<1>7. CASE PressCancel \/ \E fails \in SUBSET {"ip", "id", "sync"} : PressOk(fails)
  BY <1>7, LeaveWrites
<1> QED
  BY <1>1, <1>2, <1>3, <1>4, <1>5, <1>6, <1>7 DEF TabsNext

\* After OK the device has what the user chose last of every setting that the
\* dialog has read and whose writing did not fail, except the choices that Fits
\* names: whichever page was in front, and whatever the timers, the pages that
\* come to the front and another program did in between.
THEOREM OkIsComplete == TabsSpec => []OkWritesChoices
<1>1. TabsInit => TabsInv /\ ChoiceInv
  BY InitTabs, InitChoice
<1>2. TabsInv /\ ChoiceInv /\ [TabsNext]_tabVars => (TabsInv /\ ChoiceInv)'
  BY StepTabs, StepChoice
<1>3. ChoiceInv => OkWritesChoices
  BY DEF ChoiceInv
<1> QED
  BY <1>1, <1>2, <1>3, PTL DEF TabsSpec

----------------------------------------------------------------------------
\* The page of a channel of ZET 037.  A handler is a chain of steps on a record
\* of the channels, the page and the histories.

FormField == {"unit", "unitText", "unitSense", "unitSenseText", "shown", "schemes", "modes",
              "units", "pictures"}

IsSettings(r) == r = [f \in Field037 |-> r[f]]

IsChannels(all) == all = [x \in Channel |-> all[x]] /\ \A x \in Channel : IsSettings(all[x])

IsPage(s) ==
  /\ s = [f \in {"chan", "form", "own", "agreed"} |-> s[f]]
  /\ s.form = [f \in FormField |-> s.form[f]]
  /\ IsChannels(s.chan) /\ s.own \subseteq Channel

\* The unit of the sensitivity of x is that of its scheme.
UnitRight(s, x) == s.chan[x].unitSense = UnitSenseFor(s.chan[x].scheme)

\* What SlotAgrees says of such a record; the same while c is being changed, and
\* after the change was handed to the slot.
PageRight(s) ==
  IsPage(s) /\ (\A k \in s.agreed : Alike(s.chan, k)) /\ \A x \in s.own : UnitRight(s, x)
RightBeside(c, s) ==
  IsPage(s) /\ (\A k \in s.agreed \ {Slot[c]} : Alike(s.chan, k))
  /\ \A x \in s.own \ {c} : UnitRight(s, x)
Handed(c, s) ==
  IsPage(s) /\ (\A k \in s.agreed : Alike(s.chan, k)) /\ \A x \in s.own \ {c} : UnitRight(s, x)

\* What is common to a slot or belongs to the scheme.
Common == {"sensor", "scheme", "mode", "exc", "unitSense"}

\* A step that leaves this alone.
Quiet(c, s, t) ==
  /\ IsPage(t) /\ t.own = s.own /\ t.agreed = s.agreed
  /\ \A x \in Channel : x # c => t.chan[x] = s.chan[x]
  /\ \A f \in Common : t.chan[c][f] = s.chan[c][f]

\* Changing a setting of one channel, or the form, leaves a page.
With(s, c, f, v) == [s EXCEPT !.chan[c][f] = v]

\* One setting of one channel changes, and nothing else of the page.
LEMMA SettingChanged ==
  ASSUME NEW s, IsPage(s), NEW c \in Channel, NEW f \in Field037, NEW v
  PROVE  LET t == With(s, c, f, v) IN
         /\ IsPage(t) /\ t.own = s.own /\ t.agreed = s.agreed /\ t.form = s.form
         /\ \A x \in Channel : x # c => t.chan[x] = s.chan[x]
         /\ t.chan[c][f] = v
         /\ \A g \in Field037 : g # f => t.chan[c][g] = s.chan[c][g]
<1> DEFINE r == [s.chan[c] EXCEPT ![f] = v]
<1>0. PICK t : t = With(s, c, f, v)
  OBVIOUS
<1>1. IsSettings(r) /\ r[f] = v /\ \A g \in Field037 : g # f => r[g] = s.chan[c][g]
  BY DEF IsPage, IsChannels, IsSettings
<1>2. t = [s EXCEPT !.chan = [s.chan EXCEPT ![c] = r]]
  BY <1>0 DEF With
<1>3. /\ t = [g \in {"chan", "form", "own", "agreed"} |-> t[g]]
      /\ t.own = s.own /\ t.agreed = s.agreed /\ t.form = s.form
      /\ t.chan = [s.chan EXCEPT ![c] = r]
  BY <1>2 DEF IsPage
<1> HIDE DEF r
<1>4. IsChannels(t.chan) /\ t.chan[c] = r /\ \A x \in Channel : x # c => t.chan[x] = s.chan[x]
  BY <1>1, <1>3 DEF IsPage, IsChannels
<1> QED
  BY <1>0, <1>1, <1>3, <1>4 DEF IsPage

\* A change of the form alone is quiet: it touches no channel.
LEMMA FormChanged ==
  ASSUME NEW s, IsPage(s), NEW c \in Channel, NEW f \in FormField, NEW v
  PROVE  Quiet(c, s, [s EXCEPT !.form[f] = v])
BY DEF IsPage, Quiet

\* A quiet step keeps what was right.
LEMMA QuietKeeps ==
  ASSUME NEW c \in Channel, NEW s, NEW t, Quiet(c, s, t)
  PROVE  (PageRight(s) => PageRight(t)) /\ (Handed(c, s) => Handed(c, t))
<1>1. \A x \in Channel : /\ t.chan[x].sensor = s.chan[x].sensor /\ t.chan[x].exc = s.chan[x].exc
                         /\ t.chan[x].scheme = s.chan[x].scheme /\ t.chan[x].mode = s.chan[x].mode
                         /\ t.chan[x].unitSense = s.chan[x].unitSense
  BY DEF Quiet, Common
<1>2. /\ \A k : Alike(s.chan, k) => Alike(t.chan, k)
      /\ \A x \in Channel : UnitRight(s, x) => UnitRight(t, x)
  BY <1>1 DEF Alike, UnitRight
<1> QED
  BY <1>2 DEF Quiet, PageRight, Handed, IsPage

\* Two quiet changes in a row are one.
LEMMA QuietChain ==
  ASSUME NEW c, NEW s, NEW t, NEW u, Quiet(c, s, t), Quiet(c, t, u)
  PROVE  Quiet(c, s, u)
BY DEF Quiet

\* Handing a change to the slot makes the slot agree.
LEMMA NotifyHands ==
  ASSUME NEW c \in Channel, NEW s, RightBeside(c, s)
  PROVE  /\ Handed(c, Notify(c, s)) /\ Notify(c, s).chan[c] = s.chan[c]
         /\ Notify(c, s).form = s.form
         /\ c \in Notify(c, s).own <=> c \in s.own
<1> DEFINE t == Notify(c, s)
           r == s.chan[c]
           Passed(x) == [s.chan[x] EXCEPT !.exc = r.exc, !.scheme = r.scheme, !.sensor = r.sensor,
                           !.mode = IF Compatible(r.mode, @) THEN @ ELSE r.mode]
           Beside(x) == x # c /\ Slot[x] = Slot[c]
<1>1. /\ t.agreed = s.agreed \cup {Slot[c]} /\ t.form = s.form
      /\ t.own = {x \in s.own : x = c \/ Slot[x] # Slot[c] \/ s.chan[x].scheme = r.scheme}
      /\ t.chan = [x \in Channel |-> IF Beside(x) THEN Passed(x) ELSE s.chan[x]]
      /\ t = [f \in {"chan", "form", "own", "agreed"} |-> t[f]]
  BY DEF Notify, RightBeside, IsPage
<1>2. ASSUME NEW x \in Channel
      PROVE  /\ IsSettings(Passed(x)) /\ Passed(x).sensor = r.sensor /\ Passed(x).scheme = r.scheme
             /\ Passed(x).exc = r.exc /\ Passed(x).mode.bridge = r.mode.bridge
             /\ Passed(x).unitSense = s.chan[x].unitSense
  <2>1. IsSettings(s.chan[x])
    BY DEF RightBeside, IsPage, IsChannels
  <2>2. PICK m : m = IF Compatible(r.mode, s.chan[x].mode) THEN s.chan[x].mode ELSE r.mode
    OBVIOUS
  <2>3. m.bridge = r.mode.bridge
    BY <2>2 DEF Compatible
  <2>4. Passed(x) = [s.chan[x] EXCEPT !.exc = r.exc, !.scheme = r.scheme, !.sensor = r.sensor,
                                      !.mode = m]
    BY <2>2
  <2> HIDE DEF Passed
  <2> QED
    BY <2>1, <2>3, <2>4 DEF IsSettings, Field037
<1> HIDE DEF t, Passed
<1>3. IsPage(t) /\ t.chan[c] = s.chan[c]
  BY <1>1, <1>2 DEF RightBeside, IsPage, IsChannels
<1>4. ASSUME NEW k \in t.agreed PROVE Alike(t.chan, k)
  <2>1. CASE k = Slot[c]
    BY <1>1, <1>2, <2>1 DEF Alike
  <2>2. CASE k # Slot[c]
    <3>1. Alike(s.chan, k)
      BY <1>1, <2>2 DEF RightBeside
    <3>2. \A x \in Channel : Slot[x] = k => t.chan[x] = s.chan[x]
      BY <1>1, <2>2
    <3> QED
      BY <3>1, <3>2 DEF Alike
  <2> QED
    BY <2>1, <2>2
<1>5. ASSUME NEW x \in t.own \ {c} PROVE UnitRight(t, x)
  BY <1>1, <1>2 DEF RightBeside, UnitRight, IsPage
<1> QED
  BY <1>1, <1>3, <1>4, <1>5 DEF Handed, t, RightBeside, IsPage

\* A change of what is handed to the slot, but of the scheme, and then handing it.
LEMMA NotifyRight ==
  ASSUME NEW c \in Channel, NEW s, PageRight(s), NEW f \in {"sensor", "mode", "exc"}, NEW v
  PROVE  PageRight(Notify(c, [s EXCEPT !.chan[c][f] = v]))
<1> DEFINE t == With(s, c, f, v)
<1>1. /\ f \in Field037 \ {"scheme", "unitSense"} /\ {"scheme", "unitSense"} \subseteq Field037
      /\ IsPage(s)
  BY DEF Field037, PageRight
<1>2. /\ IsPage(t) /\ t.own = s.own /\ t.agreed = s.agreed
      /\ \A x \in Channel : x # c => t.chan[x] = s.chan[x]
      /\ t.chan[c].scheme = s.chan[c].scheme /\ t.chan[c].unitSense = s.chan[c].unitSense
  BY <1>1, SettingChanged
<1> HIDE DEF t
<1>3. RightBeside(c, t) /\ (c \in t.own => UnitRight(t, c))
  <2>1. \A k : k # Slot[c] /\ Alike(s.chan, k) => Alike(t.chan, k)
    BY <1>2 DEF Alike
  <2>2. \A x \in t.own : UnitRight(t, x)
    BY <1>2 DEF PageRight, UnitRight, IsPage
  <2> QED
    BY <1>2, <2>1, <2>2 DEF RightBeside, PageRight
<1> DEFINE n == Notify(c, t)
<1>4. Handed(c, n) /\ n.chan[c] = t.chan[c] /\ (c \in n.own <=> c \in t.own)
  BY <1>3, NotifyHands
<1> HIDE DEF n
<1>5. PageRight(n)
  BY <1>3, <1>4 DEF Handed, PageRight, UnitRight
<1> QED
  BY <1>5 DEF n, t, With

\* A change of the scheme, and then handing it.
LEMMA NotifyScheme ==
  ASSUME NEW c \in Channel, NEW s, PageRight(s), NEW v
  PROVE  Handed(c, Notify(c, [s EXCEPT !.chan[c].scheme = v]))
<1> DEFINE t == With(s, c, "scheme", v)
<1>1. /\ IsPage(t) /\ t.own = s.own /\ t.agreed = s.agreed
      /\ \A x \in Channel : x # c => t.chan[x] = s.chan[x]
  <2>1. "scheme" \in Field037 /\ IsPage(s)
    BY DEF Field037, PageRight
  <2> QED
    BY <2>1, SettingChanged
<1> HIDE DEF t
<1>2. /\ \A k : k # Slot[c] /\ Alike(s.chan, k) => Alike(t.chan, k)
      /\ \A x \in t.own \ {c} : UnitRight(t, x)
  BY <1>1 DEF Alike, PageRight, UnitRight, IsPage
<1>3. RightBeside(c, t)
  BY <1>1, <1>2 DEF RightBeside, PageRight
<1> QED
  BY <1>3, NotifyHands DEF t, With

\* The steps that hand nothing to the slot.
LEMMA QuietSteps ==
  ASSUME NEW c \in Channel, NEW s, IsPage(s)
  PROVE  /\ Quiet(c, s, s)
         /\ Quiet(c, s, ReadControls(s)) /\ Quiet(c, s, WriteControls(s))
         /\ Quiet(c, s, UpdateVisibility(c, s)) /\ Quiet(c, s, UpdatePictures(c, s))
         /\ Quiet(c, s, UpdateSense(c, s)) /\ Quiet(c, s, UpdateUnitCombo(c, s))
         /\ Quiet(c, s, UpdateThermometer(c, s))
<1>1. ASSUME NEW t, IsPage(t), NEW f \in FormField, NEW v
      PROVE  Quiet(c, t, [t EXCEPT !.form[f] = v])
  BY <1>1, FormChanged
<1>2. ASSUME NEW t, IsPage(t), NEW f \in Field037 \ Common, NEW v
      PROVE  Quiet(c, t, [t EXCEPT !.chan[c][f] = v])
  <2>1. Common \subseteq Field037 /\ f \in Field037 /\ f \notin Common
    BY DEF Common, Field037
  <2>2. PICK u : u = With(t, c, f, v)
    OBVIOUS
  <2>3. /\ IsPage(u) /\ u.own = t.own /\ u.agreed = t.agreed
        /\ \A x \in Channel : x # c => u.chan[x] = t.chan[x]
        /\ \A g \in Field037 : g # f => u.chan[c][g] = t.chan[c][g]
    BY <1>2, <2>1, <2>2, SettingChanged
  <2> QED
    BY <2>1, <2>2, <2>3 DEF Quiet, With
<1>3. ASSUME NEW t, IsPage(t), NEW f \in FormField, NEW v, NEW g \in FormField, NEW w
      PROVE  Quiet(c, t, [t EXCEPT !.form[f] = v, !.form[g] = w])
  <2>1. PICK u : u = [t EXCEPT !.form[f] = v]
    OBVIOUS
  <2>2. Quiet(c, t, u)
    BY <1>1, <1>3, <2>1
  <2>3. IsPage(u)
    BY <2>2 DEF Quiet
  <2>4. Quiet(c, u, [u EXCEPT !.form[g] = w])
    BY <1>1, <1>3, <2>3
  <2>5. Quiet(c, t, [u EXCEPT !.form[g] = w])
    BY <2>2, <2>4, QuietChain
  <2>6. [t EXCEPT !.form[f] = v, !.form[g] = w] = [u EXCEPT !.form[g] = w]
    BY <2>1
  <2> QED
    BY <2>5, <2>6
<1>4. \A t : IsPage(t) => Quiet(c, t, ReadControls(t)) /\ Quiet(c, t, WriteControls(t))
  BY <1>3 DEF ReadControls, WriteControls, FormField
<1>5. Quiet(c, s, s)
  BY DEF Quiet
<1>6. Quiet(c, s, UpdateVisibility(c, s))
  BY <1>3 DEF UpdateVisibility, FormField
<1>7. Quiet(c, s, UpdatePictures(c, s))
  BY <1>1 DEF UpdatePictures, FormField
<1>8. Quiet(c, s, UpdateSense(c, s))
  <2>1. PICK v : UpdateSense(c, s) = WriteControls([ReadControls(s) EXCEPT !.chan[c].sense = v])
    BY DEF UpdateSense
  <2>2. PICK t : t = ReadControls(s)
    OBVIOUS
  <2>3. PICK u : u = [t EXCEPT !.chan[c].sense = v]
    OBVIOUS
  <2>4. Quiet(c, s, t) /\ IsPage(t)
    BY <1>4, <2>2 DEF Quiet
  <2>5. Quiet(c, t, u) /\ IsPage(u)
    BY <1>2, <2>3, <2>4 DEF Quiet, Field037, Common
  <2>6. Quiet(c, u, WriteControls(u))
    BY <1>4, <2>5
  <2> QED
    BY <2>1, <2>2, <2>3, <2>4, <2>5, <2>6, QuietChain
<1>9. Quiet(c, s, UpdateUnitCombo(c, s))
  <2>1. ASSUME NEW t, Quiet(c, s, t), NEW v, NEW w
        PROVE  Quiet(c, s, [t EXCEPT !.form.unit = v, !.chan[c].unit = w])
    <3>1. PICK u : u = [t EXCEPT !.form.unit = v]
      OBVIOUS
    <3>2. Quiet(c, t, u)
      BY <1>1, <2>1, <3>1 DEF Quiet, FormField
    <3>3. Quiet(c, u, [u EXCEPT !.chan[c].unit = w])
      BY <1>2, <3>2 DEF Quiet, Field037, Common
    <3> QED
      BY <2>1, <3>1, <3>2, <3>3, QuietChain
  <2>2. PICK t : t = [s EXCEPT !.form.units = UnitsFor(s.chan[c].mode)]
    OBVIOUS
  <2>3. Quiet(c, s, t)
    BY <1>1, <2>2 DEF FormField
  <2>4. \/ UpdateUnitCombo(c, s) \in {s, t}
        \/ \E v : UpdateUnitCombo(c, s) =
                   WriteControls([t EXCEPT !.form.unit = v, !.chan[c].unit = v])
        \/ UpdateUnitCombo(c, s) = [s EXCEPT !.form.unit = Celsius, !.chan[c].unit = Celsius]
    BY <2>2 DEF UpdateUnitCombo
  <2>5. ASSUME NEW v
        PROVE  Quiet(c, s, WriteControls([t EXCEPT !.form.unit = v, !.chan[c].unit = v]))
    <3>1. PICK u : u = [t EXCEPT !.form.unit = v, !.chan[c].unit = v]
      OBVIOUS
    <3>2. Quiet(c, s, u)
      BY <2>1, <2>3, <3>1
    <3>3. Quiet(c, u, WriteControls(u))
      BY <1>4, <3>2 DEF Quiet
    <3> QED
      BY <3>1, <3>2, <3>3, QuietChain
  <2>6. Quiet(c, s, [s EXCEPT !.form.unit = Celsius, !.chan[c].unit = Celsius])
    BY <1>5, <2>1
  <2> QED
    BY <1>5, <2>3, <2>4, <2>5, <2>6
<1>10. Quiet(c, s, UpdateThermometer(c, s))
  <2>1. PICK v, w : UpdateThermometer(c, s) = [s EXCEPT !.chan[c].nsh = v, !.chan[c].tc = w]
    BY DEF UpdateThermometer
  <2>2. PICK t : t = [s EXCEPT !.chan[c].nsh = v]
    OBVIOUS
  <2>3. Quiet(c, s, t) /\ IsPage(t)
    BY <1>2, <2>2 DEF Quiet, Field037, Common
  <2>4. Quiet(c, t, [t EXCEPT !.chan[c].tc = w])
    BY <1>2, <2>3 DEF Field037, Common
  <2> QED
    BY <2>1, <2>2, <2>3, <2>4, QuietChain
<1> QED
  BY <1>4, <1>5, <1>6, <1>7, <1>8, <1>9, <1>10

\* The updates that draw keep the slots right.
LEMMA QuietStepsRight ==
  ASSUME NEW c \in Channel, NEW s, PageRight(s)
  PROVE  /\ PageRight(ReadControls(s)) /\ PageRight(WriteControls(s))
         /\ PageRight(UpdateVisibility(c, s)) /\ PageRight(UpdatePictures(c, s))
         /\ PageRight(UpdateSense(c, s)) /\ PageRight(UpdateUnitCombo(c, s))
         /\ PageRight(UpdateThermometer(c, s))
<1>1. \A t : Quiet(c, s, t) => PageRight(t)
  BY QuietKeeps
<1> QED
  BY <1>1, QuietSteps DEF PageRight

\* A setting that is not common, and a line of the form.
LEMMA SetsRight ==
  ASSUME NEW c \in Channel, NEW s, PageRight(s)
  PROVE  /\ \A f \in FormField : \A v : PageRight([s EXCEPT !.form[f] = v])
         /\ \A f \in Field037 \ Common : \A v : PageRight([s EXCEPT !.chan[c][f] = v])
<1>1. \A t : Quiet(c, s, t) => PageRight(t)
  BY QuietKeeps
<1>2. ASSUME NEW f \in FormField, NEW v PROVE PageRight([s EXCEPT !.form[f] = v])
  BY <1>1, FormChanged DEF PageRight
<1>3. ASSUME NEW f \in Field037 \ Common, NEW v PROVE PageRight([s EXCEPT !.chan[c][f] = v])
  <2>1. PICK u : u = With(s, c, f, v)
    OBVIOUS
  <2>2. /\ IsPage(u) /\ u.own = s.own /\ u.agreed = s.agreed
        /\ \A x \in Channel : x # c => u.chan[x] = s.chan[x]
        /\ \A g \in Field037 : g # f => u.chan[c][g] = s.chan[c][g]
    BY <2>1, SettingChanged DEF PageRight
  <2>3. Common \subseteq Field037
    BY DEF Common, Field037
  <2>4. Quiet(c, s, u)
    BY <2>2, <2>3 DEF Quiet
  <2> QED
    BY <1>1, <2>1, <2>4 DEF With
<1> QED
  BY <1>2, <1>3

\* The lists, from the loads up to the sensors.
LEMMA ModeComboRight ==
  ASSUME NEW c \in Channel, NEW s, PageRight(s)
  PROVE  PageRight(UpdateModeCombo(c, s))
<1>1. PICK t : t = [s EXCEPT !.form.modes = ModesOf(s.chan[c].scheme)]
  OBVIOUS
<1>2. PageRight(t)
  BY <1>1, SetsRight DEF FormField
<1>3. PICK u : /\ u = t \/ \E v : u = Notify(c, [t EXCEPT !.chan[c].mode = v])
               /\ UpdateModeCombo(c, s) =
                    UpdateVisibility(c, UpdatePictures(c, UpdateUnitCombo(c, UpdateSense(c, u))))
  BY <1>1 DEF UpdateModeCombo
<1>4. PageRight(u)
  BY <1>2, <1>3, NotifyRight
<1> QED
  BY <1>3, <1>4, QuietStepsRight

\* A change of the scheme gives a page whose slots are right.
LEMMA SchemeChangedRight ==
  ASSUME NEW c \in Channel, NEW s, Handed(c, s)
  PROVE  PageRight(OnSchemeChanged(c, s))
<1>0. PICK us : us = UnitSenseFor(s.chan[c].scheme)
  OBVIOUS
<1>1. PICK t : t = WriteControls([s EXCEPT !.form.unitSense = us])
  OBVIOUS
<1>2. Handed(c, t) /\ t.chan[c].scheme = s.chan[c].scheme
  <2>1. PICK u : u = [s EXCEPT !.form.unitSense = us]
    OBVIOUS
  <2>2. Quiet(c, s, u) /\ IsPage(u)
    BY <2>1, FormChanged DEF Handed, FormField, Quiet
  <2>3. Quiet(c, u, t)
    BY <1>1, <2>1, <2>2, QuietSteps
  <2> QED
    BY <2>2, <2>3, QuietKeeps DEF Quiet, Common
<1>3. PICK u : u = [t EXCEPT !.chan[c].unitSense = us]
  OBVIOUS
<1>4. PICK w : w = [u EXCEPT !.own = @ \cup {c}]
  OBVIOUS
<1>5. /\ IsPage(u) /\ u.own = t.own /\ u.agreed = t.agreed
      /\ \A x \in Channel : x # c => u.chan[x] = t.chan[x]
      /\ u.chan[c].unitSense = us
      /\ \A g \in Field037 : g # "unitSense" => u.chan[c][g] = t.chan[c][g]
  <2>1. "unitSense" \in Field037 /\ IsPage(t)
    BY <1>2 DEF Handed, Field037
  <2>2. u = With(t, c, "unitSense", us)
    BY <1>3 DEF With
  <2> QED
    BY <2>1, <2>2, SettingChanged
<1>6. \A x \in Channel : /\ u.chan[x].sensor = t.chan[x].sensor /\ u.chan[x].exc = t.chan[x].exc
                         /\ u.chan[x].scheme = t.chan[x].scheme /\ u.chan[x].mode = t.chan[x].mode
  BY <1>5 DEF Field037
<1>7. IsPage(w) /\ w.chan = u.chan /\ w.agreed = u.agreed /\ w.own = u.own \cup {c}
  BY <1>4, <1>5 DEF IsPage
<1>8. \A k : Alike(t.chan, k) => Alike(w.chan, k)
  BY <1>6, <1>7 DEF Alike
<1>9. ASSUME NEW x \in w.own PROVE UnitRight(w, x)
  BY <1>0, <1>2, <1>5, <1>6, <1>7 DEF Handed, UnitRight, IsPage
<1>10. PageRight(w)
  BY <1>2, <1>5, <1>7, <1>8, <1>9 DEF PageRight, Handed
<1>11. OnSchemeChanged(c, s) =
         UpdateVisibility(c, UpdatePictures(c, UpdateUnitCombo(c, UpdateSense(c,
           UpdateModeCombo(c, w)))))
  BY <1>0, <1>1, <1>3, <1>4 DEF OnSchemeChanged
<1> QED
  BY <1>10, <1>11, ModeComboRight, QuietStepsRight

\* Filling the list of schemes gives a page whose slots are right.
LEMMA SchemeComboRight ==
  ASSUME NEW c \in Channel, NEW s, PageRight(s)
  PROVE  PageRight(UpdateSchemeCombo(c, s))
<1>1. PICK t : t = [s EXCEPT !.form.schemes = SchemesOf(s.chan[c].sensor)]
  OBVIOUS
<1>2. PageRight(t)
  BY <1>1, SetsRight DEF FormField
<1>3. \/ UpdateSchemeCombo(c, s) = t
      \/ \E v : UpdateSchemeCombo(c, s) =
                 OnSchemeChanged(c, Notify(c, [t EXCEPT !.chan[c].scheme = v]))
  BY <1>1 DEF UpdateSchemeCombo
<1> QED
  BY <1>2, <1>3, NotifyScheme, SchemeChangedRight

\* A change of the sensor gives a page whose slots are right.
LEMMA SensorChangedRight ==
  ASSUME NEW c \in Channel, NEW s, PageRight(s)
  PROVE  PageRight(OnSensorTypeChanged(c, s))
BY SchemeComboRight, ModeComboRight, QuietStepsRight DEF OnSensorTypeChanged

\* The page shown for another channel has its slots right.
LEMMA SetAdapterRight ==
  ASSUME NEW c \in Channel, NEW s, PageRight(s)
  PROVE  PageRight(SetAdapter037(c, s))
<1>1. PICK t : t = [s EXCEPT !.form.unit = s.chan[c].unit]
  OBVIOUS
<1>2. PICK u : u = [t EXCEPT !.form.unitSense = s.chan[c].unitSense]
  OBVIOUS
<1>3. PageRight(u)
  BY <1>1, <1>2, SetsRight DEF FormField
<1>4. PICK w : w = UpdateThermometer(c, WriteControls(u))
  OBVIOUS
<1>5. PageRight(w)
  BY <1>3, <1>4, QuietStepsRight
<1>6. PageRight(UpdateSensorTypeCombo(c, w))
  BY <1>5, NotifyRight, SensorChangedRight DEF UpdateSensorTypeCombo
<1>7. SetAdapter037(c, s) =
        UpdateVisibility(c, UpdateSense(c, UpdatePictures(c, UpdateUnitCombo(c,
          UpdateModeCombo(c, UpdateSchemeCombo(c, UpdateSensorTypeCombo(c, w)))))))
  BY <1>1, <1>2, <1>4 DEF SetAdapter037
<1> QED
  BY <1>6, <1>7, SchemeComboRight, ModeComboRight, QuietStepsRight

\* What the page was opened with is put back by Cancel.
Zet037Inv ==
  /\ PageRight(State037)
  /\ shownOn # NoChannel => shownOn \in Channel /\ IsSettings(memento)

\* The page is right when it opens.
LEMMA InitZet == ZetInit => Zet037Inv
<1> SUFFICES ASSUME ZetInit PROVE Zet037Inv
  OBVIOUS
<1>1. chan \in Full037
  BY DEF ZetInit
<1>2. IsChannels(chan)
  BY <1>1, Zet037Assumption DEF IsChannels, IsSettings
<1>3. IsPage(State037)
  BY <1>2 DEF ZetInit, IsPage, State037, EmptyForm, FormField
<1>4. /\ \A k \in agreed : Alike(chan, k)
      /\ \A x \in own : chan[x].unitSense = UnitSenseFor(chan[x].scheme)
  BY DEF ZetInit
<1> QED
  BY <1>3, <1>4 DEF ZetInit, Zet037Inv, PageRight, State037, UnitRight

\* A handler ends with what its chain made.
LEMMA HandlesRight ==
  ASSUME Zet037Inv, NEW s, PageRight(s), Handles(s)
  PROVE  Zet037Inv'
BY DEF Zet037Inv, Handles, Becomes, PageRight, IsPage, State037, UnitRight, IsChannels

\* What the user selects from the lists.
LEMMA SelectKeeps ==
  ASSUME Zet037Inv,
         \/ \E x \in Sensors : SelectSensor(x)
         \/ \E x \in form.schemes : SelectScheme(x)
         \/ \E x \in form.modes : SelectMode(x)
         \/ \E u : SelectUnitEx(u) \/ SelectUnit(u)
         \/ \E n \in {"nsh", "tc"} : \E v : SelectThermometer(n, v)
  PROVE  Zet037Inv'
<1> DEFINE c == shownOn
           S == State037
<1>1. shownOn # NoChannel
  BY DEF SelectSensor, SelectScheme, SelectMode, SelectUnitEx, SelectUnit, SelectThermometer,
         Handles
<1>2. c \in Channel /\ PageRight(S)
  BY <1>1 DEF Zet037Inv
<1> HIDE DEF c, S
<1>3. ASSUME NEW x, SelectSensor(x) PROVE Zet037Inv'
  <2>1. PageRight(Notify(c, [S EXCEPT !.chan[c]["sensor"] = x]))
    BY <1>2, NotifyRight
  <2> QED
    BY <1>2, <1>3, <2>1, SensorChangedRight, HandlesRight DEF SelectSensor, c, S
<1>4. ASSUME NEW x, SelectScheme(x) PROVE Zet037Inv'
  <2>1. Handed(c, Notify(c, [S EXCEPT !.chan[c].scheme = x]))
    BY <1>2, NotifyScheme
  <2> QED
    BY <1>2, <1>4, <2>1, SchemeChangedRight, HandlesRight DEF SelectScheme, c, S
<1>5. ASSUME NEW x, SelectMode(x) PROVE Zet037Inv'
  <2>1. PICK n : n = Notify(c, [S EXCEPT !.chan[c]["mode"] = x])
    OBVIOUS
  <2>2. PageRight(n)
    BY <1>2, <2>1, NotifyRight
  <2>3. Handles(UpdateVisibility(c, UpdatePictures(c, UpdateSense(c, UpdateUnitCombo(c, n)))))
    BY <1>5, <2>1 DEF SelectMode, c, S
  <2> QED
    BY <1>2, <2>2, <2>3, QuietStepsRight, HandlesRight
<1>6. ASSUME NEW t, PageRight(t), NEW u, NEW v
      PROVE  PageRight([t EXCEPT !.form.unit = u, !.chan[c].unit = v])
  <2>1. PICK w : w = [t EXCEPT !.form["unit"] = u]
    OBVIOUS
  <2>2. PageRight(w)
    BY <1>2, <1>6, <2>1, SetsRight DEF FormField
  <2>3. PageRight([w EXCEPT !.chan[c]["unit"] = v])
    BY <1>2, <2>2, SetsRight DEF Field037, Common
  <2> QED
    BY <2>1, <2>3
<1>7. ASSUME NEW u, SelectUnitEx(u) PROVE Zet037Inv'
  <2>1. PICK t : t = [S EXCEPT !.form.unit = u, !.chan[c].unit = u]
    OBVIOUS
  <2>2. PageRight(t)
    BY <1>2, <1>6, <2>1
  <2>3. Handles(UpdateVisibility(c, UpdateSense(c, WriteControls(t))))
    BY <1>7, <2>1 DEF SelectUnitEx, c, S
  <2> QED
    BY <1>2, <2>2, <2>3, QuietStepsRight, HandlesRight
<1>8. ASSUME NEW u, SelectUnit(u) PROVE Zet037Inv'
  <2>1. PICK t : t = ReadControls(S)
    OBVIOUS
  <2>2. PICK v : Handles(WriteControls([t EXCEPT !.form.unit = u, !.chan[c].unit = u,
                                                !.chan[c].sense.power = v]))
    BY <1>8, <2>1 DEF SelectUnit, c, S
  <2>3. PICK w : w = [t EXCEPT !.form.unit = u, !.chan[c].unit = u]
    OBVIOUS
  <2>4. PageRight(t) /\ PageRight(w)
    BY <1>2, <1>6, <2>1, <2>3, QuietStepsRight
  <2>5. PICK x : x = [w EXCEPT !.chan[c].sense = [w.chan[c].sense EXCEPT !.power = v]]
    OBVIOUS
  <2>6. PageRight(x)
    BY <1>2, <2>4, <2>5, SetsRight DEF Field037, Common
  <2>7. x = [t EXCEPT !.form.unit = u, !.chan[c].unit = u, !.chan[c].sense.power = v]
    BY <2>3, <2>5
  <2> QED
    BY <1>2, <2>2, <2>6, <2>7, QuietStepsRight, HandlesRight
<1>9. ASSUME NEW n \in {"nsh", "tc"}, NEW v, SelectThermometer(n, v) PROVE Zet037Inv'
  <2>1. PageRight([S EXCEPT !.chan[c][n] = v])
    BY <1>2, SetsRight DEF Field037, Common
  <2> QED
    BY <1>9, <2>1, HandlesRight DEF SelectThermometer, c, S
<1> QED
  BY <1>3, <1>4, <1>5, <1>7, <1>8, <1>9

\* What the user types.
LEMMA EditKeeps ==
  ASSUME Zet037Inv,
         \/ \E u : EditUnit(u)
         \/ \E v : EditExc(v) \/ EditSense(v)
         \/ \E n \in DOMAIN Typed \ {"exc", "sense", "nsh", "tc"} : \E v : EditNumber(n, v)
         \/ EditRest
  PROVE  Zet037Inv'
<1> DEFINE c == shownOn
           S == State037
<1>1. shownOn # NoChannel
  BY DEF EditUnit, EditExc, EditSense, EditNumber, EditRest, Handles
<1>2. c \in Channel /\ PageRight(S)
  BY <1>1 DEF Zet037Inv
<1> HIDE DEF c, S
<1>3. PICK t : t = ReadControls(S)
  OBVIOUS
<1>4. PageRight(t)
  BY <1>2, <1>3, QuietStepsRight
<1>5. ASSUME NEW u, EditUnit(u) PROVE Zet037Inv'
  <2>1. PICK w : w = [S EXCEPT !.form["unitText"] = u]
    OBVIOUS
  <2>2. PageRight(w)
    BY <1>2, <2>1, SetsRight DEF FormField
  <2>3. PICK x : x = [w EXCEPT !.chan[c]["unit"] = u]
    OBVIOUS
  <2>4. PageRight(x)
    BY <1>2, <2>2, <2>3, SetsRight DEF Field037, Common
  <2>5. Handles(WriteControls(ReadControls(x)))
    BY <1>5, <2>1, <2>3 DEF EditUnit, c, S
  <2> QED
    BY <1>2, <2>4, <2>5, QuietStepsRight, HandlesRight
<1>6. ASSUME NEW v, EditExc(v) PROVE Zet037Inv'
  <2>1. PICK x : /\ x = t \/ \E w : x = Notify(c, [t EXCEPT !.chan[c]["exc"] = w])
                 /\ Handles(WriteControls(x))
    BY <1>3, <1>6 DEF EditExc, c, S
  <2>2. PageRight(x)
    BY <1>2, <1>4, <2>1, NotifyRight
  <2> QED
    BY <1>2, <2>1, <2>2, QuietStepsRight, HandlesRight
<1>7. ASSUME NEW v, EditSense(v) PROVE Zet037Inv'
  <2>1. PICK x : /\ x = t \/ \E w : x = [t EXCEPT !.chan[c]["sense"] = w]
                 /\ Handles(WriteControls(x))
    BY <1>3, <1>7 DEF EditSense, c, S
  <2>2. PageRight(x)
    BY <1>2, <1>4, <2>1, SetsRight DEF Field037, Common
  <2> QED
    BY <1>2, <2>1, <2>2, QuietStepsRight, HandlesRight
<1>8. ASSUME NEW n \in DOMAIN Typed \ {"exc", "sense", "nsh", "tc"}, NEW v, EditNumber(n, v)
      PROVE  Zet037Inv'
  <2>1. n \in Field037 \ Common
    BY Zet037Assumption DEF Field037, Common
  <2>2. PICK x : /\ x = t \/ \E w : x = [t EXCEPT !.chan[c][n] = w]
                 /\ \/ Handles(WriteControls(x))
                    \/ Handles(UpdateSense(c, WriteControls(x)))
    BY <1>3, <1>8 DEF EditNumber, c, S
  <2>3. PageRight(x)
    BY <1>2, <1>4, <2>1, <2>2, SetsRight
  <2> QED
    BY <1>2, <2>2, <2>3, QuietStepsRight, HandlesRight
<1>9. CASE EditRest
  <2>1. Handles(WriteControls(t))
    BY <1>3, <1>9 DEF EditRest, S
  <2> QED
    BY <1>2, <1>4, <2>1, QuietStepsRight, HandlesRight
<1> QED
  BY <1>5, <1>6, <1>7, <1>8, <1>9

\* The page is opened or left, or a channel is pasted.
LEMMA OpenLeaveKeeps ==
  ASSUME Zet037Inv,
         \/ \E c \in Channel : OpenPage(c)
         \/ \E r \in Clips037 : Paste(r)
         \/ ClosePage \/ CancelPage
  PROVE  Zet037Inv'
<1>1. PageRight(State037)
  BY DEF Zet037Inv
<1>2. ASSUME NEW c \in Channel, OpenPage(c) PROVE Zet037Inv'
  <2>1. PICK t : t = SetAdapter037(c, State037)
    OBVIOUS
  <2>2. PageRight(t)
    BY <1>1, <2>1, SetAdapterRight
  <2>3. shownOn' = c /\ memento' = chan[c] /\ Becomes(t)
    BY <1>2, <2>1 DEF OpenPage
  <2>4. IsSettings(chan[c])
    BY <1>1 DEF PageRight, IsPage, IsChannels, State037
  <2>5. PageRight(State037)'
    BY <2>2, <2>3
    DEF Becomes, PageRight, IsPage, State037, UnitRight, IsChannels
  <2> QED
    BY <2>3, <2>4, <2>5 DEF Zet037Inv
<1>3. ASSUME NEW c \in Channel, NEW r, IsSettings(r), NEW s,
             s = [State037 EXCEPT !.chan[c] = Restored(c, r), !.own = @ \ {c},
                                  !.agreed = @ \ {Slot[c]}]
      PROVE  PageRight(s)
  <2>1. PICK d : d = Restored(c, r)
    OBVIOUS
  <2>2. IsSettings(d)
    BY <1>3, <2>1 DEF Restored, IsSettings
  <2>3. /\ s = [f \in {"chan", "form", "own", "agreed"} |-> s[f]]
        /\ s.chan = [chan EXCEPT ![c] = d] /\ s.own = own \ {c} /\ s.agreed = agreed \ {Slot[c]}
        /\ s.form = form
    BY <1>3, <2>1 DEF State037
  <2>4. IsPage(s) /\ \A x \in Channel : x # c => s.chan[x] = chan[x]
    BY <1>1, <2>2, <2>3 DEF PageRight, IsPage, IsChannels, State037
  <2>5. \A k \in s.agreed : Alike(chan, k) /\ Alike(s.chan, k)
    BY <1>1, <2>3, <2>4 DEF PageRight, State037, Alike
  <2>6. \A x \in s.own : UnitRight(s, x)
    BY <1>1, <2>3, <2>4 DEF PageRight, State037, UnitRight, IsPage
  <2> QED
    BY <2>4, <2>5, <2>6 DEF PageRight
<1>4. ASSUME NEW r \in Clips037, Paste(r) PROVE Zet037Inv'
  <2>1. shownOn \in Channel
    BY <1>4 DEF Paste, Handles, Zet037Inv
  <2>2. IsSettings(r)
    BY Zet037Assumption DEF IsSettings
  <2>3. PICK s : s = [State037 EXCEPT !.chan[shownOn] = Restored(shownOn, r),
                                      !.own = @ \ {shownOn}, !.agreed = @ \ {Slot[shownOn]}]
    OBVIOUS
  <2>4. PageRight(SetAdapter037(shownOn, s))
    BY <1>3, <2>1, <2>2, <2>3, SetAdapterRight
  <2>5. Handles(SetAdapter037(shownOn, s))
    BY <1>4, <2>3 DEF Paste
  <2> QED
    BY <2>4, <2>5, HandlesRight
<1>5. CASE ClosePage
  <2>1. PageRight(State037)'
    BY <1>1, <1>5
    DEF ClosePage, PageRight, IsPage, State037, UnitRight, IsChannels, EmptyForm, FormField
  <2> QED
    BY <1>5, <2>1 DEF ClosePage, Zet037Inv
<1>6. CASE CancelPage
  <2>1. shownOn \in Channel /\ IsSettings(memento)
    BY <1>6 DEF CancelPage, Zet037Inv
  <2>2. PICK s : s = [State037 EXCEPT !.chan[shownOn] = Restored(shownOn, memento),
                                      !.own = @ \ {shownOn}, !.agreed = @ \ {Slot[shownOn]}]
    OBVIOUS
  <2>3. PageRight(s)
    BY <1>3, <2>1, <2>2
  <2>4. chan' = s.chan /\ own' = s.own /\ agreed' = s.agreed /\ form' = EmptyForm
    BY <1>6, <2>2 DEF CancelPage, State037
  <2>5. PageRight(State037)'
    BY <2>3, <2>4
    DEF PageRight, IsPage, State037, UnitRight, IsChannels, EmptyForm, FormField
  <2> QED
    BY <1>6, <2>5 DEF CancelPage, Zet037Inv
<1> QED
  BY <1>2, <1>4, <1>5, <1>6

\* Every step of the page keeps it right.
LEMMA StepZet == Zet037Inv /\ [ZetNext]_zetVars => Zet037Inv'
<1> SUFFICES ASSUME Zet037Inv, [ZetNext]_zetVars PROVE Zet037Inv'
  OBVIOUS
<1>1. CASE UNCHANGED zetVars
  BY <1>1 DEF zetVars, Zet037Inv, PageRight, IsPage, State037, UnitRight, IsChannels
<1>2. CASE ZetNext
  BY <1>2, SelectKeeps, EditKeeps, OpenLeaveKeeps DEF ZetNext
<1> QED
  BY <1>1, <1>2

\* Whatever the slots and the settings they start with: after a choice the
\* channels of its slot agree, though a choice works through several lists and
\* each of them may hand another change to the slot.
THEOREM SlotsAgree == ZetSpec => []SlotAgrees
<1>1. Zet037Inv => SlotAgrees
  BY DEF Zet037Inv, PageRight, State037, UnitRight, SlotAgrees
<1> QED
  BY <1>1, InitZet, StepZet, PTL DEF ZetSpec

----------------------------------------------------------------------------
\* The form of that page.  Of the channel that is shown and of the form a step
\* changes the settings F and the lines G only; of the other channels it leaves
\* the diameters alone.
Same(c, s, t, F, G) ==
  /\ IsPage(t)
  /\ \A f \in Field037 \ F : t.chan[c][f] = s.chan[c][f]
  /\ \A g \in FormField \ G : t.form[g] = s.form[g]
  /\ \A x \in Channel \ {c} :
       t.chan[x].inner = s.chan[x].inner /\ t.chan[x].outer = s.chan[x].outer

Texts == {"unit", "unitText", "unitSense", "unitSenseText"}

\* A unit that a control can show is in the control and in the member.
UnitTold(c, s) ==
  s.chan[c].unit # Celsius => s.form.unit = s.chan[c].unit /\ s.form.unitText = s.chan[c].unit

\* Each list and each part of the form against the settings it belongs to.
SchemesFit(c, s) ==
  s.form.schemes = SchemesOf(s.chan[c].sensor) /\ s.chan[c].scheme \in s.form.schemes
ModesFit(c, s) ==
  /\ s.form.modes = ModesOf(s.chan[c].scheme)
  /\ s.chan[c].mode \in s.form.modes \/ s.form.modes = {}
UnitsFit(c, s) ==
  s.chan[c].sensor = "resistor" =>
    s.form.units = UnitsFor(s.chan[c].mode) /\ s.chan[c].unit \in s.form.units
SenseFit(c, s) ==
  LET r == s.chan[c] IN
  /\ r.sensor = "resistor" => r.sense.of = BridgeSense(r, r.unit)
  /\ r.sensor \in {"sensor", "lvdt"} => r.sense.of = << "ratio", r.output, r.range >>
  /\ r.sensor \in {"resistor", "sensor", "lvdt"} => "of" \in DOMAIN r.sense
PicturesFit(c, s) ==
  LET r == s.chan[c] IN s.form.pictures = PicturesFor(r.scheme, r.sensor, r.mode)
ShownFit(c, s) ==
  LET r == s.chan[c] IN s.form.shown = ShownFor(r.sensor, r.mode, r.unit)

FormFits(c, s) ==
  /\ UnitTold(c, s) /\ SchemesFit(c, s) /\ ModesFit(c, s) /\ UnitsFit(c, s) /\ SenseFit(c, s)
  /\ PicturesFit(c, s) /\ ShownFit(c, s)

\* What a step does not touch it keeps.
LEMMA SameKeeps ==
  ASSUME NEW c \in Channel, NEW s, NEW t, NEW F, NEW G, Same(c, s, t, F, G)
  PROVE  /\ {"scheme", "sensor"} \cap F = {} /\ "schemes" \notin G
              => (SchemesFit(c, s) => SchemesFit(c, t))
         /\ {"scheme", "mode"} \cap F = {} /\ "modes" \notin G
              => (ModesFit(c, s) => ModesFit(c, t))
         /\ {"sensor", "mode", "unit"} \cap F = {} /\ "units" \notin G
              => (UnitsFit(c, s) => UnitsFit(c, t))
         /\ F \cap {"sensor", "sense", "output", "range", "mode", "k", "poisson", "modulus",
                    "outer", "inner", "unit"} = {} => (SenseFit(c, s) => SenseFit(c, t))
         /\ {"scheme", "sensor", "mode"} \cap F = {} /\ "pictures" \notin G
              => (PicturesFit(c, s) => PicturesFit(c, t))
         /\ {"sensor", "mode", "unit"} \cap F = {} /\ "shown" \notin G
              => (ShownFit(c, s) => ShownFit(c, t))
         /\ "unit" \notin F /\ {"unit", "unitText"} \cap G = {}
              => (UnitTold(c, s) => UnitTold(c, t))
<1>1. \A f \in Field037 : f \notin F => t.chan[c][f] = s.chan[c][f]
  BY DEF Same
<1>2. \A g \in FormField : g \notin G => t.form[g] = s.form[g]
  BY DEF Same
<1>3. {"scheme", "sensor"} \cap F = {} /\ "schemes" \notin G
        => (SchemesFit(c, s) => SchemesFit(c, t))
  BY <1>1, <1>2 DEF SchemesFit, Field037, FormField
<1>4. {"scheme", "mode"} \cap F = {} /\ "modes" \notin G => (ModesFit(c, s) => ModesFit(c, t))
  BY <1>1, <1>2 DEF ModesFit, Field037, FormField
<1>5. {"sensor", "mode", "unit"} \cap F = {} /\ "units" \notin G
        => (UnitsFit(c, s) => UnitsFit(c, t))
  BY <1>1, <1>2 DEF UnitsFit, Field037, FormField
<1>6. F \cap {"sensor", "sense", "output", "range", "mode", "k", "poisson", "modulus", "outer",
              "inner", "unit"} = {} => (SenseFit(c, s) => SenseFit(c, t))
  BY <1>1, <1>2 DEF SenseFit, BridgeSense, Field037
<1>7. {"scheme", "sensor", "mode"} \cap F = {} /\ "pictures" \notin G
        => (PicturesFit(c, s) => PicturesFit(c, t))
  BY <1>1, <1>2 DEF PicturesFit, Field037, FormField
<1>8. {"sensor", "mode", "unit"} \cap F = {} /\ "shown" \notin G
        => (ShownFit(c, s) => ShownFit(c, t))
  BY <1>1, <1>2 DEF ShownFit, Field037, FormField
<1>9. "unit" \notin F /\ {"unit", "unitText"} \cap G = {} => (UnitTold(c, s) => UnitTold(c, t))
  BY <1>1, <1>2 DEF UnitTold, Field037, FormField
<1> QED
  BY <1>3, <1>4, <1>5, <1>6, <1>7, <1>8, <1>9

\* Two updates in a row touch the fields of either.
LEMMA SameChain ==
  ASSUME NEW c, NEW s, NEW t, NEW u, NEW F, NEW G, NEW H, NEW I,
         Same(c, s, t, F, G), Same(c, t, u, H, I)
  PROVE  Same(c, s, u, F \cup H, G \cup I)
BY DEF Same

\* One setting, one line of the form.
LEMMA SettingSame ==
  ASSUME NEW s, IsPage(s), NEW c \in Channel, NEW f \in Field037, NEW v
  PROVE  Same(c, s, With(s, c, f, v), {f}, {}) /\ With(s, c, f, v).chan[c][f] = v
<1>1. PICK t : t = With(s, c, f, v)
  OBVIOUS
<1>2. /\ IsPage(t) /\ t.form = s.form /\ t.chan[c][f] = v
      /\ \A x \in Channel : x # c => t.chan[x] = s.chan[x]
      /\ \A g \in Field037 : g # f => t.chan[c][g] = s.chan[c][g]
  BY <1>1, SettingChanged
<1> QED
  BY <1>1, <1>2 DEF Same

WithLine(s, g, v) == [s EXCEPT !.form[g] = v]

\* A line of the form is written, and nothing else.
LEMMA LineSame ==
  ASSUME NEW s, IsPage(s), NEW c \in Channel, NEW g \in FormField, NEW v
  PROVE  Same(c, s, WithLine(s, g, v), {}, {g}) /\ WithLine(s, g, v).form[g] = v
BY DEF Same, IsPage, WithLine

\* UpdateData in both directions.
LEMMA ReadSame ==
  ASSUME NEW s, IsPage(s), NEW c \in Channel
  PROVE  /\ Same(c, s, ReadControls(s), {}, {"unit", "unitSense"})
         /\ ReadControls(s).form.unit = s.form.unitText
         /\ UnitTold(c, s) => UnitTold(c, ReadControls(s))
<1>1. PICK t : t = WithLine(s, "unit", s.form.unitText)
  OBVIOUS
<1>2. Same(c, s, t, {}, {"unit"}) /\ t.form.unit = s.form.unitText
  BY <1>1, LineSame DEF FormField
<1>3. PICK u : u = WithLine(t, "unitSense", s.form.unitSenseText)
  OBVIOUS
<1>4. Same(c, t, u, {}, {"unitSense"})
  BY <1>2, <1>3, LineSame DEF FormField, Same
<1>5. u = ReadControls(s)
  BY <1>1, <1>3 DEF WithLine, ReadControls
<1>6. Same(c, s, u, {}, {"unit", "unitSense"})
  BY <1>2, <1>4, SameChain DEF Same
<1>7. u.form.unit = s.form.unitText
  BY <1>2, <1>4 DEF Same, FormField
<1>8. u.form.unitText = s.form.unitText /\ u.chan[c].unit = s.chan[c].unit
  BY <1>6 DEF Same, FormField, Field037
<1> QED
  BY <1>5, <1>6, <1>7, <1>8 DEF UnitTold

\* Writing the controls touches the two texts of the units; the unit stays told.
LEMMA WriteSame ==
  ASSUME NEW s, IsPage(s), NEW c \in Channel
  PROVE  /\ Same(c, s, WriteControls(s), {}, {"unitText", "unitSenseText"})
         /\ WriteControls(s).form.unitText = s.form.unit
         /\ UnitTold(c, s) => UnitTold(c, WriteControls(s))
<1>1. PICK t : t = WithLine(s, "unitText", s.form.unit)
  OBVIOUS
<1>2. Same(c, s, t, {}, {"unitText"}) /\ t.form.unitText = s.form.unit
  BY <1>1, LineSame DEF FormField
<1>3. PICK u : u = WithLine(t, "unitSenseText", s.form.unitSense)
  OBVIOUS
<1>4. Same(c, t, u, {}, {"unitSenseText"})
  BY <1>2, <1>3, LineSame DEF FormField, Same
<1>5. u = WriteControls(s)
  BY <1>1, <1>3 DEF WithLine, WriteControls
<1>6. Same(c, s, u, {}, {"unitText", "unitSenseText"})
  BY <1>2, <1>4, SameChain DEF Same
<1>7. u.form.unitText = s.form.unit
  BY <1>2, <1>4 DEF Same, FormField
<1>8. u.form.unit = s.form.unit /\ u.chan[c].unit = s.chan[c].unit
  BY <1>6 DEF Same, FormField, Field037
<1> QED
  BY <1>5, <1>6, <1>7, <1>8 DEF UnitTold

\* The sensitivity is computed from the unit in the member.
LEMMA SenseStep ==
  ASSUME NEW s, IsPage(s), NEW c \in Channel, UnitTold(c, s)
  PROVE  LET t == UpdateSense(c, s) IN
         /\ Same(c, s, t, {"sense"}, Texts) /\ UnitTold(c, t)
         /\ UnitsFit(c, s) => SenseFit(c, t)
<1> DEFINE r == s.chan[c]
<1>1. PICK v :
        /\ r.sensor = "resistor" => v = [of |-> BridgeSense(r, s.form.unit), power |-> 0]
        /\ r.sensor \in {"sensor", "lvdt"}
             => v = [of |-> << "ratio", r.output, r.range >>, power |-> 0]
        /\ UpdateSense(c, s) = WriteControls([ReadControls(s) EXCEPT !.chan[c].sense = v])
  BY DEF UpdateSense
<1>2. PICK t : t = ReadControls(s)
  OBVIOUS
<1>3. Same(c, s, t, {}, {"unit", "unitSense"}) /\ UnitTold(c, t)
  BY <1>2, ReadSame
<1>4. PICK u : u = With(t, c, "sense", v)
  OBVIOUS
<1>5. Same(c, t, u, {"sense"}, {}) /\ u.chan[c].sense = v
  <2>1. IsPage(t) /\ "sense" \in Field037
    BY <1>3 DEF Same, Field037
  <2> QED
    BY <1>4, <2>1, SettingSame
<1>6. UnitTold(c, u)
  BY <1>3, <1>5, SameKeeps
<1>7. PICK w : w = WriteControls(u)
  OBVIOUS
<1>8. Same(c, u, w, {}, {"unitText", "unitSenseText"}) /\ UnitTold(c, w)
  BY <1>5, <1>6, <1>7, WriteSame DEF Same
<1>9. w = UpdateSense(c, s)
  BY <1>1, <1>2, <1>4, <1>7 DEF With
<1>10. Same(c, s, w, {"sense"}, Texts) /\ w.chan[c].sense = v
  <2>1. Same(c, s, u, {"sense"}, {"unit", "unitSense"})
    BY <1>3, <1>5, SameChain DEF Same
  <2>2. Same(c, s, w, {"sense"}, {"unit", "unitSense", "unitText", "unitSenseText"})
    BY <1>8, <2>1, SameChain DEF Same
  <2>3. w.chan[c].sense = v
    BY <1>5, <1>8 DEF Same, Field037
  <2> QED
    BY <2>2, <2>3 DEF Texts, Same
<1>11. ASSUME UnitsFit(c, s) PROVE SenseFit(c, w)
  <2>1. r.sensor = "resistor" => s.form.unit = r.unit
    BY <1>11, Zet037Assumption DEF UnitsFit, UnitsFor, UnitTold
  <2>2. /\ w.chan[c].sensor = r.sensor /\ w.chan[c].unit = r.unit
        /\ w.chan[c].output = r.output /\ w.chan[c].range = r.range
        /\ BridgeSense(w.chan[c], r.unit) = BridgeSense(r, r.unit)
    BY <1>10 DEF Same, Field037, BridgeSense
  <2> QED
    BY <1>1, <1>10, <2>1, <2>2 DEF SenseFit
<1> QED
  BY <1>8, <1>9, <1>10, <1>11

\* The unit of a strain gauge is one that is offered.
LEMMA UnitStep ==
  ASSUME NEW s, IsPage(s), NEW c \in Channel, UnitTold(c, s)
  PROVE  LET t == UpdateUnitCombo(c, s) IN
         /\ Same(c, s, t, {"unit"}, Texts \cup {"units"}) /\ UnitTold(c, t) /\ UnitsFit(c, t)
         /\ UnitsFit(c, s) /\ SenseFit(c, s) => SenseFit(c, t)
         /\ UnitsFit(c, s) /\ ShownFit(c, s) => ShownFit(c, t)
<1> DEFINE r == s.chan[c]
           offered == UnitsFor(r.mode)
<1>1. FirstUnit \in offered
  BY Zet037Assumption DEF UnitsFor
<1>2. PICK t : t = WithLine(s, "units", offered)
  OBVIOUS
<1>3. Same(c, s, t, {}, {"units"}) /\ t.form.units = offered
  BY <1>2, LineSame DEF FormField
<1>4. UnitTold(c, t)
  BY <1>3, SameKeeps
<1>5. ASSUME NEW p, Same(c, s, p, {}, {"units"}), NEW v
      PROVE  LET q == [p EXCEPT !.form.unit = v, !.chan[c].unit = v] IN
             /\ Same(c, s, q, {"unit"}, {"unit", "units"})
             /\ q.chan[c].unit = v /\ q.form.unit = v
             /\ q.form.unitText = s.form.unitText /\ q.form.units = p.form.units
  <2>1. PICK q : q = WithLine(p, "unit", v)
    OBVIOUS
  <2>2. Same(c, p, q, {}, {"unit"}) /\ q.form.unit = v
    BY <1>5, <2>1, LineSame DEF FormField, Same
  <2>3. PICK w : w = With(q, c, "unit", v)
    OBVIOUS
  <2>4. Same(c, q, w, {"unit"}, {}) /\ w.chan[c].unit = v
    <3>1. IsPage(q) /\ "unit" \in Field037
      BY <2>2 DEF Same, Field037
    <3> QED
      BY <2>3, <3>1, SettingSame
  <2>5. w = [p EXCEPT !.form.unit = v, !.chan[c].unit = v]
    BY <2>1, <2>3 DEF With, WithLine
  <2>6. Same(c, s, q, {}, {"unit", "units"})
    BY <1>5, <2>2, SameChain DEF Same
  <2>7. Same(c, s, w, {"unit"}, {"unit", "units"})
    BY <2>4, <2>6, SameChain DEF Same
  <2>8. w.form.unit = v /\ w.form.unitText = s.form.unitText /\ w.form.units = p.form.units
    BY <1>5, <2>2, <2>4 DEF Same, FormField
  <2> QED
    BY <2>4, <2>5, <2>7, <2>8
<1>6. CASE r.sensor = "resistor" /\ r.unit \in offered
  <2>1. UpdateUnitCombo(c, s) = t
    BY <1>2, <1>6 DEF UpdateUnitCombo, WithLine
  <2>2. UnitsFit(c, t)
    BY <1>3, <1>6 DEF UnitsFit, Same, Field037
  <2>3. /\ SenseFit(c, s) => SenseFit(c, t)
        /\ ShownFit(c, s) => ShownFit(c, t)
    BY <1>3, SameKeeps
  <2>4. Same(c, s, t, {"unit"}, Texts \cup {"units"})
    BY <1>3 DEF Same
  <2> QED
    BY <1>4, <2>1, <2>2, <2>3, <2>4
<1>7. CASE r.sensor = "resistor" /\ r.unit \notin offered
  <2>1. PICK q : q = [t EXCEPT !.form.unit = FirstUnit, !.chan[c].unit = FirstUnit]
    OBVIOUS
  <2>2. /\ Same(c, s, q, {"unit"}, {"unit", "units"})
        /\ q.chan[c].unit = FirstUnit /\ q.form.unit = FirstUnit /\ q.form.units = offered
    BY <1>3, <1>5, <2>1, ZenonT(60)
  <2>3. PICK w : w = WriteControls(q)
    OBVIOUS
  <2>4. /\ Same(c, q, w, {}, {"unitText", "unitSenseText"})
        /\ w.form.unitText = FirstUnit
    <3>1. IsPage(q)
      BY <2>2 DEF Same
    <3> QED
      BY <2>2, <2>3, <3>1, WriteSame
  <2>5. w = UpdateUnitCombo(c, s)
    <3>1. t = [s EXCEPT !.form.units = UnitsFor(s.chan[c].mode)]
      BY <1>2 DEF WithLine
    <3>2. UpdateUnitCombo(c, s) =
            WriteControls([t EXCEPT !.form.unit = FirstUnit, !.chan[c].unit = FirstUnit])
      BY <1>7, <3>1, Zenon DEF UpdateUnitCombo
    <3> QED
      BY <2>1, <2>3, <3>2
  <2>6. Same(c, s, w, {"unit"}, {"unit", "units", "unitText", "unitSenseText"})
    BY <2>2, <2>4, SameChain DEF Same
  <2>7. Same(c, s, w, {"unit"}, Texts \cup {"units"})
    BY <2>6 DEF Same, Texts
  <2>8. w.chan[c].unit = FirstUnit /\ w.form.unit = FirstUnit /\ w.form.units = offered
    BY <2>2, <2>4 DEF Same, Field037, FormField
  <2>9. UnitTold(c, w) /\ UnitsFit(c, w)
    <3>1. w.chan[c].mode = r.mode
      BY <2>6 DEF Same, Field037
    <3> QED
      BY <1>1, <2>4, <2>8, <3>1 DEF UnitTold, UnitsFit
  <2>10. ~UnitsFit(c, s)
    BY <1>7 DEF UnitsFit
  <2> QED
    BY <2>5, <2>7, <2>9, <2>10
<1>8. CASE r.sensor \in {"tr", "tc"}
  <2>1. PICK q : q = [s EXCEPT !.form.unit = Celsius, !.chan[c].unit = Celsius]
    OBVIOUS
  <2>2. Same(c, s, s, {}, {"units"})
    BY DEF Same
  <2>3. Same(c, s, q, {"unit"}, {"unit", "units"}) /\ q.chan[c].unit = Celsius
    BY <1>5, <2>1, <2>2
  <2>4. q = UpdateUnitCombo(c, s)
    BY <1>8, <2>1 DEF UpdateUnitCombo
  <2>5. Same(c, s, q, {"unit"}, Texts \cup {"units"})
    BY <2>3 DEF Same, Texts
  <2>6. q.chan[c].sensor = r.sensor /\ q.chan[c].mode = r.mode /\ q.form.shown = s.form.shown
    BY <2>3 DEF Same, Field037, FormField
  <2>7. UnitTold(c, q) /\ UnitsFit(c, q) /\ SenseFit(c, q)
    BY <1>8, <2>3, <2>6 DEF UnitTold, UnitsFit, SenseFit
  <2>8. \A m, u1, u2 : ShownFor(r.sensor, m, u1) = ShownFor(r.sensor, m, u2)
    BY <1>8 DEF ShownFor
  <2>9. ShownFit(c, s) => ShownFit(c, q)
    BY <2>6, <2>8 DEF ShownFit
  <2> QED
    BY <2>4, <2>5, <2>7, <2>9
<1>9. CASE r.sensor \notin {"resistor", "tr", "tc"}
  <2>1. UpdateUnitCombo(c, s) = s
    BY <1>9 DEF UpdateUnitCombo
  <2> QED
    BY <1>9, <2>1 DEF Same, UnitsFit
<1> QED
  BY <1>6, <1>7, <1>8, <1>9

\* The pictures are drawn for the channel, and nothing else changes.
LEMMA PictureStep ==
  ASSUME NEW s, IsPage(s), NEW c \in Channel
  PROVE  Same(c, s, UpdatePictures(c, s), {}, {"pictures"}) /\ PicturesFit(c, UpdatePictures(c, s))
<1> DEFINE r == s.chan[c]
<1>1. PICK t : t = WithLine(s, "pictures", PicturesFor(r.scheme, r.sensor, r.mode))
  OBVIOUS
<1>2. t = UpdatePictures(c, s)
  BY <1>1 DEF WithLine, UpdatePictures
<1>3. Same(c, s, t, {}, {"pictures"}) /\ t.form.pictures = PicturesFor(r.scheme, r.sensor, r.mode)
  BY <1>1, LineSame DEF FormField
<1>4. t.chan[c].scheme = r.scheme /\ t.chan[c].sensor = r.sensor /\ t.chan[c].mode = r.mode
  BY <1>3 DEF Same, Field037
<1> QED
  BY <1>2, <1>3, <1>4 DEF PicturesFit

\* The fields that are shown depend on the unit of a strain gauge only, and that
\* one is in the member.
LEMMA ShownStep ==
  ASSUME NEW s, IsPage(s), NEW c \in Channel
  PROVE  LET t == UpdateVisibility(c, s) IN
         /\ Same(c, s, t, {}, {"shown", "unitSenseText"})
         /\ UnitTold(c, s) /\ UnitsFit(c, s) => ShownFit(c, t)
<1> DEFINE r == s.chan[c]
<1>1. PICK v : UpdateVisibility(c, s) =
                 [s EXCEPT !.form.shown = ShownFor(r.sensor, r.mode, s.form.unit),
                           !.form.unitSenseText = v]
  BY DEF UpdateVisibility
<1>2. PICK t : t = WithLine(s, "shown", ShownFor(r.sensor, r.mode, s.form.unit))
  OBVIOUS
<1>3. Same(c, s, t, {}, {"shown"}) /\ t.form.shown = ShownFor(r.sensor, r.mode, s.form.unit)
  BY <1>2, LineSame DEF FormField
<1>4. PICK u : u = WithLine(t, "unitSenseText", v)
  OBVIOUS
<1>5. Same(c, t, u, {}, {"unitSenseText"})
  <2>1. IsPage(t) /\ "unitSenseText" \in FormField
    BY <1>3 DEF Same, FormField
  <2> QED
    BY <1>4, <2>1, LineSame
<1>6. u = UpdateVisibility(c, s)
  BY <1>1, <1>2, <1>4 DEF WithLine
<1>7. Same(c, s, u, {}, {"shown", "unitSenseText"})
  <2>1. Same(c, s, u, {} \cup {}, {"shown"} \cup {"unitSenseText"})
    BY <1>3, <1>5, SameChain
  <2> QED
    BY <2>1 DEF Same
<1>8. /\ u.chan[c].sensor = r.sensor /\ u.chan[c].mode = r.mode /\ u.chan[c].unit = r.unit
      /\ u.form.shown = t.form.shown
  BY <1>5, <1>7 DEF Same, Field037, FormField
<1>9. ASSUME UnitTold(c, s), UnitsFit(c, s) PROVE ShownFit(c, u)
  <2>1. CASE r.sensor = "resistor"
    <3>1. s.form.unit = r.unit
      BY <1>9, <2>1, Zet037Assumption DEF UnitsFit, UnitsFor, UnitTold
    <3> QED
      BY <1>3, <1>8, <3>1 DEF ShownFit
  <2>2. CASE r.sensor # "resistor"
    <3>1. ShownFor(r.sensor, r.mode, s.form.unit) = ShownFor(r.sensor, r.mode, r.unit)
      BY <2>2 DEF ShownFor
    <3> QED
      BY <1>3, <1>8, <3>1 DEF ShownFit
  <2> QED
    BY <2>1, <2>2
<1> QED
  BY <1>6, <1>7, <1>9

\* What the channel hands to its slot touches neither itself nor the form.
LEMMA NotifyStep ==
  ASSUME NEW s, IsPage(s), NEW c \in Channel
  PROVE  Same(c, s, Notify(c, s), {}, {})
<1>1. PICK t : t = Notify(c, s)
  OBVIOUS
<1>2. IsPage(t) /\ t.form = s.form /\ t.chan[c] = s.chan[c]
  BY <1>1 DEF Notify, IsPage, IsChannels, IsSettings
<1>3. \A x \in Channel :
        t.chan[x].inner = s.chan[x].inner /\ t.chan[x].outer = s.chan[x].outer
  BY <1>1 DEF Notify, IsPage, IsChannels, IsSettings, Field037
<1> QED
  BY <1>1, <1>2, <1>3 DEF Same

\* The thermometer settings touch the channel's two fields alone.
LEMMA ThermometerStep ==
  ASSUME NEW s, IsPage(s), NEW c \in Channel
  PROVE  Same(c, s, UpdateThermometer(c, s), {"nsh", "tc"}, {})
<1>1. PICK v, w : UpdateThermometer(c, s) = [s EXCEPT !.chan[c].nsh = v, !.chan[c].tc = w]
  BY DEF UpdateThermometer
<1>2. PICK t : t = With(s, c, "nsh", v)
  OBVIOUS
<1>3. "nsh" \in Field037 /\ "tc" \in Field037
  BY DEF Field037
<1>4. Same(c, s, t, {"nsh"}, {})
  BY <1>2, <1>3, SettingSame
<1>5. PICK u : u = With(t, c, "tc", w)
  OBVIOUS
<1>6. Same(c, t, u, {"tc"}, {})
  <2>1. IsPage(t)
    BY <1>4 DEF Same
  <2> QED
    BY <1>3, <1>5, <2>1, SettingSame
<1>7. u = UpdateThermometer(c, s)
  BY <1>1, <1>2, <1>5 DEF With
<1>8. Same(c, s, u, {"nsh"} \cup {"tc"}, {} \cup {})
  BY <1>4, <1>6, SameChain
<1> QED
  BY <1>7, <1>8 DEF Same

\* How most handlers end: sensitivity, units, pictures, fields.
Finish(c, s) == UpdateVisibility(c, UpdatePictures(c, UpdateUnitCombo(c, UpdateSense(c, s))))

Redrawn == Texts \cup {"units", "pictures", "shown"}

\* What a choice may change; the diameters are typed.
Chosen == Field037 \ {"inner", "outer"}

\* The last updates of every handler leave units, pictures and lines that fit.
LEMMA FinishStep ==
  ASSUME NEW s, IsPage(s), NEW c \in Channel, UnitTold(c, s)
  PROVE  LET t == Finish(c, s) IN
         /\ Same(c, s, t, {"sense", "unit"}, Redrawn)
         /\ UnitTold(c, t) /\ UnitsFit(c, t) /\ PicturesFit(c, t) /\ ShownFit(c, t)
         /\ UnitsFit(c, s) => SenseFit(c, t)
<1>1. PICK p : p = UpdateSense(c, s)
  OBVIOUS
<1>2. Same(c, s, p, {"sense"}, Texts) /\ UnitTold(c, p) /\ (UnitsFit(c, s) => SenseFit(c, p))
  BY <1>1, SenseStep
<1>3. UnitsFit(c, s) => UnitsFit(c, p)
  BY <1>2, SameKeeps DEF Texts
<1>4. PICK q : q = UpdateUnitCombo(c, p)
  OBVIOUS
<1>5. IsPage(p)
  BY <1>2 DEF Same
<1>6. /\ Same(c, p, q, {"unit"}, Texts \cup {"units"}) /\ UnitTold(c, q) /\ UnitsFit(c, q)
      /\ UnitsFit(c, p) /\ SenseFit(c, p) => SenseFit(c, q)
  BY <1>2, <1>4, <1>5, UnitStep
<1>7. PICK u : u = UpdatePictures(c, q)
  OBVIOUS
<1>8. IsPage(q)
  BY <1>6 DEF Same
<1>9. Same(c, q, u, {}, {"pictures"}) /\ PicturesFit(c, u)
  BY <1>7, <1>8, PictureStep
<1>10. UnitTold(c, u) /\ UnitsFit(c, u) /\ (SenseFit(c, q) => SenseFit(c, u))
  BY <1>6, <1>9, SameKeeps
<1>11. PICK w : w = UpdateVisibility(c, u)
  OBVIOUS
<1>12. IsPage(u)
  BY <1>9 DEF Same
<1>13. Same(c, u, w, {}, {"shown", "unitSenseText"}) /\ ShownFit(c, w)
  BY <1>10, <1>11, <1>12, ShownStep
<1>14. /\ UnitTold(c, w) /\ UnitsFit(c, w) /\ PicturesFit(c, w)
       /\ SenseFit(c, u) => SenseFit(c, w)
  BY <1>9, <1>10, <1>13, SameKeeps
<1>15. Same(c, s, w, {"sense", "unit"}, Redrawn)
  <2>1. Same(c, s, q, {"sense"} \cup {"unit"}, Texts \cup (Texts \cup {"units"}))
    BY <1>2, <1>6, SameChain
  <2>2. Same(c, q, w, {} \cup {}, {"pictures"} \cup {"shown", "unitSenseText"})
    BY <1>9, <1>13, SameChain
  <2>3. Same(c, s, w, ({"sense"} \cup {"unit"}) \cup ({} \cup {}),
                      (Texts \cup (Texts \cup {"units"}))
                      \cup ({"pictures"} \cup {"shown", "unitSenseText"}))
    BY <2>1, <2>2, SameChain
  <2> QED
    BY <2>3 DEF Same, Texts, Redrawn
<1>16. w = Finish(c, s)
  BY <1>1, <1>4, <1>7, <1>11 DEF Finish
<1> QED
  BY <1>2, <1>3, <1>6, <1>10, <1>13, <1>14, <1>15, <1>16

\* The first mode of a scheme is one of its modes.
LEMMA FirstModeOffered == ASSUME NEW scheme, ModesOf(scheme) # {}
                          PROVE  FirstMode(scheme) \in ModesOf(scheme)
<1>1. LoadsOf(BridgeOf(scheme)) # {}
  BY DEF ModesOf
<1>2. \A b : LoadsOf(b) # {} => "tc1" \in LoadsOf(b)
  BY DEF LoadsOf
<1> QED
  BY <1>1, <1>2 DEF FirstMode, ModesOf

\* Filling the list of modes leaves modes, units, pictures and lines that fit.
LEMMA ModeStep ==
  ASSUME NEW s, IsPage(s), NEW c \in Channel, UnitTold(c, s)
  PROVE  LET t == UpdateModeCombo(c, s) IN
         /\ Same(c, s, t, {"mode", "sense", "unit"}, Redrawn \cup {"modes"})
         /\ UnitTold(c, t) /\ UnitsFit(c, t) /\ PicturesFit(c, t) /\ ShownFit(c, t)
         /\ ModesFit(c, t)
<1> DEFINE scheme == s.chan[c].scheme
<1>1. PICK t : t = WithLine(s, "modes", ModesOf(scheme))
  OBVIOUS
<1>2. Same(c, s, t, {}, {"modes"}) /\ t.form.modes = ModesOf(scheme)
  BY <1>1, LineSame DEF FormField
<1>3. UnitTold(c, t) /\ t.chan[c].scheme = scheme /\ IsPage(t)
  <2>1. UnitTold(c, t)
    BY <1>2, SameKeeps
  <2> QED
    BY <1>2, <2>1 DEF Same, Field037
<1>4. PICK u : /\ Same(c, t, u, {"mode"}, {}) /\ ModesFit(c, u)
               /\ UpdateModeCombo(c, s) = Finish(c, u)
  <2>1. t = [s EXCEPT !.form.modes = ModesOf(scheme)]
    BY <1>1 DEF WithLine
  <2>2. CASE t.chan[c].mode \in ModesOf(scheme)
    <3>1. UpdateModeCombo(c, s) = Finish(c, t)
      BY <2>1, <2>2 DEF UpdateModeCombo, Finish
    <3>2. Same(c, t, t, {"mode"}, {})
      BY <1>3 DEF Same
    <3>3. ModesFit(c, t)
      BY <1>2, <1>3, <2>2 DEF ModesFit
    <3> QED
      BY <3>1, <3>2, <3>3
  <2>3. CASE t.chan[c].mode \notin ModesOf(scheme)
    <3>1. PICK p : p = With(t, c, "mode", FirstMode(scheme))
      OBVIOUS
    <3>2. Same(c, t, p, {"mode"}, {}) /\ p.chan[c].mode = FirstMode(scheme)
      <4>1. "mode" \in Field037
        BY DEF Field037
      <4> QED
        BY <1>3, <3>1, <4>1, SettingSame
    <3>3. p.form.modes = ModesOf(scheme) /\ p.chan[c].scheme = scheme /\ IsPage(p)
      BY <1>2, <1>3, <3>2 DEF Same, Field037, FormField
    <3>4. ModesFit(c, p)
      BY <3>2, <3>3, FirstModeOffered DEF ModesFit
    <3>5. PICK q : q = Notify(c, p)
      OBVIOUS
    <3>6. Same(c, p, q, {}, {})
      BY <3>3, <3>5, NotifyStep
    <3>7. ModesFit(c, q)
      BY <3>4, <3>6, SameKeeps
    <3>8. Same(c, t, q, {"mode"} \cup {}, {} \cup {})
      BY <3>2, <3>6, SameChain
    <3>9. Same(c, t, q, {"mode"}, {})
      BY <3>8 DEF Same
    <3>10. p = [t EXCEPT !.chan[c].mode = FirstMode(scheme)]
      BY <3>1 DEF With
    <3>11. UpdateModeCombo(c, s) = Finish(c, q)
      BY <2>1, <2>3, <3>5, <3>10 DEF UpdateModeCombo, Finish
    <3> QED
      BY <3>7, <3>9, <3>11
  <2> QED
    BY <2>2, <2>3
<1>5. UnitTold(c, u) /\ IsPage(u)
  <2>1. UnitTold(c, u)
    BY <1>3, <1>4, SameKeeps
  <2> QED
    BY <1>4, <2>1 DEF Same
<1>6. PICK w : w = Finish(c, u)
  OBVIOUS
<1>7. /\ Same(c, u, w, {"sense", "unit"}, Redrawn)
      /\ UnitTold(c, w) /\ UnitsFit(c, w) /\ PicturesFit(c, w) /\ ShownFit(c, w)
  BY <1>5, <1>6, FinishStep
<1>8. ModesFit(c, w)
  BY <1>4, <1>7, SameKeeps DEF Redrawn, Texts
<1>9. Same(c, s, w, {"mode", "sense", "unit"}, Redrawn \cup {"modes"})
  <2>1. Same(c, s, u, {} \cup {"mode"}, {"modes"} \cup {})
    BY <1>2, <1>4, SameChain
  <2>2. Same(c, s, w, ({} \cup {"mode"}) \cup {"sense", "unit"}, ({"modes"} \cup {}) \cup Redrawn)
    BY <1>7, <2>1, SameChain
  <2> QED
    BY <2>2 DEF Same
<1> QED
  BY <1>4, <1>6, <1>7, <1>8, <1>9

\* With schemes, modes and units that fit, the last updates leave a form that fits.
LEMMA FinishFits ==
  ASSUME NEW s, IsPage(s), NEW c \in Channel,
         UnitTold(c, s), SchemesFit(c, s), ModesFit(c, s), UnitsFit(c, s)
  PROVE  FormFits(c, Finish(c, s))
<1>1. PICK t : t = Finish(c, s)
  OBVIOUS
<1>2. /\ Same(c, s, t, {"sense", "unit"}, Redrawn)
      /\ UnitTold(c, t) /\ UnitsFit(c, t) /\ PicturesFit(c, t) /\ ShownFit(c, t) /\ SenseFit(c, t)
  BY <1>1, FinishStep
<1>3. SchemesFit(c, t) /\ ModesFit(c, t)
  BY <1>2, SameKeeps DEF Redrawn, Texts
<1> QED
  BY <1>1, <1>2, <1>3 DEF FormFits

\* The loads, then the end once more: the form fits where the schemes did.
LEMMA ModesThenFinish ==
  ASSUME NEW s, IsPage(s), NEW c \in Channel, UnitTold(c, s), SchemesFit(c, s)
  PROVE  LET t == Finish(c, UpdateModeCombo(c, s)) IN
         FormFits(c, t) /\ Same(c, s, t, {"mode", "sense", "unit"}, Redrawn \cup {"modes"})
<1>1. PICK t : t = UpdateModeCombo(c, s)
  OBVIOUS
<1>2. /\ Same(c, s, t, {"mode", "sense", "unit"}, Redrawn \cup {"modes"})
      /\ UnitTold(c, t) /\ UnitsFit(c, t) /\ ModesFit(c, t)
  BY <1>1, ModeStep
<1>3. SchemesFit(c, t) /\ IsPage(t)
  <2>1. SchemesFit(c, t)
    BY <1>2, SameKeeps DEF Redrawn, Texts
  <2> QED
    BY <1>2, <2>1 DEF Same
<1>4. PICK u : u = Finish(c, t)
  OBVIOUS
<1>5. FormFits(c, u) /\ Same(c, t, u, {"sense", "unit"}, Redrawn)
  BY <1>2, <1>3, <1>4, FinishFits, FinishStep
<1>6. Same(c, s, u, {"mode", "sense", "unit"} \cup {"sense", "unit"},
                    (Redrawn \cup {"modes"}) \cup Redrawn)
  BY <1>2, <1>5, SameChain
<1>7. Same(c, s, u, {"mode", "sense", "unit"}, Redrawn \cup {"modes"})
  BY <1>6 DEF Same
<1> QED
  BY <1>1, <1>4, <1>5, <1>7

\* A change of the scheme leaves a form that fits.
LEMMA SchemeChangedFits ==
  ASSUME NEW s, IsPage(s), NEW c \in Channel, UnitTold(c, s), SchemesFit(c, s)
  PROVE  /\ FormFits(c, OnSchemeChanged(c, s))
         /\ Same(c, s, OnSchemeChanged(c, s), Chosen, FormField)
<1>1. PICK us : us = UnitSenseFor(s.chan[c].scheme)
  OBVIOUS
<1>2. PICK t : t = WithLine(s, "unitSense", us)
  OBVIOUS
<1>3. Same(c, s, t, {}, {"unitSense"}) /\ IsPage(t)
  <2>1. Same(c, s, t, {}, {"unitSense"})
    BY <1>2, LineSame DEF FormField
  <2> QED
    BY <2>1 DEF Same
<1>4. UnitTold(c, t) /\ SchemesFit(c, t)
  BY <1>3, SameKeeps
<1>5. PICK u : u = WriteControls(t)
  OBVIOUS
<1>6. Same(c, t, u, {}, {"unitText", "unitSenseText"}) /\ UnitTold(c, u) /\ IsPage(u)
  <2>1. Same(c, t, u, {}, {"unitText", "unitSenseText"}) /\ UnitTold(c, u)
    BY <1>3, <1>4, <1>5, WriteSame
  <2> QED
    BY <2>1 DEF Same
<1>7. SchemesFit(c, u)
  BY <1>4, <1>6, SameKeeps
<1>8. PICK v : v = With(u, c, "unitSense", us)
  OBVIOUS
<1>9. Same(c, u, v, {"unitSense"}, {}) /\ IsPage(v)
  <2>1. "unitSense" \in Field037
    BY DEF Field037
  <2>2. Same(c, u, v, {"unitSense"}, {})
    BY <1>6, <1>8, <2>1, SettingSame
  <2> QED
    BY <2>2 DEF Same
<1>10. UnitTold(c, v) /\ SchemesFit(c, v)
  BY <1>6, <1>7, <1>9, SameKeeps
<1>11. PICK w : w = [v EXCEPT !.own = @ \cup {c}]
  OBVIOUS
<1>12. w.form = v.form /\ w.chan = v.chan /\ IsPage(w)
  BY <1>9, <1>11 DEF IsPage
<1>13. UnitTold(c, w) /\ SchemesFit(c, w)
  BY <1>10, <1>12 DEF UnitTold, SchemesFit
<1>14. PICK z : z = Finish(c, UpdateModeCombo(c, w))
  OBVIOUS
<1>15. FormFits(c, z) /\ Same(c, w, z, {"mode", "sense", "unit"}, Redrawn \cup {"modes"})
  BY <1>12, <1>13, <1>14, ModesThenFinish
<1>16. Same(c, s, z, Chosen, FormField)
  BY <1>3, <1>6, <1>9, <1>12, <1>15 DEF Same, Chosen
<1>17. v = [WriteControls([s EXCEPT !.form.unitSense = us]) EXCEPT !.chan[c].unitSense = us]
  BY <1>2, <1>5, <1>8 DEF With, WithLine
<1>18. w = [WriteControls([s EXCEPT !.form.unitSense = us])
              EXCEPT !.chan[c].unitSense = us, !.own = @ \cup {c}]
  BY <1>11, <1>17
<1>19. z = OnSchemeChanged(c, s)
  BY <1>1, <1>14, <1>18 DEF OnSchemeChanged, Finish
<1> QED
  BY <1>15, <1>16, <1>19

\* The first scheme of a sensor is one of its schemes.
LEMMA FirstSchemeOffered == ASSUME NEW sensor PROVE FirstScheme(sensor) \in SchemesOf(sensor)
BY DEF FirstScheme, SchemesOf

\* Filling the list of schemes leaves schemes that fit.
LEMMA SchemeStep ==
  ASSUME NEW s, IsPage(s), NEW c \in Channel, UnitTold(c, s)
  PROVE  LET t == UpdateSchemeCombo(c, s) IN
         UnitTold(c, t) /\ SchemesFit(c, t) /\ Same(c, s, t, Chosen, FormField)
<1> DEFINE sensor == s.chan[c].sensor
<1>1. PICK t : t = WithLine(s, "schemes", SchemesOf(sensor))
  OBVIOUS
<1>2. Same(c, s, t, {}, {"schemes"}) /\ t.form.schemes = SchemesOf(sensor)
  BY <1>1, LineSame DEF FormField
<1>3. UnitTold(c, t)
  BY <1>2, SameKeeps
<1>4. t.chan[c].sensor = sensor /\ IsPage(t)
  BY <1>2 DEF Same, Field037
<1>5. t = [s EXCEPT !.form.schemes = SchemesOf(sensor)]
  BY <1>1 DEF WithLine
<1>6. CASE t.chan[c].scheme \in SchemesOf(sensor)
  <2>1. UpdateSchemeCombo(c, s) = t
    BY <1>5, <1>6 DEF UpdateSchemeCombo
  <2>2. SchemesFit(c, t)
    BY <1>2, <1>4, <1>6 DEF SchemesFit
  <2>3. Same(c, s, t, Chosen, FormField)
    BY <1>2 DEF Same, Chosen
  <2> QED
    BY <1>3, <2>1, <2>2, <2>3
<1>7. CASE t.chan[c].scheme \notin SchemesOf(sensor)
  <2>1. PICK p : p = With(t, c, "scheme", FirstScheme(sensor))
    OBVIOUS
  <2>2. Same(c, t, p, {"scheme"}, {}) /\ p.chan[c].scheme = FirstScheme(sensor)
    <3>1. "scheme" \in Field037
      BY DEF Field037
    <3> QED
      BY <1>4, <2>1, <3>1, SettingSame
  <2>3. /\ p.form.schemes = SchemesOf(sensor) /\ p.chan[c].sensor = sensor /\ IsPage(p)
    BY <1>2, <1>4, <2>2 DEF Same, Field037, FormField
  <2>4. SchemesFit(c, p)
    BY <2>2, <2>3, FirstSchemeOffered DEF SchemesFit
  <2>5. UnitTold(c, p)
    BY <1>3, <2>2, SameKeeps
  <2>6. PICK q : q = Notify(c, p)
    OBVIOUS
  <2>7. Same(c, p, q, {}, {})
    BY <2>3, <2>6, NotifyStep
  <2>8. UnitTold(c, q) /\ SchemesFit(c, q)
    BY <2>4, <2>5, <2>7, SameKeeps
  <2>9. PICK z : z = OnSchemeChanged(c, q)
    OBVIOUS
  <2>10. IsPage(q)
    BY <2>7 DEF Same
  <2>11. FormFits(c, z) /\ Same(c, q, z, Chosen, FormField)
    BY <2>8, <2>9, <2>10, SchemeChangedFits
  <2>12. Same(c, s, z, Chosen, FormField)
    BY <1>2, <2>2, <2>7, <2>11 DEF Same, Chosen
  <2>13. p = [t EXCEPT !.chan[c].scheme = FirstScheme(sensor)]
    BY <2>1 DEF With
  <2>14. UpdateSchemeCombo(c, s) = z
    BY <1>5, <1>7, <2>6, <2>9, <2>13 DEF UpdateSchemeCombo
  <2> QED
    BY <2>11, <2>12, <2>14 DEF FormFits
<1> QED
  BY <1>6, <1>7

\* A change of the sensor leaves a form that fits.
LEMMA SensorChangedFits ==
  ASSUME NEW s, IsPage(s), NEW c \in Channel, UnitTold(c, s)
  PROVE  /\ FormFits(c, OnSensorTypeChanged(c, s))
         /\ Same(c, s, OnSensorTypeChanged(c, s), Chosen, FormField)
<1>1. PICK t : t = UpdateSchemeCombo(c, s)
  OBVIOUS
<1>2. UnitTold(c, t) /\ SchemesFit(c, t) /\ Same(c, s, t, Chosen, FormField)
  BY <1>1, SchemeStep
<1>3. PICK u : u = Finish(c, UpdateModeCombo(c, t))
  OBVIOUS
<1>4. IsPage(t)
  BY <1>2 DEF Same
<1>5. FormFits(c, u) /\ Same(c, t, u, {"mode", "sense", "unit"}, Redrawn \cup {"modes"})
  BY <1>2, <1>3, <1>4, ModesThenFinish
<1>6. Same(c, s, u, Chosen, FormField)
  BY <1>2, <1>5 DEF Same, Chosen
<1>7. u = OnSensorTypeChanged(c, s)
  BY <1>1, <1>3 DEF OnSensorTypeChanged, Finish
<1> QED
  BY <1>5, <1>6, <1>7

\* Filling the list of sensors keeps the unit told.
LEMMA SensorTypeStep ==
  ASSUME NEW s, IsPage(s), NEW c \in Channel, UnitTold(c, s)
  PROVE  LET t == UpdateSensorTypeCombo(c, s) IN
         UnitTold(c, t) /\ Same(c, s, t, Chosen, FormField)
<1>1. CASE s.chan[c].sensor \in Sensors
  <2>1. UpdateSensorTypeCombo(c, s) = s
    BY <1>1 DEF UpdateSensorTypeCombo
  <2> QED
    BY <2>1 DEF Same
<1>2. CASE s.chan[c].sensor \notin Sensors
  <2>1. PICK p : p = With(s, c, "sensor", "resistor")
    OBVIOUS
  <2>2. Same(c, s, p, {"sensor"}, {}) /\ IsPage(p)
    <3>1. "sensor" \in Field037
      BY DEF Field037
    <3>2. Same(c, s, p, {"sensor"}, {})
      BY <2>1, <3>1, SettingSame
    <3> QED
      BY <3>2 DEF Same
  <2>3. PICK q : q = Notify(c, p)
    OBVIOUS
  <2>4. Same(c, p, q, {}, {}) /\ IsPage(q)
    <3>1. Same(c, p, q, {}, {})
      BY <2>2, <2>3, NotifyStep
    <3> QED
      BY <3>1 DEF Same
  <2>5. UnitTold(c, p)
    BY <2>2, SameKeeps
  <2>6. UnitTold(c, q)
    BY <2>4, <2>5, SameKeeps
  <2>7. PICK z : z = OnSensorTypeChanged(c, q)
    OBVIOUS
  <2>8. FormFits(c, z) /\ Same(c, q, z, Chosen, FormField)
    BY <2>4, <2>6, <2>7, SensorChangedFits
  <2>9. Same(c, s, z, Chosen, FormField)
    BY <2>2, <2>4, <2>8 DEF Same, Chosen
  <2>10. p = [s EXCEPT !.chan[c].sensor = "resistor"]
    BY <2>1 DEF With
  <2>11. UpdateSensorTypeCombo(c, s) = z
    BY <1>2, <2>3, <2>7, <2>10 DEF UpdateSensorTypeCombo
  <2> QED
    BY <2>8, <2>9, <2>11 DEF FormFits
<1> QED
  BY <1>1, <1>2

\* The page fits from the moment it is opened, whatever the channel holds.
LEMMA SetAdapterFits ==
  ASSUME NEW s, IsPage(s), NEW c \in Channel
  PROVE  FormFits(c, SetAdapter037(c, s)) /\ Same(c, s, SetAdapter037(c, s), Chosen, FormField)
<1> DEFINE r == s.chan[c]
<1>1. PICK a : a = WithLine(s, "unit", r.unit)
  OBVIOUS
<1>2. Same(c, s, a, {}, {"unit"}) /\ a.form.unit = r.unit /\ IsPage(a)
  <2>1. Same(c, s, a, {}, {"unit"}) /\ a.form.unit = r.unit
    BY <1>1, LineSame DEF FormField
  <2> QED
    BY <2>1 DEF Same
<1>3. PICK b : b = WithLine(a, "unitSense", r.unitSense)
  OBVIOUS
<1>4. Same(c, a, b, {}, {"unitSense"}) /\ IsPage(b)
  <2>1. Same(c, a, b, {}, {"unitSense"})
    BY <1>2, <1>3, LineSame DEF FormField
  <2> QED
    BY <2>1 DEF Same
<1>5. PICK d : d = WriteControls(b)
  OBVIOUS
<1>6. /\ Same(c, b, d, {}, {"unitText", "unitSenseText"}) /\ IsPage(d)
      /\ d.form.unitText = b.form.unit
  <2>1. Same(c, b, d, {}, {"unitText", "unitSenseText"}) /\ d.form.unitText = b.form.unit
    BY <1>4, <1>5, WriteSame
  <2> QED
    BY <2>1 DEF Same
<1>7. UnitTold(c, d)
  <2>1. d.form.unit = r.unit /\ d.form.unitText = r.unit /\ d.chan[c].unit = r.unit
    BY <1>2, <1>4, <1>6 DEF Same, Field037, FormField
  <2> QED
    BY <2>1 DEF UnitTold
<1>8. PICK e : e = UpdateThermometer(c, d)
  OBVIOUS
<1>9. Same(c, d, e, {"nsh", "tc"}, {}) /\ IsPage(e)
  <2>1. Same(c, d, e, {"nsh", "tc"}, {})
    BY <1>6, <1>8, ThermometerStep
  <2> QED
    BY <2>1 DEF Same
<1>10. UnitTold(c, e)
  BY <1>7, <1>9, SameKeeps
<1>11. PICK f : f = UpdateSensorTypeCombo(c, e)
  OBVIOUS
<1>12. UnitTold(c, f) /\ Same(c, e, f, Chosen, FormField) /\ IsPage(f)
  <2>1. UnitTold(c, f) /\ Same(c, e, f, Chosen, FormField)
    BY <1>9, <1>10, <1>11, SensorTypeStep
  <2> QED
    BY <2>1 DEF Same
<1>13. PICK g : g = UpdateSchemeCombo(c, f)
  OBVIOUS
<1>14. UnitTold(c, g) /\ SchemesFit(c, g) /\ Same(c, f, g, Chosen, FormField) /\ IsPage(g)
  <2>1. UnitTold(c, g) /\ SchemesFit(c, g) /\ Same(c, f, g, Chosen, FormField)
    BY <1>12, <1>13, SchemeStep
  <2> QED
    BY <2>1 DEF Same
<1>15. PICK h : h = UpdateModeCombo(c, g)
  OBVIOUS
<1>16. /\ Same(c, g, h, {"mode", "sense", "unit"}, Redrawn \cup {"modes"})
       /\ UnitTold(c, h) /\ UnitsFit(c, h) /\ PicturesFit(c, h) /\ ShownFit(c, h) /\ ModesFit(c, h)
  BY <1>14, <1>15, ModeStep
<1>17. SchemesFit(c, h) /\ IsPage(h)
  <2>1. SchemesFit(c, h)
    BY <1>14, <1>16, SameKeeps DEF Redrawn, Texts
  <2> QED
    BY <1>16, <2>1 DEF Same
<1>18. PICK i : i = UpdateUnitCombo(c, h)
  OBVIOUS
<1>19. /\ Same(c, h, i, {"unit"}, Texts \cup {"units"}) /\ UnitTold(c, i) /\ UnitsFit(c, i)
       /\ IsPage(i)
  <2>1. Same(c, h, i, {"unit"}, Texts \cup {"units"}) /\ UnitTold(c, i) /\ UnitsFit(c, i)
    BY <1>16, <1>17, <1>18, UnitStep
  <2> QED
    BY <2>1 DEF Same
<1>20. SchemesFit(c, i) /\ ModesFit(c, i)
  BY <1>16, <1>17, <1>19, SameKeeps DEF Texts
<1>21. PICK j : j = UpdatePictures(c, i)
  OBVIOUS
<1>22. Same(c, i, j, {}, {"pictures"}) /\ PicturesFit(c, j) /\ IsPage(j)
  <2>1. Same(c, i, j, {}, {"pictures"}) /\ PicturesFit(c, j)
    BY <1>19, <1>21, PictureStep
  <2> QED
    BY <2>1 DEF Same
<1>23. UnitTold(c, j) /\ UnitsFit(c, j) /\ SchemesFit(c, j) /\ ModesFit(c, j)
  BY <1>19, <1>20, <1>22, SameKeeps
<1>24. PICK k : k = UpdateSense(c, j)
  OBVIOUS
<1>25. Same(c, j, k, {"sense"}, Texts) /\ UnitTold(c, k) /\ SenseFit(c, k) /\ IsPage(k)
  <2>1. Same(c, j, k, {"sense"}, Texts) /\ UnitTold(c, k) /\ SenseFit(c, k)
    BY <1>22, <1>23, <1>24, SenseStep
  <2> QED
    BY <2>1 DEF Same
<1>26. UnitsFit(c, k) /\ SchemesFit(c, k) /\ ModesFit(c, k) /\ PicturesFit(c, k)
  BY <1>22, <1>23, <1>25, SameKeeps DEF Texts
<1>27. PICK z : z = UpdateVisibility(c, k)
  OBVIOUS
<1>28. Same(c, k, z, {}, {"shown", "unitSenseText"}) /\ ShownFit(c, z)
  BY <1>25, <1>26, <1>27, ShownStep
<1>29. FormFits(c, z)
  <2>1. /\ UnitsFit(c, z) /\ SchemesFit(c, z) /\ ModesFit(c, z) /\ PicturesFit(c, z)
        /\ SenseFit(c, z) /\ UnitTold(c, z)
    BY <1>25, <1>26, <1>28, SameKeeps
  <2> QED
    BY <1>28, <2>1 DEF FormFits
<1>30. Same(c, s, z, Chosen, FormField)
  <2>1. Same(c, s, d, Chosen, FormField)
    BY <1>2, <1>4, <1>6 DEF Same, Chosen
  <2>2. Same(c, s, g, Chosen, FormField)
    BY <1>9, <1>12, <1>14, <2>1 DEF Same, Chosen
  <2>3. Same(c, s, i, Chosen, FormField)
    BY <1>16, <1>19, <2>2 DEF Same, Chosen
  <2>4. Same(c, s, k, Chosen, FormField)
    BY <1>22, <1>25, <2>3 DEF Same, Chosen
  <2> QED
    BY <1>28, <2>4 DEF Same, Chosen
<1>31. z = SetAdapter037(c, s)
  <2>1. b = [s EXCEPT !.form.unit = r.unit, !.form.unitSense = r.unitSense]
    BY <1>1, <1>3 DEF WithLine
  <2> QED
    BY <1>5, <1>8, <1>11, <1>13, <1>15, <1>18, <1>21, <1>24, <1>27, <2>1 DEF SetAdapter037
<1> QED
  BY <1>29, <1>30, <1>31

\* What is kept between two handlers: the diameters of every channel are in
\* order, and the form that is open fits.
FormInv ==
  /\ \A x \in Channel : DiametersFit(chan[x])
  /\ shownOn # NoChannel => FormFits(shownOn, State037) /\ DiametersFit(memento)

\* A choice of sensor, scheme or mode leaves diameters that fit.
LEMMA DiametersKept ==
  ASSUME NEW c \in Channel, NEW s, NEW t, Same(c, s, t, Chosen, FormField),
         \A x \in Channel : DiametersFit(s.chan[x])
  PROVE  \A x \in Channel : DiametersFit(t.chan[x])
<1>1. \A x \in Channel : t.chan[x].inner = s.chan[x].inner /\ t.chan[x].outer = s.chan[x].outer
  BY DEF Same, Chosen, Field037
<1> QED
  BY <1>1 DEF DiametersFit

\* A handler that ends with a form that fits keeps the invariant.
LEMMA HandlesFits ==
  ASSUME FormInv, NEW t, Handles(t), FormFits(shownOn, t),
         \A x \in Channel : DiametersFit(t.chan[x])
  PROVE  FormInv'
<1>1. /\ chan' = t.chan /\ form' = t.form /\ shownOn' = shownOn /\ memento' = memento
      /\ service' = service /\ shownOn # NoChannel
  BY DEF Handles, Becomes
<1>2. DiametersFit(memento)' /\ \A x \in Channel : DiametersFit(chan[x])'
  BY <1>1 DEF FormInv, DiametersFit
<1>3. FormFits(shownOn, State037)'
  BY <1>1
  DEF FormFits, UnitTold, SchemesFit, ModesFit, UnitsFit, SenseFit, PicturesFit, ShownFit,
      State037, SchemesOf
<1> QED
  BY <1>1, <1>2, <1>3 DEF FormInv

\* A handler that changes no diameter.
LEMMA ChoiceFits ==
  ASSUME Zet037Inv, FormInv, NEW t, Handles(t), FormFits(shownOn, t),
         Same(shownOn, State037, t, Chosen, FormField)
  PROVE  FormInv'
<1>1. shownOn \in Channel
  BY DEF Handles, Zet037Inv
<1>2. \A x \in Channel : DiametersFit(State037.chan[x])
  BY DEF FormInv, State037
<1>3. \A x \in Channel : DiametersFit(t.chan[x])
  BY <1>1, <1>2, DiametersKept
<1> QED
  BY <1>3, HandlesFits

\* Which sensor the fields on the page tell.
LEMMA FieldsTell ==
  ASSUME NEW sensor, NEW m, NEW u
  PROVE  /\ "unitEx" \in ShownFor(sensor, m, u) => sensor = "resistor"
         /\ "unit" \in ShownFor(sensor, m, u) => sensor \notin {"resistor", "tr", "tc"}
         /\ "sense" \in ShownFor(sensor, m, u)
              => sensor \notin {"resistor", "sensor", "lvdt", "tr", "tc"}
BY DEF ShownFor, GaugeFields

\* A sensor, a scheme, a load.
LEMMA ListsFit ==
  ASSUME Zet037Inv, FormInv,
         \/ \E x \in Sensors : SelectSensor(x)
         \/ \E x \in form.schemes : SelectScheme(x)
         \/ \E x \in form.modes : SelectMode(x)
  PROVE  FormInv'
<1> DEFINE c == shownOn
           S == State037
<1>1. shownOn # NoChannel
  BY DEF SelectSensor, SelectScheme, SelectMode, Handles
<1>2. c \in Channel /\ IsPage(S) /\ FormFits(c, S) /\ S.form = form
  BY <1>1 DEF Zet037Inv, PageRight, FormInv, State037
<1> HIDE DEF c, S
<1>3. ASSUME NEW f \in {"sensor", "scheme", "mode"}, NEW x
      PROVE  /\ Same(c, S, Notify(c, With(S, c, f, x)), {f}, {})
             /\ Notify(c, With(S, c, f, x)).chan[c][f] = x
             /\ UnitTold(c, Notify(c, With(S, c, f, x)))
  <2>1. PICK p : p = With(S, c, f, x)
    OBVIOUS
  <2>2. f \in Field037
    BY DEF Field037
  <2>3. Same(c, S, p, {f}, {}) /\ p.chan[c][f] = x
    BY <1>2, <2>1, <2>2, SettingSame
  <2>4. PICK q : q = Notify(c, p)
    OBVIOUS
  <2>5. IsPage(p)
    BY <2>3 DEF Same
  <2>6. Same(c, p, q, {}, {})
    BY <1>2, <2>4, <2>5, NotifyStep
  <2>7. q.chan[c][f] = x
    BY <2>2, <2>3, <2>6 DEF Same
  <2>8. Same(c, S, q, {f} \cup {}, {} \cup {})
    BY <2>3, <2>6, SameChain
  <2>9. Same(c, S, q, {f}, {})
    BY <2>8 DEF Same
  <2>10. UnitTold(c, q)
    BY <1>2, <2>9, SameKeeps DEF FormFits
  <2> QED
    BY <2>1, <2>4, <2>7, <2>9, <2>10
<1>4. ASSUME NEW x, SelectSensor(x) PROVE FormInv'
  <2>1. PICK q : q = Notify(c, With(S, c, "sensor", x))
    OBVIOUS
  <2>2. Same(c, S, q, {"sensor"}, {}) /\ UnitTold(c, q)
    BY <1>3, <2>1
  <2>3. PICK t : t = OnSensorTypeChanged(c, q)
    OBVIOUS
  <2>4. FormFits(c, t) /\ Same(c, q, t, Chosen, FormField)
    <3>1. IsPage(q)
      BY <2>2 DEF Same
    <3> QED
      BY <1>2, <2>2, <2>3, <3>1, SensorChangedFits
  <2>5. Same(c, S, t, Chosen, FormField)
    BY <2>2, <2>4 DEF Same, Chosen
  <2>6. Handles(t)
    BY <1>4, <2>1, <2>3 DEF SelectSensor, With, c, S
  <2> QED
    BY <2>4, <2>5, <2>6, ChoiceFits DEF c, S
<1>5. ASSUME NEW x \in form.schemes, SelectScheme(x) PROVE FormInv'
  <2>1. PICK q : q = Notify(c, With(S, c, "scheme", x))
    OBVIOUS
  <2>2. Same(c, S, q, {"scheme"}, {}) /\ UnitTold(c, q) /\ q.chan[c].scheme = x
    BY <1>3, <2>1
  <2>3. q.chan[c].sensor = S.chan[c].sensor /\ q.form.schemes = form.schemes /\ IsPage(q)
    BY <1>2, <2>2 DEF Same, Field037, FormField
  <2>4. SchemesFit(c, q)
    BY <1>2, <1>5, <2>2, <2>3 DEF FormFits, SchemesFit
  <2>5. PICK t : t = OnSchemeChanged(c, q)
    OBVIOUS
  <2>6. FormFits(c, t) /\ Same(c, q, t, Chosen, FormField)
    BY <1>2, <2>2, <2>3, <2>4, <2>5, SchemeChangedFits
  <2>7. Same(c, S, t, Chosen, FormField)
    BY <2>2, <2>6 DEF Same, Chosen
  <2>8. Handles(t)
    BY <1>5, <2>1, <2>5 DEF SelectScheme, With, c, S
  <2> QED
    BY <2>6, <2>7, <2>8, ChoiceFits DEF c, S
<1>6. ASSUME NEW x \in form.modes, SelectMode(x) PROVE FormInv'
  <2>1. PICK q : q = Notify(c, With(S, c, "mode", x))
    OBVIOUS
  <2>2. Same(c, S, q, {"mode"}, {}) /\ UnitTold(c, q) /\ q.chan[c].mode = x
    BY <1>3, <2>1
  <2>3. q.chan[c].scheme = S.chan[c].scheme /\ q.form.modes = form.modes /\ IsPage(q)
    BY <1>2, <2>2 DEF Same, Field037, FormField
  <2>4. ModesFit(c, q)
    BY <1>2, <1>6, <2>2, <2>3 DEF FormFits, ModesFit
  <2>5. SchemesFit(c, q)
    BY <1>2, <2>2, SameKeeps DEF FormFits
  <2>6. PICK u : u = UpdateUnitCombo(c, q)
    OBVIOUS
  <2>7. /\ Same(c, q, u, {"unit"}, Texts \cup {"units"}) /\ UnitTold(c, u) /\ UnitsFit(c, u)
        /\ IsPage(u)
    <3>1. Same(c, q, u, {"unit"}, Texts \cup {"units"}) /\ UnitTold(c, u) /\ UnitsFit(c, u)
      BY <1>2, <2>2, <2>3, <2>6, UnitStep
    <3> QED
      BY <3>1 DEF Same
  <2>8. ModesFit(c, u) /\ SchemesFit(c, u)
    BY <1>2, <2>4, <2>5, <2>7, SameKeeps DEF Texts
  <2>9. PICK v : v = UpdateSense(c, u)
    OBVIOUS
  <2>10. Same(c, u, v, {"sense"}, Texts) /\ UnitTold(c, v) /\ SenseFit(c, v) /\ IsPage(v)
    <3>1. Same(c, u, v, {"sense"}, Texts) /\ UnitTold(c, v) /\ SenseFit(c, v)
      BY <1>2, <2>7, <2>9, SenseStep
    <3> QED
      BY <3>1 DEF Same
  <2>11. ModesFit(c, v) /\ SchemesFit(c, v) /\ UnitsFit(c, v)
    BY <1>2, <2>7, <2>8, <2>10, SameKeeps DEF Texts
  <2>12. PICK w : w = UpdatePictures(c, v)
    OBVIOUS
  <2>13. Same(c, v, w, {}, {"pictures"}) /\ PicturesFit(c, w) /\ IsPage(w)
    <3>1. Same(c, v, w, {}, {"pictures"}) /\ PicturesFit(c, w)
      BY <1>2, <2>10, <2>12, PictureStep
    <3> QED
      BY <3>1 DEF Same
  <2>14. /\ ModesFit(c, w) /\ SchemesFit(c, w) /\ UnitsFit(c, w) /\ UnitTold(c, w)
         /\ SenseFit(c, w)
    BY <1>2, <2>10, <2>11, <2>13, SameKeeps
  <2>15. PICK t : t = UpdateVisibility(c, w)
    OBVIOUS
  <2>16. Same(c, w, t, {}, {"shown", "unitSenseText"}) /\ ShownFit(c, t)
    BY <1>2, <2>13, <2>14, <2>15, ShownStep
  <2>17. FormFits(c, t)
    <3>1. /\ ModesFit(c, t) /\ SchemesFit(c, t) /\ UnitsFit(c, t) /\ UnitTold(c, t)
          /\ SenseFit(c, t) /\ PicturesFit(c, t)
      BY <1>2, <2>13, <2>14, <2>16, SameKeeps
    <3> QED
      BY <2>16, <3>1 DEF FormFits
  <2>18. Same(c, S, t, Chosen, FormField)
    <3>1. Same(c, S, u, Chosen, FormField)
      BY <2>2, <2>7 DEF Same, Chosen
    <3>2. Same(c, S, w, Chosen, FormField)
      BY <2>10, <2>13, <3>1 DEF Same, Chosen
    <3> QED
      BY <2>16, <3>2 DEF Same, Chosen
  <2>19. Handles(t)
    BY <1>6, <2>1, <2>6, <2>9, <2>12, <2>15 DEF SelectMode, With, c, S
  <2> QED
    BY <2>17, <2>18, <2>19, ChoiceFits DEF c, S
<1> QED
  BY <1>4, <1>5, <1>6

\* A unit, in the member and in the channel.
WithUnit(s, c, u) == [s EXCEPT !.form.unit = u, !.chan[c].unit = u]

\* Setting the unit touches the unit of channel and form alone.
LEMMA UnitSet ==
  ASSUME NEW s, IsPage(s), NEW c \in Channel, NEW u
  PROVE  LET q == WithUnit(s, c, u) IN
         Same(c, s, q, {"unit"}, {"unit"}) /\ q.form.unit = u /\ q.chan[c].unit = u
<1>1. PICK p : p = WithLine(s, "unit", u)
  OBVIOUS
<1>2. Same(c, s, p, {}, {"unit"}) /\ p.form.unit = u
  BY <1>1, LineSame DEF FormField
<1>3. IsPage(p) /\ "unit" \in Field037
  BY <1>2 DEF Same, Field037
<1>4. PICK w : w = With(p, c, "unit", u)
  OBVIOUS
<1>5. Same(c, p, w, {"unit"}, {}) /\ w.chan[c].unit = u
  BY <1>3, <1>4, SettingSame
<1>6. w = WithUnit(s, c, u)
  BY <1>1, <1>4 DEF With, WithLine, WithUnit
<1>7. Same(c, s, w, {} \cup {"unit"}, {"unit"} \cup {})
  BY <1>2, <1>5, SameChain
<1>8. w.form.unit = u
  BY <1>2, <1>5 DEF Same, FormField
<1> QED
  BY <1>5, <1>6, <1>7, <1>8 DEF Same

\* The unit is selected or typed.
LEMMA UnitFits ==
  ASSUME Zet037Inv, FormInv, \E u : SelectUnitEx(u) \/ SelectUnit(u) \/ EditUnit(u)
  PROVE  FormInv'
<1> DEFINE c == shownOn
           S == State037
<1>1. shownOn # NoChannel
  BY DEF SelectUnitEx, SelectUnit, EditUnit, Handles
<1>2. c \in Channel /\ IsPage(S) /\ FormFits(c, S) /\ S.form = form
  BY <1>1 DEF Zet037Inv, PageRight, FormInv, State037
<1>3. /\ "unitEx" \in form.shown => S.chan[c].sensor = "resistor"
      /\ "unit" \in form.shown => S.chan[c].sensor \notin {"resistor", "tr", "tc"}
  BY <1>2, FieldsTell DEF FormFits, ShownFit
<1> HIDE DEF c, S
<1>4. ASSUME NEW u, SelectUnitEx(u) PROVE FormInv'
  <2>1. PICK q : q = WithUnit(S, c, u)
    OBVIOUS
  <2>2. Same(c, S, q, {"unit"}, {"unit"}) /\ q.form.unit = u /\ q.chan[c].unit = u /\ IsPage(q)
    <3>1. Same(c, S, q, {"unit"}, {"unit"}) /\ q.form.unit = u /\ q.chan[c].unit = u
      BY <1>2, <2>1, UnitSet
    <3> QED
      BY <3>1 DEF Same
  <2>3. PICK p : p = WriteControls(q)
    OBVIOUS
  <2>4. Same(c, q, p, {}, {"unitText", "unitSenseText"}) /\ p.form.unitText = u /\ IsPage(p)
    <3>1. Same(c, q, p, {}, {"unitText", "unitSenseText"}) /\ p.form.unitText = u
      BY <1>2, <2>2, <2>3, WriteSame
    <3> QED
      BY <3>1 DEF Same
  <2>5. p.form.unit = u /\ p.chan[c].unit = u
    BY <2>2, <2>4 DEF Same, Field037, FormField
  <2>6. Same(c, S, p, {"unit"}, Texts)
    BY <2>2, <2>4 DEF Same, Texts
  <2>7. UnitTold(c, p)
    BY <2>4, <2>5 DEF UnitTold
  <2>8. UnitsFit(c, p)
    <3>1. p.form.units = S.form.units /\ p.chan[c].mode = S.chan[c].mode
      BY <2>6 DEF Same, Field037, FormField, Texts
    <3>2. S.form.units = UnitsFor(S.chan[c].mode) /\ u \in S.form.units
      BY <1>2, <1>3, <1>4 DEF SelectUnitEx, FormFits, UnitsFit
    <3> QED
      BY <2>5, <3>1, <3>2 DEF UnitsFit
  <2>9. SchemesFit(c, p) /\ ModesFit(c, p) /\ PicturesFit(c, p)
    BY <1>2, <2>6, SameKeeps DEF Texts, FormFits
  <2>10. PICK v : v = UpdateSense(c, p)
    OBVIOUS
  <2>11. Same(c, p, v, {"sense"}, Texts) /\ UnitTold(c, v) /\ SenseFit(c, v) /\ IsPage(v)
    <3>1. Same(c, p, v, {"sense"}, Texts) /\ UnitTold(c, v) /\ SenseFit(c, v)
      BY <1>2, <2>4, <2>7, <2>8, <2>10, SenseStep
    <3> QED
      BY <3>1 DEF Same
  <2>12. SchemesFit(c, v) /\ ModesFit(c, v) /\ PicturesFit(c, v) /\ UnitsFit(c, v)
    BY <1>2, <2>8, <2>9, <2>11, SameKeeps DEF Texts
  <2>13. PICK t : t = UpdateVisibility(c, v)
    OBVIOUS
  <2>14. Same(c, v, t, {}, {"shown", "unitSenseText"}) /\ ShownFit(c, t)
    BY <1>2, <2>11, <2>12, <2>13, ShownStep
  <2>15. FormFits(c, t)
    <3>1. /\ SchemesFit(c, t) /\ ModesFit(c, t) /\ PicturesFit(c, t) /\ UnitsFit(c, t)
          /\ SenseFit(c, t) /\ UnitTold(c, t)
      BY <1>2, <2>11, <2>12, <2>14, SameKeeps
    <3> QED
      BY <2>14, <3>1 DEF FormFits
  <2>16. Same(c, S, t, Chosen, FormField)
    BY <2>6, <2>11, <2>14 DEF Same, Chosen
  <2>17. Handles(t)
    BY <1>4, <2>1, <2>3, <2>10, <2>13 DEF SelectUnitEx, WithUnit, c, S
  <2> QED
    BY <2>15, <2>16, <2>17, ChoiceFits DEF c, S
\* Where the plain list of units is shown, nothing on the form but the unit
\* itself depends on it.
<1>5. ASSUME S.chan[c].sensor \notin {"resistor", "tr", "tc"},
             NEW p, Same(c, S, p, {"unit", "sense"}, Texts), UnitTold(c, p),
             "of" \in DOMAIN S.chan[c].sense =>
               "of" \in DOMAIN p.chan[c].sense /\ p.chan[c].sense.of = S.chan[c].sense.of
      PROVE  FormFits(c, p)
  <2>1. SchemesFit(c, p) /\ ModesFit(c, p) /\ PicturesFit(c, p)
    BY <1>2, <1>5, SameKeeps DEF Texts, FormFits
  <2>2. /\ p.chan[c].sensor = S.chan[c].sensor /\ p.chan[c].mode = S.chan[c].mode
        /\ p.chan[c].output = S.chan[c].output /\ p.chan[c].range = S.chan[c].range
        /\ p.form.shown = S.form.shown
    BY <1>5 DEF Same, Field037, FormField, Texts
  <2>3. UnitsFit(c, p)
    BY <1>5, <2>2 DEF UnitsFit
  <2>4. SenseFit(c, p)
    BY <1>2, <1>5, <2>2 DEF FormFits, SenseFit
  <2>5. \A m, u1, u2 : ShownFor(S.chan[c].sensor, m, u1) = ShownFor(S.chan[c].sensor, m, u2)
    BY <1>5 DEF ShownFor
  <2>6. ShownFit(c, p)
    BY <1>2, <2>2, <2>5 DEF FormFits, ShownFit
  <2> QED
    BY <1>5, <2>1, <2>3, <2>4, <2>6 DEF FormFits
<1>6. ASSUME NEW u, SelectUnit(u) PROVE FormInv'
  <2>1. PICK t : t = ReadControls(S)
    OBVIOUS
  <2>2. Same(c, S, t, {}, {"unit", "unitSense"}) /\ IsPage(t)
    <3>1. Same(c, S, t, {}, {"unit", "unitSense"})
      BY <1>2, <2>1, ReadSame
    <3> QED
      BY <3>1 DEF Same
  <2>3. PICK v : Handles(WriteControls([t EXCEPT !.form.unit = u, !.chan[c].unit = u,
                                                !.chan[c].sense.power = v]))
    BY <1>6, <2>1 DEF SelectUnit, c, S
  <2>4. PICK w : w = WithUnit(t, c, u)
    OBVIOUS
  <2>5. Same(c, t, w, {"unit"}, {"unit"}) /\ w.form.unit = u /\ w.chan[c].unit = u /\ IsPage(w)
    <3>1. Same(c, t, w, {"unit"}, {"unit"}) /\ w.form.unit = u /\ w.chan[c].unit = u
      BY <1>2, <2>2, <2>4, UnitSet
    <3> QED
      BY <3>1 DEF Same
  <2>6. PICK d : d = [w.chan[c].sense EXCEPT !.power = v]
    OBVIOUS
  <2>7. PICK x : x = With(w, c, "sense", d)
    OBVIOUS
  <2>8. Same(c, w, x, {"sense"}, {}) /\ x.chan[c].sense = d /\ IsPage(x)
    <3>1. "sense" \in Field037
      BY DEF Field037
    <3>2. Same(c, w, x, {"sense"}, {}) /\ x.chan[c].sense = d
      BY <1>2, <2>5, <2>7, <3>1, SettingSame
    <3> QED
      BY <3>2 DEF Same
  <2>9. x = [t EXCEPT !.form.unit = u, !.chan[c].unit = u, !.chan[c].sense.power = v]
    BY <2>4, <2>6, <2>7 DEF With, WithUnit
  <2>10. PICK p : p = WriteControls(x)
    OBVIOUS
  <2>11. Same(c, x, p, {}, {"unitText", "unitSenseText"}) /\ p.form.unitText = x.form.unit
    BY <1>2, <2>8, <2>10, WriteSame
  <2>12. x.form.unit = u /\ p.form.unit = u /\ p.chan[c].unit = u /\ p.chan[c].sense = d
    BY <2>5, <2>8, <2>11 DEF Same, Field037, FormField
  <2>13. UnitTold(c, p)
    BY <2>11, <2>12 DEF UnitTold
  <2>14. Same(c, S, p, {"unit", "sense"}, Texts)
    BY <2>2, <2>5, <2>8, <2>11 DEF Same, Texts
  <2>15. w.chan[c].sense = S.chan[c].sense
    BY <2>2, <2>5 DEF Same, Field037
  <2>16. "of" \in DOMAIN S.chan[c].sense =>
           "of" \in DOMAIN p.chan[c].sense /\ p.chan[c].sense.of = S.chan[c].sense.of
    BY <2>6, <2>12, <2>15
  <2>17. FormFits(c, p)
    BY <1>3, <1>5, <1>6, <2>13, <2>14, <2>16 DEF SelectUnit
  <2>18. Same(c, S, p, Chosen, FormField)
    BY <2>14 DEF Same, Chosen
  <2>19. Handles(p)
    BY <2>3, <2>9, <2>10
  <2> QED
    BY <2>17, <2>18, <2>19, ChoiceFits DEF c, S
<1>7. ASSUME NEW u, EditUnit(u) PROVE FormInv'
  <2>1. PICK w : w = WithLine(S, "unitText", u)
    OBVIOUS
  <2>2. Same(c, S, w, {}, {"unitText"}) /\ w.form.unitText = u /\ IsPage(w)
    <3>1. Same(c, S, w, {}, {"unitText"}) /\ w.form.unitText = u
      BY <1>2, <2>1, LineSame DEF FormField
    <3> QED
      BY <3>1 DEF Same
  <2>3. PICK x : x = With(w, c, "unit", u)
    OBVIOUS
  <2>4. Same(c, w, x, {"unit"}, {}) /\ x.chan[c].unit = u /\ IsPage(x)
    <3>1. "unit" \in Field037
      BY DEF Field037
    <3>2. Same(c, w, x, {"unit"}, {}) /\ x.chan[c].unit = u
      BY <1>2, <2>2, <2>3, <3>1, SettingSame
    <3> QED
      BY <3>2 DEF Same
  <2>5. PICK y : y = ReadControls(x)
    OBVIOUS
  <2>6. Same(c, x, y, {}, {"unit", "unitSense"}) /\ y.form.unit = x.form.unitText /\ IsPage(y)
    <3>1. Same(c, x, y, {}, {"unit", "unitSense"}) /\ y.form.unit = x.form.unitText
      BY <1>2, <2>4, <2>5, ReadSame
    <3> QED
      BY <3>1 DEF Same
  <2>7. PICK p : p = WriteControls(y)
    OBVIOUS
  <2>8. Same(c, y, p, {}, {"unitText", "unitSenseText"}) /\ p.form.unitText = y.form.unit
    BY <1>2, <2>6, <2>7, WriteSame
  <2>9. p.chan[c].unit = u /\ p.form.unit = u /\ p.form.unitText = u
    BY <2>2, <2>4, <2>6, <2>8 DEF Same, Field037, FormField
  <2>10. UnitTold(c, p)
    BY <2>9 DEF UnitTold
  <2>11. Same(c, S, p, {"unit", "sense"}, Texts)
    BY <2>2, <2>4, <2>6, <2>8 DEF Same, Texts
  <2>12. p.chan[c].sense = S.chan[c].sense
    BY <2>2, <2>4, <2>6, <2>8 DEF Same, Field037
  <2>13. FormFits(c, p)
    BY <1>3, <1>5, <1>7, <2>10, <2>11, <2>12 DEF EditUnit
  <2>14. Same(c, S, p, Chosen, FormField)
    BY <2>11 DEF Same, Chosen
  <2>15. Handles(p)
    <3>1. x = [S EXCEPT !.form.unitText = u, !.chan[c].unit = u]
      BY <2>1, <2>3 DEF With, WithLine
    <3> QED
      BY <1>7, <2>5, <2>7, <3>1 DEF EditUnit, c, S
  <2> QED
    BY <2>13, <2>14, <2>15, ChoiceFits DEF c, S
<1> QED
  BY <1>4, <1>6, <1>7

\* What is typed keeps the diameters in the order DiametersFit tells.
LEMMA AcceptedFit ==
  ASSUME NEW r, DiametersFit(r), NEW v, NEW d,
         \/ d.inner = r.inner /\ d.outer = r.outer
         \/ v \in Int /\ d.inner = r.inner /\ d.outer = Accepted("outer", v, r)
         \/ v \in Int /\ d.outer = r.outer /\ d.inner = Accepted("inner", v, r)
  PROVE  DiametersFit(d)
BY DEF DiametersFit, Accepted

\* Numbers, excitation, sensitivity, thermometer, and the rest of the page.
LEMMA NumbersFit ==
  ASSUME Zet037Inv, FormInv,
         \/ \E v : EditExc(v) \/ EditSense(v)
         \/ \E n \in DOMAIN Typed \ {"exc", "sense", "nsh", "tc"} : \E v \in Typed[n] :
               EditNumber(n, v)
         \/ \E n \in {"nsh", "tc"} : \E v : SelectThermometer(n, v)
         \/ EditRest
  PROVE  FormInv'
<1> DEFINE c == shownOn
           S == State037
<1>1. shownOn # NoChannel
  BY DEF EditExc, EditSense, EditNumber, SelectThermometer, EditRest, Handles
<1>2. c \in Channel /\ IsPage(S) /\ FormFits(c, S) /\ S.form = form /\ S.chan = chan
  BY <1>1 DEF Zet037Inv, PageRight, FormInv, State037
<1>3. "sense" \in form.shown
        => S.chan[c].sensor \notin {"resistor", "sensor", "lvdt", "tr", "tc"}
  BY <1>2, FieldsTell DEF FormFits, ShownFit
<1>4. \A x \in Channel : DiametersFit(S.chan[x])
  BY <1>2 DEF FormInv
<1> HIDE DEF c, S
<1>5. PICK t : t = ReadControls(S)
  OBVIOUS
<1>6. Same(c, S, t, {}, {"unit", "unitSense"}) /\ UnitTold(c, t) /\ IsPage(t)
  <2>1. Same(c, S, t, {}, {"unit", "unitSense"}) /\ UnitTold(c, t)
    BY <1>2, <1>5, ReadSame DEF FormFits
  <2> QED
    BY <2>1 DEF Same
\* The controls are read, one setting may change, the controls are written.
<1>7. ASSUME NEW x, NEW F, Same(c, t, x, F, {}), F \cap {"scheme", "sensor", "mode", "unit"} = {}
      PROVE  LET p == WriteControls(x) IN
             /\ Same(c, S, p, F, Texts) /\ UnitTold(c, p) /\ UnitsFit(c, p) /\ SchemesFit(c, p)
             /\ ModesFit(c, p) /\ PicturesFit(c, p) /\ ShownFit(c, p)
  <2>1. IsPage(x) /\ UnitTold(c, x)
    <3>1. UnitTold(c, x)
      BY <1>2, <1>6, <1>7, SameKeeps
    <3> QED
      BY <1>7, <3>1 DEF Same
  <2>2. PICK p : p = WriteControls(x)
    OBVIOUS
  <2>3. Same(c, x, p, {}, {"unitText", "unitSenseText"}) /\ UnitTold(c, p)
    BY <1>2, <2>1, <2>2, WriteSame
  <2>4. Same(c, S, p, F, Texts)
    BY <1>6, <1>7, <2>3 DEF Same, Texts
  <2>5. /\ UnitsFit(c, p) /\ SchemesFit(c, p) /\ ModesFit(c, p) /\ PicturesFit(c, p)
        /\ ShownFit(c, p)
    BY <1>2, <1>7, <2>4, SameKeeps DEF Texts, FormFits
  <2> QED
    BY <2>2, <2>3, <2>4, <2>5
\* Where the setting does not matter to the sensitivity, the form fits at once.
<1>8. ASSUME NEW x, NEW F, Same(c, t, x, F, {}), F \subseteq {"exc", "resistance", "nsh", "tc"}
      PROVE  FormFits(c, WriteControls(x)) /\ Same(c, S, WriteControls(x), Chosen, FormField)
  <2>1. PICK p : p = WriteControls(x)
    OBVIOUS
  <2>2. /\ Same(c, S, p, F, Texts) /\ UnitTold(c, p) /\ UnitsFit(c, p) /\ SchemesFit(c, p)
        /\ ModesFit(c, p) /\ PicturesFit(c, p) /\ ShownFit(c, p)
    <3>1. F \cap {"scheme", "sensor", "mode", "unit"} = {}
      BY <1>8
    <3> QED
      BY <1>7, <1>8, <2>1, <3>1
  <2>3. SenseFit(c, p)
    <3>1. F \cap {"sensor", "sense", "output", "range", "mode", "k", "poisson", "modulus",
                  "outer", "inner", "unit"} = {}
      BY <1>8
    <3> QED
      BY <1>2, <2>2, <3>1, SameKeeps DEF FormFits
  <2>4. Same(c, S, p, Chosen, FormField)
    BY <1>8, <2>2 DEF Same, Chosen
  <2> QED
    BY <2>1, <2>2, <2>3, <2>4 DEF FormFits
<1>9. Same(c, t, t, {}, {})
  BY <1>6 DEF Same
<1>10. FormFits(c, WriteControls(t)) /\ Same(c, S, WriteControls(t), Chosen, FormField)
  BY <1>8, <1>9
<1>11. ASSUME NEW v, EditExc(v) PROVE FormInv'
  <2>1. PICK x : /\ x = t \/ \E w : x = Notify(c, [t EXCEPT !.chan[c].exc = w])
                 /\ Handles(WriteControls(x))
    BY <1>5, <1>11 DEF EditExc, c, S
  <2>2. Same(c, t, x, {"exc"}, {})
    <3>1. CASE x = t
      BY <1>9, <3>1 DEF Same
    <3>2. ASSUME NEW w, x = Notify(c, [t EXCEPT !.chan[c].exc = w])
          PROVE  Same(c, t, x, {"exc"}, {})
      <4>1. PICK p : p = With(t, c, "exc", w)
        OBVIOUS
      <4>2. Same(c, t, p, {"exc"}, {}) /\ IsPage(p)
        <5>1. "exc" \in Field037
          BY DEF Field037
        <5>2. Same(c, t, p, {"exc"}, {})
          BY <1>2, <1>6, <4>1, <5>1, SettingSame
        <5> QED
          BY <5>2 DEF Same
      <4>3. p = [t EXCEPT !.chan[c].exc = w]
        BY <4>1 DEF With
      <4>4. Same(c, p, x, {}, {})
        BY <1>2, <3>2, <4>2, <4>3, NotifyStep
      <4>5. Same(c, t, x, {"exc"} \cup {}, {} \cup {})
        BY <4>2, <4>4, SameChain
      <4> QED
        BY <4>5 DEF Same
    <3> QED
      BY <2>1, <3>1, <3>2
  <2>3. PICK p : p = WriteControls(x)
    OBVIOUS
  <2>4. FormFits(c, p) /\ Same(c, S, p, Chosen, FormField)
    BY <1>8, <2>2, <2>3
  <2> QED
    BY <2>1, <2>3, <2>4, ChoiceFits DEF c, S
<1>12. ASSUME NEW v, EditSense(v) PROVE FormInv'
  <2>1. PICK x : /\ x = t \/ \E w : x = [t EXCEPT !.chan[c].sense = w]
                 /\ Handles(WriteControls(x))
    BY <1>5, <1>12 DEF EditSense, c, S
  <2>2. Same(c, t, x, {"sense"}, {})
    <3>1. CASE x = t
      BY <1>9, <3>1 DEF Same
    <3>2. ASSUME NEW w, x = [t EXCEPT !.chan[c].sense = w] PROVE Same(c, t, x, {"sense"}, {})
      <4>1. PICK p : p = With(t, c, "sense", w)
        OBVIOUS
      <4>2. Same(c, t, p, {"sense"}, {})
        <5>1. "sense" \in Field037
          BY DEF Field037
        <5> QED
          BY <1>2, <1>6, <4>1, <5>1, SettingSame
      <4>3. p = x
        BY <3>2, <4>1 DEF With
      <4> QED
        BY <4>2, <4>3
    <3> QED
      BY <2>1, <3>1, <3>2
  <2>3. PICK p : p = WriteControls(x)
    OBVIOUS
  <2>4. /\ Same(c, S, p, {"sense"}, Texts) /\ UnitTold(c, p) /\ UnitsFit(c, p)
        /\ SchemesFit(c, p) /\ ModesFit(c, p) /\ PicturesFit(c, p) /\ ShownFit(c, p)
    BY <1>7, <2>2, <2>3
  <2>5. SenseFit(c, p)
    <3>1. S.chan[c].sensor \notin {"resistor", "sensor", "lvdt"}
      BY <1>3, <1>12 DEF EditSense
    <3>2. p.chan[c].sensor = S.chan[c].sensor
      BY <2>4 DEF Same, Field037
    <3> QED
      BY <3>1, <3>2 DEF SenseFit
  <2>6. Same(c, S, p, Chosen, FormField)
    BY <2>4 DEF Same, Chosen
  <2> QED
    BY <2>1, <2>3, <2>4, <2>5, <2>6, ChoiceFits DEF c, S, FormFits
<1>13. ASSUME NEW n \in DOMAIN Typed \ {"exc", "sense", "nsh", "tc"}, NEW v \in Typed[n],
              EditNumber(n, v)
       PROVE  FormInv'
  <2>1. n \in {"k", "poisson", "modulus", "outer", "inner", "range", "output", "resistance"}
    BY Zet037Assumption
  <2>2. n \in Field037
    BY <2>1 DEF Field037
  <2>3. PICK x : /\ IF v = Bad THEN x = t ELSE x = With(t, c, n, Accepted(n, v, S.chan[c]))
                 /\ IF n = "resistance" THEN Handles(WriteControls(x))
                    ELSE Handles(UpdateSense(c, WriteControls(x)))
    BY <1>2, <1>5, <1>13 DEF EditNumber, With, c, S
  <2>4. Same(c, t, x, {n}, {})
    <3>1. CASE v = Bad
      BY <1>9, <2>3, <3>1 DEF Same
    <3>2. CASE v # Bad
      BY <1>2, <1>6, <2>2, <2>3, <3>2, SettingSame
    <3> QED
      BY <3>1, <3>2
  <2>5. PICK p : p = WriteControls(x)
    OBVIOUS
  <2>6. CASE n = "resistance"
    <3>1. FormFits(c, p) /\ Same(c, S, p, Chosen, FormField)
      BY <1>8, <2>4, <2>5, <2>6
    <3> QED
      BY <2>3, <2>5, <2>6, <3>1, ChoiceFits DEF c, S
  <2>7. CASE n # "resistance"
    <3>1. /\ Same(c, S, p, {n}, Texts) /\ UnitTold(c, p) /\ UnitsFit(c, p)
          /\ SchemesFit(c, p) /\ ModesFit(c, p) /\ PicturesFit(c, p) /\ ShownFit(c, p)
          /\ IsPage(p)
      <4>1. {n} \cap {"scheme", "sensor", "mode", "unit"} = {}
        BY <2>1
      <4>2. /\ Same(c, S, p, {n}, Texts) /\ UnitTold(c, p) /\ UnitsFit(c, p)
            /\ SchemesFit(c, p) /\ ModesFit(c, p) /\ PicturesFit(c, p) /\ ShownFit(c, p)
        BY <1>7, <2>4, <2>5, <4>1
      <4> QED
        BY <4>2 DEF Same
    <3>2. PICK z : z = UpdateSense(c, p)
      OBVIOUS
    <3>3. Same(c, p, z, {"sense"}, Texts) /\ UnitTold(c, z) /\ SenseFit(c, z)
      BY <1>2, <3>1, <3>2, SenseStep
    <3>4. /\ UnitsFit(c, z) /\ SchemesFit(c, z) /\ ModesFit(c, z) /\ PicturesFit(c, z)
          /\ ShownFit(c, z)
      BY <1>2, <3>1, <3>3, SameKeeps DEF Texts
    <3>5. FormFits(c, z)
      BY <3>3, <3>4 DEF FormFits
    <3>6. \A y \in Channel : DiametersFit(z.chan[y])
      <4>1. ASSUME NEW y \in Channel, y # c PROVE DiametersFit(z.chan[y])
        <5>1. z.chan[y].inner = S.chan[y].inner /\ z.chan[y].outer = S.chan[y].outer
          BY <3>1, <3>3, <4>1 DEF Same
        <5> QED
          BY <1>4, <5>1 DEF DiametersFit
      <4>2. /\ \A f \in {"inner", "outer"} \ {n} : z.chan[c][f] = S.chan[c][f]
            /\ n \in {"inner", "outer"} => z.chan[c][n] = x.chan[c][n]
        <5>1. Same(c, x, p, {}, {"unitText", "unitSenseText"})
          BY <1>2, <2>4, <2>5, WriteSame DEF Same
        <5> QED
          BY <3>1, <3>3, <5>1 DEF Same, Field037
      <4>3. ASSUME n \notin {"inner", "outer"} \/ v = Bad PROVE DiametersFit(z.chan[c])
        <5>1. z.chan[c]["inner"] = S.chan[c]["inner"] /\ z.chan[c]["outer"] = S.chan[c]["outer"]
          <6>1. v = Bad => x.chan[c].inner = S.chan[c].inner /\ x.chan[c].outer = S.chan[c].outer
            BY <1>6, <2>3 DEF Same, Field037
          <6> QED
            BY <4>2, <4>3, <6>1
        <5>2. z.chan[c].inner = S.chan[c].inner /\ z.chan[c].outer = S.chan[c].outer
          BY <5>1
        <5>3. DiametersFit(S.chan[c])
          BY <1>2, <1>4
        <5> QED
          BY <5>2, <5>3, AcceptedFit
      <4>4. ASSUME n \in {"inner", "outer"}, v # Bad PROVE DiametersFit(z.chan[c])
        <5>1. v \in Int
          BY <4>4, Zet037Assumption
        <5>2. x.chan[c][n] = Accepted(n, v, S.chan[c])
          <6>1. PICK a : a = Accepted(n, v, S.chan[c])
            OBVIOUS
          <6>2. x = With(t, c, n, a)
            BY <2>3, <4>4, <6>1
          <6>3. Same(c, t, x, {n}, {}) /\ x.chan[c][n] = a
            BY <1>2, <1>6, <2>2, <6>2, SettingSame
          <6> QED
            BY <6>1, <6>3
        <5>3. DiametersFit(S.chan[c])
          BY <1>2, <1>4
        <5>4. CASE n = "outer"
          <6>1. z.chan[c].outer = Accepted("outer", v, S.chan[c])
                /\ z.chan[c].inner = S.chan[c].inner
            BY <4>2, <5>2, <5>4
          <6> QED
            BY <5>1, <5>3, <6>1, AcceptedFit
        <5>5. CASE n = "inner"
          <6>1. z.chan[c].inner = Accepted("inner", v, S.chan[c])
                /\ z.chan[c].outer = S.chan[c].outer
            BY <4>2, <5>2, <5>5
          <6> QED
            BY <5>1, <5>3, <6>1, AcceptedFit
        <5> QED
          BY <4>4, <5>4, <5>5
      <4> QED
        BY <4>1, <4>3, <4>4
    <3>7. Handles(z)
      BY <2>3, <2>5, <2>7, <3>2
    <3> QED
      BY <3>5, <3>6, <3>7, HandlesFits DEF c
  <2> QED
    BY <2>6, <2>7
<1>14. ASSUME NEW n \in {"nsh", "tc"}, NEW v, SelectThermometer(n, v) PROVE FormInv'
  <2>1. PICK p : p = With(S, c, n, v)
    OBVIOUS
  <2>2. Same(c, S, p, {n}, {})
    <3>1. n \in Field037
      BY DEF Field037
    <3> QED
      BY <1>2, <2>1, <3>1, SettingSame
  <2>3. FormFits(c, p)
    <3>1. /\ {n} \cap {"scheme", "sensor", "mode", "unit"} = {}
          /\ {n} \cap {"sensor", "sense", "output", "range", "mode", "k", "poisson", "modulus",
                       "outer", "inner", "unit"} = {}
      BY <1>14
    <3> QED
      BY <1>2, <2>2, <3>1, SameKeeps DEF FormFits
  <2>4. Same(c, S, p, Chosen, FormField)
    BY <2>2 DEF Same, Chosen
  <2>5. Handles(p)
    BY <1>14, <2>1 DEF SelectThermometer, With, c, S
  <2> QED
    BY <2>3, <2>4, <2>5, ChoiceFits DEF c, S
<1>15. CASE EditRest
  <2>1. Handles(WriteControls(t))
    BY <1>5, <1>15 DEF EditRest, S
  <2>2. PICK p : p = WriteControls(t)
    OBVIOUS
  <2> QED
    BY <1>10, <2>1, <2>2, ChoiceFits DEF c, S
<1> QED
  BY <1>11, <1>12, <1>13, <1>14, <1>15

\* The page is opened or left, or a channel is pasted.
LEMMA OpenLeaveFits ==
  ASSUME Zet037Inv, FormInv,
         \/ \E c \in Channel : OpenPage(c)
         \/ \E r \in Clips037 : Paste(r)
         \/ ClosePage \/ CancelPage
  PROVE  FormInv'
<1>1. IsPage(State037) /\ State037.chan = chan /\ \A x \in Channel : DiametersFit(State037.chan[x])
  BY DEF Zet037Inv, PageRight, FormInv, State037
<1>2. ASSUME NEW c \in Channel, OpenPage(c) PROVE FormInv'
  <2>1. PICK t : t = SetAdapter037(c, State037)
    OBVIOUS
  <2>2. FormFits(c, t) /\ Same(c, State037, t, Chosen, FormField)
    BY <1>1, <2>1, SetAdapterFits
  <2>3. /\ chan' = t.chan /\ form' = t.form /\ shownOn' = c /\ memento' = chan[c]
        /\ service' = service
    BY <1>2, <2>1 DEF OpenPage, Becomes
  <2>4. \A x \in Channel : DiametersFit(t.chan[x])
    BY <1>1, <2>2, DiametersKept
  <2>5. DiametersFit(memento)' /\ \A x \in Channel : DiametersFit(chan[x])'
    BY <1>1, <2>3, <2>4 DEF DiametersFit
  <2>6. FormFits(shownOn, State037)'
    BY <2>2, <2>3
    DEF FormFits, UnitTold, SchemesFit, ModesFit, UnitsFit, SenseFit, PicturesFit, ShownFit,
        State037, SchemesOf
  <2> QED
    BY <2>5, <2>6 DEF FormInv
<1>3. ASSUME NEW c \in Channel, NEW r, DiametersFit(r), NEW x \in Channel
      PROVE  DiametersFit([chan EXCEPT ![c] = Restored(c, r)][x])
  <2>1. DOMAIN chan = Channel /\ DiametersFit(chan[x])
    BY <1>1 DEF IsPage, IsChannels
  <2>2. CASE x = c
    <3>1. PICK d : d = Restored(c, r)
      OBVIOUS
    <3>2. d.inner = r.inner /\ d.outer = r.outer
      BY <3>1 DEF Restored
    <3>3. DiametersFit(d)
      BY <1>3, <3>2, AcceptedFit
    <3> QED
      BY <2>1, <2>2, <3>1, <3>3
  <2>3. CASE x # c
    BY <2>1, <2>3
  <2> QED
    BY <2>2, <2>3
<1>4. ASSUME NEW r \in Clips037, Paste(r) PROVE FormInv'
  <2>1. shownOn \in Channel
    BY <1>4 DEF Paste, Handles, Zet037Inv
  <2>2. IsSettings(r) /\ DiametersFit(r)
    BY Zet037Assumption DEF IsSettings
  <2>3. PICK s : s = [State037 EXCEPT !.chan[shownOn] = Restored(shownOn, r),
                                      !.own = @ \ {shownOn}, !.agreed = @ \ {Slot[shownOn]}]
    OBVIOUS
  <2>4. s.chan = [chan EXCEPT ![shownOn] = Restored(shownOn, r)]
    BY <2>3 DEF State037
  <2>5. IsPage(s)
    <3>1. PICK d : d = Restored(shownOn, r)
      OBVIOUS
    <3>2. IsSettings(d)
      BY <2>2, <3>1 DEF Restored, IsSettings
    <3>3. /\ s = [f \in {"chan", "form", "own", "agreed"} |-> s[f]]
          /\ s.chan = [chan EXCEPT ![shownOn] = d] /\ s.own = own \ {shownOn}
          /\ s.agreed = agreed \ {Slot[shownOn]} /\ s.form = form
      BY <2>3, <3>1 DEF State037
    <3> QED
      BY <1>1, <3>2, <3>3 DEF IsPage, IsChannels, State037
  <2>6. \A x \in Channel : DiametersFit(s.chan[x])
    BY <1>3, <2>1, <2>2, <2>4
  <2>7. PICK t : t = SetAdapter037(shownOn, s)
    OBVIOUS
  <2>8. FormFits(shownOn, t) /\ Same(shownOn, s, t, Chosen, FormField)
    BY <2>1, <2>5, <2>7, SetAdapterFits
  <2>9. \A x \in Channel : DiametersFit(t.chan[x])
    BY <2>1, <2>6, <2>8, DiametersKept
  <2>10. Handles(t)
    BY <1>4, <2>3, <2>7 DEF Paste
  <2> QED
    BY <2>8, <2>9, <2>10, HandlesFits
<1>5. CASE ClosePage
  BY <1>5 DEF ClosePage, FormInv, DiametersFit
<1>6. CASE CancelPage
  <2>1. shownOn \in Channel /\ DiametersFit(memento)
    BY <1>6 DEF CancelPage, Zet037Inv, FormInv
  <2>2. /\ shownOn' = NoChannel
        /\ chan' = [chan EXCEPT ![shownOn] = Restored(shownOn, memento)]
    BY <1>6 DEF CancelPage
  <2>3. PICK all : all = [chan EXCEPT ![shownOn] = Restored(shownOn, memento)]
    OBVIOUS
  <2>4. \A x \in Channel : DiametersFit(all[x])
    BY <1>3, <2>1, <2>3
  <2>5. \A x \in Channel : DiametersFit(chan[x])'
    BY <2>2, <2>3, <2>4 DEF DiametersFit
  <2> QED
    BY <2>2, <2>5 DEF FormInv
<1> QED
  BY <1>2, <1>4, <1>5, <1>6

\* The form fits when the page opens.
LEMMA InitForm == ZetInit => FormInv
<1> SUFFICES ASSUME ZetInit PROVE FormInv
  OBVIOUS
<1>1. chan \in Full037 /\ shownOn = NoChannel
  BY DEF ZetInit
<1>2. \A x \in Channel : DiametersFit(chan[x])
  BY <1>1, Zet037Assumption
<1> QED
  BY <1>1, <1>2 DEF FormInv

\* Every step keeps the form fitting.
LEMMA StepForm == Zet037Inv /\ FormInv /\ [ZetNext]_zetVars => FormInv'
<1> SUFFICES ASSUME Zet037Inv, FormInv, [ZetNext]_zetVars PROVE FormInv'
  OBVIOUS
<1>1. CASE UNCHANGED zetVars
  BY <1>1
  DEF zetVars, FormInv, DiametersFit, FormFits, UnitTold, SchemesFit, ModesFit, UnitsFit, SenseFit,
      PicturesFit, ShownFit, State037, SchemesOf
<1>2. CASE ZetNext
  BY <1>2, ListsFit, UnitFits, NumbersFit, OpenLeaveFits DEF ZetNext
<1> QED
  BY <1>1, <1>2

\* A strain gauge is always wired as a bridge, and a bridge has loads.
LEMMA GaugeIsLoaded ==
  ASSUME NEW scheme \in SchemesOf("resistor")
  PROVE  ModesOf(scheme) # {}
<1>1. scheme \in {"full_4w_i", "full_6w_u", "full_4w_u", "half_3w_i", "half_5w_u"} \cup Quarters
  BY DEF SchemesOf, OnlyScheme
<1>2. "tc1" \in LoadsOf(BridgeOf(scheme))
  BY <1>1 DEF LoadsOf, BridgeOf, Quarters
<1> QED
  BY <1>2 DEF ModesOf

\* A form that fits shows the channel it belongs to.
LEMMA FormShows == Zet037Inv /\ FormInv => FormFitsChannel
<1> SUFFICES ASSUME Zet037Inv, FormInv, shownOn # NoChannel PROVE FormFitsChannel
  BY DEF FormFitsChannel
<1> DEFINE r == chan[shownOn]
<1>1. shownOn \in Channel /\ FormFits(shownOn, State037)
  BY DEF Zet037Inv, FormInv
<1>2. State037.chan[shownOn] = r /\ State037.form = form
  BY DEF State037
<1>3. DiametersFit(r)
  BY <1>1 DEF FormInv
<1>4. /\ r.scheme \in form.schemes /\ form.schemes = SchemesOf(r.sensor)
      /\ form.shown = ShownFor(r.sensor, r.mode, r.unit)
      /\ form.pictures = PicturesFor(r.scheme, r.sensor, r.mode)
      /\ form.unitText # r.unit => r.unit = Celsius
  BY <1>1, <1>2 DEF FormFits, SchemesFit, ShownFit, PicturesFit, UnitTold
<1>5. ASSUME r.sensor = "resistor"
      PROVE  /\ r.mode \in form.modes /\ r.mode.bridge = BridgeOf(r.scheme)
             /\ r.unit \in UnitsFor(r.mode) /\ r.sense.of = BridgeSense(r, r.unit)
  <2>1. form.modes = ModesOf(r.scheme) /\ (r.mode \in form.modes \/ form.modes = {})
    BY <1>1, <1>2 DEF FormFits, ModesFit
  <2>2. r.mode \in ModesOf(r.scheme)
    BY <1>4, <1>5, <2>1, GaugeIsLoaded
  <2>3. r.mode.bridge = BridgeOf(r.scheme)
    BY <2>2 DEF ModesOf
  <2>4. r.unit \in UnitsFor(r.mode) /\ r.sense.of = BridgeSense(r, r.unit)
    BY <1>1, <1>2, <1>5 DEF FormFits, UnitsFit, SenseFit
  <2> QED
    BY <2>1, <2>2, <2>3, <2>4
<1>6. r.sensor \in {"sensor", "lvdt"} => r.sense.of = << "ratio", r.output, r.range >>
  BY <1>1, <1>2 DEF FormFits, SenseFit
<1> QED
  BY <1>3, <1>4, <1>5, <1>6 DEF FormFitsChannel

\* However the lists of the page work on each other, whatever was chosen, typed
\* or pasted before: the form that is open belongs to the channel it shows.
THEOREM FormAndChannelAgree == ZetSpec => []FormFitsChannel
<1>1. ZetInit => Zet037Inv /\ FormInv
  BY InitZet, InitForm
<1>2. Zet037Inv /\ FormInv /\ [ZetNext]_zetVars => (Zet037Inv /\ FormInv)'
  BY StepZet, StepForm
<1> QED
  BY <1>1, <1>2, FormShows, PTL DEF ZetSpec

----------------------------------------------------------------------------
\* The parameters of a card.

\* As long as the dialog is open or was cancelled, the temporary file is what
\* the card was read to hold, or the defaults a refused save wrote into it.
CardInv ==
  /\ config = [r \in Recorder |-> config[r]] /\ shownFor \in Recorder
  /\ stage \in {"open", "cancelled"} /\ readOk /\ kind # "110"
       => IF refused THEN temp = RefusedParams(temp.mode) ELSE temp = config[shownFor]

\* Before a form opens nothing is claimed of a card.
LEMMA InitCard == WpInit => CardInv
<1> SUFFICES ASSUME WpInit PROVE CardInv
  OBVIOUS
<1>1. config \in [Recorder -> Saved \cup {NoFile}] /\ shownFor \in Recorder /\ stage = "none"
  BY DEF WpInit
<1> QED
  BY <1>1 DEF CardInv

\* What the user does while the dialog is open leaves file and card alone.
LEMMA EntryKeeps ==
  ASSUME CardInv, UNCHANGED << kind, config, temp, shownFor, stage, refused, readOk >>
  PROVE  CardInv'
BY DEF CardInv, RefusedParams

\* The mode survives the defaults, and the other fields do not depend on it.
LEMMA RefusedIsItself ==
  ASSUME NEW mode
  PROVE  RefusedParams(mode) = RefusedParams(RefusedParams(mode).mode)
BY DEF RefusedParams, SetDefaultParams

\* A form that opens has copied the card of its recorder, or could not read it.
LEMMA OpenFormStep ==
  ASSUME CardInv, NEW r \in Recorder, NEW attempt, NEW how \in Transfer, NEW junk,
         OpenForm(r, attempt, how, junk)
  PROVE  CardInv'
<1> DEFINE done == IF attempt = "never" THEN "nothing" ELSE how
           file == Arrives(r, done)
           told == done # "nothing" /\ ~Absent(config[r])
           s == GetDeviceParam(file, told \/ attempt = "later", junk)
<1>1. /\ UNCHANGED << kind, config >> /\ shownFor' = r /\ refused' = FALSE
      /\ readOk' = (told /\ done = "all")
      /\ kind # "110" => temp' = IF told \/ attempt = "later" THEN file ELSE s
  BY DEF OpenForm
<1>2. told /\ done = "all" => file = config[r]
  BY DEF Arrives
<1> HIDE DEF done, file, told, s
<1> QED
  BY <1>1, <1>2 DEF CardInv

\* A save that is refused leaves the defaults in the file.
LEMMA SaveStep ==
  ASSUME CardInv, NEW yes \in BOOLEAN, ClickSave(yes)
  PROVE  CardInv'
<1>1. UNCHANGED << kind, config, shownFor >>
  BY DEF ClickSave
<1>2. \/ stage' = "saved"
      \/ refused' /\ \E mode : temp' = RefusedParams(mode)
  BY DEF ClickSave
<1>3. temp' = RefusedParams(temp'.mode) => (temp = RefusedParams(temp.mode))'
  BY <1>1 DEF RefusedParams
<1>4. CASE stage' = "saved"
  BY <1>1, <1>4 DEF CardInv
<1>5. CASE refused' /\ \E mode : temp' = RefusedParams(mode)
  <2>1. temp' = RefusedParams(temp'.mode)
    BY <1>5, RefusedIsItself
  <2> QED BY <1>1, <1>3, <1>5, <2>1 DEF CardInv
<1> QED BY <1>2, <1>4, <1>5

\* What the transfer to the card makes of the cards, and of no other recorder's.
LEMMA SentToCard ==
  ASSUME CardInv, NEW how \in Transfer
  PROVE  /\ WriteFileToSD(how) = [r \in Recorder |-> WriteFileToSD(how)[r]]
         /\ \A r \in Recorder : \/ WriteFileToSD(how)[r] = config[r]
                                \/ r = shownFor /\ WriteFileToSD(how)[r] \in {Cut, temp}
<1>1. CASE how = "nothing"
  BY <1>1 DEF WriteFileToSD, CardInv
<1>2. CASE how # "nothing" /\ (how = "cut" \/ Absent(temp))
  <2>1. WriteFileToSD(how) = [config EXCEPT ![shownFor] = Cut]
    BY <1>2 DEF WriteFileToSD
  <2> QED BY <2>1 DEF CardInv
<1>3. CASE how # "nothing" /\ ~ (how = "cut" \/ Absent(temp))
  <2>1. WriteFileToSD(how) = [config EXCEPT ![shownFor] = temp]
    BY <1>3 DEF WriteFileToSD
  <2> QED BY <2>1 DEF CardInv
<1> QED BY <1>1, <1>2, <1>3

\* The write-back keeps what is claimed: no form is open after it.
LEMMA WriteBackStep ==
  ASSUME CardInv, NEW how \in Transfer, WriteBack(how)
  PROVE  CardInv'
<1>1. config' = config \/ config' = WriteFileToSD(how)
  BY DEF WriteBack
<1>2. stage' = "none" /\ shownFor' = shownFor
  BY DEF WriteBack
<1> QED BY <1>1, <1>2, SentToCard DEF CardInv

\* Every step keeps what is claimed of the card.
LEMMA CardStep == CardInv /\ [WpNext]_wpVars => CardInv'
<1> SUFFICES ASSUME CardInv, [WpNext]_wpVars PROVE CardInv'
  OBVIOUS
<1>1. CASE \E r \in Recorder, attempt \in {"first", "later", "never"}, how \in Transfer,
              junk \in Saved : OpenForm(r, attempt, how, junk)
  BY <1>1, OpenFormStep
<1>2. CASE \/ \E t \in {0, MaxTime, MaxTime + 1} : EnterTime(t)
           \/ \E t \in 0..1 : EnterDelay(t)
           \/ ClickEvent \/ ClickSinGen \/ ClickLevelControl
           \/ \E b \in {"dig", "ana", "tmr"} : ClickStart(b)
           \/ \E b \in {"primary", "secondary"} : ClickData(b)
           \/ \E i \in 0..1 : SelectNum(i) \/ SelectPort(i)
           \/ \E mode \in {m \in DataMode : m.wait = m.split /\ m.replace = 0} :
                SettingsData(mode)
  <2>1. UNCHANGED << kind, config, temp, shownFor, stage, refused, readOk >>
    BY <1>2 DEF EnterTime, EnterDelay, ClickEvent, ClickSinGen, ClickLevelControl, ClickStart,
                ClickData, SelectNum, SelectPort, SettingsData, Edit
  <2> QED BY <2>1, EntryKeeps
<1>3. ASSUME NEW yes \in BOOLEAN, ClickSave(yes)
      PROVE  CardInv'
  BY <1>3, SaveStep
<1>4. ASSUME NEW yes \in BOOLEAN, ClickSaveDelta(yes)
      PROVE  CardInv'
  BY <1>4 DEF ClickSaveDelta, CardInv
<1>5. ASSUME NEW how \in Transfer, WriteBack(how)
      PROVE  CardInv'
  BY <1>5, WriteBackStep
<1>6. CASE ClickCancel
  BY <1>6 DEF ClickCancel, CardInv, RefusedParams
<1>7. CASE UNCHANGED wpVars
  BY <1>7 DEF wpVars, CardInv, RefusedParams
<1> QED
  BY <1>1, <1>2, <1>3, <1>4, <1>5, <1>6, <1>7 DEF WpNext

\* Whatever was typed and clicked, a dialog that was cancelled gives the card
\* back what was read from it, a file cut short when sending breaks off, or the
\* defaults of a save that was refused; the cards of others are not touched.
THEOREM CardSurvivesCancel == WpSpec => CancelKeepsCard
<1>1. ASSUME CardInv, [WpNext]_wpVars, stage = "cancelled", readOk, NEW r \in Recorder
      PROVE  CardKept(r)
  <2>1. CASE UNCHANGED wpVars
    BY <2>1 DEF wpVars, CardKept
  <2>2. CASE WpNext
    <3>1. PICK how \in Transfer : WriteBack(how)
      BY <1>1, <2>2 DEF WpNext, OpenForm, EnterTime, EnterDelay, ClickEvent, ClickSinGen,
        ClickLevelControl, ClickStart, ClickData, SelectNum, SelectPort, SettingsData, Edit,
        ClickSave, ClickSaveDelta, ClickCancel
    <3>2. CASE kind = "110"
      BY <3>1, <3>2 DEF WriteBack, CardKept
    <3>3. CASE kind # "110"
      <4>1. config' = WriteFileToSD(how)
        BY <3>1, <3>3 DEF WriteBack
      <4>2. config'[r] = config[r] \/ (r = shownFor /\ config'[r] \in {Cut, temp})
        BY <1>1, <4>1, SentToCard
      <4>3. IF refused THEN temp = RefusedParams(temp.mode) ELSE temp = config[shownFor]
        BY <1>1, <3>3 DEF CardInv
      <4> QED BY <4>2, <4>3 DEF CardKept
    <3> QED BY <3>2, <3>3
  <2> QED BY <1>1, <2>1, <2>2
<1>2. CardInv /\ [WpNext]_wpVars
        => [stage = "cancelled" /\ readOk => \A r \in Recorder : CardKept(r)]_wpVars
  BY <1>1
<1>3. WpInit => CardInv
  BY InitCard
<1>4. CardInv /\ [WpNext]_wpVars => CardInv'
  BY CardStep
<1> QED
  BY <1>2, <1>3, <1>4, PTL DEF WpSpec, CancelKeepsCard
=============================================================================
