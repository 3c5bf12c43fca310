----------------------------- MODULE DeviceTabs -----------------------------
(***************************************************************************)
(* The pages of the properties dialog of a device, and the two generator   *)
(* pages of a channel.  Some pages write what the user chooses at once and *)
(* rely on a snapshot for Cancel: frequencies, digital ports, selftest,    *)
(* actuators.  The others keep it in their controls until OK.              *)
(*                                                                         *)
(* What the dialog knows is what it read while it opened.  A page is shown *)
(* when a first reading succeeds, and filled by a second one, which may    *)
(* fail.  Timers of the pages read the device or the controls again, and   *)
(* another program may switch the ports of the device.                     *)
(***************************************************************************)
EXTENDS Integers, FiniteSets, Sequences

CONSTANTS
  Unit,          \* kinds of units, with their pages and settings
  Port,          \* the digital ports of a unit that has some
  Actuator,      \* 1..n
  Offered,       \* Offered[x]: what the user may type or select for x
  Unread,        \* what an address page may show that was not read
  Empty, Minus, NoNumber, \* texts that are no number
  MaxEdits,      \* bounds: what the user does
  MaxOthers,     \*         what another program does
  MaxFaults      \*         readings and writings that fail

\* The settings of a unit.
Setting ==
  {"adc", "dac", "out", "ena", "selftest", "label", "net", "timeout", "radios", "id", "dhcp", "ftp",
   "lines", "ptp", "start", "minutes", "gen", "pps", "act", "code", "place"}

\* The pages; a device has that of its frequencies, whatever else it has, and a
\* channel has those of its generator only.
Page ==
  {"frequency", "description", "ports", "ip", "sync", "registrator", "dc", "sine", "pps",
   "actuator", "selftest", "metadata"}
ChannelPage == {"sine", "pps"}

Synchronisation == [master : BOOLEAN, slave : BOOLEAN, number : Nat, priority : Nat]
Generator == [on : BOOLEAN, offset : Int, sine : Int]

ASSUME DeviceTabsAssumption ==
  /\ Port \subseteq Nat /\ Actuator = 1..Cardinality(Actuator)
  /\ \A u \in Unit :
       /\ u.device = [x \in Setting |-> u.device[x]]
       /\ \/ u.tabs \subseteq Page \ ChannelPage /\ "frequency" \in u.tabs
          \/ u.tabs \subseteq ChannelPage
       /\ u.device.out \subseteq Port /\ u.device.ena \subseteq Port
       /\ u.device.label \in Nat /\ u.device.timeout \in Nat /\ u.device.minutes \in Nat
       /\ u.device.ptp \in Synchronisation /\ u.device.gen \in Generator
       /\ u.device.pps \in BOOLEAN
  /\ Offered["label"] \subseteq Nat /\ Offered["timeout"] \subseteq Nat
  /\ Offered["ptp"] \subseteq Nat \cup {Empty} /\ Offered["offset"] \subseteq Int

VARIABLES
  unit,          \* the kind of the unit
  device,        \* its settings
  tabs,          \* the pages that are shown
  active,        \* the page in front, or NoTab
  box,           \* the controls
  member,        \* the members of the pages that differ from the controls
  snapshot,      \* device_memento
  was,           \* history: settings when the dialog opened, and choices
  left,          \* "", "ok" or "cancel"
  edits, others, faults

tabVars == << unit, device, tabs, active, box, member, snapshot, was, left, edits, others, faults >>

NoTab == "none"
Closed == [closed |-> TRUE]
Undefined == -1

----------------------------------------------------------------------------
\* What the pages show and where their settings come from.

\* The settings a page is about.
SettingsOf(t) ==
  CASE t = "frequency" -> {"adc", "dac"}
    [] t = "description" -> {"label"}
    [] t = "ports" -> {"out", "ena"}
    [] t = "ip" -> IF unit.zsp THEN {"net", "dhcp", "ftp"} ELSE {"net", "timeout", "radios", "id"}
    [] t = "sync" -> {"lines", "ptp"}
    [] t = "registrator" -> {"start", "minutes"}
    [] t \in {"dc", "sine"} -> {"gen"}
    [] t = "pps" -> {"pps"}
    [] t = "actuator" -> {"act"}
    [] t = "selftest" -> {"selftest"}
    [] t = "metadata" -> {"code", "place"}

\* Readings that may fail: the first one, that decides about the page, and the
\* second one, that fills it.
Readings ==
  {<< "have", t >> : t \in unit.tabs \cap {"ip", "sync", "actuator"}}
  \cup {<< "read", t >> :
           t \in unit.tabs \cap {"ip", "sync", "actuator", "description", "dc", "sine", "pps"}}

MayFail(x) == unit.zsp => x[2] \notin {"ip"}

\* RefreshDevice and RefreshChannel; a unit that synchronises by lines or by
\* GPS has its page anyway.
Shown(fails) ==
  {t \in unit.tabs : << "have", t >> \notin fails \/ (t = "sync" /\ (unit.lines \/ unit.gps))}

\* Settings that were read when the dialog opened.
Trusted(fails) ==
  UNION {SettingsOf(t) \ (IF << "read", t >> \in fails
                          THEN IF t = "sync" THEN {"ptp"} ELSE SettingsOf(t) ELSE {}) :
           t \in Shown(fails)}

\* A value that is not in the list selects nothing.
Selection(v, list) == IF v \in list THEN v ELSE Undefined

NoSync == [master |-> FALSE, slave |-> FALSE, number |-> 0, priority |-> 0]

\* CSyncTab::SetAdapter: with GPS and the old firmware there is no slave.
SyncRead(ptp, read) ==
  IF ~read THEN NoSync ELSE IF unit.oldGps THEN [ptp EXCEPT !.slave = FALSE] ELSE ptp

\* readDigSyncSettings: lines that are set in part are neither.
LinesRead(lines) == IF lines = "partly" THEN "neither" ELSE lines

\* on_zsp_record_duration_change_request
Duration(v) == IF v < 1 THEN 1 ELSE IF v > 30 THEN 30 ELSE v

\* get_sd_start_record
StartRead(s) == IF s \in {0, 1} THEN s ELSE Undefined

\* CIpAddressTab::SetAdapter does not look whether the device was read; the
\* timeout is shown in minutes.
NetShown(read, junk) ==
  IF unit.zsp \/ read THEN
    [net |-> device.net, timeout |-> device.timeout \div 60, radios |-> device.radios]
  ELSE junk

\* registrator_zsp_tab::SetAdapter
MinutesShown == IF device.minutes = 0 THEN 10 ELSE Duration(device.minutes)

NoGenerator == [on |-> FALSE, offset |-> 0, sine |-> 0]

\* What was not read is shown as off.
GeneratorShown(read) == IF read THEN device.gen ELSE NoGenerator
ActuatorsShown(read) == IF read THEN device.act ELSE {}

\* What the controls hold when the dialog has opened.
Controls(fails, junk) ==
  LET Read(t) == << "read", t >> \notin fails
      net == NetShown(Read("ip"), junk)
  IN  [adc |-> Selection(device.adc, unit.adcs), dac |-> Selection(device.dac, unit.dacs),
       label |-> IF Read("description") THEN device.label ELSE 0,
       out |-> device.out, ena |-> device.ena,
       net |-> net.net, timeout |-> net.timeout, radios |-> net.radios,
       dhcp |-> device.dhcp, ftp |-> device.ftp,
       lines |-> LinesRead(device.lines), ptp |-> SyncRead(device.ptp, Read("sync")),
       start |-> StartRead(device.start), endless |-> device.minutes = 0,
       minutes |-> MinutesShown, gen |-> GeneratorShown(Read("dc") /\ Read("sine")),
       pps |-> Read("pps") /\ device.pps, act |-> ActuatorsShown(Read("actuator")),
       selftest |-> device.selftest, code |-> device.code, place |-> device.place]

\* createMemento
Memento ==
  [adc |-> device.adc, dac |-> device.dac, out |-> device.out, ena |-> device.ena,
   selftest |-> device.selftest]

\* Mutant: the enables are not restored.
RestoreButEnables(d) ==
  [d EXCEPT !.adc = snapshot.adc, !.dac = snapshot.dac, !.out = snapshot.out,
            !.selftest = snapshot.selftest]

\* restoreMemento
RestoreMemento(d) ==
  [d EXCEPT !.adc = snapshot.adc, !.dac = snapshot.dac, !.out = snapshot.out,
            !.ena = snapshot.ena, !.selftest = snapshot.selftest]

----------------------------------------------------------------------------
TabsInit ==
  /\ unit \in Unit /\ device = unit.device
  /\ tabs = {} /\ active = NoTab /\ box = Closed /\ member = Closed /\ snapshot = Closed
  /\ was = Closed /\ left = "" /\ edits = 0 /\ others = 0 /\ faults = 0

\* CSyncTab::Activate reads the synchronisation into the members only.
Activated(t, m, read) ==
  IF t = "sync" THEN [m EXCEPT !.ptp = IF read THEN device.ptp ELSE NoSync] ELSE m

\* The dialog opens on the page it was last left on, or on the first.
OpenDialog(fails, junk, t) ==
  /\ active = NoTab /\ left = "" /\ t \in Shown(fails)
  /\ faults' = faults + Cardinality(fails) /\ faults' <= MaxFaults
  /\ \A x \in fails : MayFail(x)
  /\ tabs' = Shown(fails) /\ active' = t
  /\ box' = Controls(fails, junk) /\ snapshot' = Memento
  /\ member' = Activated(t, [ptp |-> Controls(fails, junk).ptp,
                             timeout |-> Controls(fails, junk).timeout,
                             radios |-> Controls(fails, junk).radios], TRUE)
  /\ was' = [opened |-> device, trusted |-> Trusted(fails), lost |-> {}, disturbed |-> FALSE,
             putBack |-> FALSE,
             chosen |-> [device EXCEPT !.timeout = Controls(fails, junk).timeout,
                                       !.start = StartRead(device.start)]]
  /\ UNCHANGED << unit, device, left, edits, others >>

\* Another page comes to the front.
Switch(t, read) ==
  /\ active # NoTab /\ t \in tabs \ {active} /\ active' = t
  /\ faults' = IF read THEN faults ELSE faults + 1
  /\ faults' <= MaxFaults /\ (~read => t = "sync")
  /\ member' = Activated(t, member, read)
  /\ UNCHANGED << unit, device, tabs, box, snapshot, was, left, edits, others >>

----------------------------------------------------------------------------
\* What the user does on the page in front.

Doing(t) == active = t /\ edits < MaxEdits /\ edits' = edits + 1

\* The user chooses v for x on a page that is saved later.
Choose(t, x, v) ==
  /\ Doing(t)
  /\ box' = [box EXCEPT ![x] = v] /\ was' = [was EXCEPT !.chosen[x] = v]
  /\ UNCHANGED << unit, device, tabs, active, member, snapshot, left, others, faults >>

\* The user chooses v for x on a page that writes at once; d is the device then.
ChooseNow(t, x, v, d) ==
  /\ Doing(t)
  /\ box' = [box EXCEPT ![x] = v] /\ was' = [was EXCEPT !.chosen[x] = v] /\ device' = d
  /\ UNCHANGED << unit, tabs, active, member, snapshot, left, others, faults >>

\* The frequency of the DAC that belongs to one of the ADC, in kHz.
Coupled(adc) == IF adc >= 50 THEN 100 ELSE IF adc >= 25 THEN 50 ELSE 10

\* OnAdcChangeRequest
SelectAdc(v) ==
  LET dac == Coupled(v)
      both == unit.coupled /\ dac \in unit.dacs
  IN  /\ Doing("frequency") /\ v \in unit.adcs
      /\ device' = [device EXCEPT !.adc = v, !.dac = IF both THEN dac ELSE @]
      /\ box' = [box EXCEPT !.adc = v, !.dac = IF both THEN dac ELSE @]
      /\ was' = [was EXCEPT !.chosen.adc = v, !.chosen.dac = IF both THEN dac ELSE @]
      /\ UNCHANGED << unit, tabs, active, member, snapshot, left, others, faults >>

\* OnDacChangeRequest; the list is disabled where the frequencies are coupled.
SelectDac(v) ==
  v \in unit.dacs /\ ~unit.coupled /\ ChooseNow("frequency", "dac", v, [device EXCEPT !.dac = v])

\* OnChecked of a port: what is written for the port is what both its boxes show.
Written(ports, b) ==
  [device EXCEPT !.out = (@ \ ports) \cup (b.out \cap ports),
                 !.ena = (@ \ ports) \cup (b.ena \cap ports)]

\* A click on a box of a port; x is "out" or "ena".
ClickPort(x, p) ==
  LET v == IF p \in box[x] THEN box[x] \ {p} ELSE box[x] \cup {p}
  IN  ChooseNow("ports", x, v, Written({p}, [box EXCEPT ![x] = v]))

\* A click on the box of the group: on where all were off, else off.
GroupClicked(set, all) == IF set = {} THEN all ELSE {}

ClickGroup(x) ==
  LET v == GroupClicked(box[x], Port)
  IN  ChooseNow("ports", x, v, Written(Port, [box EXCEPT ![x] = v]))

\* CDigPortTab::OnTimer
PortsTimer ==
  /\ active = "ports" /\ box' = [box EXCEPT !.out = device.out, !.ena = device.ena]
  /\ UNCHANGED << unit, device, tabs, active, member, snapshot, was, left, edits, others, faults >>

\* Another program switches a port.
OtherProgram(x, p) ==
  /\ active # NoTab /\ "ports" \in tabs /\ others < MaxOthers /\ others' = others + 1
  /\ device' = [device EXCEPT ![x] = IF p \in @ THEN @ \ {p} ELSE @ \cup {p}]
  /\ was' = [was EXCEPT !.disturbed = TRUE]
  /\ UNCHANGED << unit, tabs, active, box, member, snapshot, left, edits, faults >>

\* CActuatorTab::OnChecked writes all boxes, for every actuator clicked.
SetActuators(v, unwritten, ok) ==
  /\ Doing("actuator")
  /\ faults' = IF ok THEN faults ELSE faults + 1
  /\ faults' <= MaxFaults
  /\ device' = [device EXCEPT !.act = IF ok THEN v ELSE unwritten]
  /\ box' = [box EXCEPT !.act = v]
  /\ was' = [was EXCEPT !.chosen.act = v, !.lost = IF ok THEN @ \ {"act"} ELSE @ \cup {"act"}]
  /\ UNCHANGED << unit, tabs, active, member, snapshot, left, others >>

ClickActuator(i, ok) ==
  SetActuators(IF i \in box.act THEN box.act \ {i} ELSE box.act \cup {i}, device.act, ok)

\* OnActuatorsChecked; where the last writing fails the last one is missing.
ClickActuators(ok) ==
  LET v == GroupClicked(box.act, Actuator)
      last == {Cardinality(Actuator)}
  IN  SetActuators(v, (v \ last) \cup (box.act \cap last), ok)

\* on_selftest_request
SelectSelftest(v) == ChooseNow("selftest", "selftest", v, [device EXCEPT !.selftest = v])

\* The code of the station is longer than it may be, if typed so.
EditCode(n) == ChooseNow("metadata", "code", n, [device EXCEPT !.code = n])

Degrees(v) == IF v < -90 THEN -90 ELSE IF v > 90 THEN 90 ELSE v

\* OnLatitudeChangeRequest and its kind; what is no number leaves the device alone.
EditPlace(v) ==
  IF v \in {Minus, NoNumber} THEN
    /\ Doing("metadata") /\ box' = [box EXCEPT !.place = IF v = Minus THEN v ELSE @]
    /\ UNCHANGED << unit, device, tabs, active, member, snapshot, was, left, others, faults >>
  ELSE ChooseNow("metadata", "place", Degrees(v), [device EXCEPT !.place = Degrees(v)])

EditLabel(n) == Choose("description", "label", n)

\* The address is enabled unless it is found by DHCP.
EditNet(v) == active = "ip" /\ (unit.zsp => ~box.dhcp) /\ Choose("ip", "net", v)
ClickDhcp == unit.zsp /\ Choose("ip", "dhcp", ~box.dhcp)
ClickFtp == unit.zsp /\ Choose("ip", "ftp", ~box.ftp)
EditTimeout(v) == ~unit.zsp /\ Choose("ip", "timeout", v)
ClickRadios(v) == ~unit.zsp /\ Choose("ip", "radios", v)

\* CIpAddressTab::OnTimer shows the address of the computer, and the members.
IpTimer ==
  /\ active # NoTab /\ "ip" \in tabs
  /\ box' = [box EXCEPT !.timeout = member.timeout, !.radios = member.radios]
  /\ was' = [was EXCEPT !.putBack = @ \/ box' # box]
  /\ UNCHANGED << unit, device, tabs, active, member, snapshot, left, edits, others, faults >>

\* OnChange of master and slave of the digital port, which exclude each other.
ClickLines(x) ==
  unit.lines /\ Choose("sync", "lines", IF box.lines = x THEN "neither" ELSE x)

\* The group is shown when the settings were read.
PtpShown == "ptp" \in was.trusted

ChooseSync(ptp) == active = "sync" /\ PtpShown /\ Choose("sync", "ptp", ptp)

ClickMaster == ChooseSync([box.ptp EXCEPT !.master = ~@])
ClickSlave == ~unit.oldGps /\ ChooseSync([box.ptp EXCEPT !.slave = ~@])

\* OnChange of a number: an empty text becomes 0.
TypedNumber(v) == IF v = Empty THEN 0 ELSE v

EditDomain(v) == ChooseSync([box.ptp EXCEPT !.number = TypedNumber(v)])
EditPriority(v) ==
  active = "sync" /\ box.ptp.master /\ ChooseSync([box.ptp EXCEPT !.priority = TypedNumber(v)])

\* CSyncTab::OnTimer reads the controls before it writes them.
SyncTimer ==
  /\ active = "sync" /\ (unit.gps \/ PtpShown) /\ member' = [member EXCEPT !.ptp = box.ptp]
  /\ UNCHANGED << unit, device, tabs, active, box, snapshot, was, left, edits, others, faults >>

SelectStart(s) == Choose("registrator", "start", s)

\* on_zsp_record_continuous_on_off
ClickEndless ==
  /\ Doing("registrator") /\ box' = [box EXCEPT !.endless = ~@]
  /\ was' = [was EXCEPT !.chosen.minutes = IF box.endless THEN box.minutes ELSE 0]
  /\ UNCHANGED << unit, device, tabs, active, member, snapshot, left, others, faults >>

EditDuration(v) ==
  active = "registrator" /\ ~box.endless /\ Choose("registrator", "minutes", Duration(v))

\* The generator of a device has no sine.
ClickGenerator == \E t \in {"dc", "sine"} : Choose(t, "gen", [box.gen EXCEPT !.on = ~@])
EditOffset(v) ==
  \E t \in {active} \cap {"dc", "sine"} :
    (t = "dc" => box.gen.on) /\ Choose(t, "gen", [box.gen EXCEPT !.offset = v])
EditSine(v) == Choose("sine", "gen", [box.gen EXCEPT !.sine = v])
ClickPps == Choose("pps", "pps", ~box.pps)

----------------------------------------------------------------------------
\* OK.  Every OnUserSave reads the controls first and writes what they hold.

SavedLabel(d) == [d EXCEPT !.label = IF box.label > 30 THEN 30 ELSE box.label]

\* writeEthSettings; the port and the address of the hardware are read again,
\* and written back even when that failed.  The timeout has 16 bits.
SavedNet(d, fails) ==
  IF unit.zsp THEN [d EXCEPT !.net = box.net, !.dhcp = box.dhcp, !.ftp = box.ftp]
  ELSE IF "ip" \in fails THEN d
  ELSE [d EXCEPT !.net = box.net, !.timeout = (box.timeout * 60) % 65536, !.radios = box.radios,
                 !.id = IF "id" \in fails THEN "any" ELSE @]

\* Mutant: the members are written as they are.
SavedPtpMembers(d, fails) ==
  [d EXCEPT !.ptp = [member.ptp EXCEPT !.number = @ % 256, !.priority = @ % 256]]

\* writeSyncSettings; the numbers have 8 bits.
SavedPtp(d, fails) ==
  IF "sync" \in fails THEN d
  ELSE [d EXCEPT !.ptp = [box.ptp EXCEPT !.number = @ % 256, !.priority = @ % 256]]

SavedSync(d, fails) ==
  SavedPtp(IF unit.lines THEN [d EXCEPT !.lines = box.lines] ELSE d, fails)

\* registrator_zsp_tab::OnUserSave; no start selected is -1, in 16 bits.
SavedRegistrator(d) ==
  [d EXCEPT !.start = box.start % 65536, !.minutes = IF box.endless THEN 0 ELSE box.minutes]

SavedSine(d) == [d EXCEPT !.gen = box.gen]
SavedPps(d) == [d EXCEPT !.pps = box.pps]
SavedDc(d) == [d EXCEPT !.gen = [box.gen EXCEPT !.sine = 0]]

\* OnOK
OnOK(fails) ==
  LET If(t, d, e) == IF t \in tabs THEN e ELSE d
      d1 == If("description", device, SavedLabel(device))
      d2 == If("ip", d1, SavedNet(d1, fails))
      d3 == If("sync", d2, SavedSync(d2, fails))
      d4 == If("registrator", d3, SavedRegistrator(d3))
      d5 == If("sine", d4, SavedSine(d4))
      d6 == If("pps", d5, SavedPps(d5))
  IN  If("dc", d6, SavedDc(d6))

Lost(fails) ==
  (IF "ip" \in fails THEN {"net", "timeout", "radios"} ELSE {})
  \cup (IF "id" \in fails THEN {"id"} ELSE {}) \cup (IF "sync" \in fails THEN {"ptp"} ELSE {})

Close ==
  /\ active # NoTab /\ active' = NoTab /\ tabs' = {} /\ box' = Closed /\ member' = Closed
  /\ snapshot' = Closed /\ UNCHANGED << unit, edits, others >>

PressOk(fails) ==
  /\ fails \subseteq {"ip", "id", "sync"} /\ (unit.zsp => fails \cap {"ip", "id"} = {})
  /\ faults' = faults + Cardinality(fails) /\ faults' <= MaxFaults
  /\ Close /\ left' = "ok" /\ device' = OnOK(fails)
  /\ was' = [was EXCEPT !.lost = @ \cup Lost(fails)]

\* OnCancel: the pages that have a snapshot restore all of it.
PressCancel ==
  /\ Close /\ left' = "cancel" /\ UNCHANGED << was, faults >>
  /\ device' = IF tabs \cap {"frequency", "ports", "actuator"} # {} THEN RestoreMemento(device)
               ELSE device

TabsNext ==
  \/ \E fails \in {{}} \cup {{x} : x \in Readings} : \E junk \in Unread :
       \E t \in unit.tabs : OpenDialog(fails, junk, t)
  \/ \E t \in tabs : \E read \in BOOLEAN : Switch(t, read)
  \/ \E v \in Offered["adc"] : SelectAdc(v)
  \/ \E v \in Offered["dac"] : SelectDac(v)
  \/ \E x \in {"out", "ena"} : \E p \in Port : ClickPort(x, p) \/ OtherProgram(x, p)
  \/ \E x \in {"out", "ena"} : ClickGroup(x)
  \/ PortsTimer
  \/ \E i \in Actuator : \E ok \in BOOLEAN : ClickActuator(i, ok)
  \/ \E ok \in BOOLEAN : ClickActuators(ok)
  \/ \E v \in Offered["selftest"] : SelectSelftest(v)
  \/ \E n \in Offered["code"] : EditCode(n)
  \/ \E v \in Offered["place"] : EditPlace(v)
  \/ \E n \in Offered["label"] : EditLabel(n)
  \/ \E v \in Offered["net"] : EditNet(v)
  \/ ClickDhcp \/ ClickFtp
  \/ \E v \in Offered["timeout"] : EditTimeout(v)
  \/ \E v \in Offered["radios"] : ClickRadios(v)
  \/ IpTimer
  \/ \E x \in {"master", "slave"} : ClickLines(x)
  \/ ClickMaster \/ ClickSlave \/ SyncTimer
  \/ \E v \in Offered["ptp"] : EditDomain(v) \/ EditPriority(v)
  \/ \E s \in {0, 1} : SelectStart(s)
  \/ ClickEndless
  \/ \E v \in Offered["minutes"] : EditDuration(v)
  \/ ClickGenerator
  \/ \E v \in Offered["offset"] : EditOffset(v) \/ EditSine(v)
  \/ ClickPps
  \/ \E fails \in SUBSET {"ip", "id", "sync"} : PressOk(fails)
  \/ PressCancel

TabsSpec == TabsInit /\ [][TabsNext]_tabVars

----------------------------------------------------------------------------
\* After Cancel a device is as it was when the dialog opened
\* (properties_dlg_common.cpp:468), even where another program switched its
\* ports meanwhile.  Actuators and metadata are not restored: they are written
\* at once and the snapshot of a device (device_std.cpp:37) has neither.
CancelGivesBack ==
  left = "cancel" =>
    \A x \in DOMAIN device \ {"act", "code", "place"} : device[x] = was.opened[x]

\* What becomes of a choice where it does not fit the device.
Fits(x) ==
  CASE x = "label" -> was.chosen.label <= 30
    [] x = "timeout" -> was.chosen.timeout <= 1092 /\ ~was.putBack
    [] x = "radios" -> ~was.putBack
    [] x \in {"out", "ena"} -> ~was.disturbed
    [] x = "ptp" -> /\ was.chosen.ptp.number < 256 /\ was.chosen.ptp.priority < 256
                    /\ ~(unit.oldGps /\ was.chosen.ptp.slave)
    [] x = "lines" -> was.chosen.lines # "partly"
    [] x = "start" -> was.chosen.start # Undefined
    [] x = "minutes" -> was.chosen.minutes <= 30
    [] OTHER -> TRUE

\* After OK (properties_dlg_common.cpp:430) every setting whose page was filled
\* from the device is what the user chose last, or what it was; whichever page
\* was in front, and whatever a timer or a page coming to the front read again
\* (sync_tab.cpp:325-505).  Fits names the choices that do not survive.
OkWritesChoices ==
  left = "ok" =>
    \A x \in was.trusted \ was.lost :
      Fits(x) =>
        CASE x = "timeout" -> device.timeout = 60 * was.chosen.timeout
          [] x = "gen" -> /\ device.gen.on = was.chosen.gen.on
                          /\ device.gen.offset = was.chosen.gen.offset
                          /\ "sine" \in unit.tabs => device.gen = was.chosen.gen
          [] OTHER -> device[x] = was.chosen[x]
=============================================================================
