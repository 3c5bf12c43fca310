----------------------------- MODULE ChannelTab -----------------------------
(***************************************************************************)
(* The page of one channel or of a group of channels.  Every edit takes    *)
(* effect at once, on the object, the driver and the recorder; snapshots   *)
(* taken when the page opened undo it when the dialog is cancelled.  In a  *)
(* group some edits concern the channel that is shown (cur), some every    *)
(* member, some whole modules through the first member.                    *)
(*                                                                         *)
(* One behaviour is one dialog over channels in any consistent state.      *)
(***************************************************************************)
EXTENDS Channel, Functions

CONSTANTS
  Groups,      \* the sequences of channels a dialog may be opened for
  MaxEdits,    \* bound on the number of edits
  Start,       \* the states the channels may be in before
  Clips        \* what an earlier dialog may have left in the clipboard

\* What the hardware cannot do is off, and the filter is a mode of the input.
Consistent(c, s) ==
  /\ c \notin HasIcp => s.icp = 0
  /\ c \notin HasCharge => s.charge = 0
  /\ c \notin HasDiff => s.diff = 0
  /\ c \notin HasIcp \ Zsp => s.tenso = 0
  /\ IF c \in HasInputMode THEN s.hpf = 1 <=> s.mode = 2 ELSE s.mode = 0

States == {s \in [Channel -> ChannelState] : \A c \in Channel : Consistent(c, s[c].now)}

\* The snapshot of some channel.
Snapshot(s) == s \in Settings /\ (s.hpf = 0 => s.mode # 2)

ASSUME TabAssumption ==
  /\ Groups \subseteq Seq(Channel) \ {<< >>}
  /\ Start \subseteq States
  /\ \A q \in Clips : q = << >> \/ (q = << q[1] >> /\ Snapshot(q[1]))

VARIABLES
  ch,          \* the channels
  gui,         \* "closed", "open", "cancelled", "ok"
  members,     \* channels_
  cur,         \* channel_
  mementos,    \* the snapshots, one per member
  form,        \* what the boxes of the page show
  live,        \* the boxes that can be clicked
  clip,        \* the clipboard: a sequence of at most one snapshot
  teds,        \* is a thread reading a sensor's TEDS
  edits        \* number of edits so far

tabVars == << ch, gui, members, cur, mementos, form, live, clip, teds, edits >>

Box == {"icp", "charge", "tenso", "hpf", "diff", "self", "noise"}

TabInit ==
  /\ ch \in Start
  /\ gui = "closed" /\ members = << >> /\ cur = (CHOOSE c \in Channel : TRUE) /\ mementos = << >>
  /\ form = [b \in Box |-> 0] /\ live = {}
  /\ clip \in Clips /\ teds = FALSE /\ edits = 0

Group == Len(members) > 1
Members == Range(members)
Shown == cur \notin FeedBack

\* What the page writes to: every member of a group, else the channel.
Target == IF Group THEN Members ELSE {cur}

----------------------------------------------------------------------------
\* The boxes.

\* The conditions under which a handler enables a box.
CanClick(s, c) ==
  LET now == s[c].now
      icpShown == c \in HasIcp /\ now.icp = 1 /\ now.tenso = 0
  IN  [icp    |-> now.on = 1 /\ now.charge = 0 /\ now.tenso = 0,
       charge |-> now.on = 1 /\ now.icp = 0 /\ now.tenso = 0,
       tenso  |-> now.on = 1 /\ now.charge = 0 /\ ~icpShown,
       hpf    |-> now.on = 1 /\ (c \in HasInputMode => now.mode \notin {1, 3}),
       diff   |-> now.on = 1,
       self   |-> now.on = 1 /\ c \in HasInputMode /\ now.mode \notin {2, 3},
       noise  |-> now.on = 1 /\ c \in HasInputMode /\ now.mode \notin {1, 2}]

\* The boxes after those of S were set anew for channel c in state s.
Enable(s, c, S) ==
  (live \ S) \cup {b \in S : CanClick(s, c)[b]}

FormOf(s, c) ==
  LET now == s[c].now
  IN  [icp |-> IF now.icp = 1 /\ now.tenso = 0 THEN 1 ELSE 0,
       charge |-> now.charge, tenso |-> now.tenso, hpf |-> now.hpf,
       diff |-> now.diff, self |-> IF now.mode = 1 THEN 1 ELSE 0,
       noise |-> IF now.mode = 3 THEN 1 ELSE 0]

\* SetAdapter: the page shows c; reading the input mode changes the object.
Adapt(s, c) ==
  IF c \in HasInputMode THEN [s EXCEPT ![c].want = s[c].now.mode] ELSE s

Show(s, c) ==
  /\ ch' = Adapt(s, c) /\ cur' = c
  /\ form' = FormOf(s, c) /\ live' = {b \in Box : CanClick(s, c)[b]}

\* SetAdapter_s and SetAdapter.  What stands for the gain in the snapshot of
\* a module's channel is not initialised.
Open(g, junk) ==
  /\ gui = "closed" /\ gui' = "open"
  /\ members' = g
  /\ mementos' = [i \in DOMAIN g |-> Backup(ch, g[i], junk)]
  /\ Show(ch, g[1])
  /\ UNCHANGED << clip, teds, edits >>

Edit ==
  /\ gui = "open" /\ edits < MaxEdits /\ edits' = edits + 1
  /\ UNCHANGED << gui, members, cur, mementos >>

Click(b) == Edit /\ Shown /\ b \in live /\ UNCHANGED << clip, teds >>

----------------------------------------------------------------------------
\* Fields.

\* s with field f of every channel in S set to v.
Texts(s, S, f, v) == WithTexts(s, S, [g \in {f} |-> v], {f})

Write(S, f, v) ==
  Edit /\ Shown /\ ch' = Texts(ch, S, f, v)
    /\ UNCHANGED << form, live, clip, teds >>

\* Name and comment cannot be edited in a group.
EditName(v) == ~Group /\ Write({cur}, "name", v)
EditComment(v) == ~Group /\ Write({cur}, "comment", v)

EditCoordinate(v) == ~Group /\ Write(Target, "coord", v)

EditLevel(f, v) == f \in {"reference", "shift", "amplify"} /\ Write(Target, f, v)

EditSense(v) == Write(Target, "sense", v)

\* Another unit of sensitivity: the sensitivity shown is converted and written.
SelectUnitSense(v, sense) ==
  /\ Edit /\ Shown
  /\ ch' = Texts(Texts(ch, Target, "unitSense", v), Target, "sense", sense)
  /\ UNCHANGED << form, live, clip, teds >>

EditUnit(v) == Write(Target, "unit", v)

\* Another unit of measurement, with its reference value.
SelectUnit(v, sense, reference) ==
  /\ Edit /\ Shown
  /\ ch' = Texts(Texts(Texts(ch, Target, "unit", v), Target, "sense", sense),
                 Target, "reference", reference)
  /\ UNCHANGED << form, live, clip, teds >>

SelectResistance(v) ==
  /\ Edit /\ cur \in HasInputMode
  /\ ch' = Texts(ch, Target, "resistance", v)
  /\ UNCHANGED << form, live, clip, teds >>

----------------------------------------------------------------------------
\* Inputs.

\* OnHpfOnOff, called in state s with box value v.
HpfOn(s, v) == ForEach(s, Target, LAMBDA t, c : SetHpf(t, c, v))

HpfBoxes(s) ==
  Enable(s, IF Group THEN members[Len(members)] ELSE cur, {"self", "noise"})

ClickHpf(v) ==
  /\ Click("hpf") /\ ch' = HpfOn(ch, v)
  /\ form' = [form EXCEPT !.hpf = v] /\ live' = HpfBoxes(ch')

\* The masks OnIcpOnOff gathers; it sends them through the first member.
MaskOf(m) == {Number[c] : c \in {d \in Members \ (Zsp \cup FeedBack) : Module[d] = m}}

MaskModules == {Module[c] : c \in Members \ (Zsp \cup FeedBack)}

IcpOfGroup(s, v) ==
  SetIcpMask(PutAndSave(s, Members \cap Zsp \cap HasIcp, "icp", v), members[1],
             [m \in MaskModules |-> MaskOf(m)], v)

\* OnIcpOnOff with box value v: the high-pass filter follows, unless every
\* channel is in a test mode.
Icp(s, v) ==
  LET icp == IF Group THEN IcpOfGroup(s, v) ELSE SetIcp(s, cur, v)
      follows == \E c \in Target : icp[c].now.mode \notin {1, 3}
      hpf == IF follows THEN v ELSE form.hpf
      last == IF Group THEN members[Len(members)] ELSE cur
      after == HpfOn(icp, hpf)
  IN  [ch |-> after, hpf |-> hpf,
       live |-> (Enable(icp, last, {"charge", "tenso"}) \ {"self", "noise"})
                  \cup {b \in {"self", "noise"} : CanClick(after, last)[b]}]

ClickIcp(v) ==
  /\ Click("icp") /\ cur \in HasIcp
  /\ LET r == Icp(ch, v)
     IN  /\ ch' = r.ch /\ live' = r.live
         /\ form' = [form EXCEPT !.icp = v, !.hpf = r.hpf]

\* OnChargeOnOff with box value v.
ClickCharge(v) ==
  /\ Click("charge") /\ cur \in HasCharge
  /\ ch' = HpfOn(SetCharge(ch, cur, v), v)
  /\ form' = [form EXCEPT !.charge = v, !.hpf = v]
  /\ live' = (Enable(ch', cur, {"icp", "tenso"}) \ {"self", "noise"})
               \cup (HpfBoxes(ch') \cap {"self", "noise"})

\* OnTensoIcpOnOff: sensitivity, units and reference take preset values, for
\* the whole group.
ClickTenso(v, preset) ==
  /\ Click("tenso") /\ cur \in HasIcp \ Zsp
  /\ LET tenso == SetTenso(ch, cur, v)
         texts == WithTexts(tenso, Target, [f \in Text |-> preset],
                            {"reference", "sense", "unit", "unitSense"})
     IN  ch' = HpfOn(texts, v)
  /\ form' = [form EXCEPT !.tenso = v, !.hpf = v]
  /\ live' = ((Enable(ch', cur, {"icp"}) \ {"charge", "self", "noise"})
                \cup (HpfBoxes(ch') \cap {"self", "noise"}))
             \cup (IF ch'[cur].now.on = 1 /\ v = 0 THEN {"charge"} ELSE {})

\* The values a change of the tenso settings gives to the group.
TensoSettings(sense, unit, reference) ==
  /\ Edit /\ form.tenso = 1 /\ "tenso" \in live
  /\ ch' = Texts(Texts(Texts(ch, Target, "sense", sense), Target, "unit", unit),
                 Target, "reference", reference)
  /\ UNCHANGED << form, live, clip, teds >>

\* OnInphDiff: the group's mask goes to the module of its first member.
ClickDiff(v) ==
  /\ Click("diff") /\ cur \in HasDiff
  /\ LET mask == {Number[c] : c \in Members \ FeedBack}
         zsp == ForEach(ch, Members \cap Zsp, LAMBDA s, c : SetDiff(s, c, v, FALSE))
     IN  ch' = IF Group THEN SetDiffMask(zsp, members[1], mask, v)
               ELSE SetDiff(ch, cur, v, TRUE)
  /\ form' = [form EXCEPT !.diff = v] /\ UNCHANGED live

ClickSelfTest(v) ==
  /\ Click("self") /\ ch' = SetInputMode(ch, cur, v)
  /\ form' = [form EXCEPT !.self = v]
  /\ live' = Enable(ch', cur, {"hpf", "noise"})

ClickNoise(v) ==
  /\ Click("noise") /\ ch' = SetInputMode(ch, cur, 3 * v)
  /\ form' = [form EXCEPT !.noise = v]
  /\ live' = Enable(ch', cur, {"hpf", "self"})

\* OnRangeChangeRequest: the recorder's members step for themselves, the first
\* member speaks for the masked inputs of its module.
StepRange(up) ==
  /\ Edit /\ Shown
  /\ LET mask == {Number[c] : c \in Members \ FeedBack}
         zsp == ForEach(ch, Members \cap Zsp, LAMBDA s, c : StepGain(s, c, up, FALSE))
     IN  ch' = IF Group THEN StepGainMask(zsp, members[1], mask, up)
               ELSE StepGain(ch, cur, up, TRUE)
  /\ UNCHANGED << form, live, clip, teds >>

\* OnEnableDisable: only the outputs of generators show the box.
ClickState(v) ==
  /\ Edit /\ ~Shown /\ CanToggle(ch, cur)
  /\ ch' = SetEnabled(ch, cur, v)
  /\ live' = Enable(ch', cur, {"diff", "icp", "charge", "hpf"})
  /\ UNCHANGED << form, clip, teds >>

----------------------------------------------------------------------------
\* A sensor, TEDS, the clipboard.

\* OnSensorSelect: the old kind of supply is switched off before the new one is
\* switched on; a sensor has ICP or a charge amplifier or neither.
SelectSensor(v, icp, charge, hpf) ==
  /\ Edit /\ Shown /\ ~Group /\ icp + charge <= 1
  /\ LET on == IF icp = 1
               THEN Icp(HpfOn(SetCharge(ch, cur, charge), charge), icp).ch
               ELSE HpfOn(SetCharge(Icp(ch, icp).ch, cur, charge), charge)
         texts == WithTexts(on, {cur}, [f \in Text |-> v], Text)
         supply == SetCharge(SetIcp(SetHpf(texts, cur, hpf), cur, icp), cur, charge)
     IN  ch' = IF icp = 1 THEN supply ELSE SetTenso(supply, cur, 0)
  /\ form' = [form EXCEPT !.icp = icp, !.charge = charge, !.tenso = 0, !.hpf = hpf]
  /\ live' = Enable(ch', cur, {"icp", "charge", "tenso", "self", "noise"})
  /\ UNCHANGED << clip, teds >>

StartTeds ==
  /\ Edit /\ Shown /\ ~teds /\ teds' = TRUE
  /\ UNCHANGED << ch, form, live, clip >>

\* OnStateTeds: a sensor with TEDS is an ICP sensor.
TedsRead(v) ==
  /\ gui = "open" /\ teds /\ teds' = FALSE
  /\ LET texts == Texts(Texts(Texts(Texts(ch, {cur}, "comment", v), {cur}, "unitSense", v),
                              Target, "unit", v), Target, "sense", v)
         set == form.icp = 0
     IN  /\ ch' = IF set THEN SetCharge(SetIcp(texts, cur, 1), cur, 0) ELSE texts
         /\ form' = IF set THEN [form EXCEPT !.icp = 1, !.charge = 0] ELSE form
  /\ UNCHANGED << gui, members, cur, mementos, live, clip, edits >>

\* The sensor could not be read, or the window is gone.
TedsFails ==
  /\ teds /\ teds' = FALSE
  /\ UNCHANGED << ch, gui, members, cur, mementos, form, live, clip, edits >>

Copy(junk) ==
  /\ Edit /\ clip' = << Backup(ch, cur, junk) >>
  /\ UNCHANGED << ch, form, live, teds >>

\* PasteFromClipboard: each member takes the snapshot and its own name back;
\* the page ends up showing the last one.
PasteInto(s, i) ==
  SetText(Adapt(Restore(s, members[i], clip[1]), members[i]), members[i], "name",
          mementos[i].text.name)

Paste ==
  /\ gui = "open" /\ edits < MaxEdits /\ edits' = edits + 1
  /\ clip # << >>
  /\ LET last == members[Len(members)]
         all == InTurn(ch, Len(members), PasteInto)
     IN  /\ ch' = all /\ cur' = last
         /\ form' = FormOf(all, last) /\ live' = {b \in Box : CanClick(all, last)[b]}
  /\ UNCHANGED << gui, members, mementos, clip, teds >>

----------------------------------------------------------------------------
\* The end.

\* WriteNewDataOnOK: what the page shows of five fields and of the gain goes
\* to every member, edited or not.
Ok ==
  /\ gui = "open" /\ gui' = "ok"
  /\ LET texts == WithTexts(ch, Target, ch[cur].now.text,
                            {"sense", "unitSense", "reference", "shift", "amplify"})
     IN  ch' = IF Group THEN PutAndSave(texts, Members \ FeedBack, "gain", ch[cur].now.gain)
               ELSE texts
  /\ UNCHANGED << members, cur, mementos, form, live, clip, teds, edits >>

\* OnUserCancel counts the snapshots it passes only at inputs of modules: after
\* an output or a recorder's channel the count lags behind the member.
Plain(i) == members[i] \notin Zsp \cup FeedBack

Slot(i) == 1 + Cardinality({j \in 1..(i - 1) : Plain(j)})

Was(i) == mementos[Slot(i)]

\* The inputs of a module that had, or had not, ICP according to the snapshots.
Had(m, v) ==
  {Number[members[i]] :
     i \in {j \in DOMAIN members : Plain(j) /\ Module[members[j]] = m /\ Was(j).icp = v}}

OffAgain(s, modules) ==
  SetIcpMask(s, cur, [m \in {n \in modules : Had(n, 0) # {}} |-> Had(m, 0)], 0)

\* One snapshot per module is restored, that of the first member with ICP.
FirstOfModule(i) ==
  /\ Plain(i) /\ Was(i).icp = 1
  /\ \A j \in 1..(i - 1) :
       ~(Plain(j) /\ Was(j).icp = 1 /\ Module[members[j]] = Module[members[i]])

\* A recorder's channel is told at once, modules after the snapshots were looked
\* through.
RecorderUndone(s, i) ==
  IF members[i] \notin Zsp THEN s
  ELSE SetGain(SetIcp(s, members[i], Was(i).icp), members[i], Was(i).gain)

ModuleUndone(s, i) ==
  IF ~FirstOfModule(i) THEN s
  ELSE LET m == Module[members[i]]
       IN  OffAgain(RestoreMask(s, members[Slot(i)], m, Had(m, 1), Was(i)), {m})

GroupUndone ==
  LET zsp == InTurn(ch, Len(members), RecorderUndone)
      on == InTurn(zsp, Len(members), ModuleUndone)
  IN  OffAgain(on, {m \in MaskModules : Had(m, 1) = {}})

Cancel ==
  /\ gui = "open" /\ gui' = "cancelled"
  /\ ch' = IF Group THEN GroupUndone ELSE Restore(ch, members[1], mementos[1])
  /\ UNCHANGED << members, cur, mementos, form, live, clip, teds, edits >>

\* Escape in a field of the page closes the page, not the dialog, and restores
\* the first member with the mask of the group.
Escape ==
  /\ gui = "open" /\ gui' = "cancelled"
  /\ LET mask == {Number[c] : c \in Members \ FeedBack}
     IN  ch' = IF Group THEN RestoreOwnMask(ch, members[1], mask, mementos[1])
               ELSE Restore(ch, members[1], mementos[1])
  /\ UNCHANGED << members, cur, mementos, form, live, clip, teds, edits >>

----------------------------------------------------------------------------
TabNext ==
  \/ \E g \in Groups, junk \in 0..MaxGain : Open(g, junk)
  \/ \E v \in Value : EditName(v) \/ EditComment(v) \/ EditCoordinate(v)
       \/ EditSense(v) \/ EditUnit(v) \/ SelectResistance(v)
  \/ \E v \in Value, f \in {"reference", "shift", "amplify"} : EditLevel(f, v)
  \/ \E v, w \in Value : SelectUnitSense(v, w)
  \/ \E v, w, x \in Value : SelectUnit(v, w, x) \/ TensoSettings(v, w, x)
  \/ \E b \in Bit : ClickHpf(b) \/ ClickIcp(b) \/ ClickCharge(b) \/ ClickDiff(b)
       \/ ClickSelfTest(b) \/ ClickNoise(b) \/ ClickState(b)
  \/ \E b \in Bit, v \in Value : ClickTenso(b, v)
  \/ \E up \in BOOLEAN : StepRange(up)
  \/ \E v \in Value, icp, charge, hpf \in Bit : SelectSensor(v, icp, charge, hpf)
  \/ StartTeds \/ TedsFails \/ \E v \in Value : TedsRead(v)
  \/ \E junk \in 0..MaxGain : Copy(junk)
  \/ Paste \/ Ok \/ Cancel \/ Escape

TabSpec == TabInit /\ [][TabNext]_tabVars

----------------------------------------------------------------------------
\* An input with a high-pass filter is in the mode of that filter, whatever
\* the boxes, sensors, pastes and cancellations did (chan.cpp:1006, 1794).
ModeFollowsFilter ==
  \A c \in HasInputMode : ch[c].now.hpf = 1 <=> ch[c].now.mode = 2

\* Channel c is as snapshot s has it.  A snapshot of a module's input does not
\* hold the gain (chan.cpp:56).
Undone(c, s) ==
  IF c \in Zsp THEN ch'[c].now = s
  ELSE [ch'[c].now EXCEPT !.gain = 0] = [s EXCEPT !.gain = 0]

Restorable(s) == s.icp + s.charge < 2 /\ (s.tenso = 1 => s.icp = 1)

\* Cancelling the dialog of one channel gives everything back that its snapshot
\* holds (channel_tab.cpp:1926), unless ICP and charge amplifier were both on,
\* which ICP for several channels brings about (chan.cpp:1563), or the ICP of a
\* bridge was off, which the menu brings about (main_dlg.cpp:2500).
CancelUndoes ==
  [][gui = "open" /\ gui' = "cancelled" /\ ~Group /\ Restorable(mementos[1])
       => Undone(members[1], mementos[1])]_tabVars

\* "The Cancel button in the group window, to return ICP and the other
\* channels" (channel_tab.cpp:1926).
IcpReturns ==
  [][Cancel => \A i \in DOMAIN members :
                 ch'[members[i]].now.icp = mementos[i].icp]_tabVars
=============================================================================
