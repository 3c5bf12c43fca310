----------------------------- MODULE Zet037Tab -----------------------------
(***************************************************************************)
(* The page of a strain-gauge input of ZET 037.  What a channel measures   *)
(* is chosen from four lists that depend on each other, sensor, wiring     *)
(* scheme, load of the bridge and unit; the sensitivity is computed from   *)
(* them and from the numbers typed below.  Sensor, scheme, excitation and  *)
(* the kind of bridge are common to a slot: a choice is handed to the      *)
(* other channels of the slot, which learn nothing of the rest.            *)
(*                                                                         *)
(* Every handler reads the controls into members, works on members and     *)
(* channel, and writes the members back.  A choice works through the lists *)
(* one after another, and each of them may change the channel again.       *)
(***************************************************************************)
EXTENDS Integers, Sequences

CONSTANTS
  Channel,
  Slot,          \* Slot[c]: the slot of the module c belongs to
  ResistorUnits, \* the units a strain gauge may be read in
  FirstUnit,     \* the first of them in the list
  Stress,        \* those of them that need Young's modulus
  Moment,        \* those that need the diameters of the shaft, too
  PlainUnits,    \* the units offered for other sensors
  Dimension,     \* Dimension[u], Power[u]: u is 1000^Power of the basic unit
  Power,
  Bad,           \* a text that is no number
  Typed,         \* Typed[n]: what the user may type for the number n
  Full037,       \* states the channels may be in before
  LoadsTried,    \* bound: the loads the user chooses
  Clips037,      \* channels the clipboard may hold
  MaxChoices     \* bound on what the user does

\* The settings of a channel.
Field037 ==
  {"sensor", "scheme", "mode", "exc", "unit", "unitSense", "sense", "k", "poisson", "modulus",
   "outer", "inner", "range", "output", "resistance", "nsh", "tc"}

Celsius == "Celsius"

\* The handlers of the diameters keep them in order only so far: an outer one
\* above the limit is cut to the limit even below the inner one, and an inner
\* one below zero is raised to zero even above the outer one.
DiametersFit(r) ==
  /\ r.inner \in Int /\ r.outer \in Int
  /\ r.inner <= r.outer \/ r.inner > 10 \/ r.outer < 0

ASSUME Zet037Assumption ==
  /\ Stress \cap Moment = {} /\ Stress \cup Moment \subseteq ResistorUnits
  /\ FirstUnit \in ResistorUnits \ (Stress \cup Moment)
  /\ DOMAIN Typed \subseteq {"exc", "k", "poisson", "modulus", "outer", "inner", "range", "output",
                           "resistance", "sense", "nsh", "tc"}
  /\ \A n \in {"outer", "inner"} \cap DOMAIN Typed : Typed[n] \subseteq Int \cup {Bad}
  /\ Celsius \notin ResistorUnits
  /\ \A r \in Clips037 : r = [f \in Field037 |-> r[f]] /\ DiametersFit(r)
  /\ \A all \in Full037 : /\ all = [c \in Channel |-> all[c]]
                          /\ \A c \in Channel : /\ all[c] = [f \in Field037 |-> all[c][f]]
                                                /\ DiametersFit(all[c])

VARIABLES
  chan,          \* chan[c]: the settings of a channel
  shownOn,      \* m_channel, or NoChannel
  memento,
  form,          \* the controls and the members that hold their texts
  service,       \* the service mode of the module
  own,           \* history: channels whose scheme was last chosen on their page
  agreed,        \* history: slots with no Esc and no Paste since the last choice
  choices

zetVars == << chan, shownOn, memento, form, service, own, agreed, choices >>

NoChannel == "none"
NoMode037 == [bridge |-> "none", load |-> "none"]
----------------------------------------------------------------------------
\* Sensors, schemes and loads.

Sensors == {"resistor", "sensor", "lvdt", "tr", "tc", "diff_u", "single_u", "current", "user"}

Quarters == {"quarter_r1_i", "quarter_r2_i", "quarter_r3_i", "quarter_r4_i"}

\* The sensors that are connected in one way.
OnlyScheme ==
  [lvdt |-> "lvdt_u", tr |-> "tr_i", tc |-> "tc_u", diff_u |-> "diff_t", single_u |-> "single_t",
   current |-> "current_t"]

\* The schemes the page offers for a sensor, and the first of the list.
SchemesOf(sensor) ==
  IF sensor \in DOMAIN OnlyScheme THEN {OnlyScheme[sensor]}
  ELSE {"full_4w_i", "full_6w_u"} \cup (IF service THEN {"full_4w_u"} ELSE {})
       \cup (IF sensor = "sensor" THEN {} ELSE {"half_3w_i", "half_5w_u"} \cup Quarters)

FirstScheme(sensor) ==
  IF sensor \in DOMAIN OnlyScheme THEN OnlyScheme[sensor] ELSE "full_4w_i"

\* is_tenso_scheme_quarter, _half and _full
BridgeOf(scheme) ==
  CASE scheme \in Quarters -> "quarter"
    [] scheme = "half_3w_i" -> "half3"
    [] scheme = "half_5w_u" -> "half5"
    [] scheme \in {"full_4w_i", "full_4w_u"} -> "full4"
    [] scheme = "full_6w_u" -> "full6"
    [] OTHER -> "none"

\* How the gauges of a bridge may be loaded: tension, bending, torsion.
LoadsOf(bridge) ==
  CASE bridge = "quarter" -> {"tc1", "tc2", "tc3", "b1"}
    [] bridge \in {"half3", "half5"} -> {"tc1", "tc2", "tc3", "tc4", "b1", "b2", "t1"}
    [] bridge \in {"full4", "full6"} ->
         {"tc1", "tc2", "tc3", "tc4", "tc5", "tc6", "tc7", "tc8", "b1", "b2", "b3", "t1", "t2"}
    [] OTHER -> {}

ModesOf(scheme) == {[bridge |-> BridgeOf(scheme), load |-> l] : l \in LoadsOf(BridgeOf(scheme))}

\* The first load of the list; where the list is empty no load at all.
FirstMode(scheme) ==
  IF ModesOf(scheme) = {} THEN NoMode037 ELSE [bridge |-> BridgeOf(scheme), load |-> "tc1"]

Torsion(mode) == mode.load \in {"t1", "t2"}

Lateral(mode) == mode.load \in {"tc4", "tc5", "tc8"}

Gain(mode) ==
  CASE mode.load \in {"b3", "t2"} -> 4
    [] mode.load \in {"tc2", "tc5", "tc6", "tc7", "tc8", "b2", "t1"}
         /\ mode.bridge # "quarter" -> 2
    [] OTHER -> 1

\* Mutant: a load the bridge does not know counts as one it knows.
CompatibleAnyway(m1, m2) == m1.bridge = m2.bridge \/ m2 = NoMode037

\* is_compatible
Compatible(m1, m2) == m1.bridge = m2.bridge /\ m1 # NoMode037

\* The units offered for a strain gauge.
UnitsFor(mode) ==
  IF Torsion(mode) THEN ResistorUnits ELSE ResistorUnits \ Moment

\* What the sensitivity of a strain gauge is computed from.
BridgeSense(r, u) ==
  << "bridge", r.k, Gain(r.mode), IF Lateral(r.mode) \/ u \in Moment THEN r.poisson ELSE 0,
     IF u \in ResistorUnits THEN u ELSE "",
     IF u \in Stress \cup Moment THEN r.modulus ELSE 0,
     IF u \in Moment THEN << r.outer, r.inner >> ELSE << >> >>

\* The unit of the sensitivity that belongs to a scheme.
UnitSenseFor(scheme) ==
  CASE scheme \in {"diff_t", "single_t"} -> "V"
    [] scheme = "current_t" -> "mA"
    [] OTHER -> "mV/V"

\* How a bridge is connected; the quarters differ in their resistor.
Connection(scheme) ==
  CASE scheme \in {"quarter_r1_i", "quarter_r2_i"} -> "quarter_r1"
    [] scheme \in {"quarter_r3_i", "quarter_r4_i"} -> "quarter_r2"
    [] OTHER -> BridgeOf(scheme)

\* The stick with its gauges, and how they are connected; no picture for a
\* load that does not belong to the scheme.
StickFor(scheme, mode) ==
  IF mode.bridge = BridgeOf(scheme) THEN << mode.load, Connection(scheme), mode.load >> ELSE << >>

\* get_scheme_pictures
PicturesFor(scheme, sensor, mode) ==
  CASE sensor = "resistor" -> StickFor(scheme, mode)
    [] sensor = "sensor" -> << BridgeOf(scheme) >>
    [] sensor = "user" -> << Connection(scheme) >>
    [] OTHER -> << sensor >>

\* What the page shows for a strain gauge, a load and a unit.
GaugeFields(mode, u) ==
  {"exc", "resistance", "unitEx", "k", "mode"}
  \cup (IF Lateral(mode) THEN {"poisson"}
        ELSE IF Torsion(mode) /\ u \in Moment THEN {"poisson", "outer", "inner"} ELSE {})
  \cup (IF u \in Stress \cup Moment THEN {"modulus"} ELSE {})

\* What the page shows for a sensor.
ShownFor(sensor, mode, u) ==
  CASE sensor = "resistor" -> GaugeFields(mode, u)
    [] sensor = "sensor" -> {"exc", "resistance", "unit", "range", "output"}
    [] sensor = "lvdt" -> {"exc", "unit", "range", "output"}
    [] sensor = "tr" -> {"exc", "nsh"}
    [] sensor = "tc" -> {"exc", "tc"}
    [] sensor = "user" -> {"exc", "resistance", "sense", "unit"}
    [] OTHER -> {"sense", "unit"}

----------------------------------------------------------------------------
\* The steps a handler is made of.  s holds the channels, the page and the
\* histories; c is the channel that is shown.

\* zsp_config::on_change_common_parameter
Notify(c, s) ==
  LET r == s.chan[c]
  IN  [s EXCEPT !.agreed = @ \cup {Slot[c]},
         !.own = {x \in @ : x = c \/ Slot[x] # Slot[c] \/ s.chan[x].scheme = r.scheme},
         !.chan = [x \in Channel |->
            IF x = c \/ Slot[x] # Slot[c] THEN s.chan[x]
            ELSE [s.chan[x] EXCEPT !.exc = r.exc, !.scheme = r.scheme, !.sensor = r.sensor,
                    !.mode = IF Compatible(r.mode, @) THEN @ ELSE r.mode]]]

\* UpdateData(TRUE) and UpdateData(FALSE)
ReadControls(s) ==
  [s EXCEPT !.form.unit = s.form.unitText, !.form.unitSense = s.form.unitSenseText]
WriteControls(s) ==
  [s EXCEPT !.form.unitText = s.form.unit, !.form.unitSenseText = s.form.unitSense]

\* update_sense: the edit gets the number, and its handler sets it.
UpdateSense(c, s) ==
  LET r == s.chan[c]
      v == CASE r.sensor = "resistor" -> [of |-> BridgeSense(r, s.form.unit), power |-> 0]
             [] r.sensor \in {"sensor", "lvdt", "tr", "tc"} ->
                  [of |-> << "ratio", r.output, r.range >>, power |-> 0]
             [] OTHER -> r.sense
  IN  WriteControls([ReadControls(s) EXCEPT !.chan[c].sense = v])

\* update_visibility: the list of units of the sensitivity gets one line, or none.
UpdateVisibility(c, s) ==
  LET r == s.chan[c]
  IN  [s EXCEPT !.form.shown = ShownFor(r.sensor, r.mode, s.form.unit),
         !.form.unitSenseText =
            IF r.sensor \in {"tr", "tc"} THEN ""
            ELSE IF r.sensor = "current" THEN "mA"
            ELSE IF r.sensor \in {"diff_u", "single_u"} THEN "V" ELSE "mV/V"]

\* update_pictures
UpdatePictures(c, s) ==
  LET r == s.chan[c]
  IN  [s EXCEPT !.form.pictures = PicturesFor(r.scheme, r.sensor, r.mode)]

\* update_unit_combo: a unit that is not offered gives way to the first one;
\* Celsius goes into the member, not into the control.
UpdateUnitCombo(c, s) ==
  LET r == s.chan[c]
      offered == UnitsFor(r.mode)
      t == [s EXCEPT !.form.units = offered]
  IN  CASE r.sensor = "resistor" ->
             IF r.unit \in offered THEN t
             ELSE WriteControls([t EXCEPT !.form.unit = FirstUnit, !.chan[c].unit = FirstUnit])
        [] r.sensor \in {"tr", "tc"} ->
             [s EXCEPT !.form.unit = Celsius, !.chan[c].unit = Celsius]
        [] OTHER -> s

\* update_tenso_resistor_mode_combo: a load that is not offered gives way to
\* the first one; where none is offered to no load at all.
UpdateModeCombo(c, s) ==
  LET scheme == s.chan[c].scheme
      offered == ModesOf(scheme)
      t == [s EXCEPT !.form.modes = offered]
      u == IF t.chan[c].mode \in offered THEN t
           ELSE Notify(c, [t EXCEPT !.chan[c].mode = FirstMode(scheme)])
  IN  UpdateVisibility(c, UpdatePictures(c, UpdateUnitCombo(c, UpdateSense(c, u))))

\* on_scheme_changed; a list may change the unit only after the sensitivity was
\* computed, which is why it is computed again.
OnSchemeChanged(c, s) ==
  LET us == UnitSenseFor(s.chan[c].scheme)
      t == [WriteControls([s EXCEPT !.form.unitSense = us])
              EXCEPT !.chan[c].unitSense = us, !.own = @ \cup {c}]
  IN  UpdateVisibility(c, UpdatePictures(c, UpdateUnitCombo(c, UpdateSense(c,
        UpdateModeCombo(c, t)))))

\* update_tenso_scheme_combo: a scheme that is not offered gives way to the first.
UpdateSchemeCombo(c, s) ==
  LET sensor == s.chan[c].sensor
      t == [s EXCEPT !.form.schemes = SchemesOf(sensor)]
  IN  IF t.chan[c].scheme \in SchemesOf(sensor) THEN t
      ELSE OnSchemeChanged(c, Notify(c, [t EXCEPT !.chan[c].scheme = FirstScheme(sensor)]))

\* on_sensor_type_changed
OnSensorTypeChanged(c, s) ==
  UpdateVisibility(c, UpdatePictures(c, UpdateUnitCombo(c, UpdateSense(c,
    UpdateModeCombo(c, UpdateSchemeCombo(c, s))))))

\* update_sensor_type_combo: a sensor the program does not know becomes a gauge.
UpdateSensorTypeCombo(c, s) ==
  IF s.chan[c].sensor \in Sensors THEN s
  ELSE OnSensorTypeChanged(c, Notify(c, [s EXCEPT !.chan[c].sensor = "resistor"]))

\* update_nsh_combo, update_tc_type_combo: an unknown type becomes the first one.
UpdateThermometer(c, s) ==
  LET Known(v) == IF v < 0 THEN 0 ELSE v
  IN  [s EXCEPT !.chan[c].nsh = Known(@), !.chan[c].tc = Known(@)]

\* SetAdapter
SetAdapter037(c, s) ==
  LET r == s.chan[c]
      t == UpdateThermometer(c, WriteControls(
             [s EXCEPT !.form.unit = r.unit, !.form.unitSense = r.unitSense]))
  IN  UpdateVisibility(c, UpdateSense(c, UpdatePictures(c, UpdateUnitCombo(c,
        UpdateModeCombo(c, UpdateSchemeCombo(c, UpdateSensorTypeCombo(c, t)))))))

----------------------------------------------------------------------------
EmptyForm == [unit |-> "", unitText |-> "", unitSense |-> "", unitSenseText |-> "",
              shown |-> {}, schemes |-> {}, modes |-> {}, units |-> {}, pictures |-> << >>]

\* Do the channels of a slot have in common what is common to it?
Alike(all, k) ==
  \A x, y \in Channel :
    Slot[x] = k /\ Slot[y] = k =>
      /\ all[x].sensor = all[y].sensor /\ all[x].scheme = all[y].scheme
      /\ all[x].exc = all[y].exc /\ all[x].mode.bridge = all[y].mode.bridge

ZetInit ==
  /\ chan \in Full037 /\ service \in BOOLEAN
  /\ shownOn = NoChannel /\ memento = << >> /\ form = EmptyForm
  /\ own = {x \in Channel : chan[x].unitSense = UnitSenseFor(chan[x].scheme)}
  /\ agreed = {Slot[x] : x \in {x \in Channel : Alike(chan, Slot[x])}}
  /\ choices = 0

State037 == [chan |-> chan, form |-> form, own |-> own, agreed |-> agreed]

Becomes(s) == chan' = s.chan /\ form' = s.form /\ own' = s.own /\ agreed' = s.agreed

\* The page is opened for a channel.
OpenPage(c) ==
  /\ shownOn = NoChannel /\ shownOn' = c /\ memento' = chan[c]
  /\ Becomes(SetAdapter037(c, State037)) /\ UNCHANGED << service, choices >>

\* A handler of the page that is open.
Handles(s) ==
  /\ shownOn # NoChannel /\ choices < MaxChoices /\ choices' = choices + 1
  /\ Becomes(s) /\ UNCHANGED << shownOn, memento, service >>

\* OnSensorTypeSelect
SelectSensor(x) ==
  LET c == shownOn
  IN  Handles(OnSensorTypeChanged(c, Notify(c, [State037 EXCEPT !.chan[c].sensor = x])))

\* OnSchemeSelect
SelectScheme(x) ==
  LET c == shownOn
  IN  /\ x \in form.schemes
      /\ Handles(OnSchemeChanged(c, Notify(c, [State037 EXCEPT !.chan[c].scheme = x])))

\* Mutant: the sensitivity is not computed again.
SelectModeOnly(x) ==
  LET c == shownOn
  IN  /\ "mode" \in form.shown /\ x \in form.modes /\ x.load \in LoadsTried
      /\ Handles(UpdateVisibility(c, UpdatePictures(c, UpdateUnitCombo(c,
           Notify(c, [State037 EXCEPT !.chan[c].mode = x])))))

\* OnResistorModeSelect
SelectMode(x) ==
  LET c == shownOn
  IN  /\ "mode" \in form.shown /\ x \in form.modes /\ x.load \in LoadsTried
      /\ Handles(UpdateVisibility(c, UpdatePictures(c, UpdateSense(c, UpdateUnitCombo(c,
           Notify(c, [State037 EXCEPT !.chan[c].mode = x]))))))

\* OnUnitExSelect: the unit of a strain gauge.
SelectUnitEx(u) ==
  LET c == shownOn
  IN  /\ "unitEx" \in form.shown /\ u \in form.units
      /\ Handles(UpdateVisibility(c, UpdateSense(c, WriteControls(
           [State037 EXCEPT !.form.unit = u, !.chan[c].unit = u]))))

\* OnUnitSelect: the sensitivity follows a unit of the same dimension.
SelectUnit(u) ==
  LET c == shownOn
      t == ReadControls(State037)
      before == t.form.unit
      same == before \in DOMAIN Dimension /\ Dimension[before] = Dimension[u]
  IN  /\ "unit" \in form.shown /\ u \in PlainUnits
      /\ Handles(WriteControls([t EXCEPT !.form.unit = u, !.chan[c].unit = u,
           !.chan[c].sense.power = IF same THEN @ + Power[u] - Power[before] ELSE @]))

\* OnUnitChangeRequest: a unit is typed.
EditUnit(u) ==
  LET c == shownOn
  IN  /\ "unit" \in form.shown
      /\ Handles(WriteControls(ReadControls(
           [State037 EXCEPT !.form.unitText = u, !.chan[c].unit = u])))

\* OnExcKillfocusRequest: less than the least excitation only in service mode.
EditExc(v) ==
  LET c == shownOn
      least == IF service THEN 0 ELSE 1
      t == ReadControls(State037)
  IN  /\ "exc" \in form.shown
      /\ Handles(WriteControls(
           IF v = Bad THEN t
           ELSE Notify(c, [t EXCEPT !.chan[c].exc =
                             IF v < least THEN least ELSE IF v > 30 THEN 30 ELSE v])))

\* What becomes of a typed number; a thousandth is the least difference of the
\* diameters.  Upper ends that cannot be told apart are left out.
Accepted(n, v, r) ==
  CASE n \in {"k", "range", "output"} -> IF v = 0 THEN r[n] ELSE v
    [] n = "poisson" -> IF v < 0 THEN 0 ELSE IF v > 1 THEN 1 ELSE v
    [] n \in {"modulus", "resistance"} -> IF v < 1 THEN 1 ELSE v
    [] n = "outer" -> IF v < r.inner THEN r.inner + 1 ELSE IF v > 10 THEN 10 ELSE v
    [] n = "inner" -> IF v < 0 THEN 0 ELSE IF v > r.outer THEN r.outer - 1 ELSE v
    [] OTHER -> v

\* The handlers of the numbers: a text that is no number is put back.
EditNumber(n, v) ==
  LET c == shownOn
      t == ReadControls(State037)
      u == WriteControls(IF v = Bad THEN t
                         ELSE [t EXCEPT !.chan[c][n] = Accepted(n, v, chan[c])])
  IN  /\ n \in form.shown
      /\ Handles(IF n = "resistance" THEN u ELSE UpdateSense(c, u))

\* OnSenseKillfocusRequest, where the user may type.
EditSense(v) ==
  LET c == shownOn
      t == ReadControls(State037)
  IN  /\ "sense" \in form.shown
      /\ Handles(WriteControls(
           IF v \in {Bad, 0} THEN t
           ELSE [t EXCEPT !.chan[c].sense = [of |-> << "typed", v >>, power |-> 0]]))

\* OnNshSelect, OnTcTypeSelect
SelectThermometer(n, v) ==
  n \in form.shown /\ Handles([State037 EXCEPT !.chan[shownOn][n] = v])

\* Name, comment, coordinates and shift touch nothing but the texts.
EditRest == Handles(WriteControls(ReadControls(State037)))

\* channel::restore, which knows nothing of thermometers.
Restored(c, r) == [r EXCEPT !.nsh = chan[c].nsh, !.tc = chan[c].tc]

\* PasteFromClipboard: the channel becomes the other one, without its slot.
Paste(r) ==
  LET c == shownOn
      s == [State037 EXCEPT !.chan[c] = Restored(c, r), !.own = @ \ {c},
                        !.agreed = @ \ {Slot[c]}]
  IN  Handles(SetAdapter037(c, s))

\* The dialog is left with OK or with Cancel: the page does not handle the
\* message that the Cancel button sends to it, so nothing is taken back.
ClosePage ==
  /\ shownOn # NoChannel /\ shownOn' = NoChannel /\ form' = EmptyForm /\ memento' = << >>
  /\ UNCHANGED << chan, service, own, agreed, choices >>

\* OnCancel, the key Esc in a field of the page: this channel gets its settings
\* back, the others nothing.
CancelPage ==
  /\ shownOn # NoChannel /\ shownOn' = NoChannel /\ form' = EmptyForm /\ memento' = << >>
  /\ chan' = [chan EXCEPT ![shownOn] = Restored(shownOn, memento)]
  /\ own' = own \ {shownOn} /\ agreed' = agreed \ {Slot[shownOn]}
  /\ UNCHANGED << service, choices >>

ZetNext ==
  \/ \E c \in Channel : OpenPage(c)
  \/ \E x \in Sensors : SelectSensor(x)
  \/ \E x \in form.schemes : SelectScheme(x)
  \/ \E x \in form.modes : SelectMode(x)
  \/ \E u \in ResistorUnits : SelectUnitEx(u)
  \/ \E u \in PlainUnits : SelectUnit(u) \/ EditUnit(u)
  \/ \E v \in Typed["exc"] : EditExc(v)
  \/ \E n \in DOMAIN Typed \ {"exc", "sense", "nsh", "tc"} : \E v \in Typed[n] : EditNumber(n, v)
  \/ \E v \in Typed["sense"] : EditSense(v)
  \/ \E n \in {"nsh", "tc"} : \E v \in Typed[n] : SelectThermometer(n, v)
  \/ EditRest
  \/ \E r \in Clips037 : Paste(r)
  \/ ClosePage \/ CancelPage

ZetSpec == ZetInit /\ [][ZetNext]_zetVars

----------------------------------------------------------------------------
\* The page and the channel it shows never part, whatever was chosen before
\* (zet037_tenso_channel_tab.cpp:1411-1759): scheme and load are among the
\* offered ones, the pictures and the fields are those of the choices, and the
\* sensitivity of the channel is the one its own choices and numbers give, up
\* to a change of unit.  A thermometer's own unit never reaches the control.
FormFitsChannel ==
  shownOn # NoChannel =>
    LET r == chan[shownOn]
    IN  /\ r.scheme \in form.schemes /\ form.schemes = SchemesOf(r.sensor)
        /\ form.shown = ShownFor(r.sensor, r.mode, r.unit)
        /\ form.pictures = PicturesFor(r.scheme, r.sensor, r.mode)
        /\ r.sensor = "resistor" => /\ r.mode \in form.modes /\ r.mode.bridge = BridgeOf(r.scheme)
                                    /\ r.unit \in UnitsFor(r.mode)
                                    /\ r.sense.of = BridgeSense(r, r.unit)
        /\ r.sensor \in {"sensor", "lvdt"} => r.sense.of = << "ratio", r.output, r.range >>
        /\ DiametersFit(r)
        /\ form.unitText # r.unit => r.unit = Celsius

\* A choice is the choice of the whole slot (zsp_config.cpp:967-995): until
\* somebody presses Esc or pastes on a page of that slot, all channels of it have
\* one sensor, one scheme, one excitation and the same kind of bridge.  The unit
\* of the sensitivity is right only where the scheme was chosen.
SlotAgrees ==
  /\ \A k \in agreed : Alike(chan, k)
  /\ \A x \in own : chan[x].unitSense = UnitSenseFor(chan[x].scheme)
=============================================================================
