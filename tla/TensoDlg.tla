------------------------------ MODULE TensoDlg ------------------------------
(***************************************************************************)
(* The dialog of a strain gauge.  Two potentiometers of the module, pot1   *)
(* for the balance of the bridge and pot2 for the reference resistor,      *)
(* follow two sliders a tenth of a second later; the automatic balance     *)
(* looks for the position of pot1 with false position, one reading of the  *)
(* indicator every three seconds, and in a quarter bridge measures the     *)
(* gauge first, with pot1 in the middle.  OK and Cancel stay enabled all   *)
(* the time.                                                               *)
(*                                                                         *)
(* Readings arrive on their own; an automatic step takes the one that is   *)
(* shown, also when it is older than the last change of a potentiometer.   *)
(***************************************************************************)
EXTENDS Integers, Sequences

CONSTANTS
  Gauge,         \* the strain gauges of one module
  Selections,    \* the sequences of gauges the dialog is opened for
  Top,           \* the last position of a potentiometer
  Resistance,    \* Pot2Resistensef: a decreasing function on 0..Top
  Typed,         \* reference resistances a user may type
  Shift,         \* Shift[c]: what is subtracted from the readings of c
  Bridges,       \* the bridges: [slope, zero]
  NaN,           \* the reading of a channel without data
  Stored,        \* the settings a module may hold before
  MaxActs        \* bound on what the user does

ASSUME TensoAssumption ==
  /\ Top \in Nat \ {0}
  /\ Selections \subseteq Seq(Gauge) \ {<< >>}
  /\ Stored \subseteq [Gauge -> [mode : 0..3, pot1 : 0..Top, pot2 : 0..Top]]
  /\ Shift \in [Gauge -> Int]
  /\ Bridges \subseteq [slope : Int, zero : Int]
  /\ NaN \notin Int /\ Typed \subseteq Int
  /\ Resistance \in [0..Top -> Int]
  /\ \A p, q \in 0..Top : p < q => Resistance[p] >= Resistance[q]

VARIABLES
  group,         \* cur_channels, or the one cur_channel
  bridge,
  gauge,         \* gauge[c]: bridge mode and potentiometers, in the module
  stored,        \* what saveTenso made permanent
  mode,          \* m_tenso_mode
  slider,        \* << pot1, pot2 >>
  enabled,       \* the controls that are enabled
  timers,        \* the timers that run
  bal,           \* the static variables of AutoBalanceStep
  remembered,    \* m_mode, m_pot1, m_pot2
  shown,         \* the mean on the indicator
  dlg,           \* "open", "asking", "ok" or "cancelled"
  fresh,         \* history: is the reading newer than the last change
  honest,        \* history: were all readings of this balance fresh, of its pot2
  failed,        \* history: did the last measurement of a gauge fail
  typed,         \* history: the resistance last applied
  acts

tensoVars == << group, bridge, gauge, stored, mode, slider, enabled, timers, bal,
                remembered, shown, dlg, fresh, honest, failed, typed, acts >>

Pot == 0..Top
Middle == Top \div 2
Half == 0
Quarter == 2
Abs(x) == IF x < 0 THEN -x ELSE x

First == group[1]
LastGauge == group[Len(group)]
Imbalance(p, q) == bridge.slope * (4 * p - q - bridge.zero)

----------------------------------------------------------------------------
\* device::setTenso: in a group every gauge of the module; mode -1 and
\* negative positions keep what is set.
SetTenso(m, p, q) ==
  /\ gauge' = [c \in Gauge |->
       IF Len(group) = 1 /\ c # First THEN gauge[c]
       ELSE [mode |-> IF m \in 0..3 THEN m ELSE gauge[c].mode,
             pot1 |-> IF p >= 0 /\ q >= 0 THEN p ELSE gauge[c].pot1,
             pot2 |-> IF p >= 0 /\ q >= 0 THEN q ELSE gauge[c].pot2]]
  /\ fresh' = FALSE

\* VISIBLE_SET
VisibleSet(controls, m) ==
  IF m = Quarter THEN controls \cup {"pot1", "pot2", "apply"}
  ELSE (controls \cup {"pot1"}) \ {"pot2", "apply"}

EnableAll == enabled' = VisibleSet(enabled, mode) \cup {"balance", "mode"}

\* x / y, rounded half away from zero.
Round(x, y) ==
  LET n == IF y < 0 THEN -x ELSE x
      d == Abs(y)
  IN  IF n >= 0 THEN (2 * n + d) \div (2 * d) ELSE -((d - 2 * n) \div (2 * d))

\* Mutant: the fraction cut off.
RootCut(fs, fe, s, e) ==
  IF NaN \in {fs, fe} \/ fs = fe THEN -1 ELSE s + ((-fs) * (e - s)) \div (fe - fs)

\* The position at which the line through two readings is zero; a division
\* by zero and a missing reading become a number far below every position.
Root(fs, fe, s, e) ==
  IF NaN \in {fs, fe} \/ fs = fe THEN -1 ELSE Round(s * (fe - fs) - fs * (e - s), fe - fs)

Pos(x) == x # NaN /\ x > 0
Neg(x) == x # NaN /\ x < 0
Larger(x, y) == NaN \notin {x, y} /\ x > y

\* The shifts of a group add up.
Shifts ==
  LET upTo[i \in 0..Len(group)] == IF i = 0 THEN 0 ELSE upTo[i - 1] + Shift[group[i]]
  IN  upTo[Len(group)]

\* The reading a step of the balance uses.
CurMean == IF shown = NaN THEN NaN ELSE shown + Shifts

MovePot1(p, q) == SetTenso(-1, p, q) /\ slider' = [slider EXCEPT ![1] = p]

\* Case 0: to the first position.
BeginBalance ==
  /\ MovePot1(0, gauge[LastGauge].pot2)
  /\ bal' = [stage |-> 1, start |-> 0, end |-> Top, cur |-> gauge[LastGauge].pot1,
             pot2 |-> gauge[LastGauge].pot2, fs |-> 0, fe |-> 0, larger |-> FALSE]
  /\ honest' = TRUE

\* Case 1: the reading at the first position, then to the last one.
ReadStart ==
  /\ bal.stage = 1
  /\ MovePot1(bal.end, bal.pot2)
  /\ bal' = [bal EXCEPT !.stage = 2, !.fs = CurMean]
  /\ UNCHANGED << timers, enabled >>

\* ErrExit, and the end of the search: the balance is over.
BalanceOver == timers' = timers \ {2} /\ EnableAll

\* Case 2: the reading at the last position, then between the two, unless
\* both have the same sign.
ReadEnd ==
  LET now == [bal EXCEPT !.fe = CurMean, !.larger = Larger(bal.fs, CurMean)]
      same == (Neg(now.fs) /\ Neg(now.fe)) \/ (Pos(now.fs) /\ Pos(now.fe))
      root == Root(now.fs, now.fe, now.start, now.end)
  IN  /\ bal.stage = 2
      /\ \/ /\ same
            /\ IF mode = Quarter
               THEN MovePot1(IF Neg(now.fs) THEN now.end ELSE now.start, now.pot2)
               ELSE UNCHANGED << gauge, fresh, slider >>
            /\ bal' = [now EXCEPT !.stage = 0]
            /\ BalanceOver
         \/ /\ ~same /\ root \in now.start..now.end
            /\ MovePot1(root, now.pot2)
            /\ bal' = [now EXCEPT !.stage = 3, !.cur = root]
            /\ UNCHANGED << timers, enabled >>
         \/ /\ ~same /\ root \notin now.start..now.end
            /\ bal' = [now EXCEPT !.stage = 0, !.cur = root]
            /\ BalanceOver
            /\ UNCHANGED << gauge, fresh, slider >>

\* The bracket after a reading at cur.
Narrowed ==
  IF (IF bal.larger THEN Neg(CurMean) ELSE Pos(CurMean))
  THEN [bal EXCEPT !.fe = CurMean, !.end = bal.cur]
  ELSE [bal EXCEPT !.fs = CurMean, !.start = bal.cur]

Opposite(b) ==
  IF b.larger THEN Pos(b.fs) /\ Neg(b.fe) ELSE Neg(b.fs) /\ Pos(b.fe)

\* Mutant: a search that stays where it is goes on.
SearchOnAnyway(now, root) == now.end - now.start >= 1 /\ Opposite(now)

SearchOn(now, root) == now.end - now.start >= 1 /\ Opposite(now) /\ root # now.cur

\* Mutant: the slider stays behind.
NextRootHidden ==
  LET now == Narrowed
      root == Root(now.fs, now.fe, now.start, now.end)
  IN  /\ bal.stage = 3
      /\ root \in now.start..now.end
      /\ SetTenso(-1, root, now.pot2)
      /\ IF SearchOn(now, root)
         THEN bal' = [now EXCEPT !.cur = root] /\ UNCHANGED << timers, enabled >>
         ELSE bal' = [now EXCEPT !.cur = root, !.stage = 0] /\ BalanceOver
      /\ UNCHANGED slider

\* Case 3: a better position, and whether to go on.
NextRoot ==
  LET now == Narrowed
      root == Root(now.fs, now.fe, now.start, now.end)
  IN  /\ bal.stage = 3
      /\ root \in now.start..now.end
      /\ MovePot1(root, now.pot2)
      /\ IF SearchOn(now, root)
         THEN bal' = [now EXCEPT !.cur = root] /\ UNCHANGED << timers, enabled >>
         ELSE bal' = [now EXCEPT !.cur = root, !.stage = 0] /\ BalanceOver

NextRootFails ==
  LET now == Narrowed
      root == Root(now.fs, now.fe, now.start, now.end)
  IN  /\ bal.stage = 3
      /\ root \notin now.start..now.end
      /\ bal' = [now EXCEPT !.cur = root, !.stage = 0]
      /\ BalanceOver
      /\ UNCHANGED << gauge, fresh, slider >>

----------------------------------------------------------------------------
\* A bracket b for the resistance r is halved at the position probed, until
\* nothing lies between its ends.
Halved(b, r) ==
  LET mid == (b.start + b.end) \div 2
  IN  IF b.end - b.start <= 1 THEN b
      ELSE IF Resistance[mid] < r THEN [b EXCEPT !.end = mid, !.pos = mid]
      ELSE [b EXCEPT !.start = mid, !.pos = mid]

\* The last position probed; more halvings than positions change nothing.
Probe(r) ==
  LET after[k \in 0..(Top + 1)] ==
        IF k = 0 THEN [start |-> 0, end |-> Top + 1, pos |-> 0] ELSE Halved(after[k - 1], r)
  IN  after[Top + 1].pos

\* The probe or a neighbour of it, the probe, then the upper neighbour first.
GetNearestVal(r) ==
  LET probe == Probe(r)
      off(p) == Abs(Resistance[p] - r)
      near == {probe - 1, probe, probe + 1} \cap Pot
      best == {p \in near : \A q \in near : off(p) <= off(q)}
  IN  IF r > Resistance[0] THEN 0
      ELSE IF r < Resistance[Top] THEN Top
      ELSE IF probe \in best THEN probe
      ELSE IF probe + 1 \in best THEN probe + 1 ELSE probe - 1

----------------------------------------------------------------------------
\* OnInitDialog with the module's state before: OnTensoChangeRequest gives
\* the mode of the first gauge to all of a group.
TensoInit ==
  /\ group \in Selections /\ bridge \in Bridges
  /\ stored \in Stored
  /\ mode = stored[First].mode
  /\ gauge = [c \in Gauge |-> IF Len(group) = 1 THEN stored[c]
                              ELSE [stored[c] EXCEPT !.mode = stored[First].mode]]
  /\ slider = << stored[First].pot1, stored[First].pot2 >>
  /\ enabled = VisibleSet({"balance", "mode"}, mode)
  /\ timers = {} /\ shown = NaN /\ fresh = FALSE
  /\ bal = [stage |-> 0, start |-> 0, end |-> 0, cur |-> 0, pot2 |-> 0, fs |-> 0,
            fe |-> 0, larger |-> FALSE]
  /\ remembered = [mode |-> 0, pot1 |-> 0, pot2 |-> 0]
  /\ dlg = "open" /\ honest = FALSE /\ failed = FALSE /\ typed = Resistance[0]
  /\ acts = 0

UserActs == dlg = "open" /\ acts < MaxActs /\ acts' = acts + 1

Alive == dlg \in {"open", "asking"}

\* OnGetDataFromServer
Measured ==
  /\ Alive
  /\ shown' \in {NaN, Imbalance(gauge[First].pot1, gauge[First].pot2) - Shift[First]}
  /\ fresh' = TRUE
  /\ UNCHANGED << group, bridge, gauge, stored, mode, slider, enabled, timers, bal,
                  remembered, dlg, honest, failed, typed, acts >>

\* OnTensoChangeRequest
SelectMode(m) ==
  /\ UserActs /\ "mode" \in enabled /\ m # mode
  /\ mode' = m
  /\ enabled' = VisibleSet(enabled, m)
  /\ SetTenso(m, -1, -1)
  /\ UNCHANGED << group, bridge, stored, slider, timers, bal, remembered, shown, dlg,
                  honest, failed, typed >>

\* A slider is dragged or turned; timer 1 hands it on.
MoveSlider(i, p) ==
  /\ UserActs /\ (IF i = 1 THEN "pot1" ELSE "pot2") \in enabled
  /\ slider' = [slider EXCEPT ![i] = p]
  /\ timers' = timers \cup {1}
  /\ UNCHANGED << group, bridge, gauge, stored, mode, enabled, bal, remembered, shown,
                  dlg, fresh, honest, failed, typed >>

\* OnApplyButtonPress
Apply(r) ==
  /\ UserActs /\ "apply" \in enabled
  /\ slider' = [slider EXCEPT ![2] = GetNearestVal(r)]
  /\ timers' = timers \cup {1}
  /\ typed' = r
  /\ UNCHANGED << group, bridge, gauge, stored, mode, enabled, bal, remembered, shown,
                  dlg, fresh, honest, failed >>

\* OnBalancaButtonPress
Balance ==
  /\ UserActs /\ "balance" \in enabled
  /\ enabled' = {}
  /\ failed' = FALSE
  /\ IF mode = Quarter
     THEN /\ remembered' = gauge[LastGauge]
          /\ SetTenso(gauge[LastGauge].mode, Middle, gauge[LastGauge].pot2)
          /\ slider' = [slider EXCEPT ![1] = Middle]
          /\ timers' = timers \cup {3}
          /\ UNCHANGED << bal, honest >>
     ELSE /\ BeginBalance
          /\ timers' = timers \cup {2}
          /\ UNCHANGED remembered
  /\ UNCHANGED << group, bridge, stored, mode, shown, dlg, typed >>

\* OnTimer(1)
FollowSliders ==
  /\ Alive /\ 1 \in timers
  /\ timers' = timers \ {1}
  /\ SetTenso(-1, slider[1], slider[2])
  /\ UNCHANGED << group, bridge, stored, mode, slider, enabled, bal, remembered, shown,
                  dlg, honest, failed, typed, acts >>

\* OnTimer(2)
BalanceStep ==
  /\ Alive /\ 2 \in timers
  /\ ReadStart \/ ReadEnd \/ NextRoot \/ NextRootFails
  /\ honest' = (honest /\ fresh /\ gauge[LastGauge].pot2 = bal.pot2)
  /\ UNCHANGED << group, bridge, stored, mode, remembered, shown, dlg, failed, typed, acts >>

\* OnTimer(3): the gauge could be measured, and the balance begins where the
\* dialog was before; or it could not.
Measure ==
  /\ Alive /\ 3 \in timers /\ shown # NaN
  /\ bal' = [stage |-> 1, start |-> 0, end |-> Top, cur |-> remembered.pot1,
             pot2 |-> remembered.pot2, fs |-> 0, fe |-> 0, larger |-> FALSE]
  /\ MovePot1(0, remembered.pot2)
  /\ timers' = (timers \ {3}) \cup {2}
  /\ honest' = TRUE
  /\ UNCHANGED << group, bridge, stored, mode, enabled, remembered, shown, dlg, failed,
                  typed, acts >>

MeasureFails ==
  /\ Alive /\ 3 \in timers
  /\ SetTenso(remembered.mode, remembered.pot1, remembered.pot2)
  /\ timers' = timers \ {3}
  /\ EnableAll
  /\ failed' = TRUE
  /\ UNCHANGED << group, bridge, stored, mode, slider, bal, remembered, shown, dlg, honest,
                  typed, acts >>

\* OnOK up to the question whether the reading becomes the shift, and its
\* answer.
Ok ==
  /\ UserActs
  /\ SetTenso(-1, slider[1], slider[2])
  /\ stored' = gauge'
  /\ dlg' = "asking"
  /\ UNCHANGED << group, bridge, mode, slider, enabled, timers, bal, remembered, shown,
                  honest, failed, typed >>

Answer ==
  /\ dlg = "asking"
  /\ dlg' = "ok"
  /\ UNCHANGED << group, bridge, gauge, stored, mode, slider, enabled, timers, bal,
                  remembered, shown, fresh, honest, failed, typed, acts >>

\* OnCancel undoes nothing.
Cancel ==
  /\ UserActs
  /\ dlg' = "cancelled"
  /\ UNCHANGED << group, bridge, gauge, stored, mode, slider, enabled, timers, bal,
                  remembered, shown, fresh, honest, failed, typed >>

TensoNext ==
  \/ Measured \/ Balance \/ FollowSliders \/ BalanceStep \/ Measure \/ MeasureFails
  \/ Ok \/ Answer \/ Cancel
  \/ \E m \in {Half, Quarter} : SelectMode(m)
  \/ \E i \in {1, 2}, p \in Pot : MoveSlider(i, p)
  \/ \E r \in Typed : Apply(r)

\* Windows' timers come again; data and the user may stay away.
TensoSpec ==
  /\ TensoInit /\ [][TensoNext]_tensoVars
  /\ WF_tensoVars(FollowSliders) /\ WF_tensoVars(BalanceStep)
  /\ WF_tensoVars(Measure \/ MeasureFails)

----------------------------------------------------------------------------
\* A balance ends and gives the controls back, also when readings are missing
\* or older than the position they are taken for (AutoBalanceStep,
\* tenso_dlg.cpp:566-817): the bracket may stand still, the position not.
BalanceEnds == 2 \in timers \/ 3 \in timers ~> "balance" \in enabled \/ ~Alive

\* The search of one gauge in good time, with pot2 as it found it, ends at the
\* position with the least imbalance (tenso_dlg.cpp:719-805).
BalancedIsBest ==
  [][bal.stage = 3 /\ bal'.stage = 0 /\ honest' /\ Len(group) = 1 /\ shown # NaN
       => LET pot2 == gauge'[First].pot2
          IN  \A p \in Pot : Abs(Imbalance(gauge'[First].pot1, pot2)) <= Abs(Imbalance(p, pot2))
    ]_tensoVars

\* With no timer running the slider of the balance stands where pot1 of every
\* gauge it is for stands, whatever searches, drags and OKs came before.  It does
\* not where the gauges of a group still have the positions they were opened or
\* saved with, of which the slider shows the first one's; nor after a measurement
\* that failed, which gives pot1 back and leaves the slider in the middle
\* (tenso_dlg.cpp:902-916).  What pot1 is then is stated as well.
SliderTellsBalance ==
  timers = {} =>
    \/ \A i \in 1..Len(group) : gauge[group[i]].pot1 = slider[1]
    \/ /\ slider[1] = stored[First].pot1
       /\ \A i \in 1..Len(group) : gauge[group[i]].pot1 = stored[group[i]].pot1
    \/ /\ failed /\ slider[1] = Middle
       /\ \A i \in 1..Len(group) : gauge[group[i]].pot1 = remembered.pot1

=============================================================================
