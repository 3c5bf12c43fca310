---------------------------- MODULE MCChannelTab ----------------------------
(***************************************************************************)
(* A module of two inputs, one of one input, one of an input without ICP,  *)
(* each with an output, and two recorders.  Either one page is followed    *)
(* through all its edits, shown for single channels and for groups of both *)
(* kinds, or the main dialog's commands are, with few edits in the windows *)
(* they open.                                                              *)
(***************************************************************************)
EXTENDS Commands, TLC

CONSTANTS a, b, f, d, h, e, g, z, y,
          WindowEdits   \* bound on the edits in a window of the main dialog

VARIABLE topic

MCModule == (a :> 1) @@ (b :> 1) @@ (f :> 1) @@ (d :> 4) @@ (h :> 4) @@ (e :> 5) @@ (g :> 5)
              @@ (z :> 2) @@ (y :> 3)
MCNumber == (a :> 0) @@ (b :> 1) @@ (f :> 2) @@ (d :> 0) @@ (h :> 1) @@ (e :> 0) @@ (g :> 1)
              @@ (z :> 0) @@ (y :> 0)
MCRows == << 5, e, g, 1, a, b, f, 4, d, h, 2, z, 3, y >>
MCGroups == {<< a >>, << z >>, << f >>, << a, b >>, << a, z, b >>}
MCText == {"name", "comment", "unit", "unitSense", "sense", "reference", "shift",
           "amplify", "coord", "resistance"}

Before(icp, charge, hpf) ==
  [on |-> 1, text |-> [t \in MCText |-> 0], icp |-> icp, charge |-> charge,
   diff |-> 0, gain |-> 1, hpf |-> hpf, tenso |-> 0, mode |-> 0]

StateOf(c, s) ==
  LET now == IF c \in HasInputMode THEN [s EXCEPT !.mode = 2 * s.hpf] ELSE s
  IN  [now |-> now, want |-> now.mode, file |-> now]

MCClips == {<< >>, << Before(0, 0, 1) >>}

MCStart ==
  {[c \in Channel |->
      StateOf(c, IF c = a THEN p[1] ELSE IF c = z THEN p[2] ELSE Before(0, 0, 0))] :
     p \in {<< Before(0, 0, 0), Before(0, 0, 0) >>, << Before(1, 0, 1), Before(1, 0, 0) >>,
            << Before(0, 1, 1), Before(0, 0, 0) >>,
            << [Before(1, 0, 1) EXCEPT !.tenso = 1], Before(1, 0, 0) >>}}

mcVars == << tabVars, dialogVars, topic >>

MCInit ==
  /\ CommandsInit
  /\ \/ topic = "page" /\ (clip = << >> <=> ch[a].now.hpf = 1)
     \/ topic = "commands" /\ clip = << >> /\ ch[a].now.icp = 1 /\ ch[a].now.tenso = 0

\* The page alone, the dialog around it at rest.
InPage == topic = "page" /\ UNCHANGED topic
Aside == UNCHANGED dialogVars
InDialog == topic = "commands" /\ UNCHANGED topic

\* Few edits in the windows; of a module's channels the snapshots have no gain.
FewEdits ==
  /\ edits' <= WindowEdits
  /\ \A i \in DOMAIN members' : members'[i] \in Zsp \/ mementos'[i].gain = 0

\* Every field holds 0 before.
New == Value \ {0}

\* TabNext and CommandsNext.
MCNext ==
  \/ InPage /\ \E m \in Groups, junk \in 0..MaxGain : Open(m, junk) /\ Aside
  \/ InPage /\ \E v \in New : EditName(v) /\ Aside
  \/ InPage /\ \E v \in New : EditComment(v) /\ Aside
  \/ InPage /\ \E v \in New : EditCoordinate(v) /\ Aside
  \/ InPage /\ \E v \in Value : EditSense(v) /\ Aside
  \/ InPage /\ \E v \in New : EditUnit(v) /\ Aside
  \/ InPage /\ \E v \in New : SelectResistance(v) /\ Aside
  \/ InPage /\ \E v \in New, s \in {"reference", "shift", "amplify"} : EditLevel(s, v) /\ Aside
  \/ InPage /\ \E v, w \in New : SelectUnitSense(v, w) /\ Aside
  \/ InPage /\ \E v, w, x \in New : SelectUnit(v, w, x) /\ Aside
  \/ InPage /\ \E v, w, x \in Value : TensoSettings(v, w, x) /\ Aside
  \/ InPage /\ \E v \in Bit : ClickHpf(v) /\ Aside
  \/ InPage /\ \E v \in Bit : ClickIcp(v) /\ Aside
  \/ InPage /\ \E v \in Bit : ClickCharge(v) /\ Aside
  \/ InPage /\ \E v \in Bit : ClickDiff(v) /\ Aside
  \/ InPage /\ \E v \in Bit : ClickSelfTest(v) /\ Aside
  \/ InPage /\ \E v \in Bit : ClickNoise(v) /\ Aside
  \/ InPage /\ \E v \in Bit : ClickState(v) /\ Aside
  \/ InPage /\ \E v \in Bit, w \in Value : ClickTenso(v, w) /\ Aside
  \/ InPage /\ \E up \in BOOLEAN : StepRange(up) /\ Aside
  \/ InPage /\ \E v \in Value, icp, charge, hpf \in Bit : SelectSensor(v, icp, charge, hpf) /\ Aside
  \/ InPage /\ StartTeds /\ Aside
  \/ InPage /\ TedsFails /\ Aside
  \/ InPage /\ \E v \in Value : TedsRead(v) /\ Aside
  \/ InPage /\ \E junk \in 0..MaxGain : Copy(junk) /\ Aside
  \/ InPage /\ Paste /\ Aside
  \/ InPage /\ Ok /\ Aside
  \/ InPage /\ Cancel /\ Aside
  \/ InPage /\ Escape /\ Aside
  \/ InDialog /\ \E i \in Row : ClickRow(i)
  \/ InDialog /\ \E i \in Row : ControlClick(i)
  \/ InDialog /\ \E i \in Row : ShiftClick(i)
  \/ InDialog /\ \E i \in Row : TreeSelect(i)
  \/ InDialog /\ ShiftDown
  \/ InDialog /\ OtherView
  \/ InDialog /\ DisableRequest
  \/ InDialog /\ AcDcRequest
  \/ InDialog /\ IcpRequest
  \/ InDialog /\ ChargeRequest
  \/ InDialog /\ DisableRequestMoreChannel
  \/ InDialog /\ AcDcRequestMoreChannel
  \/ InDialog /\ IcpRequestMoreChannel
  \/ InDialog /\ PropertiesRequest /\ FewEdits
  \/ InDialog /\ PropertiesGroupChannelRequest /\ FewEdits
  \/ InDialog /\ PropertiesGroupRequest /\ FewEdits
  \/ InDialog /\ ZSPPropertiesGroupRequest /\ FewEdits
  \/ InDialog /\ InWindow /\ FewEdits
  \/ InDialog /\ ReturnOne
  \/ InDialog /\ ReturnMany
  \/ InDialog /\ ReturnAll
  \/ InDialog /\ ServerModify
  \/ InDialog /\ TimerSaves

MCSpec == MCInit /\ [][MCNext]_mcVars
=============================================================================
