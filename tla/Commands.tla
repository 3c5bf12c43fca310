------------------------------ MODULE Commands ------------------------------
(***************************************************************************)
(* The main dialog: which rows of its list and of its tree are selected,   *)
(* the commands of their context menus on channels, the windows they open  *)
(* and the saving of devices.cfg after what they changed.                  *)
(*                                                                         *)
(* A command reads and writes the channels and is one step: the menu and   *)
(* the window it may open are modal.  The module extends ChannelTab, whose *)
(* actions are the window; with more than one row selected the menu is the *)
(* one for several channels, whichever view it is opened in.               *)
(***************************************************************************)
EXTENDS ChannelTab

CONSTANTS
  Rows,        \* what the rows show: channels, and modules or recorders
  MaxClicks,   \* bound on the selecting
  MaxCommands  \* bound on the commands

ASSUME CommandsAssumption ==
  /\ Channel \subseteq Range(Rows)
  /\ Rows \in Seq(Channel \cup {Module[c] : c \in Channel})

VARIABLES
  view,        \* "list" (detailed) or "tree" (short)
  chosen,      \* the selected rows of the list, also while it is hidden
  mark,        \* its selection mark, 0 for none
  item,        \* the selected row of the tree, 0 for none
  window,      \* the command whose window is open, "" for none
  running,     \* may the crawler run
  save,        \* m_saveOnModify
  modified,    \* the server's Modify is on the way
  timer,       \* timer 1 runs; list and tree are disabled
  owed,        \* history: what a command changed, or a window confirmed, is not in devices.cfg
  clicks, commands

dialogVars == << view, chosen, mark, item, window, running, save, modified, timer, owed,
                 clicks, commands >>

Row == DOMAIN Rows
IsChannel(i) == Rows[i] \in Channel

\* QuanPhChan: the channels of a module, its output is the last.
Quantity(m) == Cardinality({c \in Channel : Module[c] = m})

CommandsInit ==
  /\ TabInit
  /\ view = "list" /\ chosen = {} /\ mark = 0 /\ item = 0 /\ window = ""
  /\ running = TRUE /\ save = FALSE /\ modified = FALSE /\ timer = FALSE /\ owed = FALSE
  /\ clicks = 0 /\ commands = 0

----------------------------------------------------------------------------
\* Selecting.

Selecting ==
  /\ gui = "closed" /\ ~timer /\ clicks < MaxClicks /\ clicks' = clicks + 1
  /\ UNCHANGED << tabVars, view, window, running, save, modified, timer, owed, commands >>

\* OnListSelChange: mark and tree follow the row that was selected last.
Follow(new) ==
  IF new = {} THEN UNCHANGED << mark, item >>
  ELSE \E i \in new : mark' = i /\ item' = i

\* Whether a row that was selected before tells the tree is up to the control.
ClickRow(i) ==
  /\ Selecting /\ view = "list"
  /\ chosen' = {i} /\ mark' = i
  /\ item' \in IF i \in chosen THEN {i, item} ELSE {i}

\* IsSelectableItem: no device, and not the output of a module.
Selectable(i) ==
  /\ IsChannel(i)
  /\ Rows[i] \notin Zsp => Number[Rows[i]] # Quantity(Module[Rows[i]]) - 1 /\ i # Len(Rows)

\* The elements of S in the order of their keys.
InOrder(S, Key(_)) ==
  [k \in 1..Cardinality(S) |-> CHOOSE x \in S : Cardinality({y \in S : Key(y) < Key(x)}) = k - 1]

Least(S) == CHOOSE i \in S : \A j \in S : i <= j
Greatest(S) == CHOOSE i \in S : \A j \in S : i >= j

\* OnNMClickListNot, with the list as the control has it after a click with
\* Ctrl.  The first selected row decides whether row i may be selected: a row
\* number is compared with a number of channels.
Refused(S, i) ==
  LET first == Rows[Least(S)]
  IN  \/ first \notin Channel
      \/ /\ first \notin Zsp
         /\ \/ Quantity(Module[first]) = i - 1
            \/ Number[first] = Quantity(Module[first]) - 1
            \/ i = Len(Rows)

ControlClick(i) ==
  /\ Selecting /\ view = "list"
  /\ LET now == IF i \in chosen THEN chosen \ {i} ELSE chosen \cup {i}
     IN  /\ chosen' = IF now # {} /\ Refused(now, i) THEN now \ {i} ELSE now
         /\ Follow(now \ chosen)

\* A click with Shift is the control's own business.
ShiftClick(i) ==
  /\ Selecting /\ view = "list" /\ mark # 0
  /\ chosen' = IF mark <= i THEN mark..i ELSE i..mark
  /\ Follow(chosen' \ chosen)

\* OnShiftDown in the list.
ShiftDown ==
  /\ Selecting /\ view = "list"
  /\ IF mark = 0
     THEN LET first == {i \in Row : Selectable(i)}
          IN  /\ first # {}
              /\ chosen' = chosen \cup {Least(first)} /\ Follow({Least(first)})
     ELSE LET last == IF chosen = {} THEN 0 ELSE Greatest(chosen)
              from == IF mark < last THEN mark ELSE last
              below == {i \in Row : i > last /\ Selectable(i)}
              new == {i \in from..Least(below) : i \in Row /\ Selectable(i)}
          IN  /\ below # {}
              /\ chosen' = chosen \cup new
              /\ mark' = Least(below) /\ item' = Least(below)

\* OnTreeSelChange: the row is selected in the list as well, next to those that
\* are already.
TreeSelect(i) ==
  /\ Selecting /\ view = "tree" /\ item # i
  /\ chosen' = chosen \cup {i}
  /\ item' = i /\ mark' = IF i \in chosen THEN mark ELSE i

OtherView ==
  /\ gui = "closed" /\ clicks < MaxClicks /\ clicks' = clicks + 1
  /\ view' = IF view = "list" THEN "tree" ELSE "list"
  /\ UNCHANGED << tabVars, chosen, mark, item, window, running, save, modified, timer, owed,
                  commands >>

----------------------------------------------------------------------------
\* Menus.

\* The selected channels, those of a module, and the first of some, in the order
\* of the list.
Picked == {Rows[i] : i \in {j \in chosen : IsChannel(j)}}
PickedOf(m) == {c \in Picked : Module[c] = m}
FirstOf(S) == Rows[Least({i \in chosen : Rows[i] \in S})]
RowOf(c) == Least({i \in chosen : Rows[i] = c})

AreSelectedChannelsEnabled == \A c \in Picked : ch[c].now.on = 1
AreSelectedChannelsHPF == \A c \in Picked : ch[c].now.hpf = 1
AreSelectedChannelsICP == \A c \in Picked : ch[c].now.icp = 1
ChannelsSameType == \A c, d \in Picked : c \in Zsp <=> d \in Zsp

Several == Cardinality(chosen) > 1

\* The menu for several channels.
ManyMenu ==
  IF ~(Several /\ item # 0 /\ IsChannel(item) /\ ChannelsSameType) THEN {}
  ELSE {"onoff"} \cup
       IF ~AreSelectedChannelsEnabled THEN {}
       ELSE {"properties", "acdc"} \cup (IF Rows[item] \in HasIcp THEN {"icp"} ELSE {})

\* The menu for channel c.  The output of a generator can be switched unless a
\* driver or another program objects, which it need not.
OneMenu(c) ==
  LET now == ch[c].now
      power == IF c \in Zsp \/ CanToggle(ch, c) THEN {"onoff"} ELSE {}
      window_ == IF now.on = 1 THEN {"properties"} ELSE {}
      acdc == IF c \in Zsp \/ now.hpf = 1 \/ now.mode \notin {1, 3} THEN {"acdc"} ELSE {}
      icp == IF c \in HasIcp THEN {"icp"} ELSE {}
      charge == IF c \in HasCharge THEN {"charge"} ELSE {}
  IN  power \cup window_ \cup
      IF now.on = 0 \/ c \in FeedBack THEN {} ELSE acdc \cup icp \cup charge

\* A menu without filter asks for the input mode, which changes the object.
AfterMenu(c) ==
  IF c \notin Zsp \cup FeedBack /\ ch[c].now.on = 1 /\ ch[c].now.hpf = 0
  THEN Adapt(ch, c) ELSE ch

\* The user opens a menu where the selection is.
Asking ==
  /\ gui = "closed" /\ ~timer /\ commands < MaxCommands
  /\ IF view = "list" THEN chosen # {} ELSE item # 0
  /\ commands' = commands + 1

\* A command has made s of the channels.  The server announces what goes
\* through it, and may announce what the driver was told directly.
Announced(s, c) ==
  c \notin Zsp /\ [s[c].now EXCEPT !.hpf = 0, !.mode = 0]
                     # [ch[c].now EXCEPT !.hpf = 0, !.mode = 0]

Changed(s) ==
  /\ ch' = s
  /\ modified' \in IF \E c \in Channel : Announced(s, c) THEN {TRUE} ELSE {modified, TRUE}
  /\ UNCHANGED << gui, members, cur, mementos, form, live, clip, teds, edits >>
  /\ UNCHANGED << view, chosen, mark, item, window, running, timer, clicks >>

\* The recorders have files of their own.
Unsaved == owed' = (owed \/ \E c \in Channel \ Zsp : ch'[c].now # ch[c].now)

\* A command on the channel the tree has selected.
One(name, s) ==
  /\ Asking /\ ~Several /\ item # 0 /\ IsChannel(item) /\ name \in OneMenu(Rows[item])
  /\ Changed(s)

Many(name, s) ==
  /\ Asking /\ name \in ManyMenu /\ Picked # {}
  /\ Changed(s)

----------------------------------------------------------------------------
\* Commands on one channel.

\* OnDisableRequest
Toggle(c) == SetEnabled(AfterMenu(c), c, 1 - ch[c].now.on)

DisableRequest ==
  /\ item # 0 /\ One("onoff", Toggle(Rows[item]))
  /\ save' = TRUE /\ Unsaved

\* WM_USER_SAVE: devices.cfg is written at once, the flag stays.
SavedAtOnce == save' = TRUE /\ owed' = FALSE

AcDcRequest ==
  /\ item # 0
  /\ LET c == Rows[item] IN One("acdc", SetHpf(AfterMenu(c), c, 1 - ch[c].now.hpf))
  /\ SavedAtOnce

\* The filter follows ICP unless the channel is in a test mode.
SwitchIcp(c, v) ==
  LET icp == SetIcp(AfterMenu(c), c, v)
  IN  IF ch[c].now.mode \in {1, 3} THEN icp ELSE SetHpf(icp, c, v)

IcpRequest ==
  /\ item # 0 /\ LET c == Rows[item] IN One("icp", SwitchIcp(c, 1 - ch[c].now.icp))
  /\ save' = TRUE /\ Unsaved

ChargeRequest ==
  /\ item # 0
  /\ LET c == Rows[item] IN One("charge", SetCharge(AfterMenu(c), c, 1 - ch[c].now.charge))
  /\ save' = TRUE /\ Unsaved

----------------------------------------------------------------------------
\* Commands on several channels: masks go to whole modules through the first
\* channel, recorders are told channel by channel and saved once each.

PickedMask(m) == {Number[c] : c \in PickedOf(m)}

\* Every input of a module but its output is to be switched: the first is left
\* out, and the channel that was picked first is not told.
AllInputs(m) == PickedMask(m) = 0..(Quantity(m) - 2)

OnOffMask(m) ==
  IF Picked \cap Zsp = {} /\ AllInputs(m) THEN PickedMask(m) \ {0} ELSE PickedMask(m)

Told ==
  {c \in Picked : c \in Zsp \/ ~AllInputs(Module[c]) \/ c # FirstOf(PickedOf(Module[c]))}

\* setMoreChannel for each module; a recorder is only saved.
SwitchMasked(v) ==
  LET first == FirstOf(Told)
  IN  IF first \notin HasIcp THEN ch
      ELSE IF first \in Zsp THEN Save(ch, first)
      ELSE PutAll(ch, UNION {Masked(Module[c], OnOffMask(Module[c])) : c \in Picked}, "on", v)

\* In the end every recorder is saved (save_zsp_config).
SwitchTold(v) == SaveAll(PutAll(SwitchMasked(v), Told, "on", v), Told)

DisableRequestMoreChannel ==
  /\ Several /\ Told # {}
  /\ Many("onoff", SwitchTold(IF AreSelectedChannelsEnabled THEN 0 ELSE 1))
  /\ save' = TRUE /\ Unsaved

\* Either those without filter get it, or all lose it.
SwitchFilter ==
  LET v == IF AreSelectedChannelsHPF THEN 0 ELSE 1
      those == {c \in Picked : ch[c].now.hpf = 1 - v}
  IN  SaveAll(ForEach(ch, those, LAMBDA s, c : SetHpf(s, c, v)), Picked)

AcDcRequestMoreChannel == Many("acdc", SwitchFilter) /\ SavedAtOnce

\* A recorder's channel sets its filter before, every channel after, whatever
\* becomes of ICP; of the recorders only the first one's is saved.  The driver
\* announces no filter: where no ICP is left to switch, or the first channel has
\* none, the filters stay unsaved (main_dlg.cpp:2464), and owed leaves them out.
RecorderIcp(s, i, v) ==
  IF i \in chosen /\ Rows[i] \in Zsp THEN SetIcp(SetHpf(s, Rows[i], v), Rows[i], v) ELSE s

IcpOfSeveral(v) ==
  LET first == FirstOf(Picked)
      zsp == InTurn(ch, Len(Rows), LAMBDA s, i : RecorderIcp(s, i, v))
      masks == [m \in {Module[c] : c \in Picked \ Zsp} |-> PickedMask(m)]
      icp == SetIcpMask(Save(zsp, first), first, masks, v)
  IN  ForEach(icp, {c \in Picked : icp[c].now.mode \notin {1, 3}},
              LAMBDA s, c : SetHpf(s, c, 1))

IcpRequestMoreChannel ==
  /\ Many("icp", IcpOfSeveral(IF AreSelectedChannelsICP THEN 0 ELSE 1))
  /\ save' = TRUE
  /\ IF \E c \in Channel : Announced(ch', c) THEN Unsaved ELSE UNCHANGED owed

----------------------------------------------------------------------------
\* Windows.

OpenWindow(name, g) ==
  /\ commands < MaxCommands /\ commands' = commands + 1
  /\ \E junk \in 0..MaxGain : Open(g, junk)
  /\ window' = name /\ running' = FALSE
  /\ UNCHANGED << view, chosen, mark, item, save, modified, timer, owed, clicks >>

\* OnPropertiesRequest: of the menu, of a double click, and of the Enter key,
\* which works while list and tree are disabled.
PropertiesRequest ==
  /\ item # 0 /\ IsChannel(item) /\ ch[Rows[item]].now.on = 1
  /\ OpenWindow("one", << Rows[item] >>)

PropertiesGroupChannelRequest ==
  /\ ~timer /\ "properties" \in ManyMenu /\ Picked # {}
  /\ (view = "list" => chosen # {}) /\ OpenWindow("many", InOrder(Picked, RowOf))

\* All channels of a device, in the order of their numbers.
AllChannels(m) == InOrder({c \in Channel : Module[c] = m}, LAMBDA c : Number[c])

PropertiesGroupRequest ==
  /\ ~timer /\ ~Several /\ item # 0 /\ ~IsChannel(item)
  /\ \A c \in Zsp : Module[c] # Rows[item]
  /\ OpenWindow("all", AllChannels(Rows[item]))

ZSPPropertiesGroupRequest ==
  /\ ~timer /\ ~Several /\ item # 0 /\ ~IsChannel(item)
  /\ \E c \in Zsp : Module[c] = Rows[item]
  /\ OpenWindow("all", AllChannels(Rows[item]))

\* What the user does in the window, here what gathers masks and gains.
InWindow ==
  /\ window # ""
  /\ (\E v \in Bit : ClickIcp(v)) \/ (\E up \in BOOLEAN : StepRange(up)) \/ Ok \/ Cancel
  /\ modified' \in {modified, TRUE}
  /\ UNCHANGED << view, chosen, mark, item, window, running, save, timer, owed, clicks,
                  commands >>

\* DoModal returns.
Back ==
  /\ gui \in {"ok", "cancelled"} /\ gui' = "closed" /\ window' = ""
  /\ members' = << >> /\ mementos' = << >> /\ cur' = (CHOOSE c \in Channel : TRUE)
  /\ form' = [b \in Box |-> 0] /\ live' = {} /\ edits' = 0
  /\ UNCHANGED << clip, teds, view, chosen, mark, item, modified, clicks, commands >>

\* Recorders are saved, and the timer is started as if the server had announced
\* something.
Confirmed ==
  /\ gui = "ok" /\ running' = TRUE
  /\ ch' = SaveAll(ch, Members) /\ timer' = TRUE /\ owed' = TRUE

Dismissed == gui = "cancelled" /\ UNCHANGED << ch, timer, owed, save >>

ReturnOne ==
  /\ window = "one" /\ Back
  /\ (Confirmed /\ save' = FALSE) \/ (Dismissed /\ running' = TRUE)

\* A cancelled window of several channels returns early: the crawler stays
\* paused.
ReturnMany ==
  /\ window = "many" /\ Back
  /\ (Confirmed /\ save' = TRUE) \/ (Dismissed /\ UNCHANGED running)

ReturnAll ==
  /\ window = "all" /\ Back
  /\ (Confirmed /\ save' = FALSE) \/ (Dismissed /\ UNCHANGED running)

----------------------------------------------------------------------------
\* The server's answer, and the saving of devices.cfg.

\* Mutant: a timer that runs is stopped before the flag is looked at.
ServerModifyStops ==
  /\ modified /\ modified' = FALSE /\ gui \in {"closed", "open"}
  /\ timer' = save
  /\ UNCHANGED << tabVars, view, chosen, mark, item, window, running, save, owed, clicks,
                  commands >>

\* OnServerModify
ServerModify ==
  /\ modified /\ modified' = FALSE /\ gui \in {"closed", "open"}
  /\ timer' = (timer \/ save)
  /\ UNCHANGED << tabVars, view, chosen, mark, item, window, running, save, owed, clicks,
                  commands >>

\* OnTimer, OnUserSave
TimerSaves ==
  /\ timer /\ gui \in {"closed", "open"}
  /\ timer' = FALSE /\ save' = FALSE /\ owed' = FALSE
  /\ UNCHANGED << tabVars, view, chosen, mark, item, window, running, modified, clicks,
                  commands >>

----------------------------------------------------------------------------
CommandsNext ==
  \/ \E i \in Row : ClickRow(i) \/ ControlClick(i) \/ ShiftClick(i) \/ TreeSelect(i)
  \/ ShiftDown \/ OtherView
  \/ DisableRequest \/ AcDcRequest \/ IcpRequest \/ ChargeRequest
  \/ DisableRequestMoreChannel \/ AcDcRequestMoreChannel \/ IcpRequestMoreChannel
  \/ PropertiesRequest \/ PropertiesGroupChannelRequest
  \/ PropertiesGroupRequest \/ ZSPPropertiesGroupRequest
  \/ InWindow \/ ReturnOne \/ ReturnMany \/ ReturnAll
  \/ ServerModify \/ TimerSaves

CommandsSpec == CommandsInit /\ [][CommandsNext]_<< tabVars, dialogVars >>

----------------------------------------------------------------------------
\* What a command changed or a window confirmed is in devices.cfg, or the timer
\* that writes it runs, or the announcement that starts it is on the way and
\* will be heeded (main_dlg.cpp:527, 543).
SaveUnderWay == owed => timer \/ (modified /\ save)

\* A command for several channels changes no channel that is not selected,
\* whichever of their modules it goes through, and after switching channels or
\* filters every selected recorder has its settings in its file
\* (main_dlg.cpp:1735, 1923, 2379).
CommandsKeepToSelection ==
  [][Several /\ commands' # commands /\ gui' = "closed"
       => /\ \A c \in Channel \ Picked : ch'[c].now = ch[c].now
          /\ DisableRequestMoreChannel \/ AcDcRequestMoreChannel
               => \A c \in Picked \cap Zsp : ch'[c].file = ch'[c].now
    ]_<< tabVars, dialogVars >>
=============================================================================
