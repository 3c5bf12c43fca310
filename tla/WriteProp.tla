------------------------------ MODULE WriteProp ------------------------------
(***************************************************************************)
(* The parameters with which a recorder registers on its own.  The page of *)
(* the memory card reads config.par from the card into a temporary file, a *)
(* modal dialog edits the contents of that file, and the page writes the   *)
(* file back, whatever button closed the dialog.  ZET 110 keeps the        *)
(* parameters in its own memory instead.                                   *)
(*                                                                         *)
(* The temporary file is the same for every recorder: GetTempFileName      *)
(* takes only three letters of "temp<type>.par".  After the dialog it is   *)
(* written anew with the text of CALIBR.CFG and left behind.  Reading and  *)
(* writing may break off: both empty their file first.                     *)
(*                                                                         *)
(* The boxes of the dialog are enabled, shown and checked by handlers that *)
(* call each other; the last word has a table of what a type offers.       *)
(***************************************************************************)
EXTENDS Integers, FiniteSets

CONSTANTS
  Recorder,      \* recorders of one type
  RegType,       \* the types a behaviour may be about
  Saved,         \* the parameters a card may hold
  MaxTime,       \* the longest recording the card has room for
  Ports,         \* the digital outputs
  EnabledPorts,  \* those that are switched to output
  Inputs,        \* the number of channels
  MaxActs        \* bound on what the user does

ASSUME WritePropAssumption ==
  /\ MaxTime \in Nat \ {0} /\ Inputs \in Nat \ {0}
  /\ Ports \in Nat /\ EnabledPorts \subseteq 0..(Ports - 1)

VARIABLES
  kind,          \* _type
  config,        \* config[r]: config.par on the card of r, or in its memory
  temp,          \* the temporary file
  param,         \* _param or _paramdelta
  page,          \* what the dialog shows
  dac,           \* is there a temporary DAC.DAT
  shownFor,      \* the recorder the dialog is about
  stage,         \* "none", "open", "saved" or "cancelled"
  refused,       \* history: was a save refused since the dialog opened
  readOk,        \* history: did config.par arrive
  acts

wpVars == << kind, config, temp, param, page, dac, shownFor, stage, refused, readOk, acts >>

NoFile == [time |-> -1]
Text == [time |-> -2]      \* the text of CALIBR.CFG
Cut == [time |-> -3]       \* a file whose transfer broke off
Absent(file) == file = NoFile

\* How a transfer ends: "nothing" is done, the file is "cut" short, or "all" of
\* it goes over.
Transfer == {"nothing", "cut", "all"}

A17 == {"A17U8", "A17U2"}

\* BoolbOptions: what the dialog of a type offers.
Offers ==
  CASE kind = "210" -> {"sine"}
    [] kind = "110" -> {"delay", "primary"}
    [] kind \in A17 -> {"dig", "sine"}
    [] kind = "220" -> {"date", "dig", "tmr", "sine", "control"}
    [] kind = "230" -> {"date", "dig", "sine", "control"}
    [] kind = "ZET048" -> {"date", "dig", "tmr", "gps", "control", "data"}
    [] kind = "240" -> {"date", "dig", "tmr", "control", "data"}

Option == {"date", "delay", "dig", "tmr", "primary", "gps", "sine", "control", "data"}
Widget == Option \cup {"ana", "bit", "threshold", "sine fields", "control fields"}

FieldsOf(option) ==
  CASE option = "sine" -> {"sine", "sine fields"}
    [] option = "control" -> {"control", "control fields"}
    [] OTHER -> {option}

NoMode == [wait |-> 0, split |-> 0, replace |-> 0, endless |-> 0]

\* SetDefaultParams, which leaves the mode of the card alone.
SetDefaultParams(mode) ==
  [time |-> 10, event |-> 0, how |-> 0, num |-> 0, multi |-> 0, gen |-> 0,
   control |-> 0, port |-> 0, ana |-> 0, delay |-> 0, rec |-> 0, mode |-> mode]

----------------------------------------------------------------------------
\* The boxes.

\* SetWindowDesignNew: what a type does not offer is hidden and unchecked.
SetWindowDesign(p) ==
  LET no == Option \ Offers
  IN  [p EXCEPT !.shown = @ \ UNION {FieldsOf(o) : o \in no},
                !.start = @ \ no,
                !.delay = IF "delay" \in no THEN 0 ELSE @,
                !.rec = IF "primary" \in no THEN {} ELSE @,
                !.sine = IF "sine" \in no THEN 0 ELSE @,
                !.control = IF "control" \in no THEN 0 ELSE @]

\* A selection outside of the list is none.
Selected(i, count) == IF i \in 0..(count - 1) THEN i ELSE -1

EnableDigStart(p, s) ==
  SetWindowDesign([p EXCEPT !.start = @ \ {"ana", "tmr"},
                            !.shown = (@ \ {"date", "threshold"}) \cup {"bit"},
                            !.num = Selected(s.num, Ports)])

EnableAnaStart(p, s) ==
  SetWindowDesign([p EXCEPT !.start = @ \ {"dig", "tmr"},
                            !.shown = (@ \ {"date"}) \cup {"bit", "threshold"},
                            !.num = Selected(s.num, Inputs)])

EnableTmrStart(p) ==
  SetWindowDesign([p EXCEPT !.start = @ \ {"dig", "ana"},
                            !.shown = (@ \ {"bit", "threshold"}) \cup {"date"}])

\* OnBnEventStartCheckbox with the parameters s.
EventStart(p, s) ==
  LET all == [p EXCEPT !.shown = @ \cup {"dig", "ana", "tmr"}]
      dig == IF "dig" \in all.start THEN EnableDigStart(all, s) ELSE all
      ana == IF "ana" \in dig.start THEN EnableAnaStart(dig, s) ELSE dig
      tmr == IF "tmr" \in ana.start THEN EnableTmrStart(ana) ELSE ana
      none == [p EXCEPT !.shown = @ \ {"date", "dig", "ana", "tmr", "bit", "threshold"}]
  IN  SetWindowDesign(IF p.event = 0 \/ kind \in A17 THEN none ELSE tmr)

EnableSinGen(p) ==
  SetWindowDesign([p EXCEPT !.shown = IF p.sine = 0 THEN @ \ {"sine fields"}
                                      ELSE @ \cup {"sine fields"}])

\* The place of a port among those enabled.
Place(port) == Cardinality({q \in EnabledPorts : q < port})

\* The list holds the enabled ports; another one selects the first of them.
PortSelection(port) == IF port \in EnabledPorts THEN Place(port) ELSE 0

\* A number of a list with count entries, the last one at most.
Clamp(i, count) ==
  IF i >= count /\ count > 0 THEN count - 1 ELSE IF i < 0 \/ count = 0 THEN 0 ELSE i

\* OnBnEnableLevelControl also corrects the parameters: the port is compared
\* with the number of enabled ports.
EnableLevelControl(p, s) ==
  SetWindowDesign(
    IF p.control = 0 THEN [p EXCEPT !.shown = @ \ {"control fields"}]
    ELSE [p EXCEPT !.shown = @ \cup {"control fields"},
                   !.ana = Clamp(s.ana, Inputs),
                   !.portSel = Selected(PortSelection(s.port), Cardinality(EnabledPorts))])

Corrected(p, s) ==
  IF p.control = 0 THEN s
  ELSE [s EXCEPT !.ana = Clamp(@, Inputs), !.port = Clamp(@, Cardinality(EnabledPorts))]

\* Time, number and selections before anything was entered.
Blank == [time |-> 0, delay |-> 0, event |-> 0, start |-> {}, num |-> -1, multi |-> 0,
          rec |-> {}, sine |-> 0, control |-> 0, portSel |-> -1, ana |-> -1,
          fixed |-> FALSE, shown |-> Widget]

StartOf(how) == CASE how = 0 -> {"dig"} [] how = 1 -> {"ana"} [] how = 2 -> {"tmr"} [] OTHER -> {}

\* FillWindowFields
FillWindowFields(s) ==
  LET event == EventStart([Blank EXCEPT !.time = s.time, !.event = s.event], s)
      on == [event EXCEPT !.start = StartOf(s.how)]
      start == CASE kind \in A17 \/ s.event = 0 -> event
                 [] s.how = 0 -> EnableDigStart(on, s)
                 [] s.how = 1 -> EnableAnaStart(on, s)
                 [] s.how = 2 -> EnableTmrStart(on)
                 [] OTHER -> event
      sine == EnableSinGen([start EXCEPT !.multi = s.multi, !.sine = s.gen])
  IN  EnableLevelControl([sine EXCEPT !.control = s.control], s)

\* FillWindowFieldsDelta: an event of ZET 110 is an analog one.
FillWindowFieldsDelta(s) ==
  LET event == EventStart([Blank EXCEPT !.time = s.time, !.delay = s.delay,
                                        !.event = s.event], s)
      start == IF s.event = 1
               THEN EnableAnaStart([event EXCEPT !.start = {"ana"}], s) ELSE event
      rec == [start EXCEPT !.rec = IF s.rec = 0 THEN {"primary"} ELSE {"secondary"}]
  IN  EnableLevelControl(EnableSinGen(rec), s)

\* UpdateRegInfoListBox: an endless recording takes the whole card.
UpdateRegInfoListBox(p, s) ==
  IF s.mode.endless = 1 THEN [p EXCEPT !.time = MaxTime, !.fixed = TRUE] ELSE p

----------------------------------------------------------------------------
\* Reading and opening.

WpInit ==
  /\ kind \in RegType
  /\ config \in [Recorder -> Saved \cup {NoFile}]
  /\ temp \in {NoFile, Text} /\ dac = FALSE
  /\ param = SetDefaultParams(NoMode) /\ page = Blank
  /\ shownFor \in Recorder /\ stage = "none"
  /\ refused = FALSE /\ readOk = FALSE /\ acts = 0

Act == acts < MaxActs /\ acts' = acts + 1

\* writeSdFileToPc leaves the temporary file alone when the card has no
\* config.par or does not answer, and is content when the file is cut short.
Arrives(r, how) ==
  CASE how = "nothing" \/ Absent(config[r]) -> temp
    [] how = "cut" -> Cut
    [] OTHER -> config[r]

\* GetDeviceParam: a file that was not read is replaced by the defaults; one
\* that is not there, or is no parameters, leaves arbitrary ones in _param.
GetDeviceParam(file, ok, junk) ==
  IF ok THEN IF file \in {NoFile, Text, Cut} THEN junk ELSE file
  ELSE SetDefaultParams(junk.mode)

\* GetDeviceParamExt: what was not read is zero.
GetDeviceParamExt(r, ok) ==
  IF ok /\ ~Absent(config[r]) THEN config[r]
  ELSE [SetDefaultParams(NoMode) EXCEPT !.time = 0]

\* The dialog as it opens with the parameters s.
Opened(s) == SetWindowDesign(UpdateRegInfoListBox(FillWindowFields(s), s))

\* OnBnClickedButtonRegistratorSettings and OnInitDialog.  The result of
\* reading counts when access was granted at once; granted later, the file
\* counts as read.  The mode of the card is not initialised by the defaults.
OpenForm(r, attempt, how, junk) ==
  /\ stage = "none" /\ Act /\ stage' = "open" /\ shownFor' = r
  /\ LET done == IF attempt = "never" THEN "nothing" ELSE how
         file == Arrives(r, done)
         told == done # "nothing" /\ ~Absent(config[r])
         believed == told \/ attempt = "later"
     IN  /\ IF kind = "110"
            THEN /\ param' = GetDeviceParamExt(r, done = "all")
                 /\ page' = SetWindowDesign(FillWindowFieldsDelta(param'))
                 /\ temp' = file
            ELSE LET s == GetDeviceParam(file, believed, junk)
                     p == FillWindowFields(s)
                 IN  /\ param' = Corrected(p, s) /\ page' = Opened(s)
                     /\ temp' = IF believed THEN file ELSE s
         /\ readOk' = (told /\ done = "all")
  /\ dac' = FALSE /\ refused' = FALSE
  /\ UNCHANGED << kind, config >>

----------------------------------------------------------------------------
\* The user.

Edit(p) ==
  /\ stage = "open" /\ Act /\ page' = p
  /\ UNCHANGED << kind, config, temp, dac, shownFor, stage, refused, readOk >>

EnterTime(t) == ~page.fixed /\ Edit([page EXCEPT !.time = t]) /\ UNCHANGED param

EnterDelay(t) ==
  "delay" \in page.shown /\ Edit([page EXCEPT !.delay = t]) /\ UNCHANGED param

ClickEvent ==
  Edit(EventStart([page EXCEPT !.event = 1 - @], param)) /\ UNCHANGED param

\* The radio buttons are groups of their own: each handler unchecks the others.
ClickStart(b) ==
  /\ b \in page.shown
  /\ LET on == [page EXCEPT !.start = @ \cup {b}]
     IN  Edit(CASE b = "dig" -> EnableDigStart(on, param)
                [] b = "ana" -> EnableAnaStart(on, param)
                [] b = "tmr" -> EnableTmrStart(on))
  /\ UNCHANGED param

SelectNum(i) ==
  /\ "bit" \in page.shown
  /\ i < (IF "dig" \in page.start THEN Ports ELSE Inputs)
  /\ Edit([page EXCEPT !.num = i]) /\ UNCHANGED param

ClickData(b) ==
  "primary" \in page.shown /\ Edit([page EXCEPT !.rec = {b}]) /\ UNCHANGED param

ClickSinGen ==
  /\ "sine" \in page.shown
  /\ Edit(EnableSinGen([page EXCEPT !.sine = 1 - @])) /\ UNCHANGED param

ClickLevelControl ==
  /\ "control" \in page.shown
  /\ LET p == [page EXCEPT !.control = 1 - @]
     IN  Edit(EnableLevelControl(p, param)) /\ param' = Corrected(p, param)

SelectPort(i) ==
  /\ "control fields" \in page.shown /\ i < Cardinality(EnabledPorts)
  /\ Edit([page EXCEPT !.portSel = i]) /\ UNCHANGED param

\* The dialog of the data: waiting for a copy, splitting, replacing, endless.
DataMode == [wait : 0..2, split : 0..2, replace : 0..1, endless : 0..1]

SettingsData(mode) ==
  /\ "data" \in page.shown /\ Edit(page)
  /\ param' = [param EXCEPT !.mode = mode]

----------------------------------------------------------------------------
\* The end.

KindOf(start) ==
  CASE "dig" \in start -> 0 [] "ana" \in start -> 1 [] "tmr" \in start -> 2
    [] OTHER -> 0

\* The enabled port at a place of the list.
SavePort(place) ==
  IF \E q \in EnabledPorts : Place(q) = place
  THEN CHOOSE q \in EnabledPorts : Place(q) = place ELSE 0

\* SaveRegParameters with time t.
SaveRegParameters(t) ==
  LET mode == IF kind \in {"ZET048", "240"} THEN param.mode ELSE NoMode
      plain == [SetDefaultParams(mode) EXCEPT
                  !.time = t, !.event = page.event,
                  !.how = IF kind \in A17 THEN 0 ELSE KindOf(page.start),
                  !.num = IF kind \in A17 THEN 4 ELSE page.num,
                  !.multi = IF kind \in A17 THEN page.event ELSE page.multi,
                  !.gen = page.sine, !.control = page.control]
  IN  IF page.control = 0 THEN plain
      ELSE [plain EXCEPT !.port = SavePort(page.portSel), !.ana = page.ana]

\* SaveDeltaRegParameters: what is too long is cut without a question.
SaveDeltaRegParameters ==
  LET event == IF page.event = 1 /\ "ana" \in page.start THEN 1 ELSE 0
  IN  [SetDefaultParams(param.mode) EXCEPT
         !.time = IF page.time > MaxTime THEN MaxTime ELSE page.time,
         !.delay = page.delay, !.event = event, !.how = event, !.num = page.num,
         !.rec = IF "secondary" \in page.rec THEN 1 ELSE 0]

\* SetDefaultParams as a refused save leaves it in _param.
RefusedParams(mode) ==
  [SetDefaultParams(mode) EXCEPT !.num = IF kind \in A17 THEN 4 ELSE 0]

\* OnBnSaveParam.  A time that is too long may be refused; then the dialog
\* stays, with the defaults in place of the parameters and in the file.
ClickSave(agreed) ==
  /\ stage = "open" /\ kind # "110"
  /\ LET time == IF page.time < 1 THEN 1 ELSE page.time
         saved == SaveRegParameters(IF time > MaxTime THEN MaxTime ELSE time)
     IN  IF time <= MaxTime \/ agreed
         THEN /\ param' = saved /\ stage' = "saved" /\ refused' = refused
              /\ dac' = (saved.gen = 1) /\ UNCHANGED page
         ELSE /\ param' = RefusedParams(saved.mode)
              /\ page' = IF kind \in A17 THEN [page EXCEPT !.multi = page.event] ELSE page
              /\ refused' = TRUE /\ UNCHANGED << stage, dac >>
  /\ Act /\ temp' = param'
  /\ UNCHANGED << kind, config, shownFor, readOk >>

\* The parameters of ZET 110 go to the recorder at once, if it answers.
ClickSaveDelta(ok) ==
  /\ stage = "open" /\ kind = "110" /\ stage' = "saved"
  /\ param' = SaveDeltaRegParameters
  /\ config' = IF ok THEN [config EXCEPT ![shownFor] = param'] ELSE config
  /\ UNCHANGED << kind, temp, page, dac, shownFor, refused, readOk, acts >>

\* Mutant: the parameters as the handlers corrected them are kept.
ClickCancelKeeping ==
  /\ stage = "open" /\ stage' = "cancelled" /\ temp' = param
  /\ UNCHANGED << kind, config, param, page, dac, shownFor, refused, readOk, acts >>

ClickCancel ==
  /\ stage = "open" /\ stage' = "cancelled"
  /\ UNCHANGED << kind, config, temp, param, page, dac, shownFor, refused, readOk, acts >>

\* WriteFileToSD opens config.par on the card before it opens the temporary
\* file and sends the contents: what breaks off leaves a cut file.
WriteFileToSD(how) ==
  CASE how = "nothing" -> config
    [] how = "cut" \/ Absent(temp) -> [config EXCEPT ![shownFor] = Cut]
    [] OTHER -> [config EXCEPT ![shownFor] = temp]

\* Back in the page, whatever button it was: the file goes to the card, and
\* createRegCalibrCfgFile writes it anew.
WriteBack(how) ==
  /\ stage \in {"saved", "cancelled"} /\ stage' = "none"
  /\ config' = IF kind = "110" THEN config ELSE WriteFileToSD(how)
  /\ temp' = Text
  /\ UNCHANGED << kind, param, page, dac, shownFor, refused, readOk, acts >>

----------------------------------------------------------------------------
WpNext ==
  \/ \E r \in Recorder, attempt \in {"first", "later", "never"}, how \in Transfer,
        junk \in Saved : OpenForm(r, attempt, how, junk)
  \/ \E t \in {0, MaxTime, MaxTime + 1} : EnterTime(t)
  \/ \E t \in 0..1 : EnterDelay(t)
  \/ ClickEvent \/ ClickSinGen \/ ClickLevelControl
  \/ \E b \in {"dig", "ana", "tmr"} : ClickStart(b)
  \/ \E b \in {"primary", "secondary"} : ClickData(b)
  \/ \E i \in 0..1 : SelectNum(i) \/ SelectPort(i)
  \/ \E mode \in {m \in DataMode : m.wait = m.split /\ m.replace = 0} : SettingsData(mode)
  \/ \E yes \in BOOLEAN : ClickSave(yes) \/ ClickSaveDelta(yes)
  \/ \E how \in Transfer : WriteBack(how)
  \/ ClickCancel

WpSpec == WpInit /\ [][WpNext]_wpVars

----------------------------------------------------------------------------

\* What a write-back may make of a card.
CardKept(r) ==
  \/ config'[r] = config[r]
  \/ r = shownFor /\ config'[r] = Cut
  \/ r = shownFor /\ refused /\ config'[r] = RefusedParams(config'[r].mode)

\* A dialog that was cancelled, after the card was read, sends the file back:
\* the cards of other recorders stay as they are, and this one holds what was
\* read from it, or a file cut short when sending broke off, or, when a save
\* was refused before, the defaults that the refusal wrote into the file
\* (registrator_zet048_tab.cpp:510 and 535-613, SRWritePropDlg.cpp:1221).
CancelKeepsCard ==
  [][stage = "cancelled" /\ readOk => \A r \in Recorder : CardKept(r)]_wpVars
=============================================================================
