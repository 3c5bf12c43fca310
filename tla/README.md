# ZETDeviceManager in TLA+

ZETDeviceManager is a Windows program (MFC, C++, `src/ZETDeviceManager`) that
shows every measuring device a computer can reach, USB and Ethernet recorders,
their channels, the 7xxx sensors behind MODBUS and CAN converters, and lets a
user change their settings.  A thread, the *crawler*, looks for devices all the
time; the GUI thread shows what it found and edits it; short-lived threads read
and write configuration files, copy files from memory cards and let lamps run.
They share objects with few locks, and most of what can go wrong lies in the
order in which they act, or in dialogs whose controls, objects and devices are
three copies of one setting.  The repository has no documentation and no tests;
its comments are the only statements about what it should do, and the findings
below quote them.

This directory holds TLA+ modules of that part of the program, the TLC
configurations that check them, and TLAPS proofs about them.

## The system

Threads: the crawler thread (`crawler::update_thread`), the GUI thread (message
handlers, timers and modal dialogs of `CZETDeviceManagerDlg`), detached write
threads (`funcThreadWrite`), a reader thread per properties dialog of a 7xxx
device (`device::read_thread`), a blinker thread per device that is blinking, the
copy and clock threads of the memory card page, and a watcher of the
MODBUSZETLAB process (`funcCheckModbus`).

| component | state | operations | what makes it correct |
|---|---|---|---|
| object registry (`algo/factory`, `algo/object`) | `_objects`, `_waiters`, `needWait`; per object `_parent`, `_children`, `_alive`, `_changed` | `add`, `killAll`, `removeDead`, `start_wait`, `stop_wait`, `update_wait` | the tree is whole, waits and indicator agree, the two users of `killAll`/`removeDead` do not undo each other |
| crawler thread (`algo/crawler`) | `_allowed`, `_update_requested`, `_inited`, `WaitModify` | `update_thread`, `update`, `pause`, `resume`, `request_update` | what is there is found, what has gone is lost, waits run out |
| std crawler (`algo/std/crawler`) | channels of the server, drives | `update`, `check_n_add*`, `update_info`, `keepAlive` | every enabled channel is found under its device |
| 7xxx crawler (`algo/7xxx/7xxx/crawler`) | shared memory of MODBUSZETLAB | `check_n_add`, `check_info`, `update_info` | a controller is waited for exactly while it connects |
| views (`main_dlg.cpp`, `tree.cpp`, `list.cpp`) | `objectList`, `addDataFlag`, rows | `onAddData`, `onAddDataEnded`, `onRemoveData`, `OnRefresh` | no deadlock with the crawler, what is found gets its row |
| configuration writer (`CFGWorker.cpp`) | map of read configurations, status, node and parent of the opened device | `getStructCfg7xxx`, `funcThreadWrite`, `removeStructFromMap` | a line whose data were stopped for editing is started again |
| properties dialog (`GUI/properties`) | opened object, tabs, reader thread | `Refresh`, `OnOK`, `OnCancel`, `OnDestroy`, `OnUpdateData` | closing ends the reader; OK writes what was chosen, Cancel what was there |
| std channel (`algo/std/channel`) | plain fields, fields of the driver, memento | setters, `createMemento`, `restoreMemento`, `restore` | exclusive settings stay exclusive, Cancel undoes |
| main dialog commands (`main_dlg.cpp`, `list.cpp`) | selection of list and tree, `m_saveOnModify`, timer 1 | menus and commands of one and of several channels, their windows, saving | what was changed is saved, what is not selected is left alone |
| channel and tenso tabs (`tabs/channel`, `tabs/zet037_tenso_channel`, `GUI/tenso`) | controls, groups, snapshots, sliders | edits of one channel, of a group, of a slot; balance of a bridge | controls, channel and hardware agree |
| std device and its tabs (`device_std.cpp`, `GUI/tabs/*`) | driver fields read when a dialog opens | `OnOK`, `OnCancel`, timers, `Activate` | the device gets what was chosen, or what it had |
| zsp configuration (`algo/zsp_factory`) | three documents per recorder, time stamps, alive time, callbacks | `update`, `load`, `save`, `save_metadata`, `on_change_common_parameter` | the newest copy is the one in memory, what is saved is read back |
| registrator dialogs (`tabs/registrator_zet048`, `tabs/standalone_registrator`) | card, gate, exclusive access, copy thread; temporary file of settings | copy, write, delete, format, clock test; the settings form | gates and access are given back, a cancelled form leaves nothing new on the card |
| blinker (`algo/std/device/blinker`) | snapshot of the inputs | `start`, thread, destructor | the device is left as it was found |
| 7xxx device, saver, sensor data base, comparison tree, utilities, wizards | forms, files and tables | | see *Not modelled* |

Interactions: the crawler calls the factory; the factory signals the views from
the crawler thread (or, in a refresh, from the GUI thread); whatever such a
callback does to a window waits until the GUI thread takes the message; the GUI
thread pauses the crawler by a flag it reads once per round; dialogs hand
configurations to write threads; write threads post messages to the main
window; a device that is removed destroys its blinker, and with it joins the
thread; recorders hand the objects read from their documents to devices and
channels, whose setters save them through callbacks.

## Modules

| module | models |
|---|---|
| `Registry` | abstract: what the factory promises |
| `Factory` | `factory` and `object`, one operator per method |
| `Crawler` | the crawler thread, the GUI calls that disturb it and the outside world; one factory call is one step |
| `CrawlerProofs` | theorems about `Crawler` |
| `RefreshRace` | the same two threads, one store or test per step |
| `Blinker` | lamps of modules, started by the user, put out by whichever thread removes a module |
| `RaceProofs` | theorems about `RefreshRace` and `Blinker` |
| `DeviceView` | from the add signal to the row: `onAddData`, `onAddDataEnded`, `onRemoveData`, F5 |
| `DeviceViewProofs` | theorems about `DeviceView` |
| `CfgWriter` | changing the settings of 7xxx devices: dialog, reader, write threads, stopping and starting of the data of a line |
| `CfgWriterProofs` | theorems about `CfgWriter` |
| `Channel` | the parameters of input channels, what the driver makes of them, snapshots |
| `ChannelTab` | the page of a channel or of a group, EXTENDS `Channel` |
| `Commands` | the main dialog: selection, commands on channels, the windows they open, saving; EXTENDS `ChannelTab` |
| `CommandsProofs` | theorems about `ChannelTab` and `Commands` |
| `Zet037Tab` | the page of a strain-gauge input of ZET 037 and the slot it belongs to |
| `TensoDlg` | the dialog that balances a bridge |
| `DeviceTabs` | the pages of a device and of the generators |
| `PagesProofs` | theorems about `DeviceTabs`, `Zet037Tab` and `WriteProp` |
| `ZspConfig` | the documents of a recorder between files, crawler and dialog |
| `ZspConfigProofs` | theorems about `ZspConfig` |
| `Registrator` | the page of the memory card and its threads |
| `DialogProofs` | theorems about `Registrator` and `TensoDlg` |
| `WriteProp` | the form of a recorder's settings, and the file they travel in |
| `MC*` | instances for TLC; `MCRefreshRace` composes `RefreshRace` and `Blinker`, `MCPages` composes `Zet037Tab`, `WriteProp` and `DeviceTabs` |

The two compositions interleave nothing: only one modal dialog is open at a
time, and lamps and registry share no state.  A behaviour is about one of the
parts (`dialog`, `about`), so the states add up instead of multiplying, and one
run can ask the questions of all of them.
`Commands` and `ChannelTab` do interact: the commands open the windows and change
the channels that the windows show.

### Factory, Crawler, Registry

An object is named by its full path; paths are numbers, `Parent` cuts the last
component and `Above` lists all ancestors.  `objects` are the keys of
`_objects`, `linked` the objects that hang in the tree of `_children`, `alive`
and `changed` the flags of `object`, `waiters` the map of elapsed times (in
ticks of 100 ms, -1 when run out, as in the code, and -2 when there is no
entry).  Signals are modelled by what the listeners know: `waitShown`,
`errors`, `announced`.

`Crawler` has one action per step of `update_thread` and `update`: `Tick` and
`Age` are the waiting loop, `BeginUpdate` the head of `update` (`killAll`),
`VisitLeaf` a channel found or not found, `CheckController` and
`UpdateController` the two readings of shared memory, `EndWalk` and `Sweep` the
tail (`removeDead`), `EndRound` the end of the loop body.  The GUI actions are
`Pause`, `Resume`, `RequestUpdate`, `SetWaitThread`, `Refresh` (F5) and the two
halves of timer 3, `RefreshKill` and `RefreshRemove`.  `PlugOrUnplug` and
`ChangeLink` are the world; they may happen at any time.

`Registry` is what the rest of the program may rely on: objects are found with
their ancestors, lost together with their descendants and their waits, and an
indicator is on exactly while something is waited for.  `Crawler` implements it
(`ImplementsRegistry`).

### RefreshRace

`Crawler` takes a factory call as one step, which the code does not guarantee:
`needWait` is a plain `long`, tested in one statement and set in another, and
`killAll` does not look at it.  `RefreshRace` makes every test, store and
removal a step.  Changes of the maps of one object (`add`, `removeThis`) stay
one step: a torn `std::map` is undefined behaviour of which nothing can be
said.  What survives are the marks (`LifeSettlesUpward`) and the flag
(`FlagIsReleased`).  What does not is exclusion: timer 3 kills without looking
at `needWait` (main_dlg.cpp:593), so both threads may be removing at once and a
device may be removed from under a channel that stays.

### Blinker

The thread of a module is one action per step of `blink_thread_func`: `Open`,
the pause (`StartAdc`, `Interrupted`), noting the inputs (`Note`), the running
light, and the restoration in the order of the code.  The user opens the menu of
a module, whose item is disabled by `isAnyBlinked`, and starts or stops the
lamps; either thread may remove a module and has to wait for the end of its
blinker.  A removal takes the row out first (`Removed`, onRemoveData), by a
message to the GUI thread that an open menu lets through, and destroys the object
then (`Destroyed`, removeDead).  A menu that was open for that row now speaks of
the row selected next, for `OnBlinkRequest` reads the selection again
(main_dlg.cpp:2555) while `isAnyBlinked` was asked when the menu was built: the
lamps of another module may be started while those of the first are put out,
and the end of that starts the server under them.  `overtaken` remembers that
this has happened, until nobody is busy and no lamps are on; `ServerStandsAside`
says what holds besides, and that the server and the flag are right at the end
in either case.  `owed` is what the inputs should be when the lamps are out: what was
noted, or what somebody changed before; `cut` holds the modules interrupted in
the pause of `open` (blinker.cpp:49), whose snapshot is empty and whose inputs
are all switched off, and those whose driver refused an empty mask: only what is
on may differ there from what is owed, supply and amplifiers never.

Assumed: stopping and starting the server, as the GUI thread does it in
`StartBlinking` and `StopBlinking`, takes no messages, so no row is taken out in
the middle of a command; a module has more than one input (with one, `blink_func_2`
shifts by -1); the driver may take or refuse an empty mask of inputs.

### DeviceView

Objects here are instances: an object created again after a removal is another
one.  The crawler thread is inside `factory::add` and `onAddData` (`Register`,
`Enter`, `DisableWindow`, `Push`) or inside `removeDead` (`BeginRemoval`,
`Remove`); the GUI thread is in its message loop, waiting for `zObj_mutex`
(`TimerFires`), or filling the tree with the mutex in hand (`EndCollection`,
`FillRow`, `FillEnds`).  A message sent to a window is taken only while the GUI
thread is in its loop.  `x` is the static counter of `onAddData`, which only
matters up to 3, and `first` the object whose pointer `objectList[0]` still
holds after the list was cleared.

### CfgWriter

The data of a line (a master with its sensors) are stopped when the dialog of
one of its devices opens (`Open`), and started by a message to the main window:
from a dialog that is cancelled (`CancelCheck`, `CancelMark`: the entry is marked
after the others were looked at) or from the write thread of a save (`Compared`
marks, then `Restart` looks).  Either leaves the start to others if an entry of
the line is still being edited (`Editing`, `HoldsBackCancel`,
`HoldsBackWriter`).  `m_setSerialRunData` (`pending`) is the safety net that
`OnClose` uses (`StartPending`).

The reader of the dialog erases an old entry, waits for the files and makes a
new one (`ReaderStarts`, `ReadOk`, `ReadFails`, `ReadAgain`); it tells the dialog
by `SendMessage` (`reader = "send"`, `ShowSettings`).  A write thread gets the
mutex of device and node and reads the node of whichever device is open
(`WriterStarts`), finds the file and writes it (`WriteFile`) or does not
(`WriteNothing`), compares what MODBUSZETLAB made of it (`Compared`,
`CompareUnread`), restarts, sleeps a second and ends.  The status, the node and
the parent belong to the one `CCFGWorker` and are shared.

A serial number is a number below `Half * Half`, sent as two halves
(`RunMessage`) and put together by `Received` with the sign extension of the
code.  The contents of a configuration is abstracted to what the threads do with
it: whether it was modified, written, accepted.  MODBUSZETLAB's answer is a
choice (`value`), and so is every failure to open a file.

Two history variables appear in properties only.  `dropped` holds the lines
that, since they were stopped, a dialog was done with without trying to start
them, or a write thread gave up or left to an entry of another line; `lost` the
devices whose write thread lost sight of its file.  `LastWriterStarts` is what
remains true of the restart: with entries whose parents are right and nobody who
gave up, the last of several write threads starts the line, because each marks
its own entry before it looks at the others.  `LabelSettles`, `JoinEndsUnlessSending` and `CloseEnds` say that a
device does not stay marked as being written, unless its write thread is `lost`
(it returns without a message), that closing a dialog does not
wait for ever unless the reader is sending a message to it, and that the
program closes although its main window takes no messages while it waits.

Three ways to lose or misplace the start of a line are visible in the module
and are what `LastWriterStarts` leaves out: a dialog cancelled before its file
was read leaves an entry behind that later dialogs wait for; opening and
cancelling a device again before its write thread has begun marks it as written;
a master's entry bears the parent of the sensor opened before it and holds back
the wrong line.  A configuration file that cannot be opened for writing leaves
its line stopped in silence (CFGWorker.cpp:593), and a serial number whose low
half has its highest bit set is sign-extended on its way to the main window
(main_dlg.cpp:3045), so that its line starts only when the program closes
(`QuitStartsAll`).

### Channel and ChannelTab

`Channel` is a function of all channels, because the driver takes whole modules
with a bit mask (the operators with a mask) and a channel of a recorder is saved
with all others.  A channel of a module (`chan.cpp`) keeps its plain fields
itself and sends the rest to the driver, which has its own rules: an input has
ICP or the charge amplifier, a high-pass filter decides about the input mode.
`ChannelTab` is the page: one action per control, which takes effect at once,
for the channel that is shown (`cur`), for all members of a group (`Target`) or
for whole modules through the first member.  Opening takes one snapshot per
member that is not a channel of a recorder or a feedback channel; `Cancel` gives
them back, in a group by position (`Slot`, `Was`).

The position is where the code goes wrong: `countMomentos` does not count a
member that `continue` skips (channel_tab.cpp:1943), so members behind a
recorder's channel get the snapshots of others.  `CancelUndoes` holds for one
channel whose snapshot has not both ICP and charge amplifier, and no bridge
without ICP (`Restorable`); `IcpReturns` (what the comment promises of a group)
does not hold.

What the code does in a loop over channels is written channel by channel
(`ForEach`, `PutAll`, `SaveAll`, `WithTexts`) where no turn of the loop reads
what another one wrote, and as a function of the number of turns (`InTurn`)
where it does: pasting, the undoing of a group, ICP of a selection.  The states a
page may start from are those the setters and the driver keep (`Consistent`).

### Commands

`Rows` are the rows of the list, the same in the tree.  `chosen`, `mark` and
`item` are the selection of the list, its mark and the row of the tree, `Picked`
the channels a command for several is about; each
selecting handler is an action (`ClickRow`, `ControlClick`, `ShiftClick`, `ShiftDown`,
`TreeSelect`, `OtherView`).  What a menu offers is a set of names (`OneMenu`,
`ManyMenu`), and a command is one step because its menu is modal: `One` and `Many`
hold what the commands share, `DisableRequest`, `AcDcRequest`, `IcpRequest`,
`ChargeRequest` and the three for several channels say what they make of the
channels, by the setters of `Channel`.  Windows are opened by
`PropertiesRequest` and the three group requests, edited by actions of `ChannelTab`
(`InWindow`) and left by `ReturnOne`, `ReturnMany`, `ReturnAll`.  `ServerModify` and
`TimerSaves` are the way of a change into `devices.cfg`; `owed` is a history
variable that says a change is not there yet.

Facts the module shows.  The selection of the hidden list grows while the tree is
used (list.cpp:506), and a command for several channels takes it.  When all
inputs of a module are switched, on or off, the first is left out; when its
output is selected too, which a click with Shift does, none is, and the module
loses its last input (main_dlg.cpp:1794).  Switching ICP on for several
channels leaves the charge amplifier on (chan.cpp:1563), saves only the first
recorder, and sets a filter of recorders again after it was saved.  It also sets
the filters of all channels, which the driver does not announce: if there is no
ICP to switch, or the first selected channel has none, nothing ever saves them
(main_dlg.cpp:2464), and `owed` leaves them out.  A cancelled
window of several channels leaves the crawler paused (main_dlg.cpp:2122).  The flag
`m_saveOnModify` that a command left set lets a later announcement save edits
that nobody has confirmed.

Assumed: the server may announce, or not, what a channel tells the driver without
it (`Announced`, `Changed`).  Not modelled: commands on 7xxx devices, and the ones
that leave the channels alone.

### Zet037Tab

The page has four lists, each filled according to the one before it: sensor,
scheme, load (`ModesOf`), unit.  Every update is an operator from state to
state, named like the method (`UpdateSchemeCombo`, `OnSchemeChanged`,
`UpdateModeCombo`, `UpdateUnitCombo`, `UpdateSense`, ...), and a handler
composes them in the order of the code, which matters: each may change the
channel that the next one reads.  `ReadControls` and `WriteControls` are
`UpdateData(TRUE)` and `UpdateData(FALSE)`: members and controls are two copies,
and a thermometer's Celsius, for instance, is set in the member only
(zet037_tenso_channel_tab.cpp:1803).  `Notify` hands a choice to the other channels of
the slot (zsp_config.cpp:967), `Compatible` decides what of theirs survives.
The sensitivity is kept as what it was computed of (`BridgeSense`), so that
`FormFitsChannel` can compare it with the choices without real numbers.
`agreed` holds the slots on whose pages nobody has pressed Esc or Paste since
the last choice.  `CancelPage` is the Esc in a field of the page, which reaches
`OnCancel` of the tab; the Cancel button of the dialog sends the page a message
that its message map does not have (zet037_tenso_channel_tab.cpp:106-139), takes
nothing back, and is `ClosePage` like OK.

Assumed: what the driver or the clipboard brings has diameters that a pipe can
have, the outer one not below the inner one (`DiametersFit`).  The page itself
refuses any other pair (zet037_tenso_channel_tab.cpp:1287-1296, 1331-1339), and
`FormFitsChannel` says that none gets into the channel; units of stress and of
moment are different units of a resistor, and none of them is the first.

Facts the module shows: an unknown sensor or scheme is replaced for the whole
slot by merely opening the page; Esc restores neither the neighbours nor the
kind of a thermometer (chan.cpp:89-129), and Cancel restores nothing; the unit of the sensitivity of a
neighbour stays that of its old sensor (`SlotAgrees` speaks of the rest); choosing
a unit scales the sensitivity but not range and output (line 994).

### TensoDlg

Two sliders are followed a tenth of a second later by two potentiometers
(`FollowSliders`, timer 1); the search reads the indicator every three seconds
(`BalanceStep`, timer 2, with `ReadStart`, `ReadEnd`, `NextRoot`,
`GetNearestVal` as its stages, and `Probe` for the last one), a quarter bridge is
measured first (`Measure`, timer 3).  A reading may be missing (`NaN`), older
than the position, or of a bridge that cannot be balanced (`Imbalance`).
`BalanceEnds` is liveness: the bracket of false position may stand still, the
search may not.  `BalancedIsBest` is about the search of one gauge whose
readings are in good time and of the reference resistor the search began with:
the search remembers pot2 (`bal.pot2`), but a slider of the resistor that is
moved less than a tenth of a second before the balance is pressed is followed
when the search has begun (tenso_dlg.cpp:875), and a reading is then of another
bridge.  The next step sets pot2 back and leaves the slider where it is.

`SliderTellsBalance` has three cases for the moments in which no timer runs.  The
slider stands where pot1 of every gauge stands; or nothing was moved since the
dialog opened, the slider shows the stored position of the first gauge and the
others have their own, which may differ; or a measurement failed, pot1 of every
gauge is back where it was and the slider is left in the middle
(tenso_dlg.cpp:902).  The instance has two gauges stored at different positions.

### DeviceTabs

One dialog over one device with the pages it has: `device` is the hardware,
`box` what the controls show, `member` the variables of the pages that differ
from them, `snapshot` the memento of the device.  Frequencies, ports, actuators,
self-test and metadata are written at once (`ChooseNow`), everything else at OK
(`Choose`, `PressOk`).  A page is filled by a reading that may fail
(`OpenDialog(fails, ...)`, `Trusted`), and timers (`PortsTimer`, `IpTimer`,
`SyncTimer`) and the change of pages (`Switch`) read again.  `OtherProgram`
switches ports meanwhile.

`OkWritesChoices` says that a setting whose page was filled from the device
becomes what was chosen last, whichever page is in front; `Fits` names the
choices the code does not carry: a label is cut to 30 characters, a timeout of
more than 1092 minutes wraps (its seconds have 16 bits), numbers of PTP have 8
bits, partly set synchronisation lines become none, a page without a choice of
the start writes 65535, a typed timeout, duplex or speed is put back by a timer
every five seconds (ipaddress_tab.cpp:240), the DC page resets the sine.
`CancelGivesBack` leaves out actuators and metadata, which no snapshot has.

Assumed: writing the text of the duration box sends EN_CHANGE, as Windows does,
so durations below 30 minutes are raised when the page opens.  Not modelled:
snapshot bits above the number of ports, which are uninitialised and dropped by
the driver; rounding to three digits; what is only displayed.  Assumed too: the
pages are those of one dialog, of a device (which always has the page of the
frequency) or of a channel; settings are in the ranges of their controls.

### ZspConfig

Three documents of a recorder (configuration, state, metadata; `Kind`) with
files that the driver replaces (`Replace`), the copies in the entry of
`zsp_factory`, and the objects the device holds (`held`): the ones of the entry
("same"), cut off from saving ("cut"), dropped ("loose"), or bound to an entry
that is gone ("dead").  A round of the crawler is `RoundStart`, `LoadConfig`,
`LoadState`, `LoadMetadata`, `Check` (which erases entries nobody asked for
during ten seconds), `SetDevice`, `SetChannels`; a dialog edits, saves
(`SaveMetadata`, `SaveConfig`: one step per document) and ends with OK or Cancel.
A document is a record of what the code reads and writes of it; `ReadDevice`,
`ReadChannels` are `load`, `WriteDevice`, `WriteMasks`, `WriteSlots`,
`WriteChannels` are `save`.  `NoDoc` is a document or an object that is not
there, `NoNode` a node that a document does not have.

Assumed of the documents somebody else writes: channels are numbered without
gaps and the list of gains is as long as they are.  With gaps, the positions in
that list and the bits of the masks, which the code counts by channels found
(zsp_config.cpp:60-136), would belong to other channels after a save; with a
shorter list a channel would keep the gain it had.  Metadata are codes and
frequencies that a user or the driver may write.

The crawler's pause does not end a round that is running (main_dlg.cpp:1519): a dialog
opened during one is `late`, and both `SavesFindTheirData` and `OkReachesFile`
leave it out.  `SavedIsRead` names what is not read back: a start attribute or an
Ethernet node the document had no place for, tenso settings without a node, the
excitation of a slot whose channels disagree.  Two facts outside the
properties: a save rewrites the whole document as it was last read, and edits
are lost in silence when the configuration file is missing (zsp_config.cpp:33,
528).

### Registrator and WriteProp

`Registrator`: what a thread still has to do is a sequence of tasks (`todo`),
and the first may need several attempts to get the card
(`Refused`, `Granted`, `GivesUp`).  The GUI thread lists, formats, deletes,
writes and tests the clock; the copy thread fetches files (`FetchConfig`,
`FetchBegins`, `FetchEnds`, `Reopen`) and sends to windows (`CopySends`,
`Disable`, `CopyCloses`), which works only while the GUI thread takes messages
(`Pumping`).  `NoStandOff`: neither waits for the other for good;
`RestedIsRestored`: afterwards tabs, buttons and the server are as before.
External: `ZExclusive1Open` is granted once and is not re-entrant,
`ZExclusive1Close` releases whoever has it.

`WriteProp`: the page copies `config.par` from the card to a temporary file, a
modal form edits it, and the page writes it back whatever button closed the
form.  The file is the same for every recorder, because GetTempFileName takes only
three letters of its name, and it is left behind with the text of CALIBR.CFG
(`createRegCalibrCfgFile`).  `OpenForm` has the ways the reading can go: access
granted at once, later or never; nothing read, a file cut short, all of it.  The
result of `writeSdFileToPc` is 0 for a file cut short (line 768), and is ignored
when access was granted later (registrator_zet048_tab.cpp:481), although
SRWritePropDlg.cpp:388 promises defaults after errors; what is no parameters
leaves arbitrary ones in the form (`junk`).  One action per control.
`WriteBack` sends the file: config.par is opened on the card, and so emptied,
before the temporary file is opened and sent, so what breaks off, or a temporary
file that is not there, leaves a cut file (`Cut`).  A time that is refused writes
default settings into the temporary file (SRWritePropDlg.cpp:1221), which a
cancelled form sends to the card like anything else.  `CancelKeepsCard` says
which of these may reach the card from a cancelled form whose card was read, and
that the cards of other recorders stay as they are.

## Runs

| run | instance | shows |
|---|---|---|
| `crawler` | a device with a channel, a controller with a sensor; a wait of 3 ticks, a period of 2; one refresh | types, whole tree, life reaching up, waits, announcements, what was found is not removed, refinement of `Registry` |
| `crawler_live` | a device with a channel and a controller | what stays is found, what leaves is lost, waits end |
| `race` | two devices with a channel each, two refreshes; or two modules with two inputs, one of them with lamps, two starts, one change by others | marks settle, the flag is released; lamps leave no trace, the server stands aside while they run and is back at the end |
| `view` | five objects, one refresh | no mutual wait, the window comes back, rows of what was collected |
| `settings` | two lines, of a master with two sensors and of a master alone; two dialogs | stopped lines are remembered and started by the last write thread; dialogs and the program close, labels settle |
| `channels` | modules of two inputs, of one and of one without ICP, each with an output, two recorders; channels with and without ICP, charge amplifier, filter, bridge; three edits of one channel or of a group, or two clicks, two commands and one edit in a window | filter and mode agree, Cancel undoes, what was changed is saved, commands keep to the selection |
| `pages` | a slot of two ZET 037 channels and two choices; eight types of recorders and three acts; eight kinds of units and three edits | forms fit what they show, slots agree, OK writes, Cancel gives back |
| `tenso` | two gauges, potentiometers of six positions, two acts | searches end, end at the best position, sliders tell the truth |
| `files` | a configuration and a file on the card, three clicks, up to three attempts | no stand-off, everything is given back |
| `zsp` | two channels per slot, three edits, one replaced file | saves find their data, files are read, saved documents are read back, OK reaches the file |
| `tree_filled` | as `view` | finding: two objects never get a row |
| `cancel_restores` | as `channels`, one edit | finding: a group with a recorder's channel is not given its ICP back |

Bounds.  Four paths are the least with a device found before its channel, a
channel found before its device, a controller whose sensor is known to the
server, and two independent branches.  `WaitTicks` exceeds `UpdateTicks`, as 60
ticks exceed one period in the code, so a wait needs several rounds and may run
out in the middle of one.  One refresh suffices in `Crawler`, where it can meet
the crawler at every one of its steps; `race` has two.  Five objects in `view`
take the counter `x` past its switch at 3 in every mix of devices and channels.
In `settings` two dialogs give two write threads of one line, of two lines, or a
write thread and a dialog of the same device; `MaxOpen` bounds them, and at most
one write thread per device is under way (`Save`).

Three edits (`MaxEdits`, `MaxActs`, `MaxClicks`) let one control be set, another
undo or override it, and a third find the form in between; Cancel and OK are not
counted.  In `channels` there is a dialog of one channel of every kind, a group
of inputs, and a group with a recorder's channel between two inputs, so that
positions and snapshots part.  Two clicks select any one row, or several rows
of one module, of two modules or of a module and a recorder; two commands let
one find what the other, or a window, left behind.  Two choices (`MaxChoices`) on the page of ZET 037 start from
every kind of sensor and scheme, so a chain of two is a chain of three from the
first one.  The units of `pages` are combinations of pages, one per dependency
between settings.  `Top = 5` leaves the search a bracket that shrinks from both
sides, from one side only, and one that stands still.  `MaxWrites = 1` suffices
in `zsp`: a file replaced between any two steps.  `Tries = 1` stands for the ten
further attempts at the card, any of which may succeed.  Three inputs are the least that
make the running light turn at both ends.

Runs that set `CHECK_DEADLOCK FALSE` come to rest: the supply of objects, edits
or dialogs is used up, the dialog is closed, a reader may be stuck in its
message (see `JoinEndsUnlessSending`), the program closes.

Fairness.  The crawler thread is scheduled (`WF(CrawlerStep)`), an armed timer
fires and its handler ends.  Pausing and holding the crawler is up to the user:
the liveness properties say what holds once nothing does (`Running`).  In
`DeviceView` both threads run and `WAIT_DATA_TIMER` fires in the end, since an
update adds finitely many objects.  In `CfgWriter` the reader and the write
threads run, every wait of theirs having a limit of its own (thirty and ten
seconds), and the message loop takes messages; what the user does with a dialog
is not fair, and `LabelSettles` asks that the message loop is reached again and
again.  In `TensoDlg` the three timers fire; the user is not fair.

Mutants.  Definitions marked `Mutant` state a plausible bug in the definition
that follows them; each property is violated when the one named beside it in
PROJECT.json takes the place of the original.

## Proofs

`CrawlerProofs` proves for every tree of paths, every set of leaves and
controllers, every wait and every period: type correctness, `TreeIntact`,
`AliveUpward`, `WaitersConsistent`, `AnnouncedAreRegistered`, the action
properties `FoundSurvives` and `RemovedOutsideWalk` (objects are removed only
while no update is creating them), and that `Crawler` implements `Registry`.
Assumed are the assumptions named in `Factory` and `Crawler`: parents are
smaller than their children, `Above` is the closure of `Parent`, controllers are
children of the root.

The properties are not inductive one by one.  `AliveUpward` needs `TreeIntact`
(a kill from the root reaches everything only in a whole tree) and the other
way round (removing what is dead leaves a whole tree only if the dead are closed
under children).  `FoundSurvives` needs that everything in `seen` is alive,
and `RemovedOutsideWalk` that `needWait` is 1 exactly while the crawler walks.
`WaitersConsistent` needs that a controller that passed `check_info` is a
controller.  The inductive invariant `IInv` is the conjunction of these.  Every
action is shown to preserve it in a lemma of its own; those that only call a
factory method do so through lemmas about that method.

The other proofs follow the same lines: each property is strengthened to an
invariant that says where the threads or handlers are and who still owes what,
and every action is shown to keep it.

`DeviceViewProofs`.  `NoMutualWait` needs `HandInv`: while the crawler is about to
disable the window, the collection it has just begun has not armed the timer, so
the handler that would take the mutex is not running.  `CollectedIsShown` needs
`ViewInv`.  That a new row gets an id no other row has follows from counting:
there are never more rows and waiting objects than objects were created
(`CountInv`).  That a channel finds the row of its device follows from order: no
device comes into the list behind a channel of its own, and a sweep takes the
channels of a device with it (`FamilyInv`, `ListInv`).

`RaceProofs`, about `RefreshRace`.  `FlagInv` locates the threads and says that a flag that is
set has a holder; the one that clears it for the other does no harm to that.
`LifeSettlesUpward` is false between two stores, and `MarkInv` says what is true
then: a live object below a dead one has a kill before it, or the find in
progress has still to go through it (`Settling`).  The numbers of the paths,
parents before children, are what makes a kill come past.

`RaceProofs`, about `Blinker`.  `StandsInv`: `isAnyBlinked` tells exactly whether a module has a
blinker or is on its way back, and then one thread is busy with one module,
unless lamps were `overtaken`, so two modules never share the pause of the
server; that an open menu is fresh unless its selection has moved (`MenuIsFresh`)
is what makes it so.  `SettingsInv` adds, for every
point of the lamps' thread, which inputs are already as they are owed and which
are still in the snapshot.

`CfgWriterProofs`.  `QuitStartsAll`, for serial numbers that are spoiled on the
way included, needs `Remembered`: a line without data is in
`m_setSerialRunData`, and `OnEnableData` takes out only what it has started.
`SettingsTypeOK` needs `DialogInv`: a reader belongs to an open dialog, and the
entry it makes for a sensor bears the parent of that sensor (for a master it
need not), so a start that is sent names a line.  `LastWriterStarts` needs
`LineInv`: every line is settled, or edited, or has a write thread that will still
look after it; and a dialog that is cancelled has settled its line before it
takes its entry away (`CancelCheck` before `CancelMark`).

`DialogProofs`, about `Registrator`.  `PageInv` lists the points at which the handlers of the three
workers can be and joins them with the page: who has hidden or disabled buttons,
locked tabs or stopped the data has still to give them back, itself or by a
note that is on its way and that no later note of the other kind follows
(`LastPosted`).  `NoStandOff` and `RestedIsRestored` are read off it.

`DialogProofs`, about `TensoDlg`, for any bridge, shifts and number of positions.
`SliderTellsBalance` needs that the controls are off while timer 2 or 3 runs and
that a search has set slider and bridge where it waits (`SearchInv`).
`BalancedIsBest` needs `ReadingInv`: a new reading is that of the position, so the
readings of an honest search are those of its bracket.  Then arithmetic does the
rest: the line through any two readings of the bridge crosses zero where the
bridge does (`RootIsNearest`, which needs that a fraction is rounded alike
however it is expanded, `RoundScales`), every position the search sets after the
first two is therefore the one nearest to that point, and no other has a smaller
imbalance (`NearestIsBest`).  On a straight line false position needs one step;
that the bridge is one is what `Imbalance`, its external model, assumes.
`TypedIsNearest` is about the other search, of the table of resistances, and any
table that falls: each step keeps the typed value between the ends of a bracket
and halves it (`HalvedGiven`), so after as many steps as there are positions the
ends are neighbours (`Climbing` stands in for induction), and the window of three
that the code looks at last holds the nearest.

`PagesProofs`, about `DeviceTabs`.  `CancelGivesBack` needs `SnapshotInv`: what
differs from the device as it was found is in the snapshot, and a page that
restores it is there.  `OkWritesChoices` needs `Held`: for a page that is saved at
OK the controls are what was chosen last (`Later`), for one that writes at once
the device is (`Now`).  About `Zet037Tab`, `SlotAgrees` needs `PageRight`, and
`FormFitsChannel` needs `FormInv`.  Both are proved update by update, as the page
is written: a lemma for each method says which fields it may touch (`Same`) and
what of the form fits afterwards, and a handler composes them.  About `WriteProp`,
`CancelKeepsCard` needs `CardInv`: from the reading to the cancellation the
temporary file is what is on the card or, after a refused save, the defaults.

`ZspConfigProofs`.  `SavesFindTheirData` needs `ZspInv`: outside a round the device
holds the objects of the entry or none, and no round runs beside a dialog that
is not `late`.  `RoundHandsOutFiles`, `SavedIsRead` and `OkReachesFile` are about
contents and need `ReadInv` besides: the document in memory has the channels and
slots its objects were made of, so that writing them meets every node; a time
that is remembered is that of a file that was read; what was typed is in the
entry's objects until OK, and in the document after it.  The core is that
`ReadChannels` after `WriteChannels` gives back the channels, for any document,
slots and gains, but for what the property names.

`CommandsProofs`.  `TabInv` and, around it, `CommandsInv` say that the channels,
the snapshots and the clipboard are states the setters leave (`Consistent`,
`Snapshot`), and that the open window has a snapshot for every member, each of
that member.  A lemma per setter of `Channel` says which fields of which
channels it changes and that it keeps them consistent; another that
`ForEach` and `InTurn` keep what each of their turns keeps, so a command over a
selection needs no argument about its order.  `ModeFollowsFilter` is part of the
invariant.  `CancelUndoes` composes the setters of `Restore` field by field: the
order of the code is right because ICP and the charge amplifier switch each
other off, a bridge switches ICP on, and the filter comes before the mode that
depends on it.  `SaveUnderWay` needs that a change of a module's channel which is
owed was announced (`Announced`): filter and mode follow from what is.
`CommandsKeepToSelection` needs that the first of the selection, which speaks
for the masks, is found by its rank, and that a mask names no other channel
than those of which it was made, since numbers are unique in a module.

Assumptions are those named beside the constants; the sections of the modules
above say what they stand for.

Only model-checked:

- liveness, and with it every property under fairness (`FoundEventually`,
  `LostEventually`, `WaitResolved`, `WindowComesBack`, `JoinEndsUnlessSending`,
  `CloseEnds`, `LabelSettles`, `BalanceEnds`), out of this prover's reach.

Every invariant and action property that a passing run checks is a theorem.

## Findings

1. The second and third object added are replaced by the first
   (`tree_filled`; main_dlg.cpp:3175 against the comment at line 230).
2. Cancel of a group that holds a recorder's channel gives inputs the settings
   of others (`cancel_restores`; channel_tab.cpp:1943 against line 1926).

The sections above name what the properties had to leave out and why.  One of
these facts contradicts comments of the code and has no run: a command for
several channels may switch off the last input of a module, although "проверка 14
тип на отключение всех каналов" and "оставляем вкл 1ый канал" (main_dlg.cpp:1786,
1796) promise that the first stays on.

## Plan

1. `PropertiesLife`: the opened object against an update in progress and
   against the update through MODBUSZETLAB that the dialog may start
   (`onRemoveData`, `m_prop_dlg`, `requestForUpdateToModbus`).
2. `StdWalk`: which paths a channel of the server has.
3. Pure algorithms: TEDS fields, scaling of channel parameters, against
   reference definitions.

## Not modelled

- Drawing, localisation, names and icons.
- The layout of the 7xxx devices' memory, their settings pages and their
  calibration: tables over a shared memory written by MODBUSZETLAB, which is
  not in the repository.
- The saver (import and export of user configurations): XML over the setters
  of `Channel` and `DeviceTabs`, no state of its own.
- The sensor data base, TEDS and the comparison of configurations: look-up
  tables, bit fields, a tree control.
- Of the std crawler, how the path of a channel is built and what `update_info`
  copies; of the main dialog, the menus of 7xxx devices, export, import, the wizards
  and the shut-down.
- In `ZspConfig`, channels with gaps between their numbers, a recorder that is
  unplugged, more than two channels per slot, equal time stamps of two writes.
- In `WriteProp`, the file of a DAC signal and the profiles; in `Registrator`,
  a second copy thread and a clock test started again before its old thread ended.
- In `TensoDlg`, the coefficients and the resistances it computes, and the test
  that a generator is there.
- In `Zet037Tab`, the display of levels and ranges, `%g` rounding, a sensitivity
  of zero (an outer diameter equal to the inner one makes it infinite).
- Data races that are undefined behaviour: a map of configurations that is
  changed and walked at once (CFGWorker.cpp:72); the crawler whose destructor does
  not join its thread (crawler.cpp:36); the interruption of a thread that joins
  another in a destructor (device_std.cpp:1534).
- Retries of `requestToModbus`, which reports a failure after a successful retry
  (main_dlg.cpp:3116), for want of what MODBUSZETLAB answers.
