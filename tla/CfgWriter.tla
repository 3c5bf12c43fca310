----------------------------- MODULE CfgWriter -----------------------------
(***************************************************************************)
(* Changing the settings of 7xxx devices.  A device hangs on the line of   *)
(* its master; MODBUSZETLAB stops the data of the line while a dialog      *)
(* edits the configuration file of a device.  Whoever is done last starts  *)
(* the data again: the dialog that is cancelled, or the write thread that  *)
(* carries out a save.  Threads: the GUI thread with the modal dialog, the *)
(* reader thread of the dialog, one write thread per save.                 *)
(*                                                                         *)
(* The map of read configurations, the node and the parent of the opened   *)
(* device and the status belong to one CCFGWorker and are shared by all.   *)
(* Only the file of the device itself is ever written: no caller of        *)
(* saveSettings asks for all files of a line.                              *)
(***************************************************************************)
EXTENDS Naturals, Sequences, FiniteSets

CONSTANTS
  Device,     \* the 7xxx devices
  None,       \* no device
  Masters,    \* those that are masters
  Line,       \* Line[d]: serial number of the master of d, or of d itself
  Node,       \* Node[d]: the number in the name of d (0: a master)
  Half,       \* 2^32, what a half of a serial number fits in
  MaxOpen     \* bound on the number of dialogs opened

Lines == {Line[d] : d \in Device}
NoSerial == 0

ASSUME SettingsAssumption ==
  /\ None \notin Device
  /\ Masters \subseteq Device
  /\ Half \in Nat \ {0, 1}
  /\ Line \in [Device -> 1..(Half * Half - 1)]
  /\ Node \in [Device -> Nat]
  /\ \A d \in Device : Node[d] = 0 <=> d \in Masters
  /\ MaxOpen \in Nat

VARIABLES
  gui,         \* what the GUI thread does
  dialog,      \* device whose properties are shown, or None
  opened,      \* number of dialogs opened so far
  reader,      \* the reader thread of the dialog
  curParent,   \* m_serialParentCurItem
  curNode,     \* m_numNode
  known,       \* devices with an entry in m_mapWithStructCfg
  parent,      \* _serialParent of an entry
  ran,         \* entries with _isRunData
  modified,    \* entries whose _mParamModify is not empty
  writer,      \* the write thread of a device
  node,        \* the node the write thread took from m_numNode
  restart,     \* serialParent of the write thread
  status,      \* m_statusThreadWrite
  queue,       \* messages posted to the main window
  label,       \* flagViewLable of a device: 1 writing, 2 not written
  running,     \* lines that deliver data
  pending,     \* m_setSerialRunData
  dropped,     \* history: lines that, since they were stopped, a dialog was done
               \* with without trying to start them, or a write thread gave up
               \* or left to an entry of another line
  lost         \* history: devices whose write thread lost sight of the file

mapVars == << known, parent, ran, modified >>
writerVars == << writer, node, restart, status >>
dialogVars == << gui, dialog, opened, reader, curParent, curNode >>
lineVars == << label, running, pending >>
vars == << dialogVars, mapVars, writerVars, queue, lineVars, dropped, lost >>

Message ==
  [kind : {"label"}, device : Device, value : 0..2]
    \cup [kind : {"run"}, line : Lines]

SettingsTypeOK ==
  /\ gui \in {"loop", "dialog", "mark", "join", "closing", "closed"}
  /\ dialog \in Device \cup {None}
  /\ opened \in 0..MaxOpen
  /\ reader \in {"off", "lock", "read", "send", "failed"}
  /\ curParent \in Lines \cup {NoSerial}
  /\ curNode \in {Node[d] : d \in Device} \cup {0}
  /\ known \subseteq Device /\ ran \subseteq known /\ modified \subseteq known
  /\ parent \in [Device -> Lines \cup {NoSerial}]
  /\ writer \in [Device -> {"off", "lock", "write", "compare", "check", "sleep"}]
  /\ node \in [Device -> {Node[d] : d \in Device} \cup {0}]
  /\ restart \in [Device -> Lines \cup {NoSerial}]
  /\ status \in {"write", "compare", "end"}
  /\ queue \in Seq(Message)
  /\ label \in [Device -> 0..2]
  /\ running \subseteq Lines /\ pending \subseteq Lines
  /\ dropped \subseteq Lines /\ lost \subseteq Device

Init ==
  /\ gui = "loop" /\ dialog = None /\ opened = 0 /\ reader = "off"
  /\ curParent = NoSerial /\ curNode = 0
  /\ known = {} /\ ran = {} /\ modified = {}
  /\ parent = [d \in Device |-> NoSerial]
  /\ writer = [d \in Device |-> "off"]
  /\ node = [d \in Device |-> 0]
  /\ restart = [d \in Device |-> NoSerial]
  /\ status = "end"
  /\ queue = << >>
  /\ label = [d \in Device |-> 0]
  /\ running = Lines /\ pending = {}
  /\ dropped = {} /\ lost = {}

----------------------------------------------------------------------------
\* sendMessageRunData cuts a serial number into two longs, OnEnableData puts
\* it together again: a low half with its highest bit set is sign-extended
\* over the high half.
Received(serial) ==
  LET low == serial % Half
  IN  IF 2 * low >= Half THEN (Half - 1) * Half + low ELSE serial

RunMessage(line) == [kind |-> "run", line |-> line]
LabelMessage(d, value) == [kind |-> "label", device |-> d, value |-> value]

\* The line that is started when d is done.
StartLine(d) == IF d \in Masters THEN Line[d] ELSE parent[d]

Editing == known \ ran

\* removeStructFromMap: entries that keep a cancelled d from starting its line.
\* The parent in the entry of a master is that of the sensor opened before it.
HoldsBackCancel(d) ==
  {e \in Editing \ {d} :
     parent[e] = (IF d \in Masters THEN Line[d] ELSE parent[d])}

\* Mutant: entries whose data are already started hold it back as well.
HoldsBackDone(line) ==
  {e \in known : parent[e] = line \/ (e \in Masters /\ Line[e] = line)}

\* funcThreadWrite: entries that keep a write thread from starting the line.
HoldsBackWriter(line) ==
  {e \in Editing : parent[e] = line \/ (e \in Masters /\ Line[e] = line)}

\* Write threads that hold the mutex of d and node n.
Locked(d, n) ==
  writer[d] \in {"write", "compare", "check", "sleep"} /\ node[d] = n

----------------------------------------------------------------------------
\* The dialog.

\* Mutant: the line of a master is not remembered.
OpenForgetful(d) ==
  /\ gui = "loop" /\ opened < MaxOpen
  /\ gui' = "dialog" /\ dialog' = d /\ opened' = opened + 1
  /\ reader' = "lock"
  /\ curParent' = IF d \in Masters THEN curParent ELSE Line[d]
  /\ curNode' = Node[d]
  /\ label' = [label EXCEPT ![d] = 0]
  /\ pending' = IF d \in Masters THEN pending ELSE pending \cup {Line[d]}
  /\ running' = running \ {Line[d]}
  /\ dropped' = dropped \ {Line[d]}
  /\ UNCHANGED << mapVars, writerVars, queue, lost >>

\* OnPropertiesRequest, as far as the modal dialog.
Open(d) ==
  /\ gui = "loop" /\ opened < MaxOpen
  /\ gui' = "dialog" /\ dialog' = d /\ opened' = opened + 1
  /\ reader' = "lock"
  /\ curParent' = IF d \in Masters THEN curParent ELSE Line[d]
  /\ curNode' = Node[d]
  /\ label' = [label EXCEPT ![d] = 0]
  /\ pending' = pending \cup {Line[d]}
  /\ running' = running \ {Line[d]}
  /\ dropped' = dropped \ {Line[d]}
  /\ UNCHANGED << mapVars, writerVars, queue, lost >>

\* getStructCfg7xxx gets the mutex and erases the entry of an earlier read.
ReaderStarts ==
  /\ reader = "lock" /\ ~Locked(dialog, curNode)
  /\ reader' = "read"
  /\ known' = known \ {dialog}
  /\ ran' = ran \ {dialog} /\ modified' = modified \ {dialog}
  /\ UNCHANGED << gui, dialog, opened, curParent, curNode, parent, writerVars,
                  queue, lineVars, dropped, lost >>

\* Mutant: the dialog does not disconnect before it waits for the reader.
ReadOkConnected ==
  /\ reader = "read"
  /\ reader' = "send"
  /\ known' = known \cup {dialog}
  /\ parent' = [parent EXCEPT ![dialog] = curParent]
  /\ UNCHANGED << gui, dialog, opened, curParent, curNode, ran, modified,
                  writerVars, queue, lineVars, dropped, lost >>

\* The files are there.  The dialog is told with SendMessage, unless
\* stopReadSettings has disconnected it.
ReadOk ==
  /\ reader = "read"
  /\ reader' = IF gui = "join" THEN "off" ELSE "send"
  /\ known' = known \cup {dialog}
  /\ parent' = [parent EXCEPT ![dialog] = curParent]
  /\ UNCHANGED << gui, dialog, opened, curParent, curNode, ran, modified,
                  writerVars, queue, lineVars, dropped, lost >>

\* They are not, for half a minute.
ReadFails ==
  /\ reader = "read" /\ reader' = "failed"
  /\ UNCHANGED << gui, dialog, opened, curParent, curNode, mapVars, writerVars,
                  queue, lineVars, dropped, lost >>

\* MODBUSZETLAB has brought the files up to date, and the dialog reads again.
ReadAgain ==
  /\ gui = "dialog" /\ reader = "failed" /\ reader' = "lock"
  /\ UNCHANGED << gui, dialog, opened, curParent, curNode, mapVars, writerVars,
                  queue, lineVars, dropped, lost >>

\* WM_USER_READY: the tabs are shown.
ShowSettings ==
  /\ gui = "dialog" /\ reader = "send" /\ reader' = "off"
  /\ UNCHANGED << gui, dialog, opened, curParent, curNode, mapVars, writerVars,
                  queue, lineVars, dropped, lost >>

Modify ==
  /\ gui = "dialog" /\ reader = "off" /\ dialog \in known \ modified
  /\ modified' = modified \cup {dialog}
  /\ UNCHANGED << dialogVars, known, parent, ran, writerVars, queue, lineVars,
                  dropped, lost >>

\* OnOK: a write thread is started and the dialog ends.  (A bound: one write
\* thread per device at a time.)
Save ==
  /\ gui = "dialog" /\ reader = "off" /\ dialog \in modified
  /\ writer[dialog] = "off"
  /\ writer' = [writer EXCEPT ![dialog] = "lock"]
  /\ gui' = "join"
  /\ UNCHANGED << dialog, opened, reader, curParent, curNode, mapVars, node,
                  restart, status, queue, lineVars, dropped, lost >>

\* OnCancel, with an entry to take back: is another device of the line still
\* being edited?
CancelCheck ==
  LET postponed == HoldsBackCancel(dialog) # {}
      line      == StartLine(dialog)
  IN  /\ gui = "dialog" /\ dialog \in known
      /\ gui' = "mark"
      /\ queue' = IF postponed THEN queue ELSE Append(queue, RunMessage(line))
      /\ dropped' = IF postponed THEN dropped \cup {Line[dialog]} ELSE dropped
      /\ UNCHANGED << dialog, opened, reader, curParent, curNode, mapVars,
                      writerVars, lineVars, lost >>

\* Only then the own entry is marked.  (The reader may have erased it.)
CancelMark ==
  /\ gui = "mark" /\ gui' = "join"
  /\ ran' = ran \cup ({dialog} \cap known)
  /\ UNCHANGED << dialog, opened, reader, curParent, curNode, known, parent,
                  modified, writerVars, queue, lineVars, dropped, lost >>

\* OnCancel before the file was read: there is nothing to take back.
CancelUnread ==
  /\ gui = "dialog" /\ dialog \notin known
  /\ gui' = "join"
  /\ dropped' = dropped \cup {Line[dialog]}
  /\ UNCHANGED << dialog, opened, reader, curParent, curNode, mapVars,
                  writerVars, queue, lineVars, lost >>

\* OnDestroy: stopReadSettings joins the reader.
DialogEnds ==
  /\ gui = "join" /\ reader \in {"off", "failed"}
  /\ gui' = "loop" /\ dialog' = None /\ reader' = "off"
  /\ UNCHANGED << opened, curParent, curNode, mapVars, writerVars, queue,
                  lineVars, dropped, lost >>

----------------------------------------------------------------------------
\* The write thread of d.

\* It gets its mutex and reads the node of whatever device is opened by then.
WriterStarts(d) ==
  /\ writer[d] = "lock"
  /\ ~(reader = "read" /\ dialog = d)
  /\ writer' = [writer EXCEPT ![d] = "write"]
  /\ node' = [node EXCEPT ![d] = curNode]
  /\ status' = "write"
  /\ UNCHANGED << dialogVars, mapVars, restart, queue, lineVars, dropped, lost >>

\* The file belongs to an entry and bears the node.
Found(d) == d \in known \cap modified /\ node[d] \in {0, Node[d]}

WriteFile(d) ==
  /\ writer[d] = "write" /\ Found(d)
  /\ writer' = [writer EXCEPT ![d] = "compare"]
  /\ status' = "compare"
  /\ queue' = Append(queue, LabelMessage(d, 1))
  /\ UNCHANGED << dialogVars, mapVars, node, restart, lineVars, dropped, lost >>

\* Nothing is written: the file was not found or cannot be opened.  The loop
\* that compares is left at once, and nothing is sent.
WriteNothing(d) ==
  /\ writer[d] = "write"
  /\ writer' = [writer EXCEPT ![d] = "sleep"]
  /\ status' = "compare"
  /\ dropped' = dropped \cup {Line[d]} /\ lost' = lost \cup {d}
  /\ UNCHANGED << dialogVars, mapVars, node, restart, queue, lineVars >>

\* Mutant: nobody is told when the comparison is given up.
ComparedQuiet(d, value) ==
  /\ writer[d] = "compare"
  /\ writer' = [writer EXCEPT ![d] = "check"]
  /\ IF d \in known
     THEN /\ queue' = IF value = 0 THEN Append(queue, LabelMessage(d, value))
                      ELSE queue
          /\ ran' = ran \cup {d}
          /\ restart' = [restart EXCEPT ![d] = StartLine(d)]
          /\ UNCHANGED << dropped, lost >>
     ELSE /\ dropped' = dropped \cup {Line[d]} /\ lost' = lost \cup {d}
          /\ UNCHANGED << queue, ran, restart >>
  /\ UNCHANGED << dialogVars, known, parent, modified, node, status, lineVars >>

\* MODBUSZETLAB has written the file again, or ten seconds are over (sooner
\* when the program closes): value 0 says that the settings were taken.
Compared(d, value) ==
  /\ writer[d] = "compare"
  /\ writer' = [writer EXCEPT ![d] = "check"]
  /\ IF d \in known
     THEN /\ queue' = Append(queue, LabelMessage(d, value))
          /\ ran' = ran \cup {d}
          /\ restart' = [restart EXCEPT ![d] = StartLine(d)]
          /\ UNCHANGED << dropped, lost >>
     ELSE /\ dropped' = dropped \cup {Line[d]} /\ lost' = lost \cup {d}
          /\ UNCHANGED << queue, ran, restart >>
  /\ UNCHANGED << dialogVars, known, parent, modified, node, status, lineVars >>

\* The file was written again and cannot be read: nothing is sent or marked.
CompareUnread(d) ==
  /\ writer[d] = "compare"
  /\ writer' = [writer EXCEPT ![d] = "sleep"]
  /\ dropped' = dropped \cup {Line[d]} /\ lost' = lost \cup {d}
  /\ UNCHANGED << dialogVars, mapVars, node, restart, status, queue, lineVars >>

\* The data of the line are started unless another device of it is edited.
Restart(d) ==
  LET line  == restart[d]
      holds == HoldsBackWriter(line)
  IN  /\ writer[d] = "check"
      /\ writer' = [writer EXCEPT ![d] = "sleep"]
      /\ queue' = IF line # NoSerial /\ holds = {}
                  THEN Append(queue, RunMessage(line)) ELSE queue
      /\ dropped' = IF line # NoSerial /\ holds # {} /\ line \notin {Line[e] : e \in holds}
                    THEN dropped \cup {line} ELSE dropped
      /\ UNCHANGED << dialogVars, mapVars, node, restart, status, lineVars, lost >>

\* Mutant: the status of the comparison is left standing.
WriterEndsSilently(d) ==
  /\ writer[d] = "sleep"
  /\ writer' = [writer EXCEPT ![d] = "off"]
  /\ node' = [node EXCEPT ![d] = 0]
  /\ restart' = [restart EXCEPT ![d] = NoSerial]
  /\ UNCHANGED << dialogVars, mapVars, status, queue, lineVars, dropped, lost >>

WriterEnds(d) ==
  /\ writer[d] = "sleep"
  /\ writer' = [writer EXCEPT ![d] = "off"]
  /\ node' = [node EXCEPT ![d] = 0]
  /\ restart' = [restart EXCEPT ![d] = NoSerial]
  /\ status' = "end"
  /\ UNCHANGED << dialogVars, mapVars, queue, lineVars, dropped, lost >>

WriterStep(d) ==
  \/ WriterStarts(d) \/ WriteFile(d) \/ WriteNothing(d)
  \/ (\E value \in {0, 2} : Compared(d, value)) \/ CompareUnread(d)
  \/ Restart(d) \/ WriterEnds(d)

----------------------------------------------------------------------------
\* The main window.

\* OnEnableDevice
ShowLabel ==
  /\ gui \in {"loop", "dialog"} /\ queue # << >> /\ Head(queue).kind = "label"
  /\ label' = [label EXCEPT ![Head(queue).device] = Head(queue).value]
  /\ queue' = Tail(queue)
  /\ UNCHANGED << dialogVars, mapVars, writerVars, running, pending, dropped, lost >>

\* OnEnableData
StartData ==
  LET serial == Received(Head(queue).line)
  IN  /\ gui \in {"loop", "dialog"} /\ queue # << >> /\ Head(queue).kind = "run"
      /\ running' = running \cup ({serial} \cap Lines)
      /\ pending' = pending \ {serial}
      /\ queue' = Tail(queue)
      /\ UNCHANGED << dialogVars, mapVars, writerVars, label, dropped, lost >>

\* OnClose waits until the status is statusEnd, and starts what is pending.
CloseProgram ==
  /\ gui = "loop" /\ gui' = "closing"
  /\ UNCHANGED << dialog, opened, reader, curParent, curNode, mapVars,
                  writerVars, queue, lineVars, dropped, lost >>

StartPending ==
  /\ gui = "closing" /\ status = "end" /\ gui' = "closed"
  /\ running' = running \cup pending
  /\ UNCHANGED << dialog, opened, reader, curParent, curNode, mapVars,
                  writerVars, queue, label, pending, dropped, lost >>

ReaderStep == ReaderStarts \/ ReadOk \/ ReadFails
MainStep == ShowSettings \/ CancelMark \/ DialogEnds \/ ShowLabel \/ StartData

Next ==
  \/ \E d \in Device : Open(d) \/ WriterStep(d)
  \/ ReaderStep \/ ReadAgain \/ MainStep
  \/ Modify \/ Save \/ CancelCheck \/ CancelUnread
  \/ CloseProgram \/ StartPending

Spec == Init /\ [][Next]_vars

\* Every thread runs, and the main window takes its messages; what the user
\* does is up to the user.
FairSpec ==
  /\ Spec
  /\ WF_vars(ReaderStep) /\ WF_vars(DialogEnds) /\ WF_vars(CancelMark)
  /\ WF_vars(ShowLabel \/ StartData) /\ WF_vars(ShowSettings)
  /\ WF_vars(StartPending)
  /\ \A d \in Device : WF_vars(WriterStep(d))

----------------------------------------------------------------------------
\* Properties.

AtRest ==
  /\ gui = "loop" /\ queue = << >>
  /\ \A d \in Device : writer[d] = "off"

\* Whatever was stopped and not started again, by whatever fault, is started
\* when the program closes (OnClose, m_setSerialRunData).
QuitStartsAll == gui = "closed" => running = Lines

\* The last of several write threads starts the line (CFGWorker.cpp:779-794):
\* when everybody is done, a line that does not deliver data is one that, since
\* it was stopped, a dialog left to others or a write thread gave up or left to
\* an entry of another line, which bears the wrong parent; or an entry of its own
\* that nobody edits any more stands in the way; or its serial number does not
\* get through.
LastWriterStarts ==
  AtRest => \A l \in Lines \ running :
    \/ l \in dropped
    \/ \E e \in Editing : Line[e] = l
    \/ Received(l) # l

\* A closed dialog goes away, unless its reader is sending it a message at that
\* very time: the reader needs at most its files and its mutex (OnDestroy,
\* stopReadSettings).
JoinEndsUnlessSending == gui = "join" /\ reader # "send" ~> gui # "join"

\* The program closes: OnClose does not wait for a write thread that waits for
\* the main window (main_dlg.cpp, the loop on statusEnd).
CloseEnds == gui = "closing" ~> gui = "closed"

\* A device does not stay marked as being written (OnEnableDevice), unless its
\* write thread lost sight of the file.
LabelSettles ==
  []<>(gui \in {"loop", "dialog"}) =>
    \A d \in Device : label[d] = 1 ~> label[d] # 1 \/ d \in lost

=============================================================================
