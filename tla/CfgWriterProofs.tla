-------------------------- MODULE CfgWriterProofs --------------------------
(***************************************************************************)
(* For any devices, lines and dialogs: the types, and that whatever goes   *)
(* wrong with a start in between, the program does not leave a line        *)
(* without data behind.                                                    *)
(***************************************************************************)
EXTENDS CfgWriter, TLAPS

\* A line that does not deliver data is remembered until it does.
Remembered ==
  /\ running \subseteq Lines
  /\ pending \subseteq Lines
  /\ Lines \ running \subseteq pending
  /\ QuitStartsAll

\* The state Remembered is about is left alone by every step that touches
\* neither the lines nor the main window's state.
LEMMA LinesAloneKeepRemembered ==
  ASSUME Remembered, UNCHANGED << running, pending >>,
         gui' = "closed" => gui = "closed"
  PROVE  Remembered'
BY DEF Remembered, QuitStartsAll, Lines

\* Nothing is stopped when the program starts (Init).
LEMMA InitRemembered == Init => Remembered
BY DEF Init, Remembered, QuitStartsAll

\* OnPropertiesRequest stops a line and puts it into m_setSerialRunData.
LEMMA OpenRemembered ==
  ASSUME Remembered, NEW d \in Device, Open(d)
  PROVE  Remembered'
<1>1. Line[d] \in Lines
  BY DEF Lines
<1> QED
  BY <1>1 DEF Open, Remembered, QuitStartsAll, Lines

\* OnEnableData takes out of m_setSerialRunData only what it has started.
LEMMA StartDataRemembered ==
  ASSUME Remembered, StartData
  PROVE  Remembered'
<1> DEFINE serial == Received(Head(queue).line)
<1>1. /\ running' = running \cup ({serial} \cap Lines)
      /\ pending' = pending \ {serial}
      /\ gui' = gui /\ gui # "closed"
  BY DEF StartData, dialogVars
<1> HIDE DEF serial
<1> QED
  BY <1>1 DEF Remembered, QuitStartsAll, Lines

\* OnClose starts everything that is left in m_setSerialRunData.
LEMMA StartPendingRemembered ==
  ASSUME Remembered, StartPending
  PROVE  Remembered'
BY DEF StartPending, Remembered, QuitStartsAll, Lines

\* Every step of the settings keeps Remembered.
LEMMA StepRemembered == Remembered /\ [Next]_vars => Remembered'
<1> SUFFICES ASSUME Remembered, [Next]_vars
             PROVE  Remembered'
  OBVIOUS
<1>1. ASSUME NEW d \in Device, Open(d) PROVE Remembered'
  BY <1>1, OpenRemembered
<1>2. ASSUME NEW d \in Device, WriterStep(d) PROVE Remembered'
  <2>1. UNCHANGED << gui, running, pending >>
    BY <1>2 DEF WriterStep, WriterStarts, WriteFile, WriteNothing, Compared,
                CompareUnread, Restart, WriterEnds, dialogVars, lineVars
  <2> QED
    BY <2>1, LinesAloneKeepRemembered
<1>3. CASE ReaderStep \/ ReadAgain
  <2>1. UNCHANGED << gui, running, pending >>
    BY <1>3 DEF ReaderStep, ReaderStarts, ReadOk, ReadFails, ReadAgain,
                lineVars
  <2> QED
    BY <2>1, LinesAloneKeepRemembered
<1>4. CASE ShowSettings \/ CancelMark \/ DialogEnds \/ ShowLabel
  <2>1. UNCHANGED << running, pending >> /\ gui' # "closed"
    BY <1>4 DEF ShowSettings, CancelMark, DialogEnds, ShowLabel, lineVars,
                dialogVars
  <2> QED
    BY <2>1, LinesAloneKeepRemembered
<1>5. CASE StartData
  BY <1>5, StartDataRemembered
<1>6. CASE Modify \/ Save \/ CancelCheck \/ CancelUnread \/ CloseProgram
  <2>1. UNCHANGED << running, pending >> /\ gui' # "closed"
    BY <1>6 DEF Modify, Save, CancelCheck, CancelUnread, CloseProgram,
                lineVars, dialogVars
  <2> QED
    BY <2>1, LinesAloneKeepRemembered
<1>7. CASE StartPending
  BY <1>7, StartPendingRemembered
<1>8. CASE UNCHANGED vars
  <2>1. UNCHANGED << gui, running, pending >>
    BY <1>8 DEF vars, dialogVars, lineVars
  <2> QED
    BY <2>1, LinesAloneKeepRemembered
<1> QED
  BY <1>1, <1>2, <1>3, <1>4, <1>5, <1>6, <1>7, <1>8 DEF Next, MainStep

\* When the program has been closed every line delivers data again (OnClose,
\* m_setSerialRunData).
THEOREM ClosedProgramStartedAll == Spec => []QuitStartsAll
<1>1. Remembered => QuitStartsAll
  BY DEF Remembered
<1> QED
  BY <1>1, InitRemembered, StepRemembered, PTL DEF Spec

----------------------------------------------------------------------------
\* What the types rest on: the reader belongs to a dialog, the parent that it
\* puts into the entry of a sensor is the one of that dialog, so that a start
\* that is sent names a line.
DialogInv ==
  /\ SettingsTypeOK
  /\ gui \in {"dialog", "mark", "join"} => dialog \in Device
  /\ reader # "off" => gui \in {"dialog", "mark", "join"}
  /\ dialog \in Device \ Masters => curParent = Line[dialog]
  /\ \A e \in known \ Masters : parent[e] \in Lines

\* The lines and nodes of devices are in the sets the types name.
LEMMA LinesAndNodes ==
  ASSUME NEW d \in Device
  PROVE  Line[d] \in Lines /\ Node[d] \in {Node[e] : e \in Device}
BY DEF Lines

\* A message that is sent is a message of the type.
LEMMA MessagesTyped ==
  /\ \A line \in Lines : RunMessage(line) \in Message
  /\ \A d \in Device, value \in 0..2 : LabelMessage(d, value) \in Message
BY DEF RunMessage, LabelMessage, Message

\* Posting a message keeps the type of the queue.
LEMMA AppendTyped ==
  ASSUME queue \in Seq(Message), NEW message \in Message
  PROVE  Append(queue, message) \in Seq(Message)
OBVIOUS

\* Nothing is opened, read or sent when the program starts (Init).
LEMMA InitDialogInv == Init => DialogInv
BY SettingsAssumption DEF Init, DialogInv, SettingsTypeOK, Message

\* OnPropertiesRequest leaves the parent alone only for a master.
LEMMA OpenDialogInv ==
  ASSUME DialogInv, NEW d \in Device, Open(d)
  PROVE  DialogInv'
<1>1. Line[d] \in Lines /\ Node[d] \in {Node[e] : e \in Device}
  BY LinesAndNodes
<1> QED
  BY <1>1, SettingsAssumption
  DEF Open, DialogInv, SettingsTypeOK, mapVars, writerVars, Message

\* The reader keeps DialogInv: its entry gets the parent of its own dialog.
LEMMA ReaderDialogInv ==
  ASSUME DialogInv, ReaderStep \/ ReadAgain
  PROVE  DialogInv'
<1>2. CASE ReadOk
  <2>1. /\ dialog \in Device
        /\ curParent \in Lines \cup {NoSerial}
        /\ dialog \notin Masters => curParent \in Lines
    BY <1>2, LinesAndNodes DEF ReadOk, DialogInv, SettingsTypeOK
  <2>2. /\ known' = known \cup {dialog}
        /\ parent' = [parent EXCEPT ![dialog] = curParent]
        /\ reader' \in {"off", "send"}
        /\ UNCHANGED << gui, dialog, opened, curParent, curNode, ran, modified,
                        writerVars, queue, lineVars, dropped, lost >>
    BY <1>2 DEF ReadOk
  <2>3. /\ known' \subseteq Device /\ ran' \subseteq known'
        /\ modified' \subseteq known'
        /\ parent' \in [Device -> Lines \cup {NoSerial}]
    BY <2>1, <2>2 DEF DialogInv, SettingsTypeOK
  <2>4. \A e \in known' \ Masters : parent'[e] \in Lines
    BY <2>1, <2>2 DEF DialogInv, SettingsTypeOK
  <2>5. reader' # "off" => gui' \in {"dialog", "mark", "join"}
    BY <1>2, <2>2 DEF ReadOk, DialogInv
  <2> QED
    BY <2>2, <2>3, <2>4, <2>5
    DEF DialogInv, SettingsTypeOK, writerVars, lineVars
<1> USE SettingsAssumption
        DEF DialogInv, SettingsTypeOK, mapVars, writerVars, lineVars, Message
<1>1. CASE ReaderStarts
  BY <1>1 DEF ReaderStarts
<1>3. CASE ReadFails
  BY <1>3 DEF ReadFails
<1>4. CASE ReadAgain
  BY <1>4 DEF ReadAgain
<1> QED
  BY <1>1, <1>2, <1>3, <1>4 DEF ReaderStep

\* A start that a cancelled dialog sends names a line.
LEMMA CancelCheckDialogInv ==
  ASSUME DialogInv, CancelCheck
  PROVE  DialogInv'
<1>1. dialog \in Device /\ dialog \in known
  BY DEF DialogInv, CancelCheck
<1>2. Line[dialog] \in Lines
  BY <1>1, LinesAndNodes
<1>3. StartLine(dialog) \in Lines
  BY <1>1, <1>2 DEF StartLine, DialogInv
<1>4. queue' \in Seq(Message)
  <2>1. queue \in Seq(Message)
    BY DEF DialogInv, SettingsTypeOK
  <2>2. RunMessage(StartLine(dialog)) \in Message
    BY <1>3, MessagesTyped
  <2>3. queue' = queue \/ queue' = Append(queue, RunMessage(StartLine(dialog)))
    BY DEF CancelCheck
  <2> QED
    BY <2>1, <2>2, <2>3, AppendTyped
<1>5. dropped' \subseteq Lines
  BY <1>2 DEF CancelCheck, DialogInv, SettingsTypeOK
<1>6. /\ gui' = "mark"
      /\ UNCHANGED << dialog, opened, reader, curParent, curNode, mapVars,
                      writerVars, lineVars, lost >>
  BY DEF CancelCheck
<1> QED
  BY <1>1, <1>4, <1>5, <1>6
  DEF DialogInv, SettingsTypeOK, mapVars, writerVars, lineVars

\* The other steps of the dialog and of the main window.
LEMMA MainDialogInv ==
  ASSUME DialogInv,
         ShowSettings \/ Modify \/ Save \/ CancelMark \/ CancelUnread
           \/ DialogEnds \/ CloseProgram \/ StartPending
  PROVE  DialogInv'
<1> USE SettingsAssumption
        DEF DialogInv, SettingsTypeOK, mapVars, writerVars, lineVars,
            dialogVars, Message
<1>1. CASE ShowSettings
  BY <1>1 DEF ShowSettings
<1>2. CASE Modify
  BY <1>2 DEF Modify
<1>3. CASE Save
  BY <1>3, LinesAndNodes DEF Save
<1>4. CASE CancelMark
  BY <1>4 DEF CancelMark
<1>5. CASE CancelUnread
  BY <1>5, LinesAndNodes DEF CancelUnread
<1>6. CASE DialogEnds
  BY <1>6 DEF DialogEnds
<1>7. CASE CloseProgram
  BY <1>7 DEF CloseProgram
<1>8. CASE StartPending
  BY <1>8 DEF StartPending
<1> QED
  BY <1>1, <1>2, <1>3, <1>4, <1>5, <1>6, <1>7, <1>8

\* The label and the line that a write thread sends have their types: the
\* entry it marks is one of the map.
LEMMA ComparedDialogInv ==
  ASSUME DialogInv, NEW d \in Device, NEW value \in {0, 2}, Compared(d, value)
  PROVE  DialogInv'
<1>1. Line[d] \in Lines
  BY LinesAndNodes
<1>2. queue' \in Seq(Message)
  <2>1. queue \in Seq(Message)
    BY DEF DialogInv, SettingsTypeOK
  <2>2. LabelMessage(d, value) \in Message
    BY MessagesTyped
  <2>3. queue' = queue \/ queue' = Append(queue, LabelMessage(d, value))
    BY DEF Compared
  <2> QED
    BY <2>1, <2>2, <2>3, AppendTyped
<1>3. StartLine(d) \in Lines \cup {NoSerial}
  BY <1>1 DEF StartLine, DialogInv, SettingsTypeOK
<1>4. restart' \in [Device -> Lines \cup {NoSerial}]
  BY <1>3 DEF Compared, DialogInv, SettingsTypeOK
<1>5. dropped' \subseteq Lines /\ lost' \subseteq Device /\ ran' \subseteq known
  BY <1>1 DEF Compared, DialogInv, SettingsTypeOK
<1>6. writer' = [writer EXCEPT ![d] = "check"]
  BY DEF Compared
<1>7. UNCHANGED << dialogVars, known, parent, modified, node, status, lineVars >>
  BY DEF Compared
<1> QED
  BY <1>2, <1>4, <1>5, <1>6, <1>7
  DEF DialogInv, SettingsTypeOK, dialogVars, lineVars

\* A start that a write thread sends names a line.
LEMMA RestartDialogInv ==
  ASSUME DialogInv, NEW d \in Device, Restart(d)
  PROVE  DialogInv'
<1>1. queue' \in Seq(Message)
  <2>1. queue \in Seq(Message)
    BY DEF DialogInv, SettingsTypeOK
  <2>2. \/ queue' = queue
        \/ restart[d] # NoSerial /\ queue' = Append(queue, RunMessage(restart[d]))
    BY DEF Restart
  <2>3. restart[d] # NoSerial => RunMessage(restart[d]) \in Message
    BY MessagesTyped DEF DialogInv, SettingsTypeOK
  <2> QED
    BY <2>1, <2>2, <2>3, AppendTyped
<1>2. writer' = [writer EXCEPT ![d] = "sleep"]
  BY DEF Restart
<1>3. UNCHANGED << dialogVars, mapVars, node, restart, status, lineVars, lost >>
  BY DEF Restart
<1>4. dropped' \subseteq Lines
  <2>1. \/ dropped' = dropped
        \/ restart[d] # NoSerial /\ dropped' = dropped \cup {restart[d]}
    BY DEF Restart
  <2> QED
    BY <2>1 DEF DialogInv, SettingsTypeOK
<1> QED
  BY <1>1, <1>2, <1>3, <1>4
  DEF DialogInv, SettingsTypeOK, dialogVars, mapVars, lineVars

\* The other steps of a write thread.
LEMMA WriterDialogInv ==
  ASSUME DialogInv, NEW d \in Device,
         WriterStarts(d) \/ WriteFile(d) \/ WriteNothing(d)
           \/ CompareUnread(d) \/ WriterEnds(d)
  PROVE  DialogInv'
<1>1. CASE WriteFile(d)
  <2>1. queue' \in Seq(Message)
    <3>1. queue \in Seq(Message) /\ queue' = Append(queue, LabelMessage(d, 1))
      BY <1>1 DEF DialogInv, SettingsTypeOK, WriteFile
    <3>2. LabelMessage(d, 1) \in Message
      BY MessagesTyped
    <3> QED
      BY <3>1, <3>2, AppendTyped
  <2>2. /\ writer' = [writer EXCEPT ![d] = "compare"] /\ status' = "compare"
        /\ UNCHANGED << dialogVars, mapVars, node, restart, lineVars, dropped, lost >>
    BY <1>1 DEF WriteFile
  <2> QED
    BY <2>1, <2>2
    DEF DialogInv, SettingsTypeOK, dialogVars, mapVars, lineVars
<1> USE LinesAndNodes
        DEF DialogInv, SettingsTypeOK, dialogVars, mapVars, lineVars, Message
<1>2. CASE WriterStarts(d)
  BY <1>2 DEF WriterStarts
<1>3. CASE WriteNothing(d)
  BY <1>3 DEF WriteNothing
<1>4. CASE CompareUnread(d)
  BY <1>4 DEF CompareUnread
<1>5. CASE WriterEnds(d)
  BY <1>5 DEF WriterEnds
<1> QED
  BY <1>1, <1>2, <1>3, <1>4, <1>5

\* OnEnableDevice and OnEnableData take the first message.
LEMMA MessageDialogInv ==
  ASSUME DialogInv, ShowLabel \/ StartData
  PROVE  DialogInv'
<1>1. queue # << >> /\ queue' = Tail(queue)
  BY DEF ShowLabel, StartData
<1>2. queue \in Seq(Message)
  BY DEF DialogInv, SettingsTypeOK
<1>3. queue' \in Seq(Message) /\ Head(queue) \in Message
  BY <1>1, <1>2
<1>4. CASE ShowLabel
  <2>1. Head(queue).device \in Device /\ Head(queue).value \in 0..2
    BY <1>3, <1>4 DEF ShowLabel, Message
  <2>2. label' \in [Device -> 0..2]
    BY <1>4, <2>1 DEF ShowLabel, DialogInv, SettingsTypeOK
  <2>3. UNCHANGED << dialogVars, mapVars, writerVars, running, pending, dropped, lost >>
    BY <1>4 DEF ShowLabel
  <2> QED
    BY <1>3, <2>2, <2>3
    DEF DialogInv, SettingsTypeOK, dialogVars, mapVars, writerVars
<1>5. CASE StartData
  <2>1. running' \subseteq Lines /\ pending' \subseteq Lines
    BY <1>5 DEF StartData, DialogInv, SettingsTypeOK
  <2>2. UNCHANGED << dialogVars, mapVars, writerVars, label, dropped, lost >>
    BY <1>5 DEF StartData
  <2> QED
    BY <1>3, <2>1, <2>2
    DEF DialogInv, SettingsTypeOK, dialogVars, mapVars, writerVars
<1> QED
  BY <1>4, <1>5

\* Every step of the settings keeps DialogInv.
LEMMA StepDialogInv == DialogInv /\ [Next]_vars => DialogInv'
<1> SUFFICES ASSUME DialogInv, [Next]_vars
             PROVE  DialogInv'
  OBVIOUS
<1>1. ASSUME NEW d \in Device, Open(d) PROVE DialogInv'
  BY <1>1, OpenDialogInv
<1>2. ASSUME NEW d \in Device, WriterStep(d) PROVE DialogInv'
  BY <1>2, WriterDialogInv, ComparedDialogInv, RestartDialogInv DEF WriterStep
<1>3. CASE ReaderStep \/ ReadAgain
  BY <1>3, ReaderDialogInv
<1>4. CASE ShowSettings \/ CancelMark \/ DialogEnds \/ Modify \/ Save
             \/ CancelUnread \/ CloseProgram \/ StartPending
  BY <1>4, MainDialogInv
<1>5. CASE CancelCheck
  BY <1>5, CancelCheckDialogInv
<1>6. CASE ShowLabel \/ StartData
  BY <1>6, MessageDialogInv
<1>7. CASE UNCHANGED vars
  BY <1>7 DEF vars, dialogVars, mapVars, writerVars, lineVars, DialogInv,
              SettingsTypeOK
<1> QED
  BY <1>1, <1>2, <1>3, <1>4, <1>5, <1>6, <1>7 DEF Next, MainStep

\* All values keep their types; above all, marked and modified entries are
\* entries of the map, and every start that is sent names a line.
THEOREM SettingsTyped == Spec => []SettingsTypeOK
<1>1. DialogInv => SettingsTypeOK
  BY DEF DialogInv
<1> QED
  BY <1>1, InitDialogInv, StepDialogInv, PTL DEF Spec
----------------------------------------------------------------------------
\* A line that is stopped has somebody who will start it.

Posted(l) == \E i \in 1..Len(queue) : queue[i] = RunMessage(l)

\* A start is on its way, or was given up.
Settled(l) == l \in running \cup dropped \/ Received(l) # l \/ Posted(l)

\* The write thread of d will still look after the line of d.
WillRestart(d) ==
  \/ writer[d] \in {"lock", "write", "compare"}
  \/ writer[d] = "check" /\ restart[d] = Line[d]

LookedAfter(l) ==
  \/ Settled(l)
  \/ \E e \in Editing : Line[e] = l
  \/ gui = "dialog" /\ Line[dialog] = l
  \/ \E d \in Device : Line[d] = l /\ WillRestart(d)

\* A cancelled dialog has settled its line before it takes its entry away.
LineInv ==
  /\ DialogInv
  /\ \A e \in known \ Masters : parent[e] = Line[e]
  /\ \A d \in Device : restart[d] \in {NoSerial, Line[d]}
  /\ gui = "mark" \/ (gui = "join" /\ reader # "off") => Settled(Line[dialog])
  /\ \A l \in Lines : LookedAfter(l)

\* A start that is posted stays posted until it is taken.
LEMMA AppendPosted ==
  ASSUME queue \in Seq(Message), NEW message \in Message, queue' = Append(queue, message)
  PROVE  /\ \A l : Posted(l) => Posted(l)'
         /\ \A l : message = RunMessage(l) => Posted(l)'
BY DEF Posted

\* Taking a message from the queue loses no other.
LEMMA TailPosted ==
  ASSUME queue \in Seq(Message), queue # << >>, queue' = Tail(queue), NEW l, Posted(l)
  PROVE  Posted(l)' \/ Head(queue) = RunMessage(l)
<1>1. PICK i \in 1..Len(queue) : queue[i] = RunMessage(l)
  BY DEF Posted
<1>2. CASE i = 1
  BY <1>1, <1>2
<1>3. CASE i # 1
  <2>1. i - 1 \in 1..Len(queue') /\ queue'[i - 1] = queue[i]
    BY <1>3
  <2> QED
    BY <1>1, <2>1 DEF Posted
<1> QED
  BY <1>2, <1>3

\* A step that stops no line and takes no message leaves lines settled.
LEMMA SettledStays ==
  ASSUME NEW l, Settled(l), running \subseteq running', dropped \subseteq dropped',
         Posted(l) => Posted(l)'
  PROVE  Settled(l)'
BY DEF Settled

\* Every line is settled at the start.
LEMMA InitLines == Init => LineInv
<1> SUFFICES ASSUME Init PROVE LineInv
  OBVIOUS
<1>1. DialogInv
  BY InitDialogInv
<1>2. \A l \in Lines : LookedAfter(l)
  BY DEF Init, LookedAfter, Settled
<1> QED
  BY <1>1, <1>2 DEF Init, LineInv

\* Who opens a dialog looks after the line that it stops.
LEMMA OpenLines ==
  ASSUME LineInv, NEW d \in Device, Open(d)
  PROVE  LineInv'
<1>1. DialogInv'
  BY OpenDialogInv DEF LineInv
<1>2. /\ gui' = "dialog" /\ dialog' = d
      /\ running' = running \ {Line[d]} /\ dropped' = dropped \ {Line[d]}
      /\ UNCHANGED << known, parent, ran, modified, writer, node, restart, queue >>
  BY DEF Open, mapVars, writerVars
<1>3. gui = "loop"
  BY DEF Open
<1>4. ASSUME NEW l \in Lines PROVE LookedAfter(l)'
  <2>1. CASE l = Line[d]
    BY <1>2, <2>1 DEF LookedAfter
  <2>2. CASE l # Line[d]
    BY <1>2, <1>3, <2>2
       DEF LineInv, LookedAfter, Settled, Posted, Editing, WillRestart
  <2> QED
    BY <2>1, <2>2
<1> QED
  BY <1>1, <1>2, <1>4 DEF LineInv

\* Steps that change no line, no message, no write thread, and take no entry
\* out of the edited ones.
LEMMA ReaderLines ==
  ASSUME LineInv, ReaderStep \/ ReadAgain \/ ShowSettings
  PROVE  LineInv'
<1>1. DialogInv'
  BY ReaderDialogInv, MainDialogInv DEF LineInv
<1>2. UNCHANGED << gui, dialog, writer, restart, queue, running, dropped >>
  BY DEF ReaderStep, ReaderStarts, ReadOk, ReadFails, ReadAgain, ShowSettings, writerVars, lineVars
<1>3. reader' # "off" => reader # "off"
  BY DEF ReaderStep, ReaderStarts, ReadOk, ReadFails, ReadAgain, ShowSettings
<1>4. \A l \in Lines : Settled(l)' <=> Settled(l)
  BY <1>2 DEF Settled, Posted
<1>5. dialog \in Device /\ gui \in {"dialog", "mark", "join"}
  <2>1. reader # "off"
    BY DEF ReaderStep, ReaderStarts, ReadOk, ReadFails, ReadAgain, ShowSettings
  <2> QED
    BY <2>1 DEF LineInv, DialogInv
<1>6. /\ \A e \in known' \ Masters : parent'[e] = Line[e]
      /\ Editing \ {dialog} \subseteq Editing'
  <2>1. CASE ReaderStarts
    BY <2>1 DEF ReaderStarts, LineInv, Editing
  <2>2. CASE ReadOk
    BY <1>5, <2>2 DEF ReadOk, LineInv, DialogInv, SettingsTypeOK, Editing
  <2>3. CASE ReadFails \/ ReadAgain \/ ShowSettings
    BY <2>3 DEF ReadFails, ReadAgain, ShowSettings, LineInv, mapVars, Editing
  <2> QED
    BY <2>1, <2>2, <2>3 DEF ReaderStep
<1>7. ASSUME NEW l \in Lines PROVE LookedAfter(l)'
  <2>1. CASE l = Line[dialog]
    <3>1. CASE gui = "dialog"
      BY <1>2, <2>1, <3>1 DEF LookedAfter
    <3>2. CASE gui # "dialog"
      <4>1. reader # "off"
        BY DEF ReaderStep, ReaderStarts, ReadOk, ReadFails, ReadAgain, ShowSettings
      <4>2. Settled(l)
        BY <1>5, <2>1, <3>2, <4>1 DEF LineInv
      <4> QED
        BY <1>4, <4>2 DEF LookedAfter
    <3> QED
      BY <3>1, <3>2
  <2>2. CASE l # Line[dialog]
    BY <1>2, <1>4, <1>6, <2>2 DEF LineInv, LookedAfter, WillRestart
  <2> QED
    BY <2>1, <2>2
<1>8. Line[dialog] \in Lines
  BY <1>5, LinesAndNodes
<1> QED
  BY <1>1, <1>2, <1>3, <1>4, <1>6, <1>7, <1>8 DEF LineInv

\* What a dialog does at its end: a save leaves the line to a write thread, a
\* cancel settles it before the entry is marked.
LEMMA DialogLines ==
  ASSUME LineInv, Modify \/ Save \/ CancelMark \/ CancelUnread \/ DialogEnds
  PROVE  LineInv'
<1>1. DialogInv'
  BY MainDialogInv DEF LineInv
<1>2. UNCHANGED << known, parent, restart, queue, running >>
  BY DEF Modify, Save, CancelMark, CancelUnread, DialogEnds, mapVars, writerVars, lineVars
<1>3. dialog \in Device /\ Line[dialog] \in Lines
  <2>1. dialog \in Device
    BY DEF LineInv, DialogInv, Modify, Save, CancelMark, CancelUnread, DialogEnds
  <2> QED
    BY <2>1, LinesAndNodes
<1>4. \A l \in Lines : Settled(l) => Settled(l)'
  <2>1. dropped \subseteq dropped'
    BY DEF Modify, Save, CancelMark, CancelUnread, DialogEnds
  <2> QED
    BY <1>2, <2>1 DEF Settled, Posted
<1>5. Editing \ {dialog} \subseteq Editing'
  BY <1>2 DEF Modify, Save, CancelMark, CancelUnread, DialogEnds, mapVars, Editing
<1>6. \A d \in Device : WillRestart(d) => WillRestart(d)'
  BY <1>2 DEF Modify, Save, CancelMark, CancelUnread, DialogEnds, writerVars, WillRestart,
              LineInv, DialogInv, SettingsTypeOK
<1>7. ASSUME NEW l \in Lines PROVE LookedAfter(l)'
  <2>1. CASE Modify
    <3>1. UNCHANGED << gui, dialog >> /\ Editing' = Editing
      BY <2>1 DEF Modify, dialogVars, Editing
    <3> QED
      BY <1>4, <1>6, <3>1 DEF LineInv, LookedAfter
  <2>2. CASE Save
    <3>1. WillRestart(dialog)' /\ Editing' = Editing
      BY <1>3, <2>2 DEF Save, WillRestart, LineInv, DialogInv, SettingsTypeOK, mapVars, Editing
    <3>2. CASE l = Line[dialog]
      <4>1. dialog' = dialog
        BY <2>2 DEF Save
      <4> QED
        BY <1>3, <3>1, <3>2, <4>1 DEF LookedAfter
    <3>3. CASE l # Line[dialog]
      <4>1. \A d \in Device : Line[d] = l /\ WillRestart(d) => WillRestart(d)'
        BY <1>6
      <4> QED
        BY <1>4, <3>1, <3>3, <4>1 DEF LineInv, LookedAfter
    <3> QED
      BY <3>2, <3>3
  <2>3. CASE CancelMark
    <3>1. Settled(Line[dialog]) /\ gui = "mark"
      BY <2>3 DEF CancelMark, LineInv
    <3> QED
      BY <1>4, <1>5, <1>6, <3>1 DEF LineInv, LookedAfter
  <2>4. CASE CancelUnread
    <3>1. Line[dialog] \in dropped' /\ Editing' = Editing
      BY <2>4 DEF CancelUnread, mapVars, Editing
    <3> QED
      BY <1>4, <1>6, <3>1 DEF LineInv, LookedAfter, Settled
  <2>5. CASE DialogEnds
    <3>1. gui # "dialog" /\ Editing' = Editing
      BY <2>5 DEF DialogEnds, mapVars, Editing
    <3> QED
      BY <1>4, <1>6, <3>1 DEF LineInv, LookedAfter
  <2> QED
    BY <2>1, <2>2, <2>3, <2>4, <2>5
<1>9. gui' = "mark" \/ (gui' = "join" /\ reader' # "off") => Settled(Line[dialog])'
  <2>1. CASE Modify \/ Save \/ DialogEnds
    BY <2>1 DEF Modify, Save, DialogEnds, dialogVars
  <2>2. CASE CancelMark
    BY <1>3, <1>4, <2>2 DEF CancelMark, LineInv
  <2>3. CASE CancelUnread
    BY <2>3 DEF CancelUnread, Settled
  <2> QED
    BY <2>1, <2>2, <2>3
<1>10. gui' \in {"mark", "join"} => dialog' = dialog
  BY DEF Modify, Save, CancelMark, CancelUnread, DialogEnds, dialogVars
<1> QED
  BY <1>1, <1>2, <1>7, <1>9, <1>10 DEF LineInv

\* The line of a device that has an entry is the one its start would name.
LEMMA StartLineIsLine ==
  ASSUME LineInv, NEW d \in known
  PROVE  StartLine(d) = Line[d] /\ Line[d] \in Lines \ {NoSerial}
<1>1. d \in Device
  BY DEF LineInv, DialogInv, SettingsTypeOK
<1>2. d \in Masters \/ parent[d] = Line[d]
  BY DEF LineInv
<1>3. Line[d] \in Lines /\ Line[d] # NoSerial
  BY <1>1, SettingsAssumption DEF Lines, NoSerial
<1> QED
  BY <1>2, <1>3 DEF StartLine

\* A cancel starts the line or leaves it to another entry.
LEMMA CancelLines ==
  ASSUME LineInv, CancelCheck
  PROVE  LineInv'
<1>1. DialogInv'
  BY CancelCheckDialogInv DEF LineInv
<1>2. /\ UNCHANGED << dialog, known, parent, ran, writer, restart, running >>
      /\ gui' = "mark" /\ dialog \in known
  BY DEF CancelCheck, mapVars, writerVars, lineVars
<1>3. queue \in Seq(Message)
  BY DEF LineInv, DialogInv, SettingsTypeOK
<1>4. StartLine(dialog) = Line[dialog] /\ Line[dialog] \in Lines
  BY <1>2, StartLineIsLine
<1>5. RunMessage(Line[dialog]) \in Message
  BY <1>4, MessagesTyped
<1>6. \A l \in Lines : Posted(l) => Posted(l)'
  <2>1. CASE queue' = queue
    BY <2>1 DEF Posted
  <2>2. CASE queue' = Append(queue, RunMessage(Line[dialog]))
    BY <1>3, <1>5, <2>2, AppendPosted
  <2> QED
    BY <1>4, <2>1, <2>2 DEF CancelCheck
<1>7. \A l \in Lines : Settled(l) => Settled(l)'
  <2>1. dropped \subseteq dropped'
    BY DEF CancelCheck
  <2> QED
    BY <1>2, <1>6, <2>1, SettledStays
<1>8. Settled(Line[dialog])'
  <2>1. CASE HoldsBackCancel(dialog) # {}
    BY <1>2, <2>1 DEF CancelCheck, Settled
  <2>2. CASE HoldsBackCancel(dialog) = {}
    <3>1. queue' = Append(queue, RunMessage(Line[dialog]))
      BY <1>4, <2>2 DEF CancelCheck
    <3>2. Posted(Line[dialog])'
      <4> DEFINE m == RunMessage(Line[dialog])
      <4>1. Len(queue') \in 1..Len(queue') /\ queue'[Len(queue')] = m
        BY <1>3, <1>5, <3>1
      <4>2. Line[dialog]' = Line[dialog]
        BY <1>2
      <4> QED
        BY <4>1, <4>2 DEF Posted, RunMessage
    <3> QED
      BY <3>2 DEF Settled
  <2> QED
    BY <2>1, <2>2
<1>9. ASSUME NEW l \in Lines PROVE LookedAfter(l)'
  <2>1. CASE l = Line[dialog]
    BY <1>2, <1>8, <2>1 DEF LookedAfter
  <2>2. CASE l # Line[dialog]
    BY <1>2, <1>7, <2>2 DEF LineInv, LookedAfter, Editing, WillRestart
  <2> QED
    BY <2>1, <2>2
<1> QED
  BY <1>1, <1>2, <1>8, <1>9 DEF LineInv

\* What the steps of a write thread have in common.
LEMMA WriterKeepsSettled ==
  ASSUME LineInv, NEW d \in Device, WriterStep(d)
  PROVE  /\ UNCHANGED << gui, dialog, reader, known, parent, running >>
         /\ \A l \in Lines : Settled(l) => Settled(l)'
<1>1. /\ UNCHANGED << gui, dialog, reader, known, parent, running >>
      /\ dropped \subseteq dropped'
  BY DEF WriterStep, WriterStarts, WriteFile, WriteNothing, Compared, CompareUnread,
         Restart, WriterEnds, dialogVars, mapVars, lineVars
<1>2. queue \in Seq(Message)
  BY DEF LineInv, DialogInv, SettingsTypeOK
<1> DEFINE Grows == queue' = queue \/ \E message \in Message : queue' = Append(queue, message)
<1>3. Grows
  <2>1. \A value \in 0..2 : LabelMessage(d, value) \in Message
    BY MessagesTyped
  <2>2. ASSUME Restart(d) PROVE Grows
    <3>1. CASE restart[d] = NoSerial
      BY <2>2, <3>1 DEF Restart
    <3>2. CASE restart[d] # NoSerial
      <4>1. restart[d] \in Lines
        BY <3>2 DEF LineInv, DialogInv, SettingsTypeOK
      <4>2. RunMessage(restart[d]) \in Message
        BY <4>1, MessagesTyped
      <4> QED
        BY <2>2, <4>2 DEF Restart
    <3> QED
      BY <3>1, <3>2
  <2>3. ASSUME WriteFile(d) PROVE Grows
    BY <2>1, <2>3 DEF WriteFile
  <2>4. ASSUME NEW value \in {0, 2}, Compared(d, value) PROVE Grows
    BY <2>1, <2>4 DEF Compared
  <2>5. ASSUME WriterStarts(d) \/ WriteNothing(d) \/ CompareUnread(d) \/ WriterEnds(d)
        PROVE  Grows
    BY <2>5 DEF WriterStarts, WriteNothing, CompareUnread, WriterEnds
  <2> QED
    BY <2>2, <2>3, <2>4, <2>5 DEF WriterStep
<1>4. \A l : Posted(l) => Posted(l)'
  <2>1. CASE queue' = queue
    BY <2>1 DEF Posted
  <2>2. ASSUME NEW message \in Message, queue' = Append(queue, message)
        PROVE  \A l : Posted(l) => Posted(l)'
    BY <1>2, <2>2, AppendPosted
  <2> QED
    BY <1>3, <2>1, <2>2
<1> QED
  BY <1>1, <1>4, SettledStays

\* The thread d leaves its line to nobody unnamed: it is the last one to look
\* after the line, or the entry that holds it back is one of the line.
LEMMA WriterHandsOver ==
  ASSUME LineInv, NEW d \in Device, WriterStep(d), WillRestart(d)
  PROVE  WillRestart(d)' \/ LookedAfter(Line[d])'
<1>1. CASE WriterStarts(d)
  BY <1>1 DEF WriterStarts, WillRestart, LineInv, DialogInv, SettingsTypeOK
<1>2. CASE WriteFile(d)
  BY <1>2 DEF WriteFile, WillRestart, LineInv, DialogInv, SettingsTypeOK
<1>3. CASE WriteNothing(d) \/ CompareUnread(d)
  BY <1>3 DEF WriteNothing, CompareUnread, LookedAfter, Settled
<1>4. ASSUME NEW value \in {0, 2}, Compared(d, value)
      PROVE  WillRestart(d)' \/ LookedAfter(Line[d])'
  <2>1. CASE d \in known
    <3>1. StartLine(d) = Line[d]
      BY <2>1, StartLineIsLine
    <3>2. writer'[d] = "check" /\ restart'[d] = Line[d]
      BY <1>4, <2>1, <3>1 DEF Compared, LineInv, DialogInv, SettingsTypeOK
    <3> QED
      BY <3>2 DEF WillRestart
  <2>2. CASE d \notin known
    BY <1>4, <2>2 DEF Compared, LookedAfter, Settled
  <2> QED
    BY <2>1, <2>2
<1>5. CASE Restart(d)
  <2>1. restart[d] = Line[d] /\ Line[d] \in Lines /\ Line[d] # NoSerial
    <3>1. writer[d] = "check"
      BY <1>5 DEF Restart
    <3> QED
      BY <3>1, SettingsAssumption DEF WillRestart, Lines, NoSerial
  <2>2. CASE HoldsBackWriter(Line[d]) = {}
    <3>1. queue' = Append(queue, RunMessage(Line[d]))
      BY <1>5, <2>1, <2>2 DEF Restart
    <3>2. queue \in Seq(Message) /\ RunMessage(Line[d]) \in Message
      BY <2>1, MessagesTyped DEF LineInv, DialogInv, SettingsTypeOK
    <3>3. Len(queue') \in 1..Len(queue') /\ queue'[Len(queue')] = RunMessage(Line[d])
      BY <3>1, <3>2
    <3> QED
      BY <3>3 DEF LookedAfter, Settled, Posted, RunMessage
  <2>3. CASE Line[d] \in {Line[e] : e \in HoldsBackWriter(Line[d])}
    <3>1. PICK e \in Editing : Line[e] = Line[d]
      BY <2>3 DEF HoldsBackWriter
    <3>2. Editing' = Editing
      BY <1>5 DEF Restart, mapVars, Editing
    <3> QED
      BY <3>1, <3>2 DEF LookedAfter
  <2>4. CASE /\ HoldsBackWriter(Line[d]) # {}
             /\ Line[d] \notin {Line[e] : e \in HoldsBackWriter(Line[d])}
    BY <1>5, <2>1, <2>4 DEF Restart, LookedAfter, Settled
  <2> QED
    BY <2>2, <2>3, <2>4
<1>6. CASE WriterEnds(d)
  BY <1>6 DEF WriterEnds, WillRestart
<1> QED
  BY <1>1, <1>2, <1>3, <1>4, <1>5, <1>6 DEF WriterStep

\* Every step of a write thread.
LEMMA WriterLines ==
  ASSUME LineInv, NEW d \in Device, WriterStep(d)
  PROVE  LineInv'
<1>1. DialogInv'
  BY WriterDialogInv, ComparedDialogInv, RestartDialogInv DEF WriterStep, LineInv
<1>2. /\ UNCHANGED << gui, dialog, reader, known, parent, running >>
      /\ \A l \in Lines : Settled(l) => Settled(l)'
  BY WriterKeepsSettled
<1>3. \A e \in Device \ {d} : writer'[e] = writer[e] /\ restart'[e] = restart[e]
  BY DEF WriterStep, WriterStarts, WriteFile, WriteNothing, Compared, CompareUnread,
         Restart, WriterEnds, LineInv, DialogInv, SettingsTypeOK
<1>4. restart'[d] \in {NoSerial, Line[d]}
  <2>1. ASSUME NEW value \in {0, 2}, Compared(d, value) PROVE restart'[d] \in {NoSerial, Line[d]}
    BY <2>1, StartLineIsLine DEF Compared, LineInv, DialogInv, SettingsTypeOK
  <2>2. CASE WriterEnds(d)
    BY <2>2 DEF WriterEnds, LineInv, DialogInv, SettingsTypeOK
  <2>3. CASE \/ WriterStarts(d) \/ WriteFile(d) \/ WriteNothing(d)
             \/ CompareUnread(d) \/ Restart(d)
    BY <2>3 DEF WriterStarts, WriteFile, WriteNothing, CompareUnread, Restart, writerVars, LineInv
  <2> QED
    BY <2>1, <2>2, <2>3 DEF WriterStep
<1>5. \A e \in Editing : e \in Editing' \/ (e = d /\ WillRestart(d)')
  <2>1. ASSUME NEW value \in {0, 2}, Compared(d, value), d \in known PROVE WillRestart(d)'
    <3>1. writer'[d] = "check" /\ restart'[d] = Line[d]
      BY <2>1, StartLineIsLine DEF Compared, LineInv, DialogInv, SettingsTypeOK
    <3> QED
      BY <3>1 DEF WillRestart
  <2>2. ASSUME NEW value \in {0, 2}, Compared(d, value) PROVE ran' \subseteq ran \cup {d}
    BY <2>2 DEF Compared
  <2>3. ASSUME ~ \E value \in {0, 2} : Compared(d, value) PROVE ran' = ran
    BY <2>3 DEF WriterStep, WriterStarts, WriteFile, WriteNothing, CompareUnread, Restart,
                WriterEnds, mapVars
  <2> QED
    BY <1>2, <2>1, <2>2, <2>3 DEF Editing
<1>6. ASSUME NEW l \in Lines PROVE LookedAfter(l)'
  <2>1. CASE Settled(l) \/ (gui = "dialog" /\ Line[dialog] = l)
    BY <1>2, <2>1 DEF LookedAfter
  <2>2. ASSUME NEW e \in Editing, Line[e] = l PROVE LookedAfter(l)'
    BY <1>5, <2>2 DEF LookedAfter
  <2>3. ASSUME NEW e \in Device \ {d}, Line[e] = l, WillRestart(e) PROVE LookedAfter(l)'
    <3>1. WillRestart(e)'
      BY <1>3, <2>3 DEF WillRestart
    <3> QED
      BY <2>3, <3>1 DEF LookedAfter
  <2>4. CASE Line[d] = l /\ WillRestart(d)
    <3>1. WillRestart(d)' \/ LookedAfter(Line[d])'
      BY <2>4, WriterHandsOver
    <3> QED
      BY <2>4, <3>1 DEF LookedAfter
  <2>5. \/ Settled(l)
        \/ gui = "dialog" /\ Line[dialog] = l
        \/ \E e \in Editing : Line[e] = l
        \/ \E e \in Device : Line[e] = l /\ WillRestart(e)
    BY DEF LineInv, LookedAfter
  <2> QED
    BY <2>1, <2>2, <2>3, <2>4, <2>5
<1>7. \A e \in Device : restart'[e] \in {NoSerial, Line[e]}
  BY <1>3, <1>4 DEF LineInv
<1>8. gui' = "mark" \/ (gui' = "join" /\ reader' # "off") => Settled(Line[dialog])'
  <2>1. dialog \in Device => Line[dialog] \in Lines
    BY LinesAndNodes
  <2>2. gui \in {"mark", "join"} => dialog \in Device
    BY DEF LineInv, DialogInv
  <2> QED
    BY <1>2, <2>1, <2>2 DEF LineInv
<1> QED
  BY <1>1, <1>2, <1>6, <1>7, <1>8 DEF LineInv

\* The main window shows a label or starts the line whose message comes next.
LEMMA MessageLines ==
  ASSUME LineInv, ShowLabel \/ StartData
  PROVE  LineInv'
<1>1. DialogInv'
  BY MessageDialogInv DEF LineInv
<1>2. /\ UNCHANGED << dialogVars, mapVars, writerVars, dropped >>
      /\ running \subseteq running' /\ queue # << >> /\ queue' = Tail(queue)
  BY DEF ShowLabel, StartData
<1>3. queue \in Seq(Message)
  BY DEF LineInv, DialogInv, SettingsTypeOK
<1>4. ASSUME NEW l \in Lines, Settled(l) PROVE Settled(l)'
  <2>1. CASE Head(queue) = RunMessage(l)
    <3>1. StartData
      BY <2>1 DEF ShowLabel, RunMessage
    <3>2. running' = running \cup ({Received(l)} \cap Lines)
      BY <2>1, <3>1 DEF StartData, RunMessage
    <3> QED
      BY <3>2 DEF Settled
  <2>2. CASE Head(queue) # RunMessage(l)
    <3>1. Posted(l) => Posted(l)'
      BY <1>2, <1>3, <2>2, TailPosted
    <3> QED
      BY <1>2, <1>4, <3>1, SettledStays
  <2> QED
    BY <2>1, <2>2
<1>5. ASSUME NEW l \in Lines PROVE LookedAfter(l)'
  BY <1>2, <1>4
  DEF LineInv, LookedAfter, Editing, WillRestart, dialogVars, mapVars, writerVars
<1>6. dialog \in Device => Line[dialog] \in Lines
  BY LinesAndNodes
<1>7. gui \in {"loop", "dialog"}
  BY DEF ShowLabel, StartData
<1> QED
  BY <1>1, <1>2, <1>4, <1>5, <1>7 DEF LineInv, dialogVars, mapVars, writerVars

\* The program closes.
LEMMA CloseLines ==
  ASSUME LineInv, CloseProgram \/ StartPending
  PROVE  LineInv'
<1>1. DialogInv'
  BY MainDialogInv DEF LineInv
<1>2. /\ UNCHANGED << known, parent, ran, writer, restart, queue, dropped >>
      /\ running \subseteq running'
      /\ gui # "dialog" /\ gui' \notin {"mark", "join"}
  BY DEF CloseProgram, StartPending, mapVars, writerVars, lineVars
<1> QED
  BY <1>1, <1>2 DEF LineInv, LookedAfter, Settled, Posted, Editing, WillRestart

\* Every step of the settings keeps LineInv.
LEMMA StepLines == LineInv /\ [Next]_vars => LineInv'
<1> SUFFICES ASSUME LineInv, [Next]_vars
             PROVE  LineInv'
  OBVIOUS
<1>1. ASSUME NEW d \in Device, Open(d) PROVE LineInv'
  BY <1>1, OpenLines
<1>2. ASSUME NEW d \in Device, WriterStep(d) PROVE LineInv'
  BY <1>2, WriterLines
<1>3. CASE ReaderStep \/ ReadAgain \/ ShowSettings
  BY <1>3, ReaderLines
<1>4. CASE Modify \/ Save \/ CancelMark \/ CancelUnread \/ DialogEnds
  BY <1>4, DialogLines
<1>5. CASE CancelCheck
  BY <1>5, CancelLines
<1>6. CASE ShowLabel \/ StartData
  BY <1>6, MessageLines
<1>7. CASE CloseProgram \/ StartPending
  BY <1>7, CloseLines
<1>8. CASE UNCHANGED vars
  <2>1. DialogInv'
    BY <1>8, StepDialogInv DEF LineInv
  <2>2. UNCHANGED << gui, dialog, reader, known, parent, ran, writer, restart, queue,
                     running, dropped >>
    BY <1>8 DEF vars, dialogVars, mapVars, writerVars, lineVars
  <2> QED
    BY <2>1, <2>2 DEF LineInv, LookedAfter, Settled, Posted, Editing, WillRestart
<1> QED
  BY <1>1, <1>2, <1>3, <1>4, <1>5, <1>6, <1>7, <1>8 DEF Next, MainStep

\* However many dialogs and write threads there were (funcThreadWrite,
\* removeStructFromMap): when everybody is done, a line without data was left
\* alone by a dialog or a thread that gave up, has an entry of its own that
\* nobody edits any more, or a serial number that does not get through.
THEOREM LastOneStarts == Spec => []LastWriterStarts
<1>1. LineInv => LastWriterStarts
  <2> SUFFICES ASSUME LineInv, AtRest, NEW l \in Lines \ running
               PROVE  \/ l \in dropped
                      \/ \E e \in Editing : Line[e] = l
                      \/ Received(l) # l
    BY DEF LastWriterStarts
  <2>1. ~ Posted(l) /\ gui # "dialog" /\ \A d \in Device : ~ WillRestart(d)
    BY DEF AtRest, Posted, WillRestart
  <2> QED
    BY <2>1 DEF LineInv, LookedAfter, Settled
<1> QED
  BY <1>1, InitLines, StepLines, PTL DEF Spec

=============================================================================
