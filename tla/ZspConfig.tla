------------------------------ MODULE ZspConfig ------------------------------
(***************************************************************************)
(* A recorder that is set up through files: its configuration, its state   *)
(* and its metadata are documents which the driver or the recorder may     *)
(* replace at any time.  The crawler reads them in every round and hands   *)
(* the objects made from them to the device and to its channels; a dialog  *)
(* edits these objects, whose save callbacks write the documents back.     *)
(*                                                                         *)
(* Of an object that the device still holds only this matters: is it the   *)
(* one of the entry in zsp_factory ("same"), was its callback taken away   *)
(* ("cut"), did the entry drop it and leave the callback ("loose"), or is  *)
(* the entry gone to which the callback is bound ("dead").                 *)
(***************************************************************************)
EXTENDS Naturals, Sequences

CONSTANTS
  PerSlot,       \* channels of a slot (4 in the code)
  Docs, States, Metas,   \* documents that somebody else may write
  NoNode,        \* a node that a document does not have
  Broken,        \* a file that is no XML
  Outdated,      \* XML of a version that is not read
  Closed, Device,  \* no dialog; the dialog of the device
  Value,         \* what a user may enter
  Shown,         \* the channels whose dialog is opened
  MaxEdits, MaxWrites    \* bounds

Kind == {"cfg", "st", "md"}

\* No document, and no object made of one.
NoDoc == [f \in {} |-> f]
Good(doc) == doc \notin {NoDoc, Broken, Outdated}

\* The nodes that matter of a configuration, and what those of the device hold.
DocField == {"freq", "minutes", "start", "eth", "out", "icp", "kod", "serial", "slots", "chan"}
GoodDocs == {doc \in Docs : Good(doc)}
Number ==
  Value \cup {0, NoNode} \cup {doc.freq : doc \in GoodDocs} \cup {doc.out : doc \in GoodDocs}
DeviceValues == [freq : Number, start : {"button", "auto"}, out : Number]

\* The metadata: the codes of the station, and the frequency the driver noted.
GoodMetas == {md \in Metas : Good(md)}
MetaValues ==
  [code : Value \cup {md.code : md \in GoodMetas},
   freq : Number \cup {md.freq : md \in GoodMetas}]

\* A recorder has channels, numbered without gaps, and the list of gains of its
\* device is as long as they are.
HasChannels(doc) ==
  /\ DOMAIN doc.chan # {}
  /\ \A c \in DOMAIN doc.chan :
       c \in Nat /\ 0 .. c \subseteq DOMAIN doc.chan /\ c \in DOMAIN doc.kod

ASSUME ZspAssumption ==
  /\ PerSlot \in Nat \ {0} /\ MaxEdits \in Nat /\ MaxWrites \in Nat
  /\ Closed # Device /\ Closed \notin Shown /\ Device \notin Shown
  /\ \A doc \in GoodDocs : doc = [f \in DocField |-> doc[f]] /\ HasChannels(doc)
  /\ GoodMetas \subseteq MetaValues

VARIABLES
  file,          \* file[k]: the document of a kind on the disk
  entry,         \* the entry of the recorder in zsp_factory
  held,          \* what the device holds of each kind
  old,           \* the values of objects that are held and not the entry's
  round,         \* where the crawler is
  allowed,       \* crawler::_allowed
  dlg,           \* whose properties are shown: Closed, Device, a channel
  phase,         \* of the dialog: "edit", "cancel", "ok", "end"
  saving,        \* what zsp_config::save still has to write, or that it met a
                 \* thing that is gone ("lost", "late"): the program's end
  snap,          \* the memento of the dialog
  srvOut,        \* the digital outputs that the server knows
  typed,         \* what was entered in this dialog
  wrote,         \* the configuration that OK has written
  late,          \* did the dialog open during a round
  quiet,         \* no file was written and no dialog open in this round
  edits, writes

zspVars == << file, entry, held, old, round, allowed, dlg, phase, saving, snap,
              srvOut, typed, wrote, late, quiet, edits, writes >>

Slot(c) == c \div PerSlot

(***************************************************************************)
(* What is made of a document, and what a document becomes.                *)
(***************************************************************************)

\* The start of a recording is "button" unless the document says "auto";
\* the outputs are read only inside the branch for the Ethernet node.
ReadDevice(doc) ==
  [freq  |-> doc.freq,
   start |-> IF doc.start = "auto" THEN "auto" ELSE "button",
   out   |-> IF doc.eth /\ doc.out # NoNode THEN doc.out ELSE 0]

\* The list of the device first, then that of the slot.
ReadGain(doc, c) ==
  IF Slot(c) \in DOMAIN doc.slots
    THEN doc.slots[Slot(c)].gain[c % PerSlot]
    ELSE doc.kod[c]

ReadChannel(doc, c) ==
  [serial |-> doc.serial[Slot(c)],
   icp   |-> c \in doc.icp,
   gain  |-> ReadGain(doc, c),
   exc   |-> IF Slot(c) \in DOMAIN doc.slots THEN doc.slots[Slot(c)].exc ELSE 0,
   name  |-> doc.chan[c].name,
   tenso |-> IF doc.chan[c].tenso = NoNode THEN 0 ELSE doc.chan[c].tenso]

ReadChannels(doc) == [c \in DOMAIN doc.chan |-> ReadChannel(doc, c)]

\* The nodes of the device: only those that exist are written.  A start
\* attribute that was not there is appended and stays empty.
WriteDevice(doc, dev) ==
  [doc EXCEPT !.freq = IF @ = NoNode THEN @ ELSE dev.freq,
              !.start = IF ~doc.minutes THEN @
                        ELSE IF @ = NoNode THEN "" ELSE dev.start,
              !.out = IF @ = NoNode THEN @ ELSE dev.out]

\* The masks and the list of gains run over all channels; a slot has the
\* excitation of its first channel and the gains of all.
WriteMasks(doc, chans) ==
  [doc EXCEPT !.icp = {c \in DOMAIN chans : chans[c].icp},
              !.kod = [c \in DOMAIN @ |-> IF c \in DOMAIN chans THEN chans[c].gain ELSE @[c]]]

\* Mutant: every slot is written with the gains of the first one.
WriteSlotsOfFirst(doc, chans) ==
  [doc EXCEPT !.slots = [s \in DOMAIN @ |->
     LET at(i) == s * PerSlot + i IN
     [exc  |-> IF at(0) \in DOMAIN chans THEN chans[at(0)].exc ELSE 0,
      gain |-> [i \in 0 .. PerSlot - 1 |-> IF i \in DOMAIN chans THEN chans[i].gain ELSE 1]]]]
\* The nodes of the slots.
WriteSlots(doc, chans) ==
  [doc EXCEPT !.slots = [s \in DOMAIN @ |->
     LET at(i) == s * PerSlot + i IN
     [exc  |-> IF at(0) \in DOMAIN chans THEN chans[at(0)].exc ELSE 0,
      gain |-> [i \in 0 .. PerSlot - 1 |->
                  IF at(i) \in DOMAIN chans THEN chans[at(i)].gain ELSE 1]]]]

\* TensoSettings is appended to a node that is not there, so never.
WriteTenso(node, chan) == IF node = NoNode THEN NoNode ELSE chan.tenso

\* The nodes of the channels; the name comes from the metadata if there are
\* any.
WriteChannels(doc, chans, md) ==
  [doc EXCEPT !.chan = [c \in DOMAIN @ |->
     IF c \notin DOMAIN chans THEN @[c]
     ELSE [name  |-> IF md = NoDoc THEN chans[c].name ELSE md.code,
           tenso |-> WriteTenso(@[c].tenso, chans[c])]]]

WriteConfig(doc, dev, chans, md) ==
  WriteChannels(WriteSlots(WriteMasks(WriteDevice(doc, dev), chans), chans), chans, md)

(***************************************************************************)
(* Reading.                                                                *)
(***************************************************************************)
NoChannels == [c \in {} |-> c]

\* seen[k] says that the time remembered for a document is that of its file.
NoEntry == [there |-> FALSE, alive |-> FALSE,
            xml  |-> [k \in Kind |-> NoDoc], seen |-> [k \in Kind |-> FALSE],
            dev |-> NoDoc, chans |-> NoChannels, st |-> NoDoc, md |-> NoDoc]

Unload(e) == [e EXCEPT !.xml["cfg"] = NoDoc, !.dev = NoDoc, !.seen["cfg"] = FALSE]

\* load and parse: the channels outlive a file that is gone or no XML.
Load(e) ==
  LET doc == file["cfg"] IN
  IF doc = NoDoc THEN Unload(e)
  ELSE IF e.seen["cfg"] THEN e
  ELSE IF doc = Broken THEN Unload(e)
  ELSE IF doc = Outdated THEN [Unload(e) EXCEPT !.chans = NoChannels]
  ELSE [e EXCEPT !.xml["cfg"] = doc, !.seen["cfg"] = TRUE,
                 !.dev = ReadDevice(doc), !.chans = ReadChannels(doc)]

\* load_state and parse_state, load_metadata and parse_metadata.
LoadOther(e, k) ==
  LET doc == IF Good(file[k]) THEN file[k] ELSE NoDoc
      f == [e EXCEPT !.xml[k] = doc, !.seen[k] = Good(file[k])]
  IN IF file[k] # NoDoc /\ e.seen[k] THEN e
     ELSE IF k = "st" THEN [f EXCEPT !.st = doc] ELSE [f EXCEPT !.md = doc]

\* Parsing takes the callbacks of the objects it replaces, unloading leaves
\* them; an object of the metadata has none.
Detached(k) == IF k # "md" /\ file[k] \in {NoDoc, Broken} THEN "loose" ELSE "cut"
Replaced(e, k) == ~e.seen[k] \/ file[k] = NoDoc
HeldAfterLoad(e) ==
  [held EXCEPT
     !.dev  = IF @ = "same" /\ Replaced(e, "cfg") THEN Detached("cfg") ELSE @,
     !.chan = IF @ = "same" /\ Replaced(e, "cfg") /\ Detached("cfg") = "cut" THEN "cut" ELSE @]
HeldAfterOther(e, k) ==
  [held EXCEPT ![k] = IF @ = "same" /\ Replaced(e, k) THEN Detached(k) ELSE @]

\* The values of the objects the device holds.
Dev == IF held.dev = "same" THEN entry.dev ELSE old.dev
Chans == IF held.chan = "same" THEN entry.chans ELSE old.chans
St == IF held.st = "same" THEN entry.st ELSE old.st

\* What is kept of objects that are no longer the entry's, given the new held.
Remember(h) ==
  [dev |-> IF h.dev \in {"same", "none"} THEN NoDoc ELSE Dev,
   chans |-> IF h.chan \in {"same", "none"} THEN NoChannels ELSE Chans,
   st |-> IF h.st \in {"same", "none"} THEN NoDoc ELSE St]

(***************************************************************************)
(* A round of the crawler, as far as it concerns the recorder.             *)
(***************************************************************************)
ZspInit ==
  /\ file \in [cfg : Docs, st : States, md : Metas]
  /\ entry = NoEntry
  /\ held = [dev |-> "none", chan |-> "none", st |-> "none", md |-> "none"]
  /\ old = [dev |-> NoDoc, chans |-> NoChannels, st |-> NoDoc]
  /\ round = "idle" /\ allowed = TRUE /\ dlg = Closed /\ phase = "edit"
  /\ saving = << >> /\ snap = NoDoc /\ srvOut = 0
  /\ typed = NoDoc /\ wrote = NoDoc
  /\ late = FALSE /\ quiet = FALSE /\ edits = 0 /\ writes = 0

dialogVars == << dlg, phase, saving, snap, srvOut, typed, wrote, late, edits >>

\* Mutant: a round begins while a dialog is open.
RoundStartAlways ==
  /\ round = "idle"
  /\ round' = IF entry.there THEN "cfg" ELSE "check"
  /\ quiet' = (dlg = Closed)
  /\ UNCHANGED << file, entry, held, old, allowed, dialogVars, writes >>
\* crawler::update: the entry is read again first of all.
RoundStart ==
  /\ round = "idle" /\ allowed
  /\ round' = IF entry.there THEN "cfg" ELSE "check"
  /\ quiet' = (dlg = Closed)
  /\ UNCHANGED << file, entry, held, old, allowed, dialogVars, writes >>

LoadConfig ==
  /\ round = "cfg" /\ round' = "st"
  /\ entry' = Load(entry) /\ held' = HeldAfterLoad(entry)
  /\ old' = Remember(held')
  /\ UNCHANGED << file, allowed, dialogVars, quiet, writes >>

LoadState ==
  /\ round = "st" /\ round' = "md"
  /\ entry' = LoadOther(entry, "st") /\ held' = HeldAfterOther(entry, "st")
  /\ old' = Remember(held')
  /\ UNCHANGED << file, allowed, dialogVars, quiet, writes >>

\* zsp_factory::update ends with the entries nobody asked for during ten
\* seconds: their objects keep callbacks bound to what is gone.
LoadMetadata ==
  /\ round = "md" /\ round' = "check"
  /\ LET gone(h) == IF h \in {"same", "loose"} THEN "dead" ELSE h
         h == HeldAfterOther(entry, "md")
     IN IF entry.alive
          THEN entry' = LoadOther(entry, "md") /\ held' = h
          ELSE /\ entry' = NoEntry
               /\ held' = [dev |-> gone(h.dev), chan |-> gone(h.chan), st |-> gone(h.st),
                           md |-> IF h.md = "same" THEN "cut" ELSE h.md]
  /\ old' = Remember(held')
  /\ UNCHANGED << file, allowed, dialogVars, quiet, writes >>

\* zsp_factory::check: a new entry reads all three documents.
Check ==
  /\ round = "check" /\ round' = "device"
  /\ entry' = IF entry.there THEN [entry EXCEPT !.alive = TRUE]
              ELSE LET new == [NoEntry EXCEPT !.there = TRUE, !.alive = TRUE]
                   IN LoadOther(LoadOther(Load(new), "st"), "md")
  /\ UNCHANGED << file, held, old, allowed, dialogVars, quiet, writes >>

\* Mutant: an object with the same values is not taken over.
HandOutByValue(h, now, has, mine) ==
  IF ~has THEN "none" ELSE IF h \in {"cut", "loose"} /\ now = mine THEN h ELSE "same"
\* set_zsp_config: another pointer is taken over, whatever it points to.
HandOut(h, now, has, mine) == IF has THEN "same" ELSE "none"

SetDevice ==
  /\ round = "device" /\ round' = "channels"
  /\ held' = [held EXCEPT
       !.dev = HandOut(@, entry.dev, entry.dev # NoDoc, Dev),
       !.st = HandOut(@, entry.st, entry.st # NoDoc, St),
       !.md = IF entry.md # NoDoc THEN "same" ELSE "none"]
  /\ old' = Remember(held')
  /\ UNCHANGED << file, entry, allowed, dialogVars, quiet, writes >>

SetChannels ==
  /\ round = "channels" /\ round' = "idle"
  /\ held' = [held EXCEPT !.chan =
       HandOut(@, entry.chans, entry.chans # NoChannels, Chans)]
  /\ old' = Remember(held')
  /\ UNCHANGED << file, entry, allowed, dialogVars, quiet, writes >>

\* A dialog is open for more than ten seconds.
Linger ==
  /\ dlg # Closed /\ round = "idle" /\ entry.there /\ entry.alive
  /\ entry' = [entry EXCEPT !.alive = FALSE]
  /\ UNCHANGED << file, held, old, round, allowed, dialogVars, quiet, writes >>

\* The driver or the recorder replaces, spoils or removes a document.
Replace(k) ==
  /\ writes < MaxWrites /\ writes' = writes + 1
  /\ \E doc \in (CASE k = "cfg" -> Docs [] k = "st" -> States [] k = "md" -> Metas) :
       file' = [file EXCEPT ![k] = doc]
  /\ entry' = [entry EXCEPT !.seen[k] = FALSE]
  /\ quiet' = FALSE
  /\ UNCHANGED << held, old, round, allowed, dialogVars >>

(***************************************************************************)
(* The dialog.  An edit changes the object in memory; some edits save.     *)
(***************************************************************************)
NothingTyped == [freq |-> NoNode, out |-> NoNode, start |-> NoNode, name |-> NoNode,
                 gain |-> NoNode, icp |-> NoNode, exc |-> NoNode, tenso |-> NoNode]

\* OnPropertiesRequest: pausing does not end a round that is running.
OpenDialog(d) ==
  /\ dlg = Closed /\ edits < MaxEdits
  /\ IF d = Device THEN held.dev # "none" ELSE held.chan # "none" /\ d \in DOMAIN Chans
  /\ dlg' = d /\ phase' = "edit" /\ allowed' = FALSE
  /\ late' = (round # "idle") /\ quiet' = FALSE
  /\ snap' = IF d = Device THEN [dev |-> Dev, st |-> St, out |-> srvOut] ELSE Chans[d]
  /\ typed' = NothingTyped /\ wrote' = NoDoc
  /\ edits' = edits + 1
  /\ UNCHANGED << file, entry, held, old, round, saving, srvOut, writes >>

\* The device, the channels or the state as the dialog leaves them.
PutDev(dev) ==
  /\ entry' = IF held.dev = "same" THEN [entry EXCEPT !.dev = dev] ELSE entry
  /\ old' = IF held.dev = "same" THEN old ELSE [old EXCEPT !.dev = dev]
PutChans(chans) ==
  /\ entry' = IF held.chan = "same" THEN [entry EXCEPT !.chans = chans] ELSE entry
  /\ old' = IF held.chan = "same" THEN old ELSE [old EXCEPT !.chans = chans]

\* save through an object: nothing without callback or configuration, else
\* the metadata, if there are any, and then the configuration.
Lost == IF late THEN << "late" >> ELSE << "lost" >>
Save(h) ==
  saving' = IF h = "dead" THEN Lost
             ELSE IF h \notin {"same", "loose"} \/ entry.dev = NoDoc THEN << >>
             ELSE IF entry.md = NoDoc THEN << "cfg" >> ELSE << "md", "cfg" >>
NoSave == UNCHANGED saving

Editing == dlg # Closed /\ phase = "edit" /\ saving = << >> /\ edits < MaxEdits
EditsDevice == Editing /\ dlg = Device /\ held.dev # "none" /\ edits' = edits + 1
EditsChannel == Editing /\ dlg # Device /\ held.chan # "none" /\ dlg \in DOMAIN Chans
                /\ edits' = edits + 1

editRest == << file, held, round, allowed, dlg, phase, snap, wrote, late, quiet, writes >>

EditFreq(v) ==
  /\ EditsDevice /\ Dev.freq # NoNode
  /\ PutDev([Dev EXCEPT !.freq = v])
  /\ IF v # Dev.freq THEN Save(held.dev) ELSE NoSave
  /\ typed' = [typed EXCEPT !.freq = v]
  /\ UNCHANGED << editRest, srvOut >>

\* The outputs go to the server at once and into the object.
EditOut(v) ==
  /\ EditsDevice
  /\ PutDev([Dev EXCEPT !.out = v]) /\ srvOut' = v
  /\ NoSave /\ typed' = [typed EXCEPT !.out = v]
  /\ UNCHANGED editRest

\* The codes of the station are written with the next save.
EditCode(v) ==
  /\ EditsDevice /\ held.md # "none"
  /\ entry' = IF held.md = "same" THEN [entry EXCEPT !.md.code = v] ELSE entry
  /\ NoSave
  /\ UNCHANGED << editRest, old, srvOut, typed >>

\* set_selftest and save_state.
PutState(v) ==
  LET e == IF held.st = "same" THEN [entry EXCEPT !.st = v] ELSE entry
      saves == held.st \in {"same", "loose"} /\ e.xml["st"] # NoDoc
  IN /\ entry' = IF saves THEN [e EXCEPT !.xml["st"] = e.st, !.seen["st"] = FALSE] ELSE e
     /\ file' = IF saves THEN [file EXCEPT !["st"] = e.st] ELSE file
     /\ old' = IF held.st \in {"same", "none"} THEN old ELSE [old EXCEPT !.st = v]
     /\ saving' = IF held.st = "dead" THEN Lost ELSE saving

EditSelftest(v) ==
  /\ EditsDevice /\ held.st # "none"
  /\ PutState([test |-> v])
  /\ UNCHANGED << held, round, allowed, dlg, phase, snap, srvOut, typed, wrote, late,
                  quiet, writes >>

EditName(v) ==
  /\ EditsChannel
  /\ PutChans([Chans EXCEPT ![dlg].name = v])
  /\ NoSave /\ typed' = [typed EXCEPT !.name = v]
  /\ UNCHANGED << editRest, srvOut >>

EditTenso(v) ==
  /\ EditsChannel
  /\ PutChans([Chans EXCEPT ![dlg].tenso = v])
  /\ NoSave /\ typed' = [typed EXCEPT !.tenso = v]
  /\ UNCHANGED << editRest, srvOut >>

EditGain(v) ==
  /\ EditsChannel
  /\ PutChans([Chans EXCEPT ![dlg].gain = v])
  /\ IF v # Chans[dlg].gain THEN Save(held.chan) ELSE NoSave
  /\ typed' = [typed EXCEPT !.gain = v]
  /\ UNCHANGED << editRest, srvOut >>

EditIcp ==
  /\ EditsChannel
  /\ PutChans([Chans EXCEPT ![dlg].icp = ~@]) /\ Save(held.chan)
  /\ typed' = [typed EXCEPT !.icp = ~Chans[dlg].icp]
  /\ UNCHANGED << editRest, srvOut >>

\* Mutant: the excitation stays with the channel it was entered for.
CommonToNone(chans, c, v) == [chans EXCEPT ![c].exc = v]
\* on_change_common_parameter: all channels with the serial number of the slot.
Common(chans, c, v) ==
  [d \in DOMAIN chans |-> IF d = c \/ chans[d].serial = chans[c].serial
                            THEN [chans[d] EXCEPT !.exc = v] ELSE chans[d]]

\* The notification outlives the save callback: an object that was replaced
\* makes the entry spread what its own channel has.
EditExc(v) ==
  /\ EditsChannel
  /\ entry' = IF held.chan = "same" THEN [entry EXCEPT !.chans = Common(@, dlg, v)]
              ELSE IF held.chan \in {"cut", "loose"} /\ dlg \in DOMAIN entry.chans
                THEN [entry EXCEPT !.chans = Common(@, dlg, @[dlg].exc)] ELSE entry
  /\ old' = IF held.chan = "same" THEN old ELSE [old EXCEPT !.chans[dlg].exc = v]
  /\ saving' = IF held.chan = "dead" THEN Lost ELSE saving
  /\ typed' = [typed EXCEPT !.exc = v]
  /\ UNCHANGED << editRest, srvOut >>

\* OK: the start of the recording is set only now; then all is saved.
OkDevice(start) ==
  /\ dlg = Device /\ phase = "edit" /\ saving = << >> /\ phase' = "ok"
  /\ IF held.dev = "none" THEN UNCHANGED << entry, old >> /\ NoSave
     ELSE PutDev([Dev EXCEPT !.start = start]) /\ Save(held.dev)
  /\ typed' = [typed EXCEPT !.start = start]
  /\ UNCHANGED << file, held, round, allowed, dlg, snap, srvOut, wrote, late, quiet,
                  edits, writes >>

OkChannel ==
  /\ dlg \notin {Device, Closed} /\ phase = "edit" /\ saving = << >> /\ phase' = "ok"
  /\ Save(held.chan)
  /\ UNCHANGED << file, entry, old, held, round, allowed, dlg, snap, srvOut, typed, wrote,
                  late, quiet, edits, writes >>

\* Cancel: the mementos of the tabs, up to the first value that saves.
CancelFirst ==
  /\ dlg # Closed /\ phase = "edit" /\ saving = << >> /\ phase' = "cancel"
  /\ IF dlg = Device
       THEN IF held.dev = "none" \/ Dev.freq = NoNode THEN UNCHANGED << entry, old >> /\ NoSave
            ELSE /\ PutDev([Dev EXCEPT !.freq = snap.dev.freq])
                 /\ IF Dev.freq # snap.dev.freq THEN Save(held.dev) ELSE NoSave
       ELSE IF held.chan = "none" \/ dlg \notin DOMAIN Chans
            THEN UNCHANGED << entry, old >> /\ NoSave
            ELSE /\ PutChans([Chans EXCEPT ![dlg].name = snap.name, ![dlg].gain = snap.gain])
                 /\ IF Chans[dlg].gain # snap.gain THEN Save(held.chan) ELSE NoSave
  /\ UNCHANGED << file, held, round, allowed, dlg, snap, srvOut, typed, wrote, late, quiet,
                  edits, writes >>

\* The ICP comes after the gain and may save once more.
CancelIcp ==
  /\ dlg \notin {Device, Closed} /\ phase = "cancel" /\ saving = << >> /\ phase' = "icp"
  /\ IF held.chan = "none" \/ dlg \notin DOMAIN Chans THEN UNCHANGED << entry, old >> /\ NoSave
     ELSE /\ PutChans([Chans EXCEPT ![dlg].icp = snap.icp])
          /\ IF Chans[dlg].icp # snap.icp THEN Save(held.chan) ELSE NoSave
  /\ UNCHANGED << file, held, round, allowed, dlg, snap, srvOut, typed, wrote, late, quiet,
                  edits, writes >>

\* The excitation is put back for this channel alone.
CancelChannelRest ==
  /\ dlg \notin {Device, Closed} /\ phase = "icp" /\ saving = << >> /\ phase' = "end"
  /\ IF held.chan = "none" \/ dlg \notin DOMAIN Chans THEN UNCHANGED << entry, old >>
     ELSE PutChans([Chans EXCEPT ![dlg].tenso = snap.tenso, ![dlg].exc = snap.exc])
  /\ UNCHANGED << file, held, round, allowed, dlg, saving, snap, srvOut, typed, wrote, late,
                  quiet, edits, writes >>

\* The outputs and the selftest of the memento, changed or not.
CancelDeviceRest ==
  /\ dlg = Device /\ phase = "cancel" /\ saving = << >> /\ phase' = "end"
  /\ srvOut' = snap.out
  /\ LET e == IF held.dev = "same" THEN [entry EXCEPT !.dev.out = snap.out] ELSE entry
         saves == held.st \in {"same", "loose"} /\ e.xml["st"] # NoDoc
         f == IF held.st = "same" THEN [e EXCEPT !.st = snap.st] ELSE e
     IN /\ entry' = IF saves THEN [f EXCEPT !.xml["st"] = f.st, !.seen["st"] = FALSE] ELSE f
        /\ file' = IF saves THEN [file EXCEPT !["st"] = f.st] ELSE file
  /\ old' = [old EXCEPT !.dev = IF @ = NoDoc THEN @ ELSE [@ EXCEPT !.out = snap.out],
                        !.st = IF @ = NoDoc THEN @ ELSE snap.st]
  /\ saving' = IF held.st = "dead" THEN Lost ELSE saving
  /\ UNCHANGED << held, round, allowed, dlg, snap, typed, wrote, late, quiet, edits, writes >>

\* save_metadata: that metadata and device exist was tested before the lock.
SaveMetadata ==
  /\ saving # << >> /\ Head(saving) = "md"
  /\ LET doc == [code |-> entry.md.code,
                 freq |-> IF entry.dev.freq = NoNode THEN 0 ELSE entry.dev.freq]
     IN IF entry.xml["md"] = NoDoc THEN UNCHANGED << file, entry >> /\ saving' = Tail(saving)
        ELSE IF entry.dev = NoDoc
          THEN UNCHANGED << file, entry >>
               /\ saving' = IF entry.chans = NoChannels THEN Tail(saving) ELSE Lost
        ELSE /\ file' = [file EXCEPT !["md"] = doc]
             /\ entry' = [entry EXCEPT !.xml["md"] = doc, !.seen["md"] = FALSE]
             /\ saving' = Tail(saving)
  /\ UNCHANGED << held, old, round, allowed, dlg, phase, snap, srvOut, typed, wrote, late,
                  quiet, edits, writes >>

\* zsp_config::save: the document in memory with the nodes that it has.
SaveConfig ==
  /\ saving # << >> /\ Head(saving) = "cfg" /\ saving' = Tail(saving)
  /\ IF entry.xml["cfg"] = NoDoc THEN UNCHANGED << file, entry, wrote >>
     ELSE LET doc == WriteConfig(entry.xml["cfg"], entry.dev, entry.chans, entry.md)
          IN /\ file' = [file EXCEPT !["cfg"] = doc]
             /\ entry' = [entry EXCEPT !.xml["cfg"] = doc, !.seen["cfg"] = FALSE]
             /\ wrote' = IF phase = "ok" THEN doc ELSE wrote
  /\ UNCHANGED << held, old, round, allowed, dlg, phase, snap, srvOut, typed, late, quiet,
                  edits, writes >>

CloseDialog ==
  /\ dlg # Closed /\ phase \in {"ok", "end"} /\ saving = << >>
  /\ dlg' = Closed /\ allowed' = TRUE /\ phase' = "edit" /\ late' = FALSE
  /\ snap' = NoDoc /\ typed' = NoDoc /\ wrote' = NoDoc
  /\ UNCHANGED << file, entry, held, old, round, saving, srvOut, quiet, edits, writes >>

Round == RoundStart \/ LoadConfig \/ LoadState \/ LoadMetadata \/ Check
         \/ SetDevice \/ SetChannels \/ Linger

EditDevice ==
  \/ \E v \in Value : EditFreq(v) \/ EditOut(v) \/ EditCode(v) \/ EditSelftest(v)
EditChannel ==
  \/ \E v \in Value : EditName(v) \/ EditTenso(v) \/ EditGain(v) \/ EditExc(v)
  \/ EditIcp

Dialog ==
  \/ OpenDialog(Device) \/ \E c \in Shown : OpenDialog(c)
  \/ EditDevice \/ EditChannel
  \/ \E start \in {"button", "auto"} : OkDevice(start)
  \/ OkChannel \/ CancelFirst \/ CancelIcp \/ CancelChannelRest \/ CancelDeviceRest
  \/ SaveMetadata \/ SaveConfig \/ CloseDialog

ZspNext == Round \/ Dialog \/ \E k \in Kind : Replace(k)
ZspSpec == ZspInit /\ [][ZspNext]_zspVars

(***************************************************************************)
(* Properties.                                                             *)
(***************************************************************************)

\* A save finds the configuration it is bound to and the objects it tested,
\* unless its dialog was opened while a round was running: this is all that
\* pausing the crawler does for zsp_config.cpp:562-666 and the callbacks of
\* an entry that zsp_factory.cpp:25-30 erased.
SavesFindTheirData == saving # << "lost" >>

\* After a round in which nobody wrote a file and no dialog was open the
\* device holds the objects made of the files as they are now, or none for
\* a file that is not there (zsp_config.cpp:722-757, device_std.cpp:67-114).
RoundHandsOutFiles ==
  [][ round = "channels" /\ round' = "idle" /\ quiet =>
        /\ held'.dev = (IF Good(file["cfg"]) THEN "same" ELSE "none")
        /\ Good(file["cfg"]) => held'.chan = "same" /\ entry.seen["cfg"]
        /\ held'.md = (IF Good(file["md"]) THEN "same" ELSE "none") ]_zspVars

SlotAgrees(chans, c) ==
  \A d \in DOMAIN chans : Slot(d) = Slot(c) => chans[d].exc = chans[c].exc

\* What save writes is what load makes the same objects of
\* (zsp_config.cpp:31-529 against zsp_channel.cpp:495-749 and
\* zsp_device.cpp:210-295), except the start of the recording when the
\* document had no attribute for it, outputs without Ethernet node, settings
\* without node, names beside metadata, and the excitation of a slot whose
\* channels disagree, as they do once an excitation was cancelled.
SavedIsRead ==
  [][ saving # << >> /\ Head(saving) = "cfg" /\ saving' # saving
          /\ entry.xml["cfg"] # NoDoc =>
        LET now == entry'.xml["cfg"]
            dev == entry.dev chans == entry.chans IN
        /\ ReadDevice(now).freq = dev.freq
        /\ now.minutes /\ entry.xml["cfg"].start # NoNode => ReadDevice(now).start = dev.start
        /\ now.eth /\ now.out # NoNode => ReadDevice(now).out = dev.out
        /\ DOMAIN ReadChannels(now) = DOMAIN chans
        /\ \A c \in DOMAIN chans :
             LET r == ReadChannels(now)[c] IN
             /\ r.icp = chans[c].icp /\ r.gain = chans[c].gain
             /\ entry.md = NoDoc => r.name = chans[c].name
             /\ now.chan[c].tenso # NoNode => r.tenso = chans[c].tenso
             /\ Slot(c) \in DOMAIN now.slots /\ SlotAgrees(chans, c) => r.exc = chans[c].exc
    ]_zspVars

\* OK brings what was entered in the dialog into the file, whatever was
\* edited before and whatever was written beside it: unless the dialog was
\* opened during a round or there is no configuration to write to
\* (main_dlg.cpp:1502-1512, zsp_config.cpp:33); what the document has no
\* place for, and names beside metadata, stay out.
OkReachesFile ==
  [][ dlg # Closed /\ dlg' = Closed /\ phase = "ok" /\ ~late /\ entry.dev # NoDoc =>
        /\ wrote # NoDoc
        /\ LET dev == ReadDevice(wrote)
               is(v, w) == v = NoNode \/ v = w IN
           /\ is(typed.freq, dev.freq)
           /\ wrote.minutes /\ wrote.start # "" => is(typed.start, dev.start)
           /\ wrote.eth /\ wrote.out # NoNode => is(typed.out, dev.out)
           /\ dlg \in DOMAIN wrote.chan =>
                LET r == ReadChannel(wrote, dlg) IN
                /\ is(typed.icp, r.icp) /\ is(typed.gain, r.gain)
                /\ entry.md = NoDoc => is(typed.name, r.name)
                /\ wrote.chan[dlg].tenso # NoNode => is(typed.tenso, r.tenso)
                /\ Slot(dlg) \in DOMAIN wrote.slots => is(typed.exc, r.exc)
    ]_zspVars
==============================================================================
