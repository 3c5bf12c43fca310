--------------------------- MODULE ZspConfigProofs ---------------------------
(***************************************************************************)
(* For any documents, channels and values: saves find the objects they     *)
(* save, a round hands out what is in the files, a saved configuration is  *)
(* read as what it was written from, and OK reaches the file.              *)
(***************************************************************************)
EXTENDS ZspConfig, TLAPS

\* Neither a device nor metadata are none.
LEMMA ValuesAreThere ==
  /\ \A dev \in DeviceValues : dev # NoDoc
  /\ \A md \in MetaValues : md # NoDoc
<1> DOMAIN NoDoc = {}
  BY DEF NoDoc
<1> QED
  BY DEF DeviceValues, MetaValues

EntryField == {"there", "alive", "xml", "seen", "dev", "chans", "st", "md"}

IsDoc(doc) == doc = [f \in DocField |-> doc[f]] /\ doc.freq \in Number /\ doc.out \in Number

\* An entry has a configuration in memory only with the device made of it.
IsEntry(e) ==
  /\ e = [f \in EntryField |-> e[f]]
  /\ e.xml = [k \in Kind |-> e.xml[k]] /\ e.seen = [k \in Kind |-> e.seen[k]]
  /\ e.dev \in DeviceValues \cup {NoDoc}
  /\ e.xml["cfg"] # NoDoc => IsDoc(e.xml["cfg"]) /\ e.dev # NoDoc
  /\ ~e.there => e.dev = NoDoc

\* What the files and the entry hold.
FilesInv ==
  /\ file = [k \in Kind |-> file[k]]
  /\ Good(file["cfg"]) => IsDoc(file["cfg"])
  /\ IsEntry(entry)

\* What the device holds has values, in the entry or apart from it.
HeldInv ==
  /\ held = [x \in {"dev", "chan", "st", "md"} |-> held[x]]
  /\ old = [x \in {"dev", "chans", "st"} |-> old[x]] /\ old.dev \in DeviceValues \cup {NoDoc}
  /\ held.dev = "same" => entry.dev # NoDoc
  /\ held.dev \notin {"same", "none"} => old.dev # NoDoc
  /\ srvOut \in Number
  /\ dlg = Device => snap.dev \in DeviceValues /\ snap.out \in Number

\* At the end of a round the device holds the objects of the entry or none.
RoundInv ==
  /\ round \in {"channels", "idle"} =>
       held.dev \in {"none", "same"} /\ held.st \in {"none", "same"} /\ held.md \in {"none", "same"}
  /\ round = "idle" => held.chan \in {"none", "same"}
  /\ round \in {"cfg", "st", "md"} => entry.there

\* No round is running beside a dialog, unless the dialog was opened during one.
PauseInv ==
  /\ dlg # Closed => ~allowed
  /\ dlg # Closed /\ ~late => round = "idle"

\* What is being saved belongs to a dialog, and the objects it was tested for
\* are still there.
SavingInv ==
  /\ saving \in {<< >>, << "late" >>, << "cfg" >>, << "md", "cfg" >>}
  /\ dlg = Closed => saving = << >>
  /\ saving = << "md", "cfg" >> => late \/ entry.dev # NoDoc

ZspInv == FilesInv /\ HeldInv /\ RoundInv /\ PauseInv /\ SavingInv

----------------------------------------------------------------------------
\* The files and the entry at the start.
LEMMA InitZspInv == ZspInit => ZspInv
<1> SUFFICES ASSUME ZspInit PROVE ZspInv
  OBVIOUS
<1>1. FilesInv
  <2>1. file = [k \in Kind |-> file[k]] /\ file["cfg"] \in Docs
    BY DEF ZspInit, Kind
  <2>2. Good(file["cfg"]) => IsDoc(file["cfg"])
    BY <2>1, ZspAssumption DEF IsDoc, GoodDocs, Number
  <2>3. IsEntry(entry)
    BY DEF ZspInit, IsEntry, NoEntry, EntryField, Kind
  <2> QED
    BY <2>1, <2>2, <2>3 DEF FilesInv
<1>2. HeldInv
  BY ZspAssumption DEF ZspInit, HeldInv, Number
<1> QED
  BY <1>1, <1>2 DEF ZspInit, ZspInv, RoundInv, PauseInv, SavingInv

----------------------------------------------------------------------------
\* Reading and writing.

\* What is read from a document is a device.
LEMMA ReadIsDevice == ASSUME NEW doc, IsDoc(doc) PROVE ReadDevice(doc) \in DeviceValues
<1>1. /\ doc.freq \in Number /\ (IF doc.eth /\ doc.out # NoNode THEN doc.out ELSE 0) \in Number
      /\ (IF doc.start = "auto" THEN "auto" ELSE "button") \in {"button", "auto"}
  BY DEF IsDoc, Number
<1> QED
  BY <1>1 DEF ReadDevice, DeviceValues

\* What is written to a document is one again.
LEMMA WrittenIsDoc ==
  ASSUME NEW doc, IsDoc(doc), NEW dev \in DeviceValues, NEW chans, NEW md
  PROVE  IsDoc(WriteConfig(doc, dev, chans, md))
<1>1. dev.freq \in Number /\ dev.out \in Number
  BY DEF DeviceValues
<1>2. IsDoc(WriteDevice(doc, dev))
  BY <1>1 DEF IsDoc, WriteDevice, DocField
<1>3. ASSUME NEW d, IsDoc(d)
      PROVE  /\ IsDoc(WriteMasks(d, chans)) /\ IsDoc(WriteSlots(d, chans))
             /\ IsDoc(WriteChannels(d, chans, md))
  <2>1. \A v, w : IsDoc([d EXCEPT !.icp = v, !.kod = w])
    BY <1>3 DEF IsDoc, DocField
  <2>2. \A v : IsDoc([d EXCEPT !.slots = v]) /\ IsDoc([d EXCEPT !.chan = v])
    BY <1>3 DEF IsDoc, DocField
  <2> QED
    BY <2>1, <2>2 DEF WriteMasks, WriteSlots, WriteChannels
<1> QED
  BY <1>2, <1>3 DEF WriteConfig

\* Loading the configuration leaves an entry.
LEMMA LoadIsEntry ==
  ASSUME FilesInv, NEW e, IsEntry(e), e.there
  PROVE  IsEntry(Load(e)) /\ Load(e).there
<1>1. /\ IsEntry(Unload(e)) /\ Unload(e).there
      /\ IsEntry([Unload(e) EXCEPT !.chans = NoChannels])
      /\ [Unload(e) EXCEPT !.chans = NoChannels].there
  BY DEF Unload, IsEntry, EntryField, Kind
<1>2. ASSUME Good(file["cfg"])
      PROVE  LET l == [e EXCEPT !.xml["cfg"] = file["cfg"], !.seen["cfg"] = TRUE,
                                !.dev = ReadDevice(file["cfg"]),
                                !.chans = ReadChannels(file["cfg"])]
             IN  IsEntry(l) /\ l.there
  <2>1. IsDoc(file["cfg"])
    BY <1>2 DEF FilesInv
  <2>2. PICK dev \in DeviceValues : dev = ReadDevice(file["cfg"])
    BY <2>1, ReadIsDevice
  <2>3. dev # NoDoc
    BY ValuesAreThere
  <2> QED
    BY <2>1, <2>2, <2>3 DEF IsEntry, EntryField, Kind
<1> QED
  BY <1>1, <1>2 DEF Load, Good

\* Most changes of an entry leave its configuration and its device alone.
LEMMA EntryUpdates ==
  ASSUME NEW e, IsEntry(e), NEW h,
         \/ \E v : \/ h = [e EXCEPT !.alive = v] \/ h = [e EXCEPT !.chans = v]
                   \/ h = [e EXCEPT !.st = v] \/ h = [e EXCEPT !.md = v]
         \/ \E k \in {"st", "md"} : \E v, w : h = [e EXCEPT !.xml[k] = v, !.seen[k] = w]
         \/ \E k \in Kind : \E w : h = [e EXCEPT !.seen[k] = w]
  PROVE  IsEntry(h) /\ h.there = e.there /\ h.dev = e.dev
<1>1. CASE \E v : \/ h = [e EXCEPT !.alive = v] \/ h = [e EXCEPT !.chans = v]
                  \/ h = [e EXCEPT !.st = v] \/ h = [e EXCEPT !.md = v]
  BY <1>1 DEF IsEntry, EntryField
<1>2. ASSUME NEW k \in {"st", "md"}, NEW v, NEW w, h = [e EXCEPT !.xml[k] = v, !.seen[k] = w]
      PROVE  IsEntry(h) /\ h.there = e.there /\ h.dev = e.dev
  <2>1. /\ h = [x \in EntryField |-> h[x]]
        /\ h.xml = [e.xml EXCEPT ![k] = v] /\ h.seen = [e.seen EXCEPT ![k] = w]
        /\ h.there = e.there /\ h.dev = e.dev
    BY <1>2 DEF IsEntry, EntryField
  <2>2. "cfg" \in Kind /\ k \in Kind /\ k # "cfg"
    BY DEF Kind
  <2>3. /\ h.xml = [j \in Kind |-> h.xml[j]] /\ h.seen = [j \in Kind |-> h.seen[j]]
        /\ h.xml["cfg"] = e.xml["cfg"]
    BY <2>1, <2>2 DEF IsEntry
  <2> QED
    BY <2>1, <2>3 DEF IsEntry
<1>3. ASSUME NEW k \in Kind, NEW w, h = [e EXCEPT !.seen[k] = w]
      PROVE  IsEntry(h) /\ h.there = e.there /\ h.dev = e.dev
  <2>1. /\ h = [x \in EntryField |-> h[x]]
        /\ h.xml = e.xml /\ h.seen = [e.seen EXCEPT ![k] = w]
        /\ h.there = e.there /\ h.dev = e.dev
    BY <1>3 DEF IsEntry, EntryField
  <2>2. h.seen = [j \in Kind |-> h.seen[j]]
    BY <2>1 DEF IsEntry
  <2> QED
    BY <2>1, <2>2 DEF IsEntry
<1> QED
  BY <1>1, <1>2, <1>3

\* Loading the other documents is such a change.
LEMMA LoadOtherIsEntry ==
  ASSUME NEW e, IsEntry(e), NEW k \in {"st", "md"}
  PROVE  IsEntry(LoadOther(e, k)) /\ LoadOther(e, k).there = e.there
         /\ LoadOther(e, k).dev = e.dev
<1>1. PICK doc : doc = IF Good(file[k]) THEN file[k] ELSE NoDoc
  OBVIOUS
<1>2. PICK g : g = [e EXCEPT !.xml[k] = doc, !.seen[k] = Good(file[k])]
  OBVIOUS
<1>3. IsEntry(g) /\ g.there = e.there /\ g.dev = e.dev
  BY <1>2, EntryUpdates
<1>4. PICK h : h = LoadOther(e, k)
  OBVIOUS
<1>5. h = e \/ h = [g EXCEPT !.st = doc] \/ h = [g EXCEPT !.md = doc]
  BY <1>1, <1>2, <1>4 DEF LoadOther
<1>6. h # e => IsEntry(h) /\ h.there = g.there /\ h.dev = g.dev
  BY <1>3, <1>5, EntryUpdates
<1> QED
  BY <1>3, <1>4, <1>6

----------------------------------------------------------------------------
\* The rounds.

\* What the device held and the entry no longer has is remembered.
LEMMA Remembered ==
  ASSUME ZspInv, NEW h, old' = Remember(h)
  PROVE  /\ old' = [x \in {"dev", "chans", "st"} |-> old'[x]]
         /\ old'.dev \in DeviceValues \cup {NoDoc}
         /\ held.dev # "none" /\ h.dev \notin {"same", "none"} => old'.dev # NoDoc
<1>1. /\ Dev \in DeviceValues \cup {NoDoc}
      /\ held.dev # "none" => Dev # NoDoc
  BY DEF ZspInv, FilesInv, HeldInv, IsEntry, Dev
<1> QED
  BY <1>1 DEF Remember

\* A step of a round that is running.
LEMMA RoundStep ==
  ASSUME ZspInv, round # "idle", UNCHANGED << file, allowed, dialogVars >>,
         IsEntry(entry'), RoundInv',
         held' = [x \in {"dev", "chan", "st", "md"} |-> held'[x]],
         old' = Remember(held') \/ old' = old,
         held'.dev = "same" => entry'.dev # NoDoc,
         held'.dev = held.dev \/ held'.dev \in {"same", "none"}
           \/ (old' = Remember(held') /\ held.dev # "none")
  PROVE  ZspInv'
<1>1. UNCHANGED << dlg, phase, saving, snap, srvOut, late >>
  BY DEF dialogVars
<1>2. FilesInv'
  BY DEF ZspInv, FilesInv
<1>3. /\ old' = [x \in {"dev", "chans", "st"} |-> old'[x]]
      /\ old'.dev \in DeviceValues \cup {NoDoc}
      /\ held'.dev \notin {"same", "none"} => old'.dev # NoDoc
  <2>1. CASE old' = old
    BY <2>1, Remembered DEF ZspInv, HeldInv
  <2>2. CASE old' = Remember(held')
    BY <2>2, Remembered DEF ZspInv, HeldInv
  <2> QED
    BY <2>1, <2>2
<1>4. HeldInv'
  BY <1>1, <1>3 DEF ZspInv, HeldInv
<1>5. PauseInv' /\ SavingInv'
  BY <1>1 DEF ZspInv, PauseInv, SavingInv
<1> QED
  BY <1>2, <1>4, <1>5 DEF ZspInv

\* The configuration is read again.
LEMMA LoadConfigKeeps == ASSUME ZspInv, LoadConfig PROVE ZspInv'
<1>1. /\ round = "cfg" /\ round' = "st" /\ entry' = Load(entry)
      /\ held' = HeldAfterLoad(entry) /\ old' = Remember(held')
      /\ UNCHANGED << file, allowed, dialogVars >>
  BY DEF LoadConfig
<1>2. IsEntry(entry') /\ entry'.there
  BY <1>1, LoadIsEntry DEF ZspInv, FilesInv, RoundInv
<1>3. held = [x \in {"dev", "chan", "st", "md"} |-> held[x]]
  BY DEF ZspInv, HeldInv
<1>4. /\ held' = [x \in {"dev", "chan", "st", "md"} |-> held'[x]]
      /\ held'.dev = IF held.dev = "same" /\ Replaced(entry, "cfg") THEN Detached("cfg")
                     ELSE held.dev
  BY <1>1, <1>3 DEF HeldAfterLoad
<1>5. Detached("cfg") # "same"
  BY DEF Detached
<1>6. held'.dev = "same" => held.dev = "same" /\ entry' = entry
  <2>1. ~Replaced(entry, "cfg") => Load(entry) = entry
    BY DEF Replaced, Load
  <2> QED
    BY <1>1, <1>4, <1>5, <2>1
<1>7. held'.dev = "same" => entry'.dev # NoDoc
  BY <1>6 DEF ZspInv, HeldInv
<1> QED
  BY <1>1, <1>2, <1>4, <1>7, RoundStep DEF RoundInv

\* The state is.
LEMMA LoadStateKeeps == ASSUME ZspInv, LoadState PROVE ZspInv'
<1>1. /\ round = "st" /\ round' = "md" /\ entry' = LoadOther(entry, "st")
      /\ held' = HeldAfterOther(entry, "st") /\ old' = Remember(held')
      /\ UNCHANGED << file, allowed, dialogVars >>
  BY DEF LoadState
<1>2. IsEntry(entry') /\ entry'.there /\ entry'.dev = entry.dev
  BY <1>1, LoadOtherIsEntry DEF ZspInv, FilesInv, RoundInv
<1>3. held = [x \in {"dev", "chan", "st", "md"} |-> held[x]]
  BY DEF ZspInv, HeldInv
<1>4. /\ held' = [x \in {"dev", "chan", "st", "md"} |-> held'[x]] /\ held'.dev = held.dev
  BY <1>1, <1>3 DEF HeldAfterOther
<1>5. held'.dev = "same" => entry'.dev # NoDoc
  BY <1>2, <1>4 DEF ZspInv, HeldInv
<1> QED
  BY <1>1, <1>2, <1>4, <1>5, RoundStep DEF RoundInv

\* The metadata are, or the entry is dropped.
LEMMA LoadMetadataKeeps == ASSUME ZspInv, LoadMetadata PROVE ZspInv'
<1>1. /\ round = "md" /\ round' = "check" /\ old' = Remember(held')
      /\ UNCHANGED << file, allowed, dialogVars >>
  BY DEF LoadMetadata
<1>2. RoundInv'
  BY <1>1 DEF RoundInv
<1>3. held = [x \in {"dev", "chan", "st", "md"} |-> held[x]]
  BY DEF ZspInv, HeldInv
<1>4. PICK h : h = HeldAfterOther(entry, "md")
  OBVIOUS
<1>5. h = [x \in {"dev", "chan", "st", "md"} |-> h[x]] /\ h.dev = held.dev
  BY <1>3, <1>4 DEF HeldAfterOther
<1>6. CASE entry.alive
  <2>1. entry' = LoadOther(entry, "md") /\ held' = h
    BY <1>4, <1>6 DEF LoadMetadata
  <2>2. IsEntry(entry') /\ entry'.dev = entry.dev
    BY <2>1, LoadOtherIsEntry DEF ZspInv, FilesInv
  <2>3. held'.dev = "same" => entry'.dev # NoDoc
    BY <1>5, <2>1, <2>2 DEF ZspInv, HeldInv
  <2> QED
    BY <1>1, <1>2, <1>5, <2>1, <2>2, <2>3, RoundStep
<1>7. CASE ~entry.alive
  <2>1. /\ entry' = NoEntry
        /\ held'.dev = IF held.dev \in {"same", "loose"} THEN "dead" ELSE held.dev
        /\ held' = [x \in {"dev", "chan", "st", "md"} |-> held'[x]]
    BY <1>4, <1>5, <1>7 DEF LoadMetadata
  <2>2. IsEntry(NoEntry)
    BY DEF IsEntry, NoEntry, EntryField, Kind
  <2>3. held'.dev # "same" /\ (held.dev = "none" => held'.dev = "none")
    BY <2>1
  <2> QED
    BY <1>1, <1>2, <2>1, <2>2, <2>3, RoundStep
<1> QED
  BY <1>6, <1>7

\* The device asks for its entry.
LEMMA CheckKeeps == ASSUME ZspInv, Check PROVE ZspInv'
<1>1. /\ round = "check" /\ round' = "device" /\ UNCHANGED << held, old >>
      /\ UNCHANGED << file, allowed, dialogVars >>
  BY DEF Check
<1>2. RoundInv'
  BY <1>1 DEF RoundInv
<1>3. /\ held = [x \in {"dev", "chan", "st", "md"} |-> held[x]]
      /\ held.dev = "same" => entry.dev # NoDoc
      /\ IsEntry(entry)
  BY DEF ZspInv, FilesInv, HeldInv
<1>4. CASE entry.there
  <2>1. entry' = [entry EXCEPT !.alive = TRUE]
    BY <1>4 DEF Check
  <2>2. IsEntry(entry') /\ entry'.dev = entry.dev
    BY <1>3, <2>1, EntryUpdates
  <2> QED
    BY <1>1, <1>2, <1>3, <2>2, RoundStep
<1>5. CASE ~entry.there
  <2>1. PICK new : new = [NoEntry EXCEPT !.there = TRUE, !.alive = TRUE]
    OBVIOUS
  <2>2. IsEntry(new) /\ new.there
    BY <2>1 DEF IsEntry, NoEntry, EntryField, Kind
  <2>3. PICK l : l = Load(new)
    OBVIOUS
  <2>4. IsEntry(l)
    BY <2>2, <2>3, LoadIsEntry DEF ZspInv
  <2>5. PICK o : o = LoadOther(l, "st")
    OBVIOUS
  <2>6. IsEntry(o)
    BY <2>4, <2>5, LoadOtherIsEntry
  <2>7. entry' = LoadOther(o, "md")
    BY <1>5, <2>1, <2>3, <2>5 DEF Check
  <2>8. IsEntry(entry')
    BY <2>6, <2>7, LoadOtherIsEntry
  <2>9. held.dev # "same"
    BY <1>3, <1>5 DEF IsEntry
  <2> QED
    BY <1>1, <1>2, <1>3, <2>8, <2>9, RoundStep
<1> QED
  BY <1>4, <1>5

\* The device and the channels take over what the entry has now.
LEMMA SetKeeps == ASSUME ZspInv, SetDevice \/ SetChannels PROVE ZspInv'
<1>1. /\ old' = Remember(held') /\ UNCHANGED << file, entry, allowed, dialogVars >>
      /\ round \in {"device", "channels"} /\ round # "idle"
  BY DEF SetDevice, SetChannels
<1>2. /\ held = [x \in {"dev", "chan", "st", "md"} |-> held[x]]
      /\ held.dev = "same" => entry.dev # NoDoc
      /\ IsEntry(entry)
  BY DEF ZspInv, FilesInv, HeldInv
<1>3. CASE SetDevice
  <2>1. /\ held' = [x \in {"dev", "chan", "st", "md"} |-> held'[x]] /\ round' = "channels"
        /\ held'.dev = IF entry.dev # NoDoc THEN "same" ELSE "none"
        /\ held'.st \in {"same", "none"} /\ held'.md \in {"same", "none"}
    BY <1>2, <1>3 DEF SetDevice, HandOut
  <2>2. RoundInv'
    BY <2>1 DEF RoundInv
  <2> QED
    BY <1>1, <1>2, <2>1, <2>2, RoundStep
<1>4. CASE SetChannels
  <2>1. /\ held' = [x \in {"dev", "chan", "st", "md"} |-> held'[x]]
        /\ round = "channels" /\ round' = "idle"
        /\ held'.dev = held.dev /\ held'.st = held.st /\ held'.md = held.md
        /\ held'.chan \in {"same", "none"}
    BY <1>2, <1>4 DEF SetChannels, HandOut
  <2>2. RoundInv'
    BY <2>1 DEF ZspInv, RoundInv
  <2> QED
    BY <1>1, <1>2, <2>1, <2>2, RoundStep
<1> QED
  BY <1>3, <1>4

\* A round begins, a dialog stays open for long, or somebody writes a file.
LEMMA OthersKeep ==
  ASSUME ZspInv, RoundStart \/ Linger \/ \E k \in Kind : Replace(k)
  PROVE  ZspInv'
<1>1. UNCHANGED << held, old, allowed, dlg, saving, snap, srvOut, late >>
  BY DEF RoundStart, Linger, Replace, dialogVars
<1>2. /\ IsEntry(entry') /\ entry'.there = entry.there /\ entry'.dev = entry.dev
  <2>1. CASE RoundStart
    BY <2>1 DEF RoundStart, ZspInv, FilesInv
  <2>2. CASE Linger
    BY <2>2, EntryUpdates DEF Linger, ZspInv, FilesInv
  <2>3. ASSUME NEW k \in Kind, Replace(k)
        PROVE  IsEntry(entry') /\ entry'.there = entry.there /\ entry'.dev = entry.dev
    <3>1. entry' = [entry EXCEPT !.seen[k] = FALSE] /\ IsEntry(entry)
      BY <2>3 DEF Replace, ZspInv, FilesInv
    <3> QED
      BY <3>1, EntryUpdates
  <2> QED
    BY <2>1, <2>2, <2>3
<1>3. file' = [k \in Kind |-> file'[k]] /\ (Good(file'["cfg"]) => IsDoc(file'["cfg"]))
  <2>1. CASE file' = file
    BY <2>1 DEF ZspInv, FilesInv
  <2>2. ASSUME NEW k \in Kind, Replace(k)
        PROVE  file' = [j \in Kind |-> file'[j]]
               /\ (Good(file'["cfg"]) => IsDoc(file'["cfg"]))
    <3>1. PICK doc : file' = [file EXCEPT ![k] = doc] /\ (k = "cfg" => doc \in Docs)
      BY <2>2 DEF Replace
    <3>2. doc \in Docs /\ Good(doc) => IsDoc(doc)
      BY ZspAssumption DEF IsDoc, GoodDocs, Number
    <3> QED
      BY <3>1, <3>2 DEF ZspInv, FilesInv, Kind
  <2> QED
    BY <2>1, <2>2 DEF RoundStart, Linger
<1>4. FilesInv'
  BY <1>2, <1>3 DEF FilesInv, Good
<1>5. HeldInv'
  BY <1>1, <1>2 DEF ZspInv, HeldInv
<1>6. RoundInv' /\ PauseInv'
  <2>1. CASE RoundStart
    BY <1>1, <1>2, <2>1 DEF RoundStart, ZspInv, RoundInv, PauseInv
  <2>2. CASE round' = round
    BY <1>1, <1>2, <2>2 DEF ZspInv, RoundInv, PauseInv
  <2> QED
    BY <2>1, <2>2 DEF Linger, Replace
<1>7. SavingInv'
  BY <1>1, <1>2 DEF ZspInv, SavingInv
<1> QED
  BY <1>4, <1>5, <1>6, <1>7 DEF ZspInv

----------------------------------------------------------------------------
\* The dialog.

\* What a dialog step may do to the entry and to the objects apart from it.
KeepsObjects ==
  /\ IsEntry(entry') /\ entry'.there = entry.there
  /\ entry.dev # NoDoc => entry'.dev # NoDoc
  /\ old' = [x \in {"dev", "chans", "st"} |-> old'[x]]
  /\ old'.dev \in DeviceValues \cup {NoDoc}
  /\ old.dev # NoDoc => old'.dev # NoDoc

\* A step of a dialog that stays open.
LEMMA DialogStep ==
  ASSUME ZspInv, dlg # Closed, KeepsObjects,
         UNCHANGED << held, round, allowed, dlg, snap, late >>,
         srvOut' \in Number,
         file' = [k \in Kind |-> file'[k]],
         file'["cfg"] = file["cfg"] \/ IsDoc(file'["cfg"]),
         \/ saving' \in {<< >>, << "cfg" >>} \/ saving' = saving
         \/ saving' = << "late" >>
         \/ saving' = << "md", "cfg" >> /\ entry.dev # NoDoc
  PROVE  ZspInv'
<1>1. FilesInv'
  BY DEF ZspInv, FilesInv, KeepsObjects, Good
<1>2. HeldInv'
  BY DEF ZspInv, HeldInv, KeepsObjects
<1>3. RoundInv' /\ PauseInv'
  BY DEF ZspInv, RoundInv, PauseInv, KeepsObjects
<1>4. SavingInv'
  BY DEF ZspInv, SavingInv, KeepsObjects
<1> QED
  BY <1>1, <1>2, <1>3, <1>4 DEF ZspInv

\* Nothing happens to the objects, or the device or the channels are edited.
LEMMA PutKeeps ==
  ASSUME ZspInv,
         \/ UNCHANGED << entry, old >>
         \/ held.dev # "none" /\ \E dev \in DeviceValues : PutDev(dev)
         \/ \E chans : PutChans(chans)
  PROVE  KeepsObjects
<1>1. /\ IsEntry(entry) /\ old = [x \in {"dev", "chans", "st"} |-> old[x]]
      /\ old.dev \in DeviceValues \cup {NoDoc}
      /\ held.dev = "same" => entry.dev # NoDoc
  BY DEF ZspInv, FilesInv, HeldInv
<1>2. CASE UNCHANGED << entry, old >>
  BY <1>1, <1>2 DEF KeepsObjects
<1>3. ASSUME NEW dev \in DeviceValues, PutDev(dev), held.dev # "none" PROVE KeepsObjects
  <2>1. dev # NoDoc
    BY ValuesAreThere
  <2>2. CASE held.dev = "same"
    <3>1. entry' = [entry EXCEPT !.dev = dev] /\ old' = old
      BY <1>3, <2>2 DEF PutDev
    <3>2. IsEntry(entry') /\ entry'.there = entry.there /\ entry'.dev = dev
      BY <1>1, <2>1, <2>2, <3>1 DEF IsEntry, EntryField
    <3> QED
      BY <1>1, <2>1, <3>1, <3>2 DEF KeepsObjects
  <2>3. CASE held.dev # "same"
    BY <1>1, <1>3, <2>1, <2>3 DEF PutDev, KeepsObjects
  <2> QED
    BY <2>2, <2>3
<1>4. ASSUME NEW chans, PutChans(chans) PROVE KeepsObjects
  <2>1. /\ entry' = entry \/ entry' = [entry EXCEPT !.chans = chans]
        /\ old' = old \/ old' = [old EXCEPT !.chans = chans]
    BY <1>4 DEF PutChans
  <2>2. IsEntry(entry') /\ entry'.there = entry.there /\ entry'.dev = entry.dev
    BY <1>1, <2>1, EntryUpdates
  <2>3. old' = [x \in {"dev", "chans", "st"} |-> old'[x]] /\ old'.dev = old.dev
    BY <1>1, <2>1
  <2> QED
    BY <1>1, <2>2, <2>3 DEF KeepsObjects
<1> QED
  BY <1>2, <1>3, <1>4

\* A save that begins finds what it tests, unless the dialog is a late one.
LEMMA SaveBegins ==
  ASSUME ZspInv, dlg # Closed, NEW x \in {"dev", "chan"}, Save(held[x])
  PROVE  \/ saving' \in {<< >>, << "cfg" >>, << "late" >>}
         \/ saving' = << "md", "cfg" >> /\ entry.dev # NoDoc
<1>1. held[x] = "dead" => late
  BY DEF ZspInv, PauseInv, RoundInv
<1> QED
  BY <1>1 DEF Save, Lost

\* The state is saved only by an object that is still the entry's, unless the
\* dialog is a late one.
LEMMA LostIsLate ==
  ASSUME ZspInv, dlg # Closed, NEW x \in {"dev", "chan", "st"}, held[x] = "dead"
  PROVE  Lost = << "late" >>
BY DEF ZspInv, PauseInv, RoundInv, Lost

\* The pages of the device.
LEMMA EditDeviceKeeps == ASSUME ZspInv, EditDevice PROVE ZspInv'
<1>1. PICK v \in Value : EditFreq(v) \/ EditOut(v) \/ EditCode(v) \/ EditSelftest(v)
  BY DEF EditDevice
<1>2. /\ dlg # Closed /\ held.dev # "none"
      /\ UNCHANGED << held, round, allowed, dlg, snap, late >>
  BY <1>1 DEF EditFreq, EditOut, EditCode, EditSelftest, EditsDevice, Editing, editRest
<1>3. /\ Dev \in DeviceValues /\ v \in Number /\ srvOut \in Number
      /\ file = [k \in Kind |-> file[k]]
  BY <1>2 DEF ZspInv, HeldInv, FilesInv, IsEntry, Dev, Number
<1>4. CASE EditFreq(v)
  <2>1. [Dev EXCEPT !.freq = v] \in DeviceValues
    BY <1>3 DEF DeviceValues
  <2>2. PutDev([Dev EXCEPT !.freq = v]) /\ (Save(held.dev) \/ saving' = saving)
        /\ UNCHANGED << file, srvOut >>
    BY <1>4 DEF EditFreq, NoSave, editRest
  <2>3. KeepsObjects
    BY <1>2, <2>1, <2>2, PutKeeps
  <2> QED
    BY <1>2, <1>3, <2>2, <2>3, SaveBegins, DialogStep
<1>5. CASE EditOut(v)
  <2>1. [Dev EXCEPT !.out = v] \in DeviceValues
    BY <1>3 DEF DeviceValues
  <2>2. PutDev([Dev EXCEPT !.out = v]) /\ saving' = saving /\ file' = file /\ srvOut' = v
    BY <1>5 DEF EditOut, NoSave, editRest
  <2>3. KeepsObjects
    BY <1>2, <2>1, <2>2, PutKeeps
  <2> QED
    BY <1>2, <1>3, <2>2, <2>3, DialogStep
<1>6. CASE EditCode(v)
  <2>1. /\ UNCHANGED << file, old, srvOut, saving >>
        /\ entry' = entry \/ \E md : entry' = [entry EXCEPT !.md = md]
    BY <1>6 DEF EditCode, NoSave, editRest
  <2>2. IsEntry(entry') /\ entry'.there = entry.there /\ entry'.dev = entry.dev
    BY <2>1, EntryUpdates DEF ZspInv, FilesInv
  <2>3. KeepsObjects
    BY <2>1, <2>2 DEF KeepsObjects, ZspInv, HeldInv
  <2> QED
    BY <1>2, <1>3, <2>1, <2>3, DialogStep
<1>7. CASE EditSelftest(v)
  <2> DEFINE st == [test |-> v]
  <2>1. PutState(st) /\ srvOut' = srvOut
    BY <1>7 DEF EditSelftest
  <2>2. PICK e : e = IF held.st = "same" THEN [entry EXCEPT !.st = st] ELSE entry
    OBVIOUS
  <2>3. IsEntry(e) /\ e.there = entry.there /\ e.dev = entry.dev
    BY <2>2, EntryUpdates DEF ZspInv, FilesInv
  <2>4. PICK h : h = [e EXCEPT !.xml["st"] = e.st, !.seen["st"] = FALSE]
    OBVIOUS
  <2>5. IsEntry(entry') /\ entry'.there = entry.there /\ entry'.dev = entry.dev
    <3>1. IsEntry(h) /\ h.there = e.there /\ h.dev = e.dev
      <4>1. \E k \in {"st", "md"} : \E w, x : h = [e EXCEPT !.xml[k] = w, !.seen[k] = x]
        BY <2>4
      <4> QED
        BY <2>3, <4>1, EntryUpdates
    <3>2. entry' = e \/ entry' = h
      BY <2>1, <2>2, <2>4 DEF PutState
    <3> QED
      BY <2>3, <3>1, <3>2
  <2>6. file' = file \/ \E w : file' = [file EXCEPT !["st"] = w]
    BY <2>1 DEF PutState
  <2>7. file' = [k \in Kind |-> file'[k]] /\ file'["cfg"] = file["cfg"]
    BY <1>3, <2>6 DEF Kind
  <2>8. old' = old \/ old' = [old EXCEPT !.st = st]
    BY <2>1 DEF PutState
  <2>9. KeepsObjects
    BY <2>5, <2>8 DEF KeepsObjects, ZspInv, HeldInv
  <2>10. saving' = saving \/ saving' = << "late" >>
    BY <1>2, <2>1, LostIsLate DEF PutState
  <2> QED
    BY <1>2, <1>3, <2>1, <2>7, <2>9, <2>10, DialogStep
<1> QED
  BY <1>1, <1>4, <1>5, <1>6, <1>7

\* The pages of a channel.
LEMMA EditChannelKeeps == ASSUME ZspInv, EditChannel PROVE ZspInv'
<1>1. /\ dlg # Closed /\ UNCHANGED << held, round, allowed, dlg, snap, late, file, srvOut >>
  BY DEF EditChannel, EditName, EditTenso, EditGain, EditExc, EditIcp, EditsChannel, Editing,
         editRest
<1>2. srvOut \in Number /\ file = [k \in Kind |-> file[k]]
  BY DEF ZspInv, HeldInv, FilesInv
<1>3. CASE /\ \E chans : PutChans(chans)
           /\ Save(held.chan) \/ saving' = saving
  <2>1. KeepsObjects
    BY <1>3, PutKeeps
  <2> QED
    BY <1>1, <1>2, <1>3, <2>1, SaveBegins, DialogStep
<1>4. ASSUME NEW v \in Value, EditExc(v) PROVE ZspInv'
  <2>1. /\ entry' = entry \/ \E chans : entry' = [entry EXCEPT !.chans = chans]
        /\ old' = old \/ \E chans : old' = [old EXCEPT !.chans = chans]
        /\ saving' = IF held.chan = "dead" THEN Lost ELSE saving
    BY <1>4 DEF EditExc
  <2>2. IsEntry(entry') /\ entry'.there = entry.there /\ entry'.dev = entry.dev
    BY <2>1, EntryUpdates DEF ZspInv, FilesInv
  <2>3. old' = [x \in {"dev", "chans", "st"} |-> old'[x]] /\ old'.dev = old.dev
    BY <2>1 DEF ZspInv, HeldInv
  <2>4. KeepsObjects
    BY <2>2, <2>3 DEF KeepsObjects, ZspInv, HeldInv
  <2>5. saving' = saving \/ saving' = << "late" >>
    BY <1>1, <2>1, LostIsLate
  <2> QED
    BY <1>1, <1>2, <2>4, <2>5, DialogStep
<1>5. CASE EditIcp
  BY <1>3, <1>5 DEF EditIcp
<1>6. ASSUME NEW v \in Value, EditName(v) \/ EditTenso(v) PROVE ZspInv'
  BY <1>3, <1>6 DEF EditName, EditTenso, NoSave
<1>7. ASSUME NEW v \in Value, EditGain(v) PROVE ZspInv'
  BY <1>3, <1>7 DEF EditGain, NoSave
<1> QED
  BY <1>4, <1>5, <1>6, <1>7 DEF EditChannel

\* OK, and the part of Cancel that may save.
LEMMA LeavingKeeps ==
  ASSUME ZspInv,
         \/ \E start \in {"button", "auto"} : OkDevice(start)
         \/ OkChannel \/ CancelFirst \/ CancelIcp \/ CancelChannelRest
  PROVE  ZspInv'
<1>1. dlg # Closed /\ UNCHANGED << held, round, allowed, dlg, snap, late, file, srvOut >>
  BY ZspAssumption DEF OkDevice, OkChannel, CancelFirst, CancelIcp, CancelChannelRest
<1>2. srvOut \in Number /\ file = [k \in Kind |-> file[k]]
  BY DEF ZspInv, HeldInv, FilesInv
<1>3. CASE /\ \/ UNCHANGED << entry, old >>
              \/ held.dev # "none" /\ \E dev \in DeviceValues : PutDev(dev)
              \/ \E chans : PutChans(chans)
           /\ \/ \E x \in {"dev", "chan"} : Save(held[x])
              \/ saving' = saving
  <2>1. KeepsObjects
    BY <1>3, PutKeeps
  <2> QED
    BY <1>1, <1>2, <1>3, <2>1, SaveBegins, DialogStep
<1>4. held.dev # "none" => Dev \in DeviceValues
  BY DEF ZspInv, HeldInv, FilesInv, IsEntry, Dev
<1>5. ASSUME NEW start \in {"button", "auto"}, OkDevice(start) PROVE ZspInv'
  <2>1. held.dev # "none" => [Dev EXCEPT !.start = start] \in DeviceValues
    BY <1>4 DEF DeviceValues
  <2>2. \/ UNCHANGED << entry, old >> /\ saving' = saving
        \/ held.dev # "none" /\ PutDev([Dev EXCEPT !.start = start]) /\ Save(held["dev"])
    BY <1>5 DEF OkDevice, NoSave
  <2> QED
    BY <1>3, <2>1, <2>2
<1>6. CASE OkChannel
  BY <1>3, <1>6 DEF OkChannel
<1>7. CASE CancelFirst
  <2>1. CASE dlg = Device
    <3>1. held.dev # "none" => [Dev EXCEPT !.freq = snap.dev.freq] \in DeviceValues
      <4>1. snap.dev.freq \in Number
        BY <2>1 DEF ZspInv, HeldInv, DeviceValues
      <4> QED
        BY <1>4, <4>1 DEF DeviceValues
    <3>2. \/ UNCHANGED << entry, old >> /\ saving' = saving
          \/ /\ held.dev # "none" /\ PutDev([Dev EXCEPT !.freq = snap.dev.freq])
             /\ Save(held["dev"]) \/ saving' = saving
      BY <1>7, <2>1 DEF CancelFirst, NoSave
    <3> QED
      BY <1>3, <3>1, <3>2
  <2>2. CASE dlg # Device
    <3>1. \/ UNCHANGED << entry, old >> /\ saving' = saving
          \/ (\E chans : PutChans(chans)) /\ (Save(held["chan"]) \/ saving' = saving)
      BY <1>7, <2>2 DEF CancelFirst, NoSave
    <3> QED
      BY <1>3, <3>1
  <2> QED
    BY <2>1, <2>2
<1>8. CASE CancelIcp
  <2>1. \/ UNCHANGED << entry, old >> /\ saving' = saving
        \/ (\E chans : PutChans(chans)) /\ (Save(held["chan"]) \/ saving' = saving)
    BY <1>8 DEF CancelIcp, NoSave
  <2> QED
    BY <1>3, <2>1
<1>9. CASE CancelChannelRest
  <2>1. saving' = saving /\ (UNCHANGED << entry, old >> \/ \E chans : PutChans(chans))
    BY <1>9 DEF CancelChannelRest
  <2> QED
    BY <1>3, <2>1
<1> QED
  BY <1>5, <1>6, <1>7, <1>8, <1>9

\* The part of Cancel that writes the state.
LEMMA CancelRestKeeps == ASSUME ZspInv, CancelDeviceRest PROVE ZspInv'
<1>1. /\ dlg = Device /\ dlg # Closed
      /\ UNCHANGED << held, round, allowed, dlg, snap, late >> /\ srvOut' = snap.out
  BY ZspAssumption DEF CancelDeviceRest
<1>2. /\ snap.out \in Number /\ file = [k \in Kind |-> file[k]] /\ IsEntry(entry)
      /\ old = [x \in {"dev", "chans", "st"} |-> old[x]]
      /\ old.dev \in DeviceValues \cup {NoDoc}
  BY <1>1 DEF ZspInv, HeldInv, FilesInv
<1>3. PICK e : e = IF held.dev = "same" THEN [entry EXCEPT !.dev.out = snap.out] ELSE entry
  OBVIOUS
<1>4. IsEntry(e) /\ e.there = entry.there /\ (entry.dev # NoDoc => e.dev # NoDoc)
  <2>1. CASE held.dev = "same"
    <3>1. entry.dev \in DeviceValues
      BY <2>1 DEF ZspInv, HeldInv, FilesInv, IsEntry
    <3>2. PICK dev : dev = [entry.dev EXCEPT !.out = snap.out]
      OBVIOUS
    <3>3. dev \in DeviceValues /\ dev # NoDoc
      BY <1>2, <3>1, <3>2, ValuesAreThere DEF DeviceValues
    <3>4. e = [entry EXCEPT !.dev = dev]
      BY <1>2, <1>3, <2>1, <3>2
    <3>5. entry.there
      BY <3>1, ValuesAreThere, <1>2 DEF IsEntry
    <3> QED
      BY <1>2, <3>3, <3>4, <3>5 DEF IsEntry, EntryField
  <2> QED
    BY <1>2, <1>3, <2>1
<1>5. PICK f : f = IF held.st = "same" THEN [e EXCEPT !.st = snap.st] ELSE e
  OBVIOUS
<1>6. IsEntry(f) /\ f.there = e.there /\ f.dev = e.dev
  BY <1>4, <1>5, EntryUpdates
<1>7. PICK g : g = [f EXCEPT !.xml["st"] = f.st, !.seen["st"] = FALSE]
  OBVIOUS
<1>8. IsEntry(g) /\ g.there = f.there /\ g.dev = f.dev
  <2>1. \E k \in {"st", "md"} : \E v, w : g = [f EXCEPT !.xml[k] = v, !.seen[k] = w]
    BY <1>7
  <2> QED
    BY <1>6, <2>1, EntryUpdates
<1>9. /\ entry' = f \/ entry' = g
      /\ file' = file \/ \E w : file' = [file EXCEPT !["st"] = w]
      /\ old' = [old EXCEPT !.dev = IF @ = NoDoc THEN @ ELSE [@ EXCEPT !.out = snap.out],
                            !.st = IF @ = NoDoc THEN @ ELSE snap.st]
      /\ saving' = IF held.st = "dead" THEN Lost ELSE saving
  BY <1>3, <1>5, <1>7 DEF CancelDeviceRest
<1>10. file' = [k \in Kind |-> file'[k]] /\ file'["cfg"] = file["cfg"]
  BY <1>2, <1>9 DEF Kind
<1>11. /\ old' = [x \in {"dev", "chans", "st"} |-> old'[x]]
       /\ old'.dev = IF old.dev = NoDoc THEN NoDoc ELSE [old.dev EXCEPT !.out = snap.out]
  BY <1>2, <1>9
<1>12. /\ old'.dev \in DeviceValues \cup {NoDoc}
       /\ old.dev # NoDoc => old'.dev # NoDoc
  <2>1. \A d \in DeviceValues : [d EXCEPT !.out = snap.out] \in DeviceValues
    BY <1>2 DEF DeviceValues
  <2> QED
    BY <1>2, <1>11, <2>1, ValuesAreThere
<1>13. KeepsObjects
  BY <1>4, <1>6, <1>8, <1>9, <1>11, <1>12 DEF KeepsObjects
<1>14. saving' = saving \/ saving' = << "late" >>
  BY <1>1, <1>9, LostIsLate
<1> QED
  BY <1>1, <1>2, <1>10, <1>13, <1>14, DialogStep

\* What is saved.
LEMMA SaveKeeps == ASSUME ZspInv, SaveMetadata \/ SaveConfig PROVE ZspInv'
<1>1. /\ saving # << >> /\ saving \in {<< "late" >>, << "cfg" >>, << "md", "cfg" >>}
      /\ dlg # Closed /\ UNCHANGED << held, old, round, allowed, dlg, snap, srvOut, late >>
  BY DEF SaveMetadata, SaveConfig, ZspInv, SavingInv
<1>2. /\ srvOut \in Number /\ file = [k \in Kind |-> file[k]] /\ IsEntry(entry)
  BY DEF ZspInv, HeldInv, FilesInv
<1>3. KeepsObjects /\ file' = [k \in Kind |-> file'[k]]
      /\ (file'["cfg"] = file["cfg"] \/ IsDoc(file'["cfg"]))
  <2>1. CASE UNCHANGED << file, entry >>
    BY <1>1, <1>2, <2>1, PutKeeps
  <2>2. ASSUME NEW doc, file' = [file EXCEPT !["md"] = doc],
               entry' = [entry EXCEPT !.xml["md"] = doc, !.seen["md"] = FALSE]
        PROVE  /\ KeepsObjects /\ file' = [k \in Kind |-> file'[k]]
               /\ file'["cfg"] = file["cfg"]
    <3>1. \E k \in {"st", "md"} : \E v, w : entry' = [entry EXCEPT !.xml[k] = v, !.seen[k] = w]
      BY <2>2
    <3>2. IsEntry(entry') /\ entry'.there = entry.there /\ entry'.dev = entry.dev
      BY <1>2, <3>1, EntryUpdates
    <3> QED
      BY <1>1, <1>2, <2>2, <3>2 DEF KeepsObjects, Kind, ZspInv, HeldInv
  <2>3. ASSUME NEW doc, IsDoc(doc), entry.dev # NoDoc, file' = [file EXCEPT !["cfg"] = doc],
               entry' = [entry EXCEPT !.xml["cfg"] = doc, !.seen["cfg"] = FALSE]
        PROVE  /\ KeepsObjects /\ file' = [k \in Kind |-> file'[k]]
               /\ IsDoc(file'["cfg"])
    <3>1. /\ entry' = [x \in EntryField |-> entry'[x]]
          /\ entry'.xml = [entry.xml EXCEPT !["cfg"] = doc]
          /\ entry'.seen = [entry.seen EXCEPT !["cfg"] = FALSE]
          /\ entry'.there = entry.there /\ entry'.dev = entry.dev
      BY <1>2, <2>3 DEF IsEntry, EntryField
    <3>2. "cfg" \in Kind
      BY DEF Kind
    <3>3. /\ entry'.xml = [j \in Kind |-> entry'.xml[j]]
          /\ entry'.seen = [j \in Kind |-> entry'.seen[j]]
          /\ entry'.xml["cfg"] = doc
      BY <1>2, <3>1, <3>2 DEF IsEntry
    <3>4. IsEntry(entry')
      BY <1>2, <2>3, <3>1, <3>3 DEF IsEntry
    <3> QED
      BY <1>1, <1>2, <2>3, <3>1, <3>2, <3>4 DEF KeepsObjects, ZspInv, HeldInv
  <2>4. CASE SaveMetadata
    BY <2>1, <2>2, <2>4 DEF SaveMetadata
  <2>5. CASE SaveConfig
    <3>1. CASE entry.xml["cfg"] = NoDoc
      BY <2>1, <2>5, <3>1 DEF SaveConfig
    <3>2. CASE entry.xml["cfg"] # NoDoc
      <4>1. PICK doc : doc = WriteConfig(entry.xml["cfg"], entry.dev, entry.chans, entry.md)
        OBVIOUS
      <4>2. IsDoc(doc) /\ entry.dev # NoDoc
        BY <1>2, <3>2, <4>1, WrittenIsDoc DEF IsEntry
      <4>3. /\ file' = [file EXCEPT !["cfg"] = doc]
            /\ entry' = [entry EXCEPT !.xml["cfg"] = doc, !.seen["cfg"] = FALSE]
        BY <2>5, <3>2, <4>1 DEF SaveConfig
      <4> QED
        BY <2>3, <4>2, <4>3
    <3> QED
      BY <3>1, <3>2
  <2> QED
    BY <2>4, <2>5
<1>4. saving' \in {<< >>, << "cfg" >>, << "late" >>}
  <2>1. CASE SaveMetadata
    <3>1. saving = << "md", "cfg" >>
      BY <1>1, <2>1 DEF SaveMetadata
    <3>2. entry.dev = NoDoc => Lost = << "late" >>
      BY <3>1 DEF Lost, ZspInv, SavingInv
    <3>3. Tail(saving) = << "cfg" >>
      BY <3>1
    <3>4. saving' = Tail(saving) \/ (entry.dev = NoDoc /\ saving' = Lost)
      BY <2>1 DEF SaveMetadata
    <3> QED
      BY <3>2, <3>3, <3>4
  <2>2. CASE SaveConfig
    <3>1. saving = << "cfg" >> /\ saving' = Tail(saving)
      BY <1>1, <2>2 DEF SaveConfig
    <3>2. Tail(<< "cfg" >>) = << >>
      OBVIOUS
    <3> QED
      BY <3>1, <3>2
  <2> QED
    BY <2>1, <2>2
<1> QED
  BY <1>1, <1>2, <1>3, <1>4, DialogStep

\* A dialog opens or is closed.
LEMMA OpenCloseKeeps ==
  ASSUME ZspInv, (\E d \in {Device} \cup Shown : OpenDialog(d)) \/ CloseDialog
  PROVE  ZspInv'
<1>1. UNCHANGED << file, entry, held, old, round, saving, srvOut >> /\ saving = << >>
  BY DEF OpenDialog, CloseDialog, ZspInv, SavingInv
<1>2. FilesInv' /\ RoundInv' /\ SavingInv'
  BY <1>1 DEF ZspInv, FilesInv, RoundInv, SavingInv, Good
<1>3. ASSUME NEW d \in {Device} \cup Shown, OpenDialog(d) PROVE HeldInv' /\ PauseInv'
  <2>1. held.dev # "none" => Dev \in DeviceValues
    BY DEF ZspInv, HeldInv, FilesInv, IsEntry, Dev
  <2>2. /\ dlg' = d /\ allowed' = FALSE /\ late' = (round # "idle") /\ round' = round
        /\ d = Device => held.dev # "none" /\ snap' = [dev |-> Dev, st |-> St, out |-> srvOut]
    BY <1>3 DEF OpenDialog
  <2>3. srvOut \in Number
    BY DEF ZspInv, HeldInv
  <2>4. d # Closed
    BY ZspAssumption
  <2>5. HeldInv'
    BY <1>1, <2>1, <2>2, <2>3 DEF ZspInv, HeldInv
  <2>6. PauseInv'
    BY <2>2 DEF PauseInv
  <2> QED
    BY <2>5, <2>6
<1>4. CASE CloseDialog
  <2>1. dlg' = Closed /\ Closed # Device
    BY <1>4, ZspAssumption DEF CloseDialog
  <2>2. HeldInv'
    BY <1>1, <2>1 DEF ZspInv, HeldInv
  <2>3. PauseInv'
    BY <2>1 DEF PauseInv
  <2>4. HeldInv' /\ PauseInv'
    BY <2>2, <2>3
  <2> QED
    BY <1>2, <2>4 DEF ZspInv
<1> QED
  BY <1>2, <1>3, <1>4 DEF ZspInv

----------------------------------------------------------------------------
\* Every step keeps the invariant.
LEMMA StepZspInv == ZspInv /\ [ZspNext]_zspVars => ZspInv'
<1> SUFFICES ASSUME ZspInv, [ZspNext]_zspVars PROVE ZspInv'
  OBVIOUS
<1>1. CASE UNCHANGED zspVars
  BY <1>1 DEF zspVars, ZspInv, FilesInv, HeldInv, RoundInv, PauseInv, SavingInv, IsEntry, IsDoc,
              Good
<1>2. CASE Round
  BY <1>2, LoadConfigKeeps, LoadStateKeeps, LoadMetadataKeeps, CheckKeeps, SetKeeps, OthersKeep
  DEF Round
<1>3. CASE Dialog
  BY <1>3, OpenCloseKeeps, EditDeviceKeeps, EditChannelKeeps, LeavingKeeps, CancelRestKeeps,
     SaveKeeps
  DEF Dialog
<1>4. CASE \E k \in Kind : Replace(k)
  BY <1>4, OthersKeep
<1> QED
  BY <1>1, <1>2, <1>3, <1>4 DEF ZspNext

\* A save through an object finds the entry it is bound to, and the device it
\* tested, unless its dialog was opened while a round was running.  What makes
\* this so is that a round ends with objects of the entry in the hands of the
\* device, or none, and that no other one begins before the dialog is closed.
THEOREM PausingIsEnough == ZspSpec => []SavesFindTheirData
<1>1. ZspInv => SavesFindTheirData
  BY DEF ZspInv, SavingInv, SavesFindTheirData
<1> QED
  BY <1>1, InitZspInv, StepZspInv, PTL DEF ZspSpec

----------------------------------------------------------------------------
\* What the documents are read and written for.

ChannelField == {"serial", "icp", "gain", "exc", "name", "tenso"}

\* Channels of one slot have the serial number of the slot.
IsChannels(chans) ==
  /\ chans = [c \in DOMAIN chans |-> chans[c]]
  /\ \A c \in DOMAIN chans :
       chans[c] = [f \in ChannelField |-> chans[c][f]] /\ chans[c].icp \in BOOLEAN
  /\ \A c, d \in DOMAIN chans : Slot(c) = Slot(d) => chans[c].serial = chans[d].serial

\* The document in memory is one that device and channels were read from, and
\* has a frequency if the device does.
Matches(e) ==
  /\ e.dev # NoDoc => e.xml["cfg"] # NoDoc
  /\ e.xml["cfg"] # NoDoc =>
       /\ HasChannels(e.xml["cfg"])
       /\ DOMAIN e.xml["cfg"].chan = DOMAIN e.chans
       /\ e.xml["cfg"].freq = NoNode => e.dev.freq = NoNode
  /\ IsChannels(e.chans)
  /\ e.md \in MetaValues \cup {NoDoc}
  /\ e.xml["md"] # NoDoc => e.md # NoDoc
  /\ ~e.there => e.md = NoDoc

\* A time that is remembered is that of a file that was read.
Seen(e) ==
  /\ e.seen["cfg"] => Good(file["cfg"]) /\ e.dev # NoDoc
  /\ e.seen["md"] => Good(file["md"]) /\ e.md # NoDoc

DocumentInv ==
  /\ Good(file["cfg"]) => HasChannels(file["cfg"])
  /\ Good(file["md"]) => file["md"] \in MetaValues
  /\ Matches(entry) /\ Seen(entry)
  /\ IsChannels(old.chans)
  /\ held.md = "same" => entry.md # NoDoc
  /\ dlg \notin {Closed, Device} => snap.icp \in BOOLEAN

\* What a round that nobody disturbs has made of the files so far.
ConfigRead == IF Good(file["cfg"]) THEN entry.seen["cfg"] ELSE entry.dev = NoDoc
MetadataRead == Good(file["md"]) <=> entry.md # NoDoc
Taken ==
  /\ held.dev = (IF Good(file["cfg"]) THEN "same" ELSE "none")
  /\ held.md = (IF Good(file["md"]) THEN "same" ELSE "none")
QuietInv ==
  quiet =>
    /\ dlg = Closed
    /\ round \in {"st", "md"} => ConfigRead
    /\ round = "check" /\ entry.there => ConfigRead /\ MetadataRead
    /\ round \in {"device", "channels"} => ConfigRead /\ MetadataRead
    /\ round = "channels" => Taken

\* What was entered in a dialog that is not a late one is in the objects of
\* the entry, until OK.
Is(v, w) == v = NoNode \/ v = w
TypedInDevice ==
  /\ held.dev = "same"
  /\ Is(typed.freq, entry.dev.freq) /\ Is(typed.out, entry.dev.out)
  /\ Is(typed.start, entry.dev.start)
  /\ \A f \in {"name", "gain", "icp", "exc", "tenso"} : typed[f] = NoNode
TypedInChannel ==
  /\ held.chan = "same" /\ dlg \in DOMAIN entry.chans
  /\ LET chan == entry.chans[dlg] IN
       /\ Is(typed.name, chan.name) /\ Is(typed.gain, chan.gain) /\ Is(typed.icp, chan.icp)
       /\ Is(typed.tenso, chan.tenso)
  /\ \A d \in DOMAIN entry.chans : Slot(d) = Slot(dlg) => Is(typed.exc, entry.chans[d].exc)
  /\ \A f \in {"freq", "out", "start"} : typed[f] = NoNode
TypedField == {"freq", "out", "start", "name", "gain", "icp", "exc", "tenso"}
TypedInv ==
  dlg # Closed /\ ~late /\ phase \in {"edit", "ok"} =>
    /\ typed = [f \in TypedField |-> typed[f]]
    /\ IF dlg = Device THEN TypedInDevice ELSE TypedInChannel

\* What OK has written is what was entered.
Written ==
  /\ wrote # NoDoc
  /\ LET dev == ReadDevice(wrote) IN
     /\ Is(typed.freq, dev.freq)
     /\ wrote.minutes /\ wrote.start # "" => Is(typed.start, dev.start)
     /\ wrote.eth /\ wrote.out # NoNode => Is(typed.out, dev.out)
     /\ dlg \in DOMAIN wrote.chan =>
          LET r == ReadChannel(wrote, dlg) IN
          /\ Is(typed.icp, r.icp) /\ Is(typed.gain, r.gain)
          /\ entry.md = NoDoc => Is(typed.name, r.name)
          /\ wrote.chan[dlg].tenso # NoNode => Is(typed.tenso, r.tenso)
          /\ Slot(dlg) \in DOMAIN wrote.slots => Is(typed.exc, r.exc)
WrittenInv ==
  dlg # Closed /\ ~late /\ phase = "ok" /\ saving = << >> /\ entry.dev # NoDoc => Written

ReadInv == DocumentInv /\ QuietInv /\ TypedInv /\ WrittenInv

----------------------------------------------------------------------------
\* A document that was written is read back.

\* Channels and slots.
LEMMA SlotPlace ==
  ASSUME NEW c \in Nat
  PROVE  /\ Slot(c) * PerSlot + (c % PerSlot) = c /\ c % PerSlot \in 0 .. PerSlot - 1
         /\ Slot(c) \in Nat /\ Slot(c) * PerSlot \in 0 .. c
         /\ Slot(Slot(c) * PerSlot) = Slot(c) /\ Slot(c) * PerSlot + 0 = Slot(c) * PerSlot
<1>1. /\ Slot(c) * PerSlot + (c % PerSlot) = c /\ c % PerSlot \in 0 .. PerSlot - 1
      /\ Slot(c) \in Nat
  BY ZspAssumption DEF Slot
<1>2. Slot(c) * PerSlot \in Nat
  BY <1>1, ZspAssumption
<1>3. \A s \in Nat : (s * PerSlot) \div PerSlot = s
  BY ZspAssumption
<1> QED
  BY <1>1, <1>2, <1>3 DEF Slot

\* The nodes that are written from the channels, each made of the one before.
GainNodes(kod, chans) ==
  [c \in DOMAIN kod |-> IF c \in DOMAIN chans THEN chans[c].gain ELSE kod[c]]
SlotNodes(slots, chans) ==
  [s \in DOMAIN slots |->
     [exc  |-> IF s * PerSlot + 0 \in DOMAIN chans THEN chans[s * PerSlot + 0].exc ELSE 0,
      gain |-> [i \in 0 .. PerSlot - 1 |->
                  IF s * PerSlot + i \in DOMAIN chans
                    THEN chans[s * PerSlot + i].gain ELSE 1]]]
ChannelNodes(nodes, chans, md) ==
  [c \in DOMAIN nodes |->
     IF c \notin DOMAIN chans THEN nodes[c]
     ELSE [name  |-> IF md = NoDoc THEN chans[c].name ELSE md.code,
           tenso |-> WriteTenso(nodes[c].tenso, chans[c])]]
InputNodes(chans) == {c \in DOMAIN chans : chans[c].icp}

\* The nodes of a document after a save, one by one.
WrittenBy(now, doc, dev, chans, md) ==
  /\ now.freq = (IF doc.freq = NoNode THEN NoNode ELSE dev.freq)
  /\ now.minutes = doc.minutes /\ now.eth = doc.eth
  /\ now.start = (IF ~doc.minutes THEN doc.start
                  ELSE IF doc.start = NoNode THEN "" ELSE dev.start)
  /\ now.out = (IF doc.out = NoNode THEN NoNode ELSE dev.out)
  /\ now.icp = InputNodes(chans) /\ now.serial = doc.serial
  /\ now.kod = GainNodes(doc.kod, chans) /\ now.slots = SlotNodes(doc.slots, chans)
  /\ now.chan = ChannelNodes(doc.chan, chans, md)
\* A save leaves the document, node by node, as WrittenBy says.
LEMMA WrittenNodes ==
  ASSUME NEW doc, IsDoc(doc), NEW dev, NEW chans, NEW md,
         NEW now, now = WriteConfig(doc, dev, chans, md)
  PROVE  WrittenBy(now, doc, dev, chans, md)
<1>1. PICK d1 : d1 = WriteDevice(doc, dev)
  OBVIOUS
<1>2. PICK d2 : d2 = WriteMasks(d1, chans)
  OBVIOUS
<1>3. PICK d3 : d3 = WriteSlots(d2, chans)
  OBVIOUS
<1>4. PICK d4 : d4 = WriteChannels(d3, chans, md)
  OBVIOUS
<1>5. /\ d1.freq = (IF doc.freq = NoNode THEN NoNode ELSE dev.freq)
      /\ d1.minutes = doc.minutes /\ d1.eth = doc.eth
      /\ d1.start = (IF ~doc.minutes THEN doc.start
                     ELSE IF doc.start = NoNode THEN "" ELSE dev.start)
      /\ d1.out = (IF doc.out = NoNode THEN NoNode ELSE dev.out)
      /\ d1.icp = doc.icp /\ d1.serial = doc.serial /\ d1.kod = doc.kod
      /\ d1.slots = doc.slots /\ d1.chan = doc.chan
      /\ d1 = [f \in DocField |-> d1[f]]
  BY <1>1 DEF WriteDevice, IsDoc, DocField
<1>6. /\ d2.freq = d1.freq /\ d2.minutes = d1.minutes /\ d2.eth = d1.eth
      /\ d2.start = d1.start /\ d2.out = d1.out /\ d2.serial = d1.serial
      /\ d2.slots = d1.slots /\ d2.chan = d1.chan
      /\ d2.icp = InputNodes(chans) /\ d2.kod = GainNodes(d1.kod, chans)
      /\ d2 = [f \in DocField |-> d2[f]]
  <2>1. d2 = [d1 EXCEPT !.icp = InputNodes(chans), !.kod = GainNodes(d1.kod, chans)]
    BY <1>2, <1>5 DEF WriteMasks, InputNodes, GainNodes, DocField
  <2> QED
    BY <1>5, <2>1 DEF DocField
<1>7. /\ d3.freq = d2.freq /\ d3.minutes = d2.minutes /\ d3.eth = d2.eth
      /\ d3.start = d2.start /\ d3.out = d2.out /\ d3.serial = d2.serial
      /\ d3.icp = d2.icp /\ d3.kod = d2.kod /\ d3.chan = d2.chan
      /\ d3.slots = SlotNodes(d2.slots, chans)
      /\ d3 = [f \in DocField |-> d3[f]]
  <2>1. d3 = [d2 EXCEPT !.slots = SlotNodes(d2.slots, chans)]
    BY <1>3 DEF WriteSlots, SlotNodes
  <2> QED
    BY <1>6, <2>1 DEF DocField
<1>8. /\ d4.freq = d3.freq /\ d4.minutes = d3.minutes /\ d4.eth = d3.eth
      /\ d4.start = d3.start /\ d4.out = d3.out /\ d4.serial = d3.serial
      /\ d4.icp = d3.icp /\ d4.kod = d3.kod /\ d4.slots = d3.slots
      /\ d4.chan = ChannelNodes(d3.chan, chans, md)
  <2>1. d4 = [d3 EXCEPT !.chan = ChannelNodes(d3.chan, chans, md)]
    BY <1>4 DEF WriteChannels, ChannelNodes
  <2> QED
    BY <1>7, <2>1 DEF DocField
<1>9. d4 = WriteConfig(doc, dev, chans, md)
  BY <1>1, <1>2, <1>3, <1>4 DEF WriteConfig
<1> QED
  BY <1>5, <1>6, <1>7, <1>8, <1>9 DEF WrittenBy

\* What a document says of the device and of its channels once they are written.
Reads(now, doc, dev, chans, md) ==
  /\ HasChannels(now) /\ DOMAIN now.chan = DOMAIN chans
  /\ now.freq = NoNode => dev.freq = NoNode
  /\ ReadDevice(now).freq = dev.freq
  /\ now.minutes /\ now.start # "" => ReadDevice(now).start = dev.start
  /\ now.minutes /\ doc.start # NoNode => ReadDevice(now).start = dev.start
  /\ now.eth /\ now.out # NoNode => ReadDevice(now).out = dev.out
  /\ \A c \in DOMAIN chans :
       LET r == ReadChannel(now, c) IN
       /\ r.icp = chans[c].icp /\ r.gain = chans[c].gain
       /\ md = NoDoc => r.name = chans[c].name
       /\ now.chan[c].tenso # NoNode => r.tenso = chans[c].tenso
       /\ Slot(c) \in DOMAIN now.slots =>
            Slot(c) * PerSlot \in DOMAIN chans /\ r.exc = chans[Slot(c) * PerSlot].exc
\* What is written over a document with its channels is read back, as far as Reads says.
LEMMA WrittenIsRead ==
  ASSUME NEW doc, IsDoc(doc), HasChannels(doc), NEW dev \in DeviceValues, NEW chans,
         IsChannels(chans), DOMAIN doc.chan = DOMAIN chans, NEW md,
         doc.freq = NoNode => dev.freq = NoNode,
         NEW now, now = WriteConfig(doc, dev, chans, md)
  PROVE  Reads(now, doc, dev, chans, md)
<1>1. /\ now.freq = (IF doc.freq = NoNode THEN NoNode ELSE dev.freq)
      /\ now.minutes = doc.minutes /\ now.eth = doc.eth
      /\ now.start = (IF ~doc.minutes THEN doc.start
                      ELSE IF doc.start = NoNode THEN "" ELSE dev.start)
      /\ now.out = (IF doc.out = NoNode THEN NoNode ELSE dev.out)
      /\ now.icp = InputNodes(chans) /\ now.serial = doc.serial
      /\ now.kod = GainNodes(doc.kod, chans) /\ now.slots = SlotNodes(doc.slots, chans)
      /\ now.chan = ChannelNodes(doc.chan, chans, md)
  <2>1. WrittenBy(now, doc, dev, chans, md)
    BY WrittenNodes, Zenon
  <2> QED
    BY <2>1 DEF WrittenBy
<1>2. /\ DOMAIN now.kod = DOMAIN doc.kod
      /\ \A c \in DOMAIN doc.kod : c \in DOMAIN chans => now.kod[c] = chans[c].gain
  BY <1>1 DEF GainNodes
<1>3. /\ DOMAIN now.slots = DOMAIN doc.slots
      /\ \A s \in DOMAIN now.slots :
           /\ s * PerSlot + 0 \in DOMAIN chans =>
                now.slots[s].exc = chans[s * PerSlot + 0].exc
           /\ \A i \in 0 .. PerSlot - 1 :
                s * PerSlot + i \in DOMAIN chans =>
                  now.slots[s].gain[i] = chans[s * PerSlot + i].gain
  <2>1. DOMAIN now.slots = DOMAIN doc.slots
    BY <1>1 DEF SlotNodes
  <2>2. ASSUME NEW s \in DOMAIN now.slots
        PROVE  /\ s * PerSlot + 0 \in DOMAIN chans =>
                    now.slots[s].exc = chans[s * PerSlot + 0].exc
               /\ \A i \in 0 .. PerSlot - 1 :
                    s * PerSlot + i \in DOMAIN chans =>
                      now.slots[s].gain[i] = chans[s * PerSlot + i].gain
    <3>1. now.slots[s] =
            [exc  |-> IF s * PerSlot + 0 \in DOMAIN chans
                        THEN chans[s * PerSlot + 0].exc ELSE 0,
             gain |-> [i \in 0 .. PerSlot - 1 |->
                         IF s * PerSlot + i \in DOMAIN chans
                           THEN chans[s * PerSlot + i].gain ELSE 1]]
      BY <1>1, <2>1 DEF SlotNodes
    <3> QED
      BY <3>1
  <2> QED
    BY <2>1, <2>2
<1>4. /\ DOMAIN now.chan = DOMAIN chans
      /\ \A c \in DOMAIN chans :
           /\ md = NoDoc => now.chan[c].name = chans[c].name
           /\ now.chan[c].tenso = WriteTenso(doc.chan[c].tenso, chans[c])
  <2>1. DOMAIN now.chan = DOMAIN chans
    BY <1>1 DEF ChannelNodes
  <2>2. ASSUME NEW c \in DOMAIN chans
        PROVE  /\ md = NoDoc => now.chan[c].name = chans[c].name
               /\ now.chan[c].tenso = WriteTenso(doc.chan[c].tenso, chans[c])
    <3>1. now.chan[c] = [name  |-> IF md = NoDoc THEN chans[c].name ELSE md.code,
                         tenso |-> WriteTenso(doc.chan[c].tenso, chans[c])]
      BY <1>1 DEF ChannelNodes
    <3> QED
      BY <3>1
  <2> QED
    BY <2>1, <2>2
<1>5. HasChannels(now)
  BY <1>2, <1>4 DEF HasChannels
<1>6. /\ dev.freq \in Number /\ dev.start \in {"button", "auto"}
  BY DEF DeviceValues
<1>7. /\ ReadDevice(now).freq = dev.freq /\ (now.freq = NoNode => dev.freq = NoNode)
      /\ now.minutes /\ now.start # "" => ReadDevice(now).start = dev.start
      /\ now.minutes /\ doc.start # NoNode => ReadDevice(now).start = dev.start
      /\ now.eth /\ now.out # NoNode => ReadDevice(now).out = dev.out
  BY <1>1, <1>6 DEF ReadDevice
<1>8. ASSUME NEW c \in DOMAIN chans
      PROVE  LET r == ReadChannel(now, c) IN
              /\ r.icp = chans[c].icp /\ r.gain = chans[c].gain
              /\ md = NoDoc => r.name = chans[c].name
              /\ now.chan[c].tenso # NoNode => r.tenso = chans[c].tenso
              /\ Slot(c) \in DOMAIN now.slots =>
                   Slot(c) * PerSlot \in DOMAIN chans /\ r.exc = chans[Slot(c) * PerSlot].exc
  <2>1. c \in Nat /\ 0 .. c \subseteq DOMAIN chans /\ c \in DOMAIN doc.kod
    BY DEF HasChannels
  <2>2. /\ Slot(c) * PerSlot + (c % PerSlot) = c /\ c % PerSlot \in 0 .. PerSlot - 1
        /\ Slot(c) * PerSlot \in DOMAIN chans /\ Slot(c) * PerSlot + 0 = Slot(c) * PerSlot
    BY <2>1, SlotPlace
  <2>3. ReadGain(now, c) = chans[c].gain
    <3>1. CASE Slot(c) \in DOMAIN now.slots
      <4>1. now.slots[Slot(c)].gain[c % PerSlot] = chans[c].gain
        BY <1>3, <2>2, <3>1
      <4> QED
        BY <3>1, <4>1 DEF ReadGain
    <3>2. CASE Slot(c) \notin DOMAIN now.slots
      BY <1>2, <2>1, <3>2 DEF ReadGain
    <3> QED
      BY <3>1, <3>2
  <2>4. (c \in now.icp) = chans[c].icp
    <3>1. chans[c].icp \in BOOLEAN
      BY DEF IsChannels
    <3>2. c \in now.icp <=> chans[c].icp
      BY <1>1, Zenon DEF InputNodes
    <3>3. PICK b \in BOOLEAN : b = chans[c].icp
      BY <3>1
    <3>4. (c \in now.icp) = b
      BY <3>2, <3>3
    <3> QED
      BY <3>3, <3>4
  <2>5. now.chan[c].tenso # NoNode => now.chan[c].tenso = chans[c].tenso
    BY <1>4 DEF WriteTenso
  <2>6. Slot(c) \in DOMAIN now.slots => now.slots[Slot(c)].exc = chans[Slot(c) * PerSlot].exc
    BY <1>3, <2>2
  <2> QED
    BY <1>4, <2>2, <2>3, <2>4, <2>5, <2>6 DEF ReadChannel
<1> QED
  BY <1>4, <1>5, <1>7, <1>8 DEF Reads

----------------------------------------------------------------------------
\* Reading again.

\* Channels that were read from a document.
LEMMA ReadAreChannels ==
  ASSUME NEW doc, HasChannels(doc)
  PROVE  IsChannels(ReadChannels(doc)) /\ DOMAIN ReadChannels(doc) = DOMAIN doc.chan
<1>1. PICK chans : chans = ReadChannels(doc)
  OBVIOUS
<1>2. DOMAIN chans = DOMAIN doc.chan /\ chans = [c \in DOMAIN chans |-> chans[c]]
  BY <1>1 DEF ReadChannels
<1>3. ASSUME NEW c \in DOMAIN chans
      PROVE  /\ chans[c] = [f \in ChannelField |-> chans[c][f]] /\ chans[c].icp \in BOOLEAN
             /\ chans[c].serial = doc.serial[Slot(c)]
  <2>1. chans[c] = ReadChannel(doc, c)
    BY <1>1 DEF ReadChannels
  <2>2. PICK r : r = ReadChannel(doc, c)
    OBVIOUS
  <2>3. r = [f \in ChannelField |-> r[f]] /\ r.icp \in BOOLEAN /\ r.serial = doc.serial[Slot(c)]
    BY <2>2 DEF ReadChannel, ChannelField
  <2> QED
    BY <2>1, <2>2, <2>3
<1>4. \A c, d \in DOMAIN chans : Slot(c) = Slot(d) => chans[c].serial = chans[d].serial
  BY <1>3
<1>5. IsChannels(chans)
  <2>1. \A c \in DOMAIN chans :
          chans[c] = [f \in ChannelField |-> chans[c][f]] /\ chans[c].icp \in BOOLEAN
    BY <1>3
  <2> QED
    BY <1>2, <1>4, <2>1, Zenon DEF IsChannels
<1> QED
  BY <1>1, <1>2, <1>5

\* Without channels there is nothing to say.
LEMMA NoChannelsAre == IsChannels(NoChannels)
BY DEF IsChannels, NoChannels

\* What Matches and Seen look at.
LEMMA SameMatches ==
  ASSUME NEW e, Matches(e), NEW h, h.xml["cfg"] = e.xml["cfg"], h.xml["md"] = e.xml["md"],
         h.dev = e.dev, h.chans = e.chans, h.md = e.md, h.there = e.there
  PROVE  Matches(h)
BY DEF Matches

\* The configuration.
LEMMA LoadMatches ==
  ASSUME ZspInv, DocumentInv, NEW e, IsEntry(e), Matches(e), Seen(e),
         NEW h, h = Load(e)
  PROVE  /\ Matches(h) /\ Seen(h) /\ h.md = e.md
         /\ h.seen["cfg"] <=> Good(file["cfg"])
         /\ ~Good(file["cfg"]) => h.dev = NoDoc
<1>1. "cfg" \in Kind /\ "md" \in Kind
  BY DEF Kind
<1>2. ASSUME NEW g, g = Unload(e) \/ g = [Unload(e) EXCEPT !.chans = NoChannels]
      PROVE  /\ Matches(g) /\ g.md = e.md /\ g.seen["cfg"] = FALSE /\ g.dev = NoDoc
             /\ g.seen["md"] = e.seen["md"]
  <2> DEFINE x == [e.xml EXCEPT !["cfg"] = NoDoc]
             y == [e.seen EXCEPT !["cfg"] = FALSE]
  <2>1. /\ g.xml = x /\ g.seen = y /\ g.dev = NoDoc
        /\ g.chans \in {e.chans, NoChannels} /\ g.md = e.md /\ g.there = e.there
    <3> HIDE DEF x, y
    <3>1. Unload(e) = [e EXCEPT !.xml = x, !.seen = y, !.dev = NoDoc]
      BY DEF Unload, IsEntry, EntryField, x, y
    <3>2. PICK u : u = Unload(e)
      OBVIOUS
    <3>3. /\ u.xml = x /\ u.seen = y /\ u.dev = NoDoc /\ u.chans = e.chans
          /\ u.md = e.md /\ u.there = e.there /\ u = [f \in EntryField |-> u[f]]
      BY <3>1, <3>2 DEF IsEntry, EntryField
    <3>4. g = u \/ g = [u EXCEPT !.chans = NoChannels]
      BY <1>2, <3>2
    <3> QED
      BY <3>3, <3>4 DEF EntryField
  <2>2. /\ x["cfg"] = NoDoc /\ x["md"] = e.xml["md"]
        /\ y["cfg"] = FALSE /\ y["md"] = e.seen["md"]
    BY <1>1 DEF IsEntry
  <2>3. /\ g.xml["cfg"] = NoDoc /\ g.xml["md"] = e.xml["md"] /\ g.dev = NoDoc
        /\ g.seen["cfg"] = FALSE /\ g.seen["md"] = e.seen["md"]
        /\ g.chans \in {e.chans, NoChannels} /\ g.md = e.md /\ g.there = e.there
    BY <2>1, <2>2
  <2> QED
    BY <2>3, NoChannelsAre DEF Matches
<1>3. CASE ~Good(file["cfg"])
  <2>1. ~e.seen["cfg"]
    BY <1>3 DEF Seen
  <2>2. h = Unload(e) \/ h = [Unload(e) EXCEPT !.chans = NoChannels]
    BY <1>3, <2>1 DEF Load, Good
  <2> QED
    BY <1>2, <1>3, <2>2 DEF Seen
<1>4. CASE Good(file["cfg"]) /\ e.seen["cfg"]
  <2>1. h = e
    BY <1>4 DEF Load, Good
  <2> QED
    BY <1>4, <2>1
<1>5. CASE Good(file["cfg"]) /\ ~e.seen["cfg"]
  <2>1. PICK doc : doc = file["cfg"]
    OBVIOUS
  <2>2. HasChannels(doc) /\ IsDoc(doc) /\ doc # NoDoc
    BY <1>5, <2>1 DEF DocumentInv, ZspInv, FilesInv, Good
  <2>3. PICK dev \in DeviceValues : dev = ReadDevice(doc)
    BY <2>2, ReadIsDevice
  <2>4. PICK chans : chans = ReadChannels(doc)
    OBVIOUS
  <2>5. dev # NoDoc /\ dev.freq = doc.freq
    BY <2>3, ValuesAreThere DEF ReadDevice
  <2>6. IsChannels(chans) /\ DOMAIN chans = DOMAIN doc.chan
    BY <2>2, <2>4, ReadAreChannels
  <2>7. h = [e EXCEPT !.xml["cfg"] = doc, !.seen["cfg"] = TRUE, !.dev = dev, !.chans = chans]
    BY <1>5, <2>1, <2>3, <2>4 DEF Load, Good
  <2> DEFINE x == [e.xml EXCEPT !["cfg"] = doc]
             y == [e.seen EXCEPT !["cfg"] = TRUE]
  <2>8. /\ h.xml = x /\ h.seen = y /\ h.dev = dev
        /\ h.chans = chans /\ h.md = e.md /\ h.there = e.there
    <3> HIDE DEF x, y
    <3>1. h = [e EXCEPT !.xml = x, !.seen = y, !.dev = dev, !.chans = chans]
      BY <2>7 DEF IsEntry, EntryField, x, y
    <3> QED
      BY <3>1 DEF IsEntry, EntryField
  <2>9. /\ x["cfg"] = doc /\ x["md"] = e.xml["md"]
        /\ y["cfg"] = TRUE /\ y["md"] = e.seen["md"]
    BY <1>1 DEF IsEntry
  <2>10. /\ h.xml["cfg"] = doc /\ h.xml["md"] = e.xml["md"] /\ h.dev = dev
        /\ h.seen["cfg"] = TRUE /\ h.seen["md"] = e.seen["md"]
        /\ h.chans = chans /\ h.md = e.md /\ h.there = e.there
    BY <2>8, <2>9
  <2>11. Matches(h)
    BY <2>2, <2>5, <2>6, <2>10 DEF Matches
  <2> QED
    BY <1>5, <2>5, <2>10, <2>11 DEF Seen
<1> QED
  BY <1>3, <1>4, <1>5

\* State and metadata.
LEMMA LoadOtherMatches ==
  ASSUME ZspInv, DocumentInv, NEW e, IsEntry(e), Matches(e), Seen(e), e.there,
         NEW k \in {"st", "md"}, NEW h, h = LoadOther(e, k)
  PROVE  /\ Matches(h) /\ Seen(h) /\ h.dev = e.dev /\ h.seen["cfg"] = e.seen["cfg"]
         /\ k = "st" => h.md = e.md
         /\ k = "md" => (Good(file["md"]) <=> h.md # NoDoc)
<1>1. {"cfg", "st", "md"} = Kind
  BY DEF Kind
<1>2. PICK doc : doc = IF Good(file[k]) THEN file[k] ELSE NoDoc
  OBVIOUS
<1>3. PICK b : b = Good(file[k])
  OBVIOUS
<1>4. PICK f : f = [e EXCEPT !.xml[k] = doc, !.seen[k] = b]
  OBVIOUS
<1>5. h = IF file[k] # NoDoc /\ e.seen[k] THEN e
          ELSE IF k = "st" THEN [f EXCEPT !.st = doc] ELSE [f EXCEPT !.md = doc]
  BY <1>2, <1>3, <1>4 DEF LoadOther
<1>6. /\ f = [x \in EntryField |-> f[x]]
      /\ f.xml = [e.xml EXCEPT ![k] = doc] /\ f.seen = [e.seen EXCEPT ![k] = b]
      /\ f.dev = e.dev /\ f.chans = e.chans /\ f.md = e.md /\ f.there = e.there
  BY <1>4 DEF IsEntry, EntryField
<1>7. /\ f.xml["cfg"] = e.xml["cfg"] /\ f.seen["cfg"] = e.seen["cfg"]
      /\ f.xml[k] = doc /\ f.seen[k] = b
      /\ k = "st" => f.xml["md"] = e.xml["md"] /\ f.seen["md"] = e.seen["md"]
  BY <1>1, <1>6 DEF IsEntry
<1>8. CASE file[k] # NoDoc /\ e.seen[k]
  BY <1>5, <1>8 DEF Seen
<1>9. CASE k = "st" /\ h = [f EXCEPT !.st = doc]
  <2>1. /\ h.xml = f.xml /\ h.seen = f.seen /\ h.dev = e.dev /\ h.chans = e.chans
        /\ h.md = e.md /\ h.there = e.there
    BY <1>6, <1>9 DEF EntryField
  <2>2. /\ h.xml["cfg"] = e.xml["cfg"] /\ h.xml["md"] = e.xml["md"]
        /\ h.seen["cfg"] = e.seen["cfg"] /\ h.seen["md"] = e.seen["md"]
    BY <1>7, <1>9, <2>1
  <2>3. Matches(h)
    BY <2>1, <2>2, SameMatches
  <2>4. Seen(h)
    BY <2>1, <2>2 DEF Seen
  <2> QED
    BY <1>9, <2>1, <2>2, <2>3, <2>4
<1>10. CASE k = "md" /\ h = [f EXCEPT !.md = doc]
  <2>1. /\ h.xml = f.xml /\ h.seen = f.seen /\ h.dev = e.dev /\ h.chans = e.chans
        /\ h.md = doc /\ h.there = e.there
    BY <1>6, <1>10 DEF EntryField
  <2>2. doc \in MetaValues \cup {NoDoc}
    BY <1>2, <1>10 DEF DocumentInv
  <2>3. doc # NoDoc <=> Good(file["md"])
    BY <1>2, <1>10 DEF Good
  <2>4. /\ h.xml["cfg"] = e.xml["cfg"] /\ h.xml["md"] = h.md
        /\ h.seen["cfg"] = e.seen["cfg"] /\ h.seen["md"] = Good(file["md"])
    BY <1>3, <1>7, <1>10, <2>1
  <2>5. Matches(h)
    BY <2>1, <2>2, <2>4 DEF Matches
  <2>6. Seen(h)
    BY <2>1, <2>3, <2>4 DEF Seen
  <2> QED
    BY <1>10, <2>1, <2>3, <2>4, <2>5, <2>6
<1> QED
  BY <1>5, <1>8, <1>9, <1>10

----------------------------------------------------------------------------
\* The rounds, and those who write files.

\* No document has been read at the start.
LEMMA InitReadInv == ZspInit => ReadInv
<1> SUFFICES ASSUME ZspInit PROVE ReadInv
  OBVIOUS
<1>1. /\ entry = NoEntry /\ held.md = "none" /\ old.chans = NoChannels /\ dlg = Closed
      /\ quiet = FALSE /\ file["cfg"] \in Docs /\ file["md"] \in Metas
  BY DEF ZspInit
<1>2. /\ Good(file["cfg"]) => HasChannels(file["cfg"])
      /\ Good(file["md"]) => file["md"] \in MetaValues
  BY <1>1, ZspAssumption DEF GoodDocs, GoodMetas
<1>3. Matches(NoEntry) /\ Seen(NoEntry)
  BY NoChannelsAre DEF Matches, Seen, NoEntry, Kind
<1>4. DocumentInv
  BY <1>1, <1>2, <1>3, NoChannelsAre DEF DocumentInv
<1> QED
  BY <1>1, <1>4 DEF ReadInv, QuietInv, TypedInv, WrittenInv

\* What the device held and the entry no longer has are channels, too.
LEMMA RememberedChannels ==
  ASSUME DocumentInv, NEW h, old' = Remember(h)
  PROVE  IsChannels(old'.chans)
BY NoChannelsAre DEF DocumentInv, Matches, Remember, Chans

\* A round that is running concerns no dialog but a late one.
LEMMA RoundKeepsDialog ==
  ASSUME ZspInv, UNCHANGED dialogVars, round # "idle" \/ allowed
  PROVE  TypedInv' /\ WrittenInv'
<1>1. UNCHANGED << dlg, late >>
  BY DEF dialogVars
<1>2. dlg = Closed \/ late
  BY DEF ZspInv, PauseInv
<1> QED
  BY <1>1, <1>2 DEF TypedInv, WrittenInv

\* The configuration is read again.
LEMMA LoadConfigReads == ASSUME ZspInv, ReadInv, LoadConfig PROVE ReadInv'
<1>1. /\ round = "cfg" /\ round' = "st" /\ entry' = Load(entry)
      /\ held' = HeldAfterLoad(entry) /\ old' = Remember(held')
      /\ UNCHANGED << file, allowed, dialogVars, quiet >>
  BY DEF LoadConfig
<1>2. UNCHANGED << dlg, snap >>
  BY <1>1 DEF dialogVars
<1>3. /\ Matches(entry') /\ Seen(entry') /\ entry'.md = entry.md
      /\ entry'.seen["cfg"] <=> Good(file["cfg"])
      /\ ~Good(file["cfg"]) => entry'.dev = NoDoc
  BY <1>1, LoadMatches DEF ReadInv, DocumentInv, ZspInv, FilesInv
<1>4. Seen(entry)'
  BY <1>1, <1>3 DEF Seen, Good
<1>5. Matches(entry)'
  BY <1>3
<1>6. held'.md = held.md
  BY <1>1 DEF HeldAfterLoad, ZspInv, HeldInv
<1>7. IsChannels(old'.chans)
  BY <1>1, RememberedChannels DEF ReadInv
<1>8. DocumentInv'
  BY <1>1, <1>2, <1>3, <1>4, <1>5, <1>6, <1>7 DEF ReadInv, DocumentInv, Good
<1>9. ConfigRead'
  BY <1>1, <1>3 DEF ConfigRead, Good
<1>10. QuietInv'
  BY <1>1, <1>2, <1>9 DEF ReadInv, QuietInv
<1> QED
  BY <1>1, <1>8, <1>10, RoundKeepsDialog DEF ReadInv

\* The state is.
LEMMA LoadStateReads == ASSUME ZspInv, ReadInv, LoadState PROVE ReadInv'
<1>1. /\ round = "st" /\ round' = "md" /\ entry' = LoadOther(entry, "st")
      /\ held' = HeldAfterOther(entry, "st") /\ old' = Remember(held')
      /\ UNCHANGED << file, allowed, dialogVars, quiet >>
  BY DEF LoadState
<1>2. UNCHANGED << dlg, snap >>
  BY <1>1 DEF dialogVars
<1>3. /\ Matches(entry') /\ Seen(entry') /\ entry'.md = entry.md /\ entry'.dev = entry.dev
      /\ entry'.seen["cfg"] = entry.seen["cfg"]
  <2>1. entry.there /\ IsEntry(entry)
    BY <1>1 DEF ZspInv, FilesInv, RoundInv
  <2> QED
    BY <1>1, <2>1, LoadOtherMatches DEF ReadInv, DocumentInv
<1>4. Seen(entry)' /\ Matches(entry)'
  BY <1>1, <1>3 DEF Seen, Good
<1>5. held'.md = held.md
  BY <1>1 DEF HeldAfterOther, ZspInv, HeldInv
<1>6. IsChannels(old'.chans)
  BY <1>1, RememberedChannels DEF ReadInv
<1>7. DocumentInv'
  BY <1>1, <1>2, <1>3, <1>4, <1>5, <1>6 DEF ReadInv, DocumentInv, Good
<1>8. ConfigRead => ConfigRead'
  BY <1>1, <1>3 DEF ConfigRead, Good
<1>9. QuietInv'
  BY <1>1, <1>2, <1>8 DEF ReadInv, QuietInv
<1> QED
  BY <1>1, <1>7, <1>9, RoundKeepsDialog DEF ReadInv

\* The metadata are, or the entry is dropped.
LEMMA LoadMetadataReads == ASSUME ZspInv, ReadInv, LoadMetadata PROVE ReadInv'
<1>1. /\ round = "md" /\ round' = "check" /\ old' = Remember(held')
      /\ UNCHANGED << file, allowed, dialogVars, quiet >>
  BY DEF LoadMetadata
<1>2. UNCHANGED << dlg, snap >>
  BY <1>1 DEF dialogVars
<1>3. IsChannels(old'.chans)
  BY <1>1, RememberedChannels DEF ReadInv
<1>4. held = [x \in {"dev", "chan", "st", "md"} |-> held[x]]
  BY DEF ZspInv, HeldInv
<1>5. CASE entry.alive
  <2>1. entry' = LoadOther(entry, "md") /\ held' = HeldAfterOther(entry, "md")
    BY <1>5 DEF LoadMetadata
  <2>2. entry.there /\ IsEntry(entry)
    BY <1>1 DEF ZspInv, FilesInv, RoundInv
  <2>3. /\ Matches(entry') /\ Seen(entry') /\ entry'.dev = entry.dev
        /\ entry'.seen["cfg"] = entry.seen["cfg"]
        /\ Good(file["md"]) <=> entry'.md # NoDoc
    BY <2>1, <2>2, LoadOtherMatches DEF ReadInv, DocumentInv
  <2>4. held'.md = "same" => entry'.md # NoDoc
    <3>1. held'.md = IF held.md = "same" /\ Replaced(entry, "md") THEN Detached("md") ELSE held.md
      BY <1>4, <2>1 DEF HeldAfterOther
    <3>2. Detached("md") # "same"
      BY DEF Detached
    <3>3. ~Replaced(entry, "md") => entry' = entry
      BY <2>1 DEF Replaced, LoadOther
    <3> QED
      BY <3>1, <3>2, <3>3 DEF ReadInv, DocumentInv
  <2>5. Seen(entry)' /\ Matches(entry)'
    BY <1>1, <2>3 DEF Seen, Good
  <2>6. DocumentInv'
    BY <1>1, <1>2, <1>3, <2>4, <2>5 DEF ReadInv, DocumentInv, Good
  <2>7. (ConfigRead => ConfigRead') /\ MetadataRead'
    BY <1>1, <2>3 DEF ConfigRead, MetadataRead, Good
  <2>8. QuietInv'
    BY <1>1, <1>2, <2>7 DEF ReadInv, QuietInv
  <2> QED
    BY <1>1, <2>6, <2>8, RoundKeepsDialog DEF ReadInv
<1>6. CASE ~entry.alive
  <2>1. entry' = NoEntry /\ held'.md # "same"
    <3>1. held' = [dev |-> held'.dev, chan |-> held'.chan, st |-> held'.st,
                   md |-> IF HeldAfterOther(entry, "md").md = "same" THEN "cut"
                          ELSE HeldAfterOther(entry, "md").md]
      BY <1>6 DEF LoadMetadata
    <3> QED
      BY <1>6, <3>1 DEF LoadMetadata
  <2>2. Matches(entry)' /\ Seen(entry)'
    BY <2>1, NoChannelsAre DEF Matches, Seen, NoEntry, Kind
  <2>3. DocumentInv'
    BY <1>1, <1>2, <1>3, <2>1, <2>2 DEF ReadInv, DocumentInv, Good
  <2>4. QuietInv'
    BY <1>1, <1>2, <2>1 DEF ReadInv, QuietInv, NoEntry
  <2> QED
    BY <1>1, <2>3, <2>4, RoundKeepsDialog DEF ReadInv
<1> QED
  BY <1>5, <1>6

\* The device asks for its entry.
LEMMA CheckReads == ASSUME ZspInv, ReadInv, Check PROVE ReadInv'
<1>1. /\ round = "check" /\ round' = "device"
      /\ UNCHANGED << file, held, old, allowed, dialogVars, quiet >>
  BY DEF Check
<1>2. UNCHANGED << dlg, snap >>
  BY <1>1 DEF dialogVars
<1>3. CASE entry.there
  <2>1. entry' = [entry EXCEPT !.alive = TRUE] /\ IsEntry(entry)
    BY <1>3 DEF Check, ZspInv, FilesInv
  <2>2. /\ entry'.xml = entry.xml /\ entry'.seen = entry.seen /\ entry'.dev = entry.dev
        /\ entry'.chans = entry.chans /\ entry'.md = entry.md /\ entry'.there = entry.there
    BY <2>1 DEF IsEntry, EntryField
  <2>3. Matches(entry)' /\ Seen(entry)'
    BY <1>1, <2>2 DEF ReadInv, DocumentInv, Matches, Seen, Good
  <2>4. DocumentInv'
    BY <1>1, <1>2, <2>2, <2>3 DEF ReadInv, DocumentInv, Good
  <2>5. (ConfigRead => ConfigRead') /\ (MetadataRead => MetadataRead')
    BY <1>1, <2>2 DEF ConfigRead, MetadataRead, Good
  <2>6. QuietInv'
    BY <1>1, <1>2, <1>3, <2>5 DEF ReadInv, QuietInv
  <2> QED
    BY <1>1, <2>4, <2>6, RoundKeepsDialog DEF ReadInv
<1>4. CASE ~entry.there
  <2>1. PICK new : new = [NoEntry EXCEPT !.there = TRUE, !.alive = TRUE]
    OBVIOUS
  <2>2. IsEntry(new) /\ Matches(new) /\ Seen(new) /\ new.there
    BY <2>1, NoChannelsAre DEF IsEntry, Matches, Seen, NoEntry, EntryField, Kind
  <2>3. PICK l : l = Load(new)
    OBVIOUS
  <2>4. /\ IsEntry(l) /\ l.there /\ Matches(l) /\ Seen(l)
        /\ l.seen["cfg"] <=> Good(file["cfg"])
        /\ ~Good(file["cfg"]) => l.dev = NoDoc
    BY <2>2, <2>3, LoadIsEntry, LoadMatches DEF ZspInv, ReadInv
  <2>5. PICK o : o = LoadOther(l, "st")
    OBVIOUS
  <2>6. /\ IsEntry(o) /\ o.there /\ Matches(o) /\ Seen(o) /\ o.dev = l.dev
        /\ o.seen["cfg"] = l.seen["cfg"]
    BY <2>4, <2>5, LoadOtherIsEntry, LoadOtherMatches DEF ReadInv
  <2>7. entry' = LoadOther(o, "md")
    BY <1>4, <2>1, <2>3, <2>5 DEF Check
  <2>8. /\ Matches(entry') /\ Seen(entry') /\ entry'.dev = o.dev
        /\ entry'.seen["cfg"] = o.seen["cfg"]
        /\ Good(file["md"]) <=> entry'.md # NoDoc
    BY <2>6, <2>7, LoadOtherMatches DEF ReadInv
  <2>9. Matches(entry)' /\ Seen(entry)'
    BY <1>1, <2>8 DEF Seen, Good
  <2>10. held.md # "same"
    BY <1>4 DEF ReadInv, DocumentInv, Matches
  <2>11. DocumentInv'
    BY <1>1, <1>2, <2>9, <2>10 DEF ReadInv, DocumentInv, Good
  <2>12. ConfigRead' /\ MetadataRead'
    BY <1>1, <2>4, <2>6, <2>8 DEF ConfigRead, MetadataRead, Good
  <2>13. QuietInv'
    BY <1>1, <1>2, <2>12 DEF ReadInv, QuietInv
  <2> QED
    BY <1>1, <2>11, <2>13, RoundKeepsDialog DEF ReadInv
<1> QED
  BY <1>3, <1>4

\* The device and the channels take over what the entry has now.
LEMMA SetReads == ASSUME ZspInv, ReadInv, SetDevice \/ SetChannels PROVE ReadInv'
<1>1. /\ old' = Remember(held') /\ UNCHANGED << file, entry, allowed, dialogVars, quiet >>
      /\ round # "idle"
  BY DEF SetDevice, SetChannels
<1>2. UNCHANGED << dlg, snap >>
  BY <1>1 DEF dialogVars
<1>3. IsChannels(old'.chans)
  BY <1>1, RememberedChannels DEF ReadInv
<1>4. held = [x \in {"dev", "chan", "st", "md"} |-> held[x]]
  BY DEF ZspInv, HeldInv
<1>5. Matches(entry)' /\ Seen(entry)'
  BY <1>1 DEF ReadInv, DocumentInv, Matches, Seen, Good
<1>6. CASE SetDevice
  <2>1. /\ round = "device" /\ round' = "channels"
        /\ held'.dev = (IF entry.dev # NoDoc THEN "same" ELSE "none")
        /\ held'.md = (IF entry.md # NoDoc THEN "same" ELSE "none")
    BY <1>4, <1>6 DEF SetDevice, HandOut
  <2>2. DocumentInv'
    BY <1>1, <1>2, <1>3, <1>5, <2>1 DEF ReadInv, DocumentInv, Good
  <2>3. ConfigRead => (Good(file["cfg"]) <=> entry.dev # NoDoc)
    BY DEF ConfigRead, ReadInv, DocumentInv, Seen
  <2>4. ConfigRead /\ MetadataRead => ConfigRead' /\ MetadataRead' /\ Taken'
    BY <1>1, <2>1, <2>3 DEF ConfigRead, MetadataRead, Taken, Good
  <2>5. QuietInv'
    BY <1>1, <1>2, <2>1, <2>4 DEF ReadInv, QuietInv
  <2> QED
    BY <1>1, <2>2, <2>5, RoundKeepsDialog DEF ReadInv
<1>7. CASE SetChannels
  <2>1. round' = "idle" /\ held'.md = held.md
    BY <1>4, <1>7 DEF SetChannels
  <2>2. DocumentInv'
    BY <1>1, <1>2, <1>3, <1>5, <2>1 DEF ReadInv, DocumentInv, Good
  <2>3. QuietInv'
    BY <1>1, <1>2, <2>1 DEF ReadInv, QuietInv
  <2> QED
    BY <1>1, <2>2, <2>3, RoundKeepsDialog DEF ReadInv
<1> QED
  BY <1>6, <1>7

\* The entry as far as Matches, Seen and the dialog look at it.
SameEntry ==
  /\ entry'.xml["cfg"] = entry.xml["cfg"] /\ entry'.xml["md"] = entry.xml["md"]
  /\ entry'.dev = entry.dev /\ entry'.chans = entry.chans /\ entry'.md = entry.md
  /\ entry'.there = entry.there
  /\ \A k \in {"cfg", "md"} : entry'.seen[k] => entry.seen[k]

\* A step that changes of the documents at most that their times are known.
LEMMA SameEntryDocuments ==
  ASSUME ZspInv, ReadInv, SameEntry, UNCHANGED << held, dlg, snap >>, old'.chans = old.chans,
         \A k \in {"cfg", "md"} :
           \/ file'[k] = file[k]
           \/ ~entry'.seen[k] /\ file'[k] \in (IF k = "cfg" THEN Docs ELSE Metas)
  PROVE  DocumentInv'
<1>1. Matches(entry')
  BY SameMatches DEF SameEntry, ReadInv, DocumentInv
<1>2. Matches(entry)'
  BY <1>1
<1>3. Seen(entry)'
  BY DEF SameEntry, ReadInv, DocumentInv, Seen, Good
<1>4. /\ Good(file'["cfg"]) => HasChannels(file'["cfg"])
      /\ Good(file'["md"]) => file'["md"] \in MetaValues
  BY ZspAssumption DEF ReadInv, DocumentInv, GoodDocs, GoodMetas
<1> QED
  BY <1>2, <1>3, <1>4 DEF SameEntry, ReadInv, DocumentInv, Good

\* Nor does it touch what was typed.
LEMMA SameEntryReads ==
  ASSUME ZspInv, ReadInv, SameEntry,
         UNCHANGED << held, old, dlg, phase, saving, snap, typed, wrote, late >>,
         \A k \in {"cfg", "md"} :
           \/ file'[k] = file[k]
           \/ ~entry'.seen[k] /\ file'[k] \in (IF k = "cfg" THEN Docs ELSE Metas)
  PROVE  DocumentInv' /\ TypedInv' /\ WrittenInv'
<1>1. DocumentInv'
  BY SameEntryDocuments
<1>2. TypedInv'
  BY DEF SameEntry, ReadInv, TypedInv, TypedInDevice, TypedInChannel
<1>3. WrittenInv'
  BY DEF SameEntry, ReadInv, WrittenInv, Written
<1> QED
  BY <1>1, <1>2, <1>3

\* A round begins, a dialog stays open for long, or somebody writes a file.
LEMMA OthersRead ==
  ASSUME ZspInv, ReadInv, RoundStart \/ Linger \/ \E k \in Kind : Replace(k)
  PROVE  ReadInv'
<1>1. UNCHANGED << held, old, dlg, phase, saving, snap, typed, wrote, late >>
  BY DEF RoundStart, Linger, Replace, dialogVars
<1>2. IsEntry(entry) /\ file = [k \in Kind |-> file[k]] /\ {"cfg", "st", "md"} = Kind
  BY DEF ZspInv, FilesInv, Kind
<1>3. CASE RoundStart
  <2>1. UNCHANGED << entry, file >>
    BY <1>3 DEF RoundStart
  <2>2. DocumentInv' /\ TypedInv' /\ WrittenInv'
    BY <1>1, <2>1, SameEntryReads DEF SameEntry
  <2>3. quiet' = (dlg = Closed) /\ round' = IF entry.there THEN "cfg" ELSE "check"
    BY <1>3 DEF RoundStart
  <2>4. QuietInv'
    BY <1>1, <2>1, <2>3 DEF QuietInv
  <2> QED
    BY <2>2, <2>4 DEF ReadInv
<1>4. CASE Linger
  <2>1. entry' = [entry EXCEPT !.alive = FALSE] /\ dlg # Closed /\ UNCHANGED << file, quiet >>
    BY <1>4 DEF Linger
  <2>2. SameEntry
    BY <1>2, <2>1 DEF SameEntry, IsEntry, EntryField
  <2>3. DocumentInv' /\ TypedInv' /\ WrittenInv'
    BY <1>1, <2>1, <2>2, SameEntryReads
  <2>4. QuietInv'
    BY <1>1, <2>1 DEF ReadInv, QuietInv
  <2> QED
    BY <2>3, <2>4 DEF ReadInv
<1>5. ASSUME NEW k \in Kind, Replace(k) PROVE ReadInv'
  <2>1. /\ entry' = [entry EXCEPT !.seen[k] = FALSE] /\ quiet' = FALSE
    BY <1>5 DEF Replace
  <2>2. /\ entry'.xml = entry.xml /\ entry'.dev = entry.dev /\ entry'.chans = entry.chans
        /\ entry'.md = entry.md /\ entry'.there = entry.there
        /\ entry'.seen = [entry.seen EXCEPT ![k] = FALSE]
    BY <1>2, <2>1 DEF IsEntry, EntryField
  <2>3. /\ entry'.seen[k] = FALSE
        /\ \A j \in Kind : j # k => entry'.seen[j] = entry.seen[j]
    BY <1>2, <2>2 DEF IsEntry
  <2>4. SameEntry
    BY <1>2, <2>2, <2>3 DEF SameEntry
  <2>5. PICK doc : /\ file' = [file EXCEPT ![k] = doc]
                   /\ k = "cfg" => doc \in Docs
                   /\ k = "md" => doc \in Metas
    BY <1>5 DEF Replace
  <2>6. \A j \in {"cfg", "md"} :
          \/ file'[j] = file[j]
          \/ ~entry'.seen[j] /\ file'[j] \in (IF j = "cfg" THEN Docs ELSE Metas)
    BY <1>2, <2>3, <2>5
  <2>7. DocumentInv' /\ TypedInv' /\ WrittenInv'
    BY <1>1, <2>4, <2>6, SameEntryReads
  <2> QED
    BY <2>1, <2>7 DEF ReadInv, QuietInv
<1> QED
  BY <1>3, <1>4, <1>5

----------------------------------------------------------------------------
\* The dialog.

\* A dialog step in no quiet round.
LEMMA DialogQuiet ==
  ASSUME ReadInv, dlg # Closed, quiet' = quiet
  PROVE  QuietInv'
BY DEF ReadInv, QuietInv

\* One channel is changed, but for its serial number.
Edited(now, chans, c, chan) ==
  /\ IsChannels(now) /\ DOMAIN now = DOMAIN chans
  /\ now[c] = chan /\ \A d \in DOMAIN chans : d # c => now[d] = chans[d]
\* Replacing one channel by a channel with its serial number edits that channel.
LEMMA ChannelEdited ==
  ASSUME NEW chans, IsChannels(chans), NEW c \in DOMAIN chans, NEW chan,
         chan = [f \in ChannelField |-> chan[f]], chan.icp \in BOOLEAN,
         chan.serial = chans[c].serial, NEW now, now = [chans EXCEPT ![c] = chan]
  PROVE  Edited(now, chans, c, chan)
<1>1. /\ DOMAIN now = DOMAIN chans /\ now = [d \in DOMAIN now |-> now[d]]
      /\ \A d \in DOMAIN chans : now[d] = IF d = c THEN chan ELSE chans[d]
  BY DEF IsChannels
<1>2. \A d \in DOMAIN now : now[d].serial = chans[d].serial
  BY <1>1
<1>3. \A d, e \in DOMAIN now : Slot(d) = Slot(e) => now[d].serial = now[e].serial
  BY <1>1, <1>2 DEF IsChannels
<1>4. \A d \in DOMAIN now : now[d] = [f \in ChannelField |-> now[d][f]] /\ now[d].icp \in BOOLEAN
  <2> SUFFICES ASSUME NEW d \in DOMAIN now
               PROVE  now[d] = [f \in ChannelField |-> now[d][f]] /\ now[d].icp \in BOOLEAN
    OBVIOUS
  <2>1. CASE d = c
    BY <1>1, <2>1
  <2>2. CASE d # c
    BY <1>1, <2>2 DEF IsChannels
  <2> QED
    BY <2>1, <2>2
<1>5. IsChannels(now)
  BY <1>1, <1>3, <1>4, Zenon DEF IsChannels
<1> QED
  BY <1>1, <1>5 DEF Edited

\* A common parameter of a slot.
LEMMA CommonChannels ==
  ASSUME NEW chans, IsChannels(chans), NEW c \in DOMAIN chans, NEW v,
         NEW now, now = Common(chans, c, v)
  PROVE  /\ IsChannels(now) /\ DOMAIN now = DOMAIN chans
         /\ \A d \in DOMAIN chans :
              /\ \A f \in ChannelField \ {"exc"} : now[d][f] = chans[d][f]
              /\ Slot(d) = Slot(c) => now[d].exc = v
<1>1. DOMAIN now = DOMAIN chans /\ now = [d \in DOMAIN now |-> now[d]]
  BY DEF Common
<1>2. ASSUME NEW d \in DOMAIN chans
      PROVE  /\ now[d] = [f \in ChannelField |-> now[d][f]]
             /\ \A f \in ChannelField \ {"exc"} : now[d][f] = chans[d][f]
             /\ d = c \/ chans[d].serial = chans[c].serial => now[d].exc = v
  <2>1. now[d] = IF d = c \/ chans[d].serial = chans[c].serial
                   THEN [chans[d] EXCEPT !.exc = v] ELSE chans[d]
    BY DEF Common
  <2>2. chans[d] = [f \in ChannelField |-> chans[d][f]]
    BY DEF IsChannels
  <2> QED
    BY <2>1, <2>2 DEF ChannelField
<1>3. \A d \in DOMAIN chans : Slot(d) = Slot(c) => chans[d].serial = chans[c].serial
  BY DEF IsChannels
<1>4. \A d \in DOMAIN chans : now[d].icp = chans[d].icp /\ now[d].serial = chans[d].serial
  BY <1>2 DEF ChannelField
<1>5. \A d, e \in DOMAIN now : Slot(d) = Slot(e) => now[d].serial = now[e].serial
  BY <1>1, <1>4 DEF IsChannels
<1>6. \A d \in DOMAIN now : now[d] = [f \in ChannelField |-> now[d][f]] /\ now[d].icp \in BOOLEAN
  <2> SUFFICES ASSUME NEW d \in DOMAIN now
               PROVE  now[d] = [f \in ChannelField |-> now[d][f]] /\ now[d].icp \in BOOLEAN
    OBVIOUS
  <2> QED
    BY <1>1, <1>2, <1>4 DEF IsChannels
<1>7. IsChannels(now)
  BY <1>1, <1>5, <1>6, Zenon DEF IsChannels
<1> QED
  BY <1>1, <1>2, <1>3, <1>7

\* What the device and the channels of a dialog are.
LEMMA DialogObjects ==
  ASSUME ZspInv, ReadInv
  PROVE  /\ held.dev # "none" => Dev \in DeviceValues
         /\ IsChannels(Chans)
         /\ IsEntry(entry) /\ Matches(entry) /\ Seen(entry) /\ IsChannels(entry.chans)
         /\ old = [x \in {"dev", "chans", "st"} |-> old[x]]
         /\ file = [k \in Kind |-> file[k]]
<1>1. held.dev # "none" => Dev \in DeviceValues
  BY DEF ZspInv, HeldInv, FilesInv, IsEntry, Dev
<1>2. IsChannels(Chans)
  BY DEF ReadInv, DocumentInv, Matches, Chans
<1> QED
  BY <1>1, <1>2 DEF ZspInv, FilesInv, HeldInv, ReadInv, DocumentInv, Matches

\* The device is edited.
LEMMA PutDevReads ==
  ASSUME ZspInv, ReadInv, NEW dev \in DeviceValues, PutDev(dev),
         held.dev # "none", Dev.freq = NoNode => dev.freq = NoNode,
         UNCHANGED << held, dlg, snap, file >>
  PROVE  /\ DocumentInv' /\ entry'.chans = entry.chans /\ entry'.md = entry.md
         /\ held.dev = "same" => entry'.dev = dev
<1>1. IsEntry(entry) /\ Matches(entry) /\ Seen(entry)
      /\ old = [x \in {"dev", "chans", "st"} |-> old[x]]
  BY DialogObjects
<1>2. dev # NoDoc
  BY ValuesAreThere
<1>3. CASE held.dev = "same"
  <2>1. entry' = [entry EXCEPT !.dev = dev] /\ old' = old /\ Dev = entry.dev
    BY <1>3 DEF PutDev, Dev
  <2>2. /\ entry'.xml = entry.xml /\ entry'.seen = entry.seen /\ entry'.dev = dev
        /\ entry'.chans = entry.chans /\ entry'.md = entry.md /\ entry'.there = entry.there
    BY <1>1, <2>1 DEF IsEntry, EntryField
  <2>3. entry.dev # NoDoc
    BY <1>3 DEF ZspInv, HeldInv
  <2>4. Matches(entry)'
    BY <1>1, <2>1, <2>2, <2>3 DEF Matches
  <2>5. Seen(entry)'
    BY <1>1, <1>2, <2>2 DEF Seen, Good
  <2> QED
    BY <1>3, <2>1, <2>2, <2>4, <2>5 DEF ReadInv, DocumentInv, Good
<1>4. CASE held.dev # "same"
  <2>1. entry' = entry /\ old' = [old EXCEPT !.dev = dev]
    BY <1>4 DEF PutDev
  <2>2. old'.chans = old.chans
    BY <1>1, <2>1
  <2>3. DocumentInv'
    BY <2>1, <2>2, SameEntryDocuments DEF SameEntry
  <2> QED
    BY <1>4, <2>1, <2>3
<1> QED
  BY <1>3, <1>4

\* The channels are.
LEMMA PutChansReads ==
  ASSUME ZspInv, ReadInv, NEW chans, PutChans(chans), IsChannels(chans),
         DOMAIN chans = DOMAIN Chans, UNCHANGED << held, dlg, snap, file >>
  PROVE  /\ DocumentInv' /\ entry'.dev = entry.dev /\ entry'.md = entry.md
         /\ held.chan = "same" => entry'.chans = chans
<1>1. IsEntry(entry) /\ Matches(entry) /\ Seen(entry)
      /\ old = [x \in {"dev", "chans", "st"} |-> old[x]]
  BY DialogObjects
<1>2. CASE held.chan = "same"
  <2>1. entry' = [entry EXCEPT !.chans = chans] /\ old' = old /\ Chans = entry.chans
    BY <1>2 DEF PutChans, Chans
  <2>2. /\ entry'.xml = entry.xml /\ entry'.seen = entry.seen /\ entry'.dev = entry.dev
        /\ entry'.chans = chans /\ entry'.md = entry.md /\ entry'.there = entry.there
    BY <1>1, <2>1 DEF IsEntry, EntryField
  <2>3. Matches(entry')
    BY <1>1, <2>1, <2>2 DEF Matches
  <2>4. Matches(entry)'
    BY <2>3
  <2>5. Seen(entry)'
    BY <1>1, <2>2 DEF Seen, Good
  <2> QED
    BY <1>2, <2>1, <2>2, <2>4, <2>5 DEF ReadInv, DocumentInv, Good
<1>3. CASE held.chan # "same"
  <2>1. entry' = entry /\ old' = [old EXCEPT !.chans = chans]
    BY <1>3 DEF PutChans
  <2>2. old'.chans = chans
    BY <1>1, <2>1
  <2>3. Matches(entry)' /\ Seen(entry)'
    BY <1>1, <2>1 DEF Matches, Seen, Good
  <2> QED
    BY <1>3, <2>1, <2>2, <2>3 DEF ReadInv, DocumentInv, Good
<1> QED
  BY <1>2, <1>3

\* The pages of the device.
LEMMA EditDeviceReads == ASSUME ZspInv, ReadInv, EditDevice PROVE ReadInv'
<1>1. PICK v \in Value : EditFreq(v) \/ EditOut(v) \/ EditCode(v) \/ EditSelftest(v)
  BY DEF EditDevice
<1>2. /\ dlg # Closed /\ dlg = Device /\ held.dev # "none" /\ phase = "edit"
      /\ UNCHANGED << held, dlg, phase, snap, late, quiet >>
  BY <1>1 DEF EditFreq, EditOut, EditCode, EditSelftest, EditsDevice, Editing, editRest
<1>3. /\ Dev \in DeviceValues /\ v \in Number
      /\ IsEntry(entry) /\ Matches(entry) /\ old = [x \in {"dev", "chans", "st"} |-> old[x]]
      /\ file = [k \in Kind |-> file[k]] /\ {"cfg", "st", "md"} = Kind
  BY <1>2, DialogObjects DEF Number, Kind
<1>4. QuietInv' /\ WrittenInv'
  BY <1>2, DialogQuiet DEF WrittenInv
<1>5. ~late => typed = [f \in TypedField |-> typed[f]] /\ TypedInDevice
  BY <1>2 DEF ReadInv, TypedInv
<1>6. CASE EditFreq(v) \/ EditOut(v)
  <2>1. PICK dev \in DeviceValues :
          /\ PutDev(dev) /\ file' = file /\ (Dev.freq = NoNode => dev.freq = NoNode)
          /\ \/ dev = [Dev EXCEPT !.freq = v] /\ typed' = [typed EXCEPT !.freq = v]
             \/ dev = [Dev EXCEPT !.out = v] /\ typed' = [typed EXCEPT !.out = v]
    <3>1. CASE EditFreq(v)
      <4>1. [Dev EXCEPT !.freq = v] \in DeviceValues
        BY <1>3 DEF DeviceValues
      <4> QED
        BY <3>1, <4>1 DEF EditFreq, editRest
    <3>2. CASE EditOut(v)
      <4>1. /\ [Dev EXCEPT !.out = v] \in DeviceValues
            /\ [Dev EXCEPT !.out = v].freq = Dev.freq
        BY <1>3 DEF DeviceValues
      <4> QED
        BY <3>2, <4>1 DEF EditOut, editRest
    <3> QED
      BY <1>6, <3>1, <3>2
  <2>2. DocumentInv' /\ (held.dev = "same" => entry'.dev = dev)
    BY <1>2, <2>1, PutDevReads
  <2>3. TypedInv'
    <3>1. SUFFICES ASSUME ~late
                   PROVE  typed' = [f \in TypedField |-> typed'[f]] /\ TypedInDevice'
      BY <1>2 DEF TypedInv
    <3>2. typed' = [f \in TypedField |-> typed'[f]]
      BY <1>5, <2>1, <3>1
    <3>3. held.dev = "same" /\ Dev = entry.dev /\ entry'.dev = dev
      BY <1>5, <2>2, <3>1 DEF TypedInDevice, Dev
    <3>4. /\ Is(typed'.freq, dev.freq) /\ Is(typed'.out, dev.out) /\ Is(typed'.start, dev.start)
          /\ \A f \in {"name", "gain", "icp", "exc", "tenso"} : typed'[f] = NoNode
      BY <1>3, <1>5, <2>1, <3>1, <3>3 DEF TypedInDevice, TypedField, Is, DeviceValues
    <3> QED
      BY <1>2, <3>2, <3>3, <3>4 DEF TypedInDevice
  <2> QED
    BY <1>4, <2>2, <2>3 DEF ReadInv
<1>7. CASE EditCode(v)
  <2>1. /\ UNCHANGED << file, old, typed >>
        /\ entry' = IF held.md = "same" THEN [entry EXCEPT !.md.code = v] ELSE entry
    BY <1>7 DEF EditCode, editRest
  <2>2. CASE held.md = "same"
    <3>1. PICK md : md = [entry.md EXCEPT !.code = v]
      OBVIOUS
    <3>2. md \in MetaValues
      <4>1. entry.md \in MetaValues
        BY <2>2 DEF ReadInv, DocumentInv, Matches
      <4> QED
        BY <3>1, <4>1 DEF MetaValues
    <3>3. entry' = [entry EXCEPT !.md = md]
      BY <2>1, <2>2, <3>1
    <3>4. /\ entry'.xml = entry.xml /\ entry'.seen = entry.seen /\ entry'.dev = entry.dev
          /\ entry'.chans = entry.chans /\ entry'.md = md /\ entry'.there = entry.there
      BY <1>3, <3>3 DEF IsEntry, EntryField
    <3>5. md # NoDoc /\ entry.md # NoDoc
      BY <2>2, <3>2, ValuesAreThere DEF ReadInv, DocumentInv
    <3>6. Matches(entry)'
      BY <1>3, <3>2, <3>4, <3>5 DEF Matches
    <3>7. Seen(entry)'
      BY <2>1, <3>4, <3>5 DEF ReadInv, DocumentInv, Seen, Good
    <3>8. DocumentInv'
      BY <1>2, <2>1, <3>4, <3>5, <3>6, <3>7 DEF ReadInv, DocumentInv, Good
    <3>9. TypedInv'
      BY <1>2, <1>5, <2>1, <3>4 DEF TypedInv, TypedInDevice
    <3> QED
      BY <1>4, <3>8, <3>9 DEF ReadInv
  <2>3. CASE held.md # "same"
    <3>1. entry' = entry
      BY <2>1, <2>3
    <3>2. DocumentInv'
      BY <1>2, <2>1, <3>1, SameEntryDocuments DEF SameEntry
    <3>3. TypedInv'
      BY <1>2, <1>5, <2>1, <3>1 DEF TypedInv, TypedInDevice
    <3> QED
      BY <1>4, <3>2, <3>3 DEF ReadInv
  <2> QED
    BY <2>2, <2>3
<1>8. CASE EditSelftest(v)
  <2> DEFINE st == [test |-> v]
  <2>1. PutState(st) /\ typed' = typed
    BY <1>8 DEF EditSelftest
  <2>2. PICK e : e = IF held.st = "same" THEN [entry EXCEPT !.st = st] ELSE entry
    OBVIOUS
  <2>3. entry' = e \/ entry' = [e EXCEPT !.xml["st"] = e.st, !.seen["st"] = FALSE]
    BY <2>1, <2>2 DEF PutState
  <2>4. SameEntry
    <3>1. /\ e = [x \in EntryField |-> e[x]] /\ e.xml = entry.xml /\ e.seen = entry.seen
          /\ e.dev = entry.dev /\ e.chans = entry.chans /\ e.md = entry.md
          /\ e.there = entry.there
      BY <1>3, <2>2 DEF IsEntry, EntryField
    <3>2. CASE entry' = e
      BY <3>1, <3>2 DEF SameEntry
    <3>3. CASE entry' = [e EXCEPT !.xml["st"] = e.st, !.seen["st"] = FALSE]
      <4>1. /\ entry'.xml = [e.xml EXCEPT !["st"] = e.st]
            /\ entry'.seen = [e.seen EXCEPT !["st"] = FALSE]
            /\ entry'.dev = e.dev /\ entry'.chans = e.chans /\ entry'.md = e.md
            /\ entry'.there = e.there
        BY <3>1, <3>3 DEF EntryField
      <4> QED
        BY <1>3, <3>1, <4>1 DEF SameEntry, IsEntry
    <3> QED
      BY <2>3, <3>2, <3>3
  <2>5. file' = file \/ \E w : file' = [file EXCEPT !["st"] = w]
    BY <2>1 DEF PutState
  <2>6. file'["cfg"] = file["cfg"] /\ file'["md"] = file["md"]
    BY <1>3, <2>5
  <2>7. old' = old \/ old' = [old EXCEPT !.st = st]
    BY <2>1 DEF PutState
  <2>8. old'.chans = old.chans
    BY <1>3, <2>7
  <2>9. DocumentInv'
    BY <1>2, <2>4, <2>6, <2>8, SameEntryDocuments
  <2>10. TypedInv'
    BY <1>2, <1>5, <2>1, <2>4 DEF TypedInv, TypedInDevice, SameEntry
  <2> QED
    BY <1>4, <2>9, <2>10 DEF ReadInv
<1> QED
  BY <1>1, <1>6, <1>7, <1>8

\* One field of the channel whose dialog is open.
LEMMA EditFieldReads ==
  ASSUME ZspInv, ReadInv, EditsChannel, NEW x \in {"name", "tenso", "gain", "icp"}, NEW v,
         x = "icp" => v \in BOOLEAN, NEW chan, chan = [Chans[dlg] EXCEPT ![x] = v],
         PutChans([Chans EXCEPT ![dlg] = chan]), typed' = [typed EXCEPT ![x] = v],
         UNCHANGED editRest
  PROVE  ReadInv'
<1>1. /\ dlg # Closed /\ dlg # Device /\ phase = "edit" /\ dlg \in DOMAIN Chans
      /\ UNCHANGED << held, dlg, phase, snap, late, quiet, file >>
  BY DEF EditsChannel, Editing, editRest
<1>2. QuietInv' /\ WrittenInv'
  BY <1>1, DialogQuiet DEF WrittenInv
<1>3. IsChannels(Chans)
  BY DialogObjects
<1>4. /\ chan = [f \in ChannelField |-> chan[f]] /\ chan.icp \in BOOLEAN
      /\ chan.serial = Chans[dlg].serial /\ chan[x] = v
      /\ \A f \in ChannelField : f # x => chan[f] = Chans[dlg][f]
  <2>1. Chans[dlg] = [f \in ChannelField |-> Chans[dlg][f]] /\ Chans[dlg].icp \in BOOLEAN
    BY <1>1, <1>3 DEF IsChannels
  <2>2. /\ chan = [f \in ChannelField |-> chan[f]] /\ chan[x] = v
        /\ \A f \in ChannelField : f # x => chan[f] = Chans[dlg][f]
    BY <2>1 DEF ChannelField
  <2> QED
    BY <2>1, <2>2 DEF ChannelField
<1>5. PICK now : now = [Chans EXCEPT ![dlg] = chan]
  OBVIOUS
<1>6. Edited(now, Chans, dlg, chan)
  BY <1>1, <1>3, <1>4, <1>5, ChannelEdited, Zenon
<1>7. DocumentInv' /\ (held.chan = "same" => entry'.chans = now)
  BY <1>1, <1>5, <1>6, PutChansReads DEF Edited
<1>8. TypedInv'
  <2>1. SUFFICES ASSUME ~late
                 PROVE  typed' = [f \in TypedField |-> typed'[f]] /\ TypedInChannel'
    BY <1>1 DEF TypedInv
  <2>2. typed = [f \in TypedField |-> typed[f]] /\ TypedInChannel
    BY <1>1, <2>1 DEF ReadInv, TypedInv
  <2>3. held.chan = "same" /\ Chans = entry.chans /\ entry'.chans = now
    BY <1>7, <2>2 DEF TypedInChannel, Chans
  <2>4. /\ typed' = [f \in TypedField |-> typed'[f]] /\ typed'[x] = v
        /\ \A f \in TypedField : f # x => typed'[f] = typed[f]
    BY <2>2 DEF TypedField
  <2>5. /\ now[dlg] = chan
        /\ \A d \in DOMAIN now : now[d].exc = Chans[d].exc
    BY <1>1, <1>4, <1>6 DEF ChannelField, Edited
  <2>6. \A f \in {"name", "gain", "icp", "tenso"} : Is(typed'[f], chan[f])
    BY <1>4, <2>2, <2>3, <2>4 DEF TypedInChannel, TypedField, ChannelField, Is
  <2>7. \A d \in DOMAIN now : Slot(d) = Slot(dlg) => Is(typed'.exc, now[d].exc)
    BY <1>6, <2>2, <2>3, <2>4, <2>5 DEF TypedInChannel, TypedField, Edited
  <2>8. \A f \in {"freq", "out", "start"} : typed'[f] = NoNode
    BY <2>2, <2>4 DEF TypedInChannel, TypedField
  <2> QED
    BY <1>1, <1>6, <2>3, <2>4, <2>5, <2>6, <2>7, <2>8 DEF TypedInChannel, Edited
<1> QED
  BY <1>2, <1>7, <1>8 DEF ReadInv

\* The pages of a channel.
LEMMA EditChannelReads == ASSUME ZspInv, ReadInv, EditChannel PROVE ReadInv'
<1>1. ASSUME NEW v \in Value, EditName(v) PROVE ReadInv'
  <2>1. PICK chan : chan = [Chans[dlg] EXCEPT !["name"] = v]
    OBVIOUS
  <2>2. /\ EditsChannel /\ PutChans([Chans EXCEPT ![dlg] = chan]) /\ UNCHANGED editRest
        /\ typed' = [typed EXCEPT !["name"] = v]
    BY <1>1, <2>1 DEF EditName
  <2> QED
    BY <2>1, <2>2, EditFieldReads
<1>2. ASSUME NEW v \in Value, EditTenso(v) PROVE ReadInv'
  <2>1. PICK chan : chan = [Chans[dlg] EXCEPT !["tenso"] = v]
    OBVIOUS
  <2>2. /\ EditsChannel /\ PutChans([Chans EXCEPT ![dlg] = chan]) /\ UNCHANGED editRest
        /\ typed' = [typed EXCEPT !["tenso"] = v]
    BY <1>2, <2>1 DEF EditTenso
  <2> QED
    BY <2>1, <2>2, EditFieldReads
<1>3. ASSUME NEW v \in Value, EditGain(v) PROVE ReadInv'
  <2>1. PICK chan : chan = [Chans[dlg] EXCEPT !["gain"] = v]
    OBVIOUS
  <2>2. /\ EditsChannel /\ PutChans([Chans EXCEPT ![dlg] = chan]) /\ UNCHANGED editRest
        /\ typed' = [typed EXCEPT !["gain"] = v]
    BY <1>3, <2>1 DEF EditGain
  <2> QED
    BY <2>1, <2>2, EditFieldReads
<1>4. CASE EditIcp
  <2>1. PICK v \in BOOLEAN : v = (~Chans[dlg].icp)
    <3>1. Chans[dlg].icp \in BOOLEAN
      <4>1. dlg \in DOMAIN Chans
        BY <1>4 DEF EditIcp, EditsChannel
      <4> QED
        BY <4>1, DialogObjects DEF IsChannels
    <3> QED
      BY <3>1
  <2>2. PICK chan : chan = [Chans[dlg] EXCEPT !["icp"] = v]
    OBVIOUS
  <2>3. /\ EditsChannel /\ PutChans([Chans EXCEPT ![dlg] = chan]) /\ UNCHANGED editRest
        /\ typed' = [typed EXCEPT !["icp"] = v]
    BY <1>4, <2>1, <2>2 DEF EditIcp
  <2> QED
    BY <2>2, <2>3, EditFieldReads
<1>5. ASSUME NEW v \in Value, EditExc(v) PROVE ReadInv'
  <2>1. /\ dlg # Closed /\ dlg # Device /\ phase = "edit" /\ dlg \in DOMAIN Chans
        /\ UNCHANGED << held, dlg, phase, snap, late, quiet, file >>
        /\ typed' = [typed EXCEPT !.exc = v]
    BY <1>5 DEF EditExc, EditsChannel, Editing, editRest
  <2>2. QuietInv' /\ WrittenInv'
    BY <2>1, DialogQuiet DEF WrittenInv
  <2>3. /\ IsChannels(Chans) /\ IsChannels(entry.chans) /\ IsEntry(entry)
        /\ Matches(entry) /\ Seen(entry) /\ old = [x \in {"dev", "chans", "st"} |-> old[x]]
    BY DialogObjects
  <2>4. PICK chans :
          /\ entry' = [entry EXCEPT !.chans = chans]
          /\ IsChannels(chans) /\ DOMAIN chans = DOMAIN entry.chans
          /\ held.chan = "same" => chans = Common(entry.chans, dlg, v)
    <3>1. CASE entry' = entry /\ held.chan # "same"
      <4>1. entry = [entry EXCEPT !.chans = entry.chans]
        BY <2>3 DEF IsEntry, EntryField
      <4> QED
        BY <2>3, <3>1, <4>1
    <3>2. ASSUME NEW w, dlg \in DOMAIN entry.chans, held.chan = "same" => w = v,
                 entry' = [entry EXCEPT !.chans = Common(entry.chans, dlg, w)]
          PROVE  \E chans : /\ entry' = [entry EXCEPT !.chans = chans]
                            /\ IsChannels(chans) /\ DOMAIN chans = DOMAIN entry.chans
                            /\ held.chan = "same" => chans = Common(entry.chans, dlg, v)
      <4>1. PICK now : now = Common(entry.chans, dlg, w)
        OBVIOUS
      <4>2. IsChannels(now) /\ DOMAIN now = DOMAIN entry.chans
        BY <2>3, <3>2, <4>1, CommonChannels
      <4> QED
        BY <3>2, <4>1, <4>2
    <3>3. CASE held.chan = "same"
      <4>1. entry' = [entry EXCEPT !.chans = Common(entry.chans, dlg, v)]
            /\ dlg \in DOMAIN entry.chans
        BY <1>5, <2>1, <3>3 DEF EditExc, Chans
      <4> QED
        BY <3>2, <4>1
    <3>4. CASE held.chan # "same"
      <4>1. \/ entry' = entry
            \/ /\ dlg \in DOMAIN entry.chans
               /\ entry' = [entry EXCEPT
                              !.chans = Common(entry.chans, dlg, entry.chans[dlg].exc)]
        BY <1>5, <3>4 DEF EditExc
      <4> QED
        BY <3>1, <3>2, <3>4, <4>1
    <3> QED
      BY <3>3, <3>4
  <2>5. /\ entry'.xml = entry.xml /\ entry'.seen = entry.seen /\ entry'.dev = entry.dev
        /\ entry'.chans = chans /\ entry'.md = entry.md /\ entry'.there = entry.there
    BY <2>3, <2>4 DEF IsEntry, EntryField
  <2>6. IsChannels(old'.chans)
    <3>1. CASE held.chan = "same"
      BY <1>5, <3>1 DEF EditExc, ReadInv, DocumentInv
    <3>2. CASE held.chan # "same"
      <4>1. Chans = old.chans /\ old' = [old EXCEPT !.chans[dlg].exc = v]
        BY <1>5, <3>2 DEF EditExc, Chans
      <4>2. PICK chan : chan = [old.chans[dlg] EXCEPT !.exc = v]
        OBVIOUS
      <4>3. old.chans[dlg] = [f \in ChannelField |-> old.chans[dlg][f]]
            /\ old.chans[dlg].icp \in BOOLEAN
        BY <2>1, <2>3, <4>1 DEF IsChannels
      <4>4. /\ chan = [f \in ChannelField |-> chan[f]] /\ chan.icp \in BOOLEAN
            /\ chan.serial = old.chans[dlg].serial
        BY <4>2, <4>3 DEF ChannelField
      <4>5. PICK now : now = [old.chans EXCEPT ![dlg] = chan]
        OBVIOUS
      <4>6. IsChannels(now)
        BY <2>1, <2>3, <4>1, <4>4, <4>5, ChannelEdited DEF Edited
      <4>7. old'.chans = now
        BY <2>3, <4>1, <4>2, <4>5
      <4> QED
        BY <4>6, <4>7
    <3> QED
      BY <3>1, <3>2
  <2>7. Matches(entry')
    BY <2>3, <2>4, <2>5 DEF Matches
  <2>8. Matches(entry)'
    BY <2>7
  <2>9. Seen(entry)'
    BY <2>1, <2>3, <2>5 DEF Seen, Good
  <2>10. DocumentInv'
    BY <2>1, <2>5, <2>6, <2>8, <2>9 DEF ReadInv, DocumentInv, Good
  <2>11. TypedInv'
    <3>1. SUFFICES ASSUME ~late
                   PROVE  typed' = [f \in TypedField |-> typed'[f]] /\ TypedInChannel'
      BY <2>1 DEF TypedInv
    <3>2. typed = [f \in TypedField |-> typed[f]] /\ TypedInChannel
      BY <2>1, <3>1 DEF ReadInv, TypedInv
    <3>3. held.chan = "same" /\ chans = Common(entry.chans, dlg, v) /\ dlg \in DOMAIN entry.chans
      BY <2>4, <3>2 DEF TypedInChannel
    <3>4. \A d \in DOMAIN entry.chans :
            /\ \A f \in ChannelField \ {"exc"} : chans[d][f] = entry.chans[d][f]
            /\ Slot(d) = Slot(dlg) => chans[d].exc = v
      BY <2>3, <3>3, CommonChannels
    <3>5. /\ typed' = [f \in TypedField |-> typed'[f]] /\ typed'.exc = v
          /\ \A f \in TypedField : f # "exc" => typed'[f] = typed[f]
      BY <2>1, <3>2 DEF TypedField
    <3>6. /\ Is(typed'.name, chans[dlg].name) /\ Is(typed'.gain, chans[dlg].gain)
          /\ Is(typed'.icp, chans[dlg].icp) /\ Is(typed'.tenso, chans[dlg].tenso)
      BY <3>2, <3>3, <3>4, <3>5 DEF TypedInChannel, TypedField, ChannelField
    <3>7. \A d \in DOMAIN chans : Slot(d) = Slot(dlg) => Is(typed'.exc, chans[d].exc)
      BY <2>4, <3>4, <3>5 DEF Is
    <3>8. \A f \in {"freq", "out", "start"} : typed'[f] = NoNode
      BY <3>2, <3>5 DEF TypedInChannel, TypedField
    <3> QED
      BY <2>1, <2>4, <2>5, <3>3, <3>5, <3>6, <3>7, <3>8 DEF TypedInChannel
  <2> QED
    BY <2>2, <2>10, <2>11 DEF ReadInv
<1> QED
  BY <1>1, <1>2, <1>3, <1>4, <1>5 DEF EditChannel

----------------------------------------------------------------------------
\* OK, Cancel and what is saved for them.

\* OK: what a dialog that is no late one saves is still to be written.
LEMMA OkReads ==
  ASSUME ZspInv, ReadInv, OkChannel \/ \E start \in {"button", "auto"} : OkDevice(start)
  PROVE  ReadInv'
<1>1. /\ dlg # Closed /\ phase = "edit" /\ phase' = "ok"
      /\ UNCHANGED << file, held, dlg, snap, late, quiet >>
  BY ZspAssumption DEF OkChannel, OkDevice
<1>2. QuietInv'
  BY <1>1, DialogQuiet
<1>3. ~late => /\ typed = [f \in TypedField |-> typed[f]]
               /\ IF dlg = Device THEN TypedInDevice ELSE TypedInChannel
  BY <1>1 DEF ReadInv, TypedInv
<1>4. ASSUME NEW x \in {"dev", "chan"}, Save(held[x]), held[x] = "same", entry.dev # NoDoc
      PROVE  saving' # << >>
  BY <1>4 DEF Save
<1>5. CASE OkChannel
  <2>1. UNCHANGED << entry, old, typed >> /\ Save(held["chan"]) /\ dlg # Device
    BY <1>5 DEF OkChannel
  <2>2. DocumentInv'
    BY <1>1, <2>1, SameEntryDocuments DEF SameEntry
  <2>3. TypedInv'
    BY <1>1, <1>3, <2>1 DEF TypedInv, TypedInChannel
  <2>4. WrittenInv'
    BY <1>1, <1>3, <1>4, <2>1 DEF WrittenInv, TypedInChannel
  <2> QED
    BY <1>2, <2>2, <2>3, <2>4 DEF ReadInv
<1>6. ASSUME NEW start \in {"button", "auto"}, OkDevice(start) PROVE ReadInv'
  <2>1. dlg = Device /\ typed' = [typed EXCEPT !.start = start]
    BY <1>6 DEF OkDevice
  <2>2. CASE held.dev = "none"
    <3>1. UNCHANGED << entry, old >> /\ late
      BY <1>3, <1>6, <2>1, <2>2 DEF OkDevice, TypedInDevice
    <3>2. DocumentInv'
      BY <1>1, <3>1, SameEntryDocuments DEF SameEntry
    <3> QED
      BY <1>1, <1>2, <3>1, <3>2 DEF ReadInv, TypedInv, WrittenInv
  <2>3. CASE held.dev # "none"
    <3>1. PICK dev : dev = [Dev EXCEPT !.start = start]
      OBVIOUS
    <3>2. /\ dev \in DeviceValues /\ dev.start = start /\ dev.freq = Dev.freq
          /\ dev.out = Dev.out
      <4>1. Dev \in DeviceValues
        BY <2>3, DialogObjects
      <4> QED
        BY <3>1, <4>1 DEF DeviceValues
    <3>3. PutDev(dev) /\ Save(held["dev"])
      BY <1>6, <2>3, <3>1 DEF OkDevice
    <3>4. DocumentInv' /\ (held.dev = "same" => entry'.dev = dev)
      BY <1>1, <2>3, <3>2, <3>3, PutDevReads
    <3>5. held.dev = "same" => Dev = entry.dev /\ entry.dev # NoDoc
      BY DEF Dev, ZspInv, HeldInv
    <3>6. TypedInv'
      <4>1. SUFFICES ASSUME ~late
                     PROVE  typed' = [f \in TypedField |-> typed'[f]] /\ TypedInDevice'
        BY <1>1, <2>1 DEF TypedInv
      <4>2. typed' = [f \in TypedField |-> typed'[f]]
        BY <1>3, <2>1, <4>1
      <4> QED
        BY <1>1, <1>3, <2>1, <3>2, <3>4, <3>5, <4>1, <4>2 DEF TypedInDevice, TypedField, Is
    <3>7. WrittenInv'
      BY <1>1, <1>3, <1>4, <2>1, <3>3, <3>5 DEF WrittenInv, TypedInDevice
    <3> QED
      BY <1>2, <3>4, <3>6, <3>7 DEF ReadInv
  <2> QED
    BY <2>2, <2>3
<1> QED
  BY <1>5, <1>6

\* A field of a channel is given another value.
LEMMA FieldPut ==
  ASSUME NEW chans, IsChannels(chans), NEW c \in DOMAIN chans,
         NEW x \in ChannelField \ {"serial"}, NEW v, x = "icp" => v \in BOOLEAN,
         NEW now, now = [chans EXCEPT ![c][x] = v]
  PROVE  IsChannels(now) /\ DOMAIN now = DOMAIN chans
<1>1. PICK chan : chan = [chans[c] EXCEPT ![x] = v]
  OBVIOUS
<1>2. chans[c] = [f \in ChannelField |-> chans[c][f]] /\ chans[c].icp \in BOOLEAN
  BY DEF IsChannels
<1>3. /\ chan = [f \in ChannelField |-> chan[f]] /\ chan.icp \in BOOLEAN
      /\ chan.serial = chans[c].serial
  BY <1>1, <1>2 DEF ChannelField
<1>4. now = [chans EXCEPT ![c] = chan]
  BY <1>1
<1>5. Edited(now, chans, c, chan)
  BY <1>3, <1>4, ChannelEdited, Zenon
<1> QED
  BY <1>5 DEF Edited

\* Cancel edits objects that are there, and no longer promises anything.
LEMMA CancelKeepsReading ==
  ASSUME ZspInv, ReadInv, dlg # Closed, phase' \in {"cancel", "icp", "end"},
         UNCHANGED << file, held, dlg, snap, quiet >>,
         \/ UNCHANGED << entry, old >>
         \/ /\ held.dev # "none"
            /\ \E dev \in DeviceValues :
                 PutDev(dev) /\ (Dev.freq = NoNode => dev.freq = NoNode)
         \/ \E chans :
              PutChans(chans) /\ IsChannels(chans) /\ DOMAIN chans = DOMAIN Chans
  PROVE  ReadInv'
<1>1. DocumentInv'
  <2>1. CASE UNCHANGED << entry, old >>
    BY <2>1, SameEntryDocuments DEF SameEntry
  <2>2. CASE /\ held.dev # "none"
             /\ \E dev \in DeviceValues :
                  PutDev(dev) /\ (Dev.freq = NoNode => dev.freq = NoNode)
    BY <2>2, PutDevReads
  <2>3. CASE \E chans : PutChans(chans) /\ IsChannels(chans) /\ DOMAIN chans = DOMAIN Chans
    BY <2>3, PutChansReads
  <2> QED
    BY <2>1, <2>2, <2>3
<1>2. TypedInv' /\ WrittenInv'
  BY DEF TypedInv, WrittenInv
<1> QED
  BY <1>1, <1>2, DialogQuiet DEF ReadInv

\* The parts of Cancel.
LEMMA CancelReads ==
  ASSUME ZspInv, ReadInv, CancelFirst \/ CancelIcp \/ CancelChannelRest
  PROVE  ReadInv'
<1>1. /\ dlg # Closed /\ phase' \in {"cancel", "icp", "end"}
      /\ UNCHANGED << file, held, dlg, snap, quiet >>
  BY DEF CancelFirst, CancelIcp, CancelChannelRest
<1>2. IsChannels(Chans) /\ (dlg # Device => snap.icp \in BOOLEAN)
  BY <1>1, DialogObjects DEF ReadInv, DocumentInv
<1>3. ASSUME NEW x \in ChannelField \ {"serial"}, NEW y \in ChannelField \ {"serial"},
             NEW v, NEW w, x # "icp", y # "icp", dlg \in DOMAIN Chans,
             PutChans([Chans EXCEPT ![dlg][x] = v, ![dlg][y] = w])
      PROVE  ReadInv'
  <2>1. PICK first : first = [Chans EXCEPT ![dlg][x] = v]
    OBVIOUS
  <2>2. IsChannels(first) /\ DOMAIN first = DOMAIN Chans
    BY <1>2, <1>3, <2>1, FieldPut
  <2>3. PICK both : both = [first EXCEPT ![dlg][y] = w]
    OBVIOUS
  <2>4. IsChannels(both) /\ DOMAIN both = DOMAIN Chans
    BY <1>3, <2>2, <2>3, FieldPut
  <2>5. PutChans(both)
    BY <1>3, <2>1, <2>3
  <2> QED
    BY <1>1, <2>4, <2>5, CancelKeepsReading
<1>4. CASE UNCHANGED << entry, old >>
  BY <1>1, <1>4, CancelKeepsReading
<1>5. CASE CancelFirst
  <2>1. CASE dlg = Device /\ held.dev # "none" /\ Dev.freq # NoNode
    <3>1. PICK dev : dev = [Dev EXCEPT !.freq = snap.dev.freq]
      OBVIOUS
    <3>2. Dev \in DeviceValues /\ snap.dev.freq \in Number
      BY <2>1, DialogObjects DEF ZspInv, HeldInv, DeviceValues
    <3>3. dev \in DeviceValues
      BY <3>1, <3>2 DEF DeviceValues
    <3>4. PutDev(dev)
      BY <1>5, <2>1, <3>1 DEF CancelFirst
    <3> QED
      BY <1>1, <2>1, <3>3, <3>4, CancelKeepsReading
  <2>2. CASE dlg # Device /\ dlg \in DOMAIN Chans /\ held.chan # "none"
    <3>1. PutChans([Chans EXCEPT ![dlg]["name"] = snap.name, ![dlg]["gain"] = snap.gain])
      BY <1>5, <2>2 DEF CancelFirst
    <3>2. {"name", "gain"} \subseteq ChannelField \ {"serial"}
      BY DEF ChannelField
    <3> QED
      BY <1>3, <2>2, <3>1, <3>2
  <2> QED
    BY <1>4, <1>5, <2>1, <2>2 DEF CancelFirst
<1>6. CASE CancelIcp
  <2>1. CASE dlg \in DOMAIN Chans /\ held.chan # "none"
    <3>1. PICK now : now = [Chans EXCEPT ![dlg]["icp"] = snap.icp]
      OBVIOUS
    <3>2. PutChans(now)
      BY <1>6, <2>1, <3>1 DEF CancelIcp
    <3>3. "icp" \in ChannelField \ {"serial"} /\ snap.icp \in BOOLEAN
      BY <1>2, <1>6 DEF ChannelField, CancelIcp
    <3>4. IsChannels(now) /\ DOMAIN now = DOMAIN Chans
      BY <1>2, <2>1, <3>1, <3>3, FieldPut
    <3> QED
      BY <1>1, <3>2, <3>4, CancelKeepsReading
  <2> QED
    BY <1>4, <1>6, <2>1 DEF CancelIcp
<1>7. CASE CancelChannelRest
  <2>1. CASE dlg \in DOMAIN Chans /\ held.chan # "none"
    <3>1. PutChans([Chans EXCEPT ![dlg]["tenso"] = snap.tenso, ![dlg]["exc"] = snap.exc])
      BY <1>7, <2>1 DEF CancelChannelRest
    <3>2. {"tenso", "exc"} \subseteq ChannelField \ {"serial"}
      BY DEF ChannelField
    <3> QED
      BY <1>3, <2>1, <3>1, <3>2
  <2> QED
    BY <1>4, <1>7, <2>1 DEF CancelChannelRest
<1> QED
  BY <1>5, <1>6, <1>7

\* The part of Cancel that writes the state.
LEMMA CancelRestReads == ASSUME ZspInv, ReadInv, CancelDeviceRest PROVE ReadInv'
<1>1. /\ dlg # Closed /\ dlg = Device /\ phase' = "end"
      /\ UNCHANGED << held, dlg, snap, quiet >>
  BY ZspAssumption DEF CancelDeviceRest
<1>2. /\ IsEntry(entry) /\ Matches(entry) /\ Seen(entry)
      /\ old = [x \in {"dev", "chans", "st"} |-> old[x]]
      /\ file = [k \in Kind |-> file[k]] /\ {"cfg", "st", "md"} = Kind
  BY DialogObjects DEF Kind
<1>3. PICK e : e = IF held.dev = "same" THEN [entry EXCEPT !.dev.out = snap.out] ELSE entry
  OBVIOUS
<1>4. /\ e = [x \in EntryField |-> e[x]] /\ e.xml = entry.xml /\ e.seen = entry.seen
      /\ e.chans = entry.chans /\ e.md = entry.md /\ e.there = entry.there
      /\ entry.dev = NoDoc <=> e.dev = NoDoc
      /\ entry.dev # NoDoc => e.dev.freq = entry.dev.freq
  <2>1. CASE held.dev = "same"
    <3>1. PICK dev : dev = [entry.dev EXCEPT !.out = snap.out]
      OBVIOUS
    <3>2. entry.dev \in DeviceValues /\ snap.out \in Number /\ entry.dev # NoDoc
      BY <1>1, <2>1 DEF ZspInv, HeldInv, FilesInv, IsEntry
    <3>3. dev \in DeviceValues /\ dev.freq = entry.dev.freq
      BY <3>1, <3>2 DEF DeviceValues
    <3>4. dev # NoDoc
      BY <3>3, ValuesAreThere
    <3>5. e = [entry EXCEPT !.dev = dev]
      BY <1>2, <1>3, <2>1, <3>1
    <3> QED
      BY <1>2, <3>2, <3>3, <3>4, <3>5 DEF IsEntry, EntryField
  <2> QED
    BY <1>2, <1>3, <2>1 DEF IsEntry
<1>5. PICK f : f = IF held.st = "same" THEN [e EXCEPT !.st = snap.st] ELSE e
  OBVIOUS
<1>6. /\ f = [x \in EntryField |-> f[x]] /\ f.xml = e.xml /\ f.seen = e.seen /\ f.dev = e.dev
      /\ f.chans = e.chans /\ f.md = e.md /\ f.there = e.there
  BY <1>4, <1>5 DEF EntryField
<1>7. /\ \/ entry' = f
         \/ entry' = [f EXCEPT !.xml["st"] = f.st, !.seen["st"] = FALSE]
      /\ file' = file \/ \E w : file' = [file EXCEPT !["st"] = w]
      /\ old' = [old EXCEPT !.dev = IF @ = NoDoc THEN @ ELSE [@ EXCEPT !.out = snap.out],
                            !.st = IF @ = NoDoc THEN @ ELSE snap.st]
  BY <1>3, <1>5 DEF CancelDeviceRest
<1>8. /\ entry'.xml["cfg"] = entry.xml["cfg"] /\ entry'.xml["md"] = entry.xml["md"]
      /\ entry'.seen["cfg"] = entry.seen["cfg"] /\ entry'.seen["md"] = entry.seen["md"]
      /\ entry'.dev = e.dev /\ entry'.chans = entry.chans /\ entry'.md = entry.md
      /\ entry'.there = entry.there
  <2>1. CASE entry' = f
    BY <1>4, <1>6, <2>1
  <2>2. CASE entry' = [f EXCEPT !.xml["st"] = f.st, !.seen["st"] = FALSE]
    <3>1. /\ entry'.xml = [f.xml EXCEPT !["st"] = f.st]
          /\ entry'.seen = [f.seen EXCEPT !["st"] = FALSE]
          /\ entry'.dev = f.dev /\ entry'.chans = f.chans /\ entry'.md = f.md
          /\ entry'.there = f.there
      BY <1>6, <2>2 DEF EntryField
    <3> QED
      BY <1>2, <1>4, <1>6, <3>1 DEF IsEntry
  <2> QED
    BY <1>7, <2>1, <2>2
<1>9. file'["cfg"] = file["cfg"] /\ file'["md"] = file["md"] /\ old'.chans = old.chans
  BY <1>2, <1>7
<1>10. Matches(entry')
  BY <1>2, <1>4, <1>8 DEF Matches, IsEntry
<1>11. Matches(entry)'
  BY <1>10
<1>12. Seen(entry)'
  BY <1>2, <1>4, <1>8, <1>9 DEF Seen, Good
<1>13. DocumentInv'
  BY <1>1, <1>8, <1>9, <1>11, <1>12 DEF ReadInv, DocumentInv, Good
<1> QED
  BY <1>1, <1>13, DialogQuiet DEF ReadInv, TypedInv, WrittenInv

\* The metadata are saved, and the configuration is still to be.
LEMMA SaveMetadataReads == ASSUME ZspInv, ReadInv, SaveMetadata PROVE ReadInv'
<1>1. /\ saving = << "md", "cfg" >> /\ dlg # Closed
      /\ UNCHANGED << held, old, dlg, phase, snap, typed, wrote, late, quiet >>
  BY DEF SaveMetadata, ZspInv, SavingInv
<1>2. saving' # << >>
  BY <1>1 DEF SaveMetadata, Lost
<1>3. QuietInv' /\ WrittenInv'
  BY <1>1, <1>2, DialogQuiet DEF WrittenInv
<1>4. /\ IsEntry(entry) /\ Matches(entry) /\ Seen(entry)
      /\ file = [k \in Kind |-> file[k]] /\ {"cfg", "st", "md"} = Kind
  BY DialogObjects DEF Kind
<1>5. CASE UNCHANGED << file, entry >>
  <2>1. DocumentInv'
    BY <1>1, <1>5, SameEntryDocuments DEF SameEntry
  <2>2. TypedInv'
    BY <1>1, <1>5 DEF ReadInv, TypedInv, TypedInDevice, TypedInChannel
  <2> QED
    BY <1>3, <2>1, <2>2 DEF ReadInv
<1>6. ASSUME NEW doc, doc = [code |-> entry.md.code,
                             freq |-> IF entry.dev.freq = NoNode THEN 0 ELSE entry.dev.freq],
             entry.xml["md"] # NoDoc, entry.dev # NoDoc,
             file' = [file EXCEPT !["md"] = doc],
             entry' = [entry EXCEPT !.xml["md"] = doc, !.seen["md"] = FALSE]
      PROVE  ReadInv'
  <2>1. entry.md # NoDoc /\ entry.md \in MetaValues
    BY <1>4, <1>6 DEF Matches
  <2>2. doc \in MetaValues
    <3>1. PICK freq \in Number : doc = [code |-> entry.md.code, freq |-> freq]
      BY <1>4, <1>6 DEF IsEntry, DeviceValues, Number
    <3> QED
      BY <2>1, <3>1 DEF MetaValues
  <2>3. /\ entry'.xml = [entry.xml EXCEPT !["md"] = doc]
        /\ entry'.seen = [entry.seen EXCEPT !["md"] = FALSE]
        /\ entry'.dev = entry.dev /\ entry'.chans = entry.chans /\ entry'.md = entry.md
        /\ entry'.there = entry.there
    BY <1>4, <1>6 DEF IsEntry, EntryField
  <2>4. /\ entry'.xml["cfg"] = entry.xml["cfg"] /\ entry'.seen["cfg"] = entry.seen["cfg"]
        /\ entry'.seen["md"] = FALSE
        /\ file'["cfg"] = file["cfg"] /\ file'["md"] = doc
    BY <1>4, <1>6, <2>3 DEF IsEntry
  <2>5. Matches(entry')
    BY <1>4, <2>1, <2>3, <2>4 DEF Matches
  <2>6. Matches(entry)'
    BY <2>5
  <2>7. Seen(entry)'
    BY <1>4, <2>3, <2>4 DEF Seen, Good
  <2>8. DocumentInv'
    BY <1>1, <2>1, <2>2, <2>3, <2>4, <2>6, <2>7 DEF ReadInv, DocumentInv, Good
  <2>9. TypedInv'
    BY <1>1, <2>3 DEF ReadInv, TypedInv, TypedInDevice, TypedInChannel
  <2> QED
    BY <1>3, <2>8, <2>9 DEF ReadInv
<1> QED
  BY <1>5, <1>6 DEF SaveMetadata

\* A configuration that is saved says what the entry holds.
LEMMA SavedReads ==
  ASSUME ZspInv, ReadInv, SaveConfig, entry.xml["cfg"] # NoDoc,
         NEW doc, doc = WriteConfig(entry.xml["cfg"], entry.dev, entry.chans, entry.md)
  PROVE  /\ Reads(doc, entry.xml["cfg"], entry.dev, entry.chans, entry.md) /\ IsDoc(doc)
         /\ entry'.xml["cfg"] = doc /\ entry'.xml["md"] = entry.xml["md"]
         /\ entry'.seen["cfg"] = FALSE /\ entry'.seen["md"] = entry.seen["md"]
         /\ entry'.dev = entry.dev /\ entry'.chans = entry.chans /\ entry'.md = entry.md
         /\ entry'.there = entry.there
         /\ file'["cfg"] = doc /\ file'["md"] = file["md"]
         /\ wrote' = IF phase = "ok" THEN doc ELSE wrote
<1>1. /\ IsEntry(entry) /\ Matches(entry) /\ file = [k \in Kind |-> file[k]]
      /\ {"cfg", "st", "md"} = Kind
  BY DialogObjects DEF Kind
<1>2. /\ IsDoc(entry.xml["cfg"]) /\ HasChannels(entry.xml["cfg"])
      /\ entry.dev \in DeviceValues /\ IsChannels(entry.chans)
      /\ DOMAIN entry.xml["cfg"].chan = DOMAIN entry.chans
      /\ entry.xml["cfg"].freq = NoNode => entry.dev.freq = NoNode
  BY <1>1 DEF IsEntry, Matches
<1>3. Reads(doc, entry.xml["cfg"], entry.dev, entry.chans, entry.md)
  BY <1>2, WrittenIsRead, Zenon
<1>4. IsDoc(doc)
  BY <1>2, WrittenIsDoc, Zenon
<1>5. /\ file' = [file EXCEPT !["cfg"] = doc]
      /\ entry' = [entry EXCEPT !.xml["cfg"] = doc, !.seen["cfg"] = FALSE]
      /\ wrote' = IF phase = "ok" THEN doc ELSE wrote
  BY DEF SaveConfig
<1>6. /\ entry'.xml = [entry.xml EXCEPT !["cfg"] = doc]
      /\ entry'.seen = [entry.seen EXCEPT !["cfg"] = FALSE]
      /\ entry'.dev = entry.dev /\ entry'.chans = entry.chans /\ entry'.md = entry.md
      /\ entry'.there = entry.there
  BY <1>1, <1>5 DEF IsEntry, EntryField
<1>7. /\ entry'.xml["cfg"] = doc /\ entry'.xml["md"] = entry.xml["md"]
      /\ entry'.seen["cfg"] = FALSE /\ entry'.seen["md"] = entry.seen["md"]
      /\ file'["cfg"] = doc /\ file'["md"] = file["md"]
  BY <1>1, <1>5, <1>6 DEF IsEntry
<1> QED
  BY <1>3, <1>4, <1>5, <1>6, <1>7

\* The configuration is saved.
LEMMA SaveConfigReads == ASSUME ZspInv, ReadInv, SaveConfig PROVE ReadInv'
<1>1. /\ dlg # Closed
      /\ UNCHANGED << held, old, dlg, phase, snap, typed, late, quiet >>
  BY DEF SaveConfig, ZspInv, SavingInv
<1>2. QuietInv'
  BY <1>1, DialogQuiet
<1>3. Matches(entry) /\ Seen(entry)
  BY DialogObjects
<1>4. CASE entry.xml["cfg"] = NoDoc
  <2>1. UNCHANGED << file, entry >> /\ entry.dev = NoDoc
    BY <1>3, <1>4 DEF SaveConfig, Matches
  <2>2. DocumentInv'
    BY <1>1, <2>1, SameEntryDocuments DEF SameEntry
  <2>3. TypedInv' /\ WrittenInv'
    BY <1>1, <2>1 DEF ReadInv, TypedInv, TypedInDevice, TypedInChannel, WrittenInv
  <2> QED
    BY <1>2, <2>2, <2>3 DEF ReadInv
<1>5. CASE entry.xml["cfg"] # NoDoc
  <2>1. PICK doc : doc = WriteConfig(entry.xml["cfg"], entry.dev, entry.chans, entry.md)
    OBVIOUS
  <2>2. /\ Reads(doc, entry.xml["cfg"], entry.dev, entry.chans, entry.md) /\ IsDoc(doc)
        /\ entry'.xml["cfg"] = doc /\ entry'.xml["md"] = entry.xml["md"]
        /\ entry'.seen["cfg"] = FALSE /\ entry'.seen["md"] = entry.seen["md"]
        /\ entry'.dev = entry.dev /\ entry'.chans = entry.chans /\ entry'.md = entry.md
        /\ entry'.there = entry.there
        /\ file'["cfg"] = doc /\ file'["md"] = file["md"]
        /\ wrote' = IF phase = "ok" THEN doc ELSE wrote
    BY <1>5, <2>1, SavedReads
  <2>3. doc # NoDoc
    BY <2>2 DEF IsDoc, NoDoc, DocField
  <2>4. Matches(entry')
    BY <1>3, <2>2, <2>3 DEF Matches, Reads
  <2>5. Matches(entry)'
    BY <2>4
  <2>6. Seen(entry)'
    BY <1>3, <2>2 DEF Seen, Good
  <2>7. DocumentInv'
    BY <1>1, <2>2, <2>5, <2>6 DEF ReadInv, DocumentInv, Reads, Good
  <2>8. TypedInv'
    BY <1>1, <2>2 DEF ReadInv, TypedInv, TypedInDevice, TypedInChannel
  <2>9. WrittenInv'
    <3>1. SUFFICES ASSUME ~late, phase = "ok" PROVE Written'
      BY <1>1 DEF WrittenInv
    <3>2. wrote' = doc
      BY <2>2, <3>1
    <3>3. IF dlg = Device THEN TypedInDevice ELSE TypedInChannel
      BY <1>1, <3>1 DEF ReadInv, TypedInv
    <3>4. /\ Is(typed.freq, ReadDevice(doc).freq)
          /\ doc.minutes /\ doc.start # "" => Is(typed.start, ReadDevice(doc).start)
          /\ doc.eth /\ doc.out # NoNode => Is(typed.out, ReadDevice(doc).out)
      BY <2>2, <3>3 DEF Reads, TypedInDevice, TypedInChannel, Is
    <3>5. ASSUME dlg \in DOMAIN doc.chan
          PROVE  LET r == ReadChannel(doc, dlg) IN
                 /\ Is(typed.icp, r.icp) /\ Is(typed.gain, r.gain)
                 /\ entry.md = NoDoc => Is(typed.name, r.name)
                 /\ doc.chan[dlg].tenso # NoNode => Is(typed.tenso, r.tenso)
                 /\ Slot(dlg) \in DOMAIN doc.slots => Is(typed.exc, r.exc)
      <4>1. CASE dlg = Device
        BY <3>3, <4>1 DEF TypedInDevice, Is
      <4>2. CASE dlg # Device
        <5>1. /\ dlg \in DOMAIN entry.chans /\ TypedInChannel
              /\ dlg \in Nat
          BY <2>2, <3>3, <3>5, <4>2 DEF Reads, HasChannels
        <5>2. Slot(Slot(dlg) * PerSlot) = Slot(dlg)
          BY <5>1, SlotPlace
        <5>3. LET r == ReadChannel(doc, dlg) chan == entry.chans[dlg] IN
              /\ r.icp = chan.icp /\ r.gain = chan.gain
              /\ entry.md = NoDoc => r.name = chan.name
              /\ doc.chan[dlg].tenso # NoNode => r.tenso = chan.tenso
              /\ Slot(dlg) \in DOMAIN doc.slots =>
                   /\ Slot(dlg) * PerSlot \in DOMAIN entry.chans
                   /\ r.exc = entry.chans[Slot(dlg) * PerSlot].exc
          BY <2>2, <5>1 DEF Reads
        <5> QED
          BY <5>1, <5>2, <5>3 DEF TypedInChannel, Is
      <4> QED
        BY <4>1, <4>2
    <3> QED
      BY <1>1, <2>2, <2>3, <3>2, <3>4, <3>5 DEF Written
  <2> QED
    BY <1>2, <2>7, <2>8, <2>9 DEF ReadInv
<1> QED
  BY <1>4, <1>5

\* A dialog opens on objects of the entry, with nothing typed, or is a late one.
LEMMA OpenCloseReads ==
  ASSUME ZspInv, ReadInv, (\E d \in {Device} \cup Shown : OpenDialog(d)) \/ CloseDialog
  PROVE  ReadInv'
<1>1. UNCHANGED << file, entry, held, old >>
  BY DEF OpenDialog, CloseDialog
<1>2. /\ Matches(entry)' /\ Seen(entry)' /\ IsChannels(old.chans)'
      /\ (held.md = "same" => entry.md # NoDoc)'
      /\ (Good(file["cfg"]) => HasChannels(file["cfg"]))'
      /\ (Good(file["md"]) => file["md"] \in MetaValues)'
  BY <1>1 DEF ReadInv, DocumentInv, Matches, Seen, Good
<1>3. ASSUME NEW d \in {Device} \cup Shown, OpenDialog(d) PROVE ReadInv'
  <2>1. /\ dlg' = d /\ phase' = "edit" /\ quiet' = FALSE /\ late' = (round # "idle")
        /\ typed' = NothingTyped
        /\ d = Device => held.dev # "none"
        /\ d # Device => held.chan # "none" /\ d \in DOMAIN Chans /\ snap' = Chans[d]
    BY <1>3 DEF OpenDialog
  <2>2. d # Device => snap'.icp \in BOOLEAN
    BY <2>1, DialogObjects DEF IsChannels
  <2>3. DocumentInv'
    BY <1>2, <2>1, <2>2 DEF DocumentInv
  <2>4. TypedInv'
    <3>1. SUFFICES ASSUME round = "idle"
                   PROVE  /\ typed' = [f \in TypedField |-> typed'[f]]
                          /\ IF d = Device THEN TypedInDevice' ELSE TypedInChannel'
      BY <2>1 DEF TypedInv
    <3>2. /\ d = Device => held.dev = "same"
          /\ d # Device => held.chan = "same" /\ Chans = entry.chans
      BY <2>1, <3>1 DEF ZspInv, RoundInv, Chans
    <3>3. /\ typed' = [f \in TypedField |-> typed'[f]]
          /\ \A f \in TypedField : typed'[f] = NoNode
      BY <2>1 DEF NothingTyped, TypedField
    <3>4. /\ typed'.freq = NoNode /\ typed'.out = NoNode /\ typed'.start = NoNode
          /\ typed'.name = NoNode /\ typed'.gain = NoNode /\ typed'.icp = NoNode
          /\ typed'.exc = NoNode /\ typed'.tenso = NoNode
      BY <3>3 DEF TypedField
    <3>5. CASE d = Device
      BY <1>1, <2>1, <3>2, <3>3, <3>4, <3>5 DEF TypedInDevice, TypedField, Is
    <3>6. CASE d # Device
      BY <1>1, <2>1, <3>2, <3>3, <3>4, <3>6 DEF TypedInChannel, TypedField, Is
    <3> QED
      BY <3>3, <3>5, <3>6
  <2> QED
    BY <2>1, <2>3, <2>4 DEF ReadInv, QuietInv, WrittenInv
<1>4. CASE CloseDialog
  <2>1. dlg' = Closed /\ dlg # Closed /\ quiet' = quiet
    BY <1>4 DEF CloseDialog
  <2>2. DocumentInv'
    BY <1>2, <2>1 DEF DocumentInv
  <2> QED
    BY <2>1, <2>2, DialogQuiet DEF ReadInv, TypedInv, WrittenInv
<1> QED
  BY <1>3, <1>4

----------------------------------------------------------------------------
\* Every step keeps the second invariant.
LEMMA StepReadInv == ZspInv /\ ReadInv /\ [ZspNext]_zspVars => ReadInv'
<1> SUFFICES ASSUME ZspInv, ReadInv, [ZspNext]_zspVars PROVE ReadInv'
  OBVIOUS
<1>1. CASE UNCHANGED zspVars
  <2>1. DocumentInv' /\ QuietInv'
    BY <1>1 DEF zspVars, ReadInv, DocumentInv, QuietInv, Matches, Seen, IsChannels, ConfigRead,
                MetadataRead, Taken, Good
  <2>2. TypedInv' /\ WrittenInv'
    BY <1>1 DEF zspVars, ReadInv, TypedInv, TypedInDevice, TypedInChannel, WrittenInv, Written
  <2> QED
    BY <2>1, <2>2 DEF ReadInv
<1>2. CASE Round
  BY <1>2, LoadConfigReads, LoadStateReads, LoadMetadataReads, CheckReads, SetReads, OthersRead
  DEF Round
<1>3. CASE Dialog
  BY <1>3, OpenCloseReads, EditDeviceReads, EditChannelReads, OkReads, CancelReads,
     CancelRestReads, SaveMetadataReads, SaveConfigReads
  DEF Dialog
<1>4. CASE \E k \in Kind : Replace(k)
  BY <1>4, OthersRead
<1> QED
  BY <1>1, <1>2, <1>3, <1>4 DEF ZspNext

\* The two invariants together.
LEMMA ReadAlways == ZspSpec => [](ZspInv /\ ReadInv)
BY InitZspInv, StepZspInv, InitReadInv, StepReadInv, PTL DEF ZspSpec

\* What most steps leave alone.
LEMMA LeftAlone ==
  ASSUME ZspInv, [ZspNext]_zspVars
  PROVE  /\ round' # round => Round
         /\ saving # << >> /\ saving' # saving => SaveMetadata \/ SaveConfig
         /\ dlg # Closed /\ dlg' # dlg => CloseDialog
<1>1. CASE UNCHANGED zspVars
  BY <1>1 DEF zspVars
<1>2. CASE Round
  <2>1. UNCHANGED << dlg, saving >>
    BY <1>2 DEF Round, RoundStart, LoadConfig, LoadState, LoadMetadata, Check, SetDevice,
                SetChannels, Linger, dialogVars
  <2> QED
    BY <1>2, <2>1
<1>3. CASE Dialog
  <2>1. CASE EditDevice
    <3>1. saving = << >> /\ UNCHANGED << round, dlg >>
      BY <2>1 DEF EditDevice, EditFreq, EditOut, EditCode, EditSelftest, EditsDevice, Editing,
                  editRest
    <3> QED
      BY <3>1
  <2>2. CASE EditChannel
    <3>1. saving = << >> /\ UNCHANGED << round, dlg >>
      BY <2>2 DEF EditChannel, EditName, EditTenso, EditGain, EditExc, EditIcp, EditsChannel,
                  Editing, editRest
    <3> QED
      BY <3>1
  <2>3. CASE \/ \E start \in {"button", "auto"} : OkDevice(start)
             \/ OkChannel \/ CancelFirst \/ CancelIcp \/ CancelChannelRest \/ CancelDeviceRest
    <3>1. saving = << >> /\ UNCHANGED << round, dlg >>
      BY <2>3 DEF OkDevice, OkChannel, CancelFirst, CancelIcp, CancelChannelRest,
                  CancelDeviceRest
    <3> QED
      BY <3>1
  <2>4. CASE OpenDialog(Device) \/ \E c \in Shown : OpenDialog(c)
    <3>1. dlg = Closed /\ UNCHANGED << round, saving >>
      BY <2>4 DEF OpenDialog
    <3> QED
      BY <3>1
  <2>5. CASE SaveMetadata \/ SaveConfig
    <3>1. UNCHANGED << round, dlg >>
      BY <2>5 DEF SaveMetadata, SaveConfig
    <3> QED
      BY <2>5, <3>1
  <2>6. CASE CloseDialog
    BY <2>6 DEF CloseDialog
  <2> QED
    BY <1>3, <2>1, <2>2, <2>3, <2>4, <2>5, <2>6 DEF Dialog
<1>4. CASE \E k \in Kind : Replace(k)
  <2>1. UNCHANGED << round, dlg, saving >>
    BY <1>4 DEF Replace, dialogVars
  <2> QED
    BY <2>1
<1> QED
  BY <1>1, <1>2, <1>3, <1>4 DEF ZspNext

\* A round without a dialog in which nobody wrote a file ends with the objects
\* made of the files in the hands of the device and of the channels, whatever
\* happened in the rounds before: files that were spoiled, entries that were
\* removed, dialogs that were opened in the middle of a round.
THEOREM FilesAreHandedOut == ZspSpec => RoundHandsOutFiles
<1> DEFINE Step ==
      round = "channels" /\ round' = "idle" /\ quiet =>
        /\ held'.dev = (IF Good(file["cfg"]) THEN "same" ELSE "none")
        /\ Good(file["cfg"]) => held'.chan = "same" /\ entry.seen["cfg"]
        /\ held'.md = (IF Good(file["md"]) THEN "same" ELSE "none")
<1>1. ZspInv /\ ReadInv /\ [ZspNext]_zspVars => [Step]_zspVars
  <2> SUFFICES ASSUME ZspInv, ReadInv, [ZspNext]_zspVars, round = "channels", round' = "idle",
                      quiet
               PROVE  Step
    OBVIOUS
  <2>1. SetChannels
    <3>1. Round
      BY LeftAlone
    <3> QED
      BY <3>1 DEF Round, RoundStart, LoadConfig, LoadState, LoadMetadata, Check, SetDevice,
                  Linger
  <2>2. ConfigRead /\ Taken
    BY DEF ReadInv, QuietInv
  <2>3. held = [x \in {"dev", "chan", "st", "md"} |-> held[x]]
    BY DEF ZspInv, HeldInv
  <2>4. held' = [held EXCEPT !.chan = IF entry.chans # NoChannels THEN "same" ELSE "none"]
    BY <2>1 DEF SetChannels, HandOut
  <2>5. Good(file["cfg"]) => entry.chans # NoChannels
    <3>1. SUFFICES ASSUME Good(file["cfg"]) PROVE entry.chans # NoChannels
      OBVIOUS
    <3>2. entry.xml["cfg"] # NoDoc
      BY <2>2, <3>1 DEF ConfigRead, ReadInv, DocumentInv, Seen, Matches
    <3>3. DOMAIN entry.chans # {}
      BY <3>2 DEF ReadInv, DocumentInv, Matches, HasChannels
    <3> QED
      BY <3>3 DEF NoChannels
  <2> QED
    BY <2>2, <2>3, <2>4, <2>5 DEF ConfigRead, Taken
<1> QED
  BY <1>1, ReadAlways, PTL DEF ZspSpec, RoundHandsOutFiles

\* Whatever the document was and whatever was edited, the objects that are made
\* of a configuration after a save are those it was written from, but for what
\* the document has no place for and the excitation of a slot whose channels
\* disagree.
THEOREM SavedDocumentsAreRead == ZspSpec => SavedIsRead
<1> DEFINE Step ==
      saving # << >> /\ Head(saving) = "cfg" /\ saving' # saving
          /\ entry.xml["cfg"] # NoDoc =>
        LET now == entry'.xml["cfg"]
            dev == entry.dev chans == entry.chans IN
        /\ ReadDevice(now).freq = dev.freq
        /\ now.minutes /\ entry.xml["cfg"].start # NoNode => ReadDevice(now).start = dev.start
        /\ now.eth /\ now.out # NoNode => ReadDevice(now).out = dev.out
        /\ DOMAIN ReadChannels(now) = DOMAIN chans
        /\ \A c \in DOMAIN chans :
             LET r == ReadChannels(now)[c] IN
             /\ r.icp = chans[c].icp /\ r.gain = chans[c].gain
             /\ entry.md = NoDoc => r.name = chans[c].name
             /\ now.chan[c].tenso # NoNode => r.tenso = chans[c].tenso
             /\ Slot(c) \in DOMAIN now.slots /\ SlotAgrees(chans, c) => r.exc = chans[c].exc
<1>1. ZspInv /\ ReadInv /\ [ZspNext]_zspVars => [Step]_zspVars
  <2> SUFFICES ASSUME ZspInv, ReadInv, [ZspNext]_zspVars, saving # << >>,
                      Head(saving) = "cfg", saving' # saving, entry.xml["cfg"] # NoDoc
               PROVE  Step
    OBVIOUS
  <2>1. SaveConfig
    BY LeftAlone DEF SaveMetadata
  <2>2. PICK doc : doc = WriteConfig(entry.xml["cfg"], entry.dev, entry.chans, entry.md)
    OBVIOUS
  <2>3. /\ Reads(doc, entry.xml["cfg"], entry.dev, entry.chans, entry.md)
        /\ entry'.xml["cfg"] = doc
    BY <2>1, <2>2, SavedReads
  <2>4. DOMAIN ReadChannels(doc) = DOMAIN entry.chans
    BY <2>3 DEF Reads, ReadChannels
  <2>5. ASSUME NEW c \in DOMAIN entry.chans
        PROVE  LET r == ReadChannels(doc)[c] chan == entry.chans[c] IN
               /\ r.icp = chan.icp /\ r.gain = chan.gain
               /\ entry.md = NoDoc => r.name = chan.name
               /\ doc.chan[c].tenso # NoNode => r.tenso = chan.tenso
               /\ Slot(c) \in DOMAIN doc.slots /\ SlotAgrees(entry.chans, c) => r.exc = chan.exc
    <3>1. ReadChannels(doc)[c] = ReadChannel(doc, c)
      BY <2>3 DEF Reads, ReadChannels
    <3>2. c \in Nat
      BY <2>3 DEF Reads, HasChannels
    <3>3. Slot(Slot(c) * PerSlot) = Slot(c)
      BY <3>2, SlotPlace
    <3>4. LET r == ReadChannel(doc, c) chan == entry.chans[c] IN
          /\ r.icp = chan.icp /\ r.gain = chan.gain
          /\ entry.md = NoDoc => r.name = chan.name
          /\ doc.chan[c].tenso # NoNode => r.tenso = chan.tenso
          /\ Slot(c) \in DOMAIN doc.slots =>
               /\ Slot(c) * PerSlot \in DOMAIN entry.chans
               /\ r.exc = entry.chans[Slot(c) * PerSlot].exc
      BY <2>3 DEF Reads
    <3> QED
      BY <3>1, <3>3, <3>4 DEF SlotAgrees
  <2> QED
    BY <2>3, <2>4, <2>5 DEF Reads
<1> QED
  BY <1>1, ReadAlways, PTL DEF ZspSpec, SavedIsRead

\* OK brings everything into the file that was entered in a dialog, whatever
\* was edited before it and whoever wrote beside it: until OK the objects of
\* the entry hold what was entered, and the last save of OK comes after the
\* last edit.
THEOREM OkIsWritten == ZspSpec => OkReachesFile
<1>1. ZspInv /\ ReadInv /\ [ZspNext]_zspVars
        => [dlg # Closed /\ dlg' = Closed /\ phase = "ok" /\ ~late /\ entry.dev # NoDoc
              => Written]_zspVars
  <2> SUFFICES ASSUME ZspInv, ReadInv, [ZspNext]_zspVars, dlg # Closed, dlg' = Closed,
                      phase = "ok", ~late, entry.dev # NoDoc
               PROVE  Written
    OBVIOUS
  <2>1. CloseDialog
    BY LeftAlone
  <2> QED
    BY <2>1 DEF CloseDialog, ReadInv, WrittenInv
<1> QED
  BY <1>1, ReadAlways, PTL DEF ZspSpec, OkReachesFile, Written, Is

=============================================================================
