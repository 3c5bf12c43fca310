------------------------------ MODULE Channel ------------------------------
(***************************************************************************)
(* The parameters of the input channels of ADC modules and of zsp          *)
(* recorders.  A channel of a module keeps its plain fields in the object  *)
(* and sends everything else to the driver; a channel of a recorder keeps  *)
(* all of them in the memory of its configuration, which save() writes to  *)
(* the file together with every other channel of the recorder.             *)
(*                                                                         *)
(* A state ch is a function of the channels: the driver is also told of    *)
(* whole modules with a bit mask, and a recorder is saved as a whole.      *)
(***************************************************************************)
EXTENDS Naturals, Sequences, FiniteSets

CONSTANTS
  Channel,       \* the channels
  Zsp,           \* those of recorders
  FeedBack,      \* outputs of built-in generators
  Module,        \* Module[c]: the module or recorder of c
  HasIcp, HasCharge, HasDiff, HasInputMode,  \* what the hardware can do
  Number,        \* Number[c]: the place of c in its module, its bit in a mask
  Text,          \* the plain fields
  Value,         \* what they hold
  MaxGain        \* the number of the highest gain

ASSUME ChannelAssumption ==
  /\ IsFiniteSet(Channel)
  /\ Zsp \cup FeedBack \cup HasIcp \cup HasCharge \cup HasDiff
       \cup HasInputMode \subseteq Channel
  /\ Number \in [Channel -> Nat]
  /\ \A c, d \in Channel : Module[c] = Module[d] /\ Number[c] = Number[d] => c = d
  /\ Zsp \cap (FeedBack \cup HasCharge \cup HasInputMode) = {}
  /\ \A c, d \in Channel : Module[c] = Module[d] => (c \in Zsp <=> d \in Zsp)
  /\ {"name", "comment", "unit", "unitSense", "sense", "reference", "shift",
      "amplify", "coord", "resistance"} \subseteq Text
  /\ MaxGain \in Nat

Mode == 0..3   \* 0 plain input, 1 self test, 2 high-pass, 3 noise
Bit == {0, 1}

Settings == [on : Bit, text : [Text -> Value], icp : Bit, charge : Bit,
             diff : Bit, gain : 0..MaxGain, hpf : Bit, tenso : Bit, mode : Mode]

\* want is adcInputMode of the object (mode is the driver's), file what the
\* configuration file of a recorder holds.
ChannelState == [now : Settings, want : Mode, file : Settings]

Peers(c) == {d \in Channel : Module[d] = Module[c]}

\* The inputs of a module that a mask names; what the hardware cannot do reads
\* as off, whatever the driver was told.
Masked(module, mask) ==
  {d \in Channel : Module[d] = module /\ Number[d] \in mask}

Put(ch, c, field, v) == [ch EXCEPT ![c].now[field] = v]

PutAll(ch, S, field, v) ==
  [d \in Channel |-> IF d \in S THEN [ch[d] EXCEPT !.now[field] = v] ELSE ch[d]]

\* All channels of the recorders of S go to their files.
SaveAll(ch, S) ==
  [d \in Channel |->
     IF d \in Zsp /\ \E c \in S : Module[c] = Module[d]
       THEN [ch[d] EXCEPT !.file = ch[d].now] ELSE ch[d]]

Save(ch, c) == SaveAll(ch, {c})

\* What a recorder is told is saved when it changes something.
PutAndSave(ch, S, field, v) ==
  SaveAll(PutAll(ch, S, field, v), {c \in S : ch[c].now[field] # v})

\* Op for every channel of S, of which Op changes no other one.
ForEach(ch, S, Op(_, _)) ==
  [d \in Channel |-> IF d \in S THEN Op(ch, d)[d] ELSE ch[d]]

\* Op for the numbers up to n, one after the other.
InTurn(ch, n, Op(_, _)) ==
  LET upTo[i \in 0 .. n] == IF i = 0 THEN ch ELSE Op(upTo[i - 1], i)
  IN  upTo[n]

----------------------------------------------------------------------------
\* setEnabledPh
SetEnabled(ch, c, v) == PutAndSave(ch, {c}, "on", v)

\* canEnableOrDisable: the last input of a module stays on, the second of a
\* differential pair follows the first.
CanToggle(ch, c) ==
  /\ ~(ch[c].now.on = 1 /\ Cardinality({d \in Peers(c) : ch[d].now.on = 1}) = 1)
  /\ ~(ch[c].now.diff = 1 /\ Number[c] % 2 = 1)

\* The setters of name, comment, coordinates, units, sensitivity, reference,
\* shift and external gain.
SetText(ch, c, field, v) == [ch EXCEPT ![c].now.text[field] = v]

SetTenso(ch, c, v) ==
  IF c \notin HasIcp \ Zsp THEN ch
  ELSE LET off == IF v # 0 THEN Put(Put(ch, c, "charge", 0), c, "icp", 1) ELSE ch
       IN  Put(off, c, "tenso", v)

SetHpf(ch, c, v) ==
  LET set == Put(ch, c, "hpf", v)
      want == IF v = 0 /\ ch[c].want = 2 THEN 0 ELSE ch[c].want
  IN  IF c \notin HasInputMode THEN set
      ELSE [set EXCEPT ![c].want = want,
                       ![c].now.mode = IF v # 0 THEN 2 ELSE want]

\* Mutant: the high-pass filter does not overrule the mode.
SetInputModePlain(ch, c, v) ==
  IF c \notin HasInputMode THEN [ch EXCEPT ![c].want = v]
  ELSE [ch EXCEPT ![c].want = v, ![c].now.mode = v]

SetInputMode(ch, c, v) ==
  LET set == [ch EXCEPT ![c].want = v]
  IN  IF c \notin HasInputMode THEN set
      ELSE Put(set, c, "mode", IF ch[c].now.hpf # 0 THEN 2 ELSE v)

\* The absolute gain; the recorder's channel goes on to tell a driver that
\* does not know it.
SetGain(ch, c, v) == PutAndSave(ch, {c}, "gain", v)

Stepped(gain, up) ==
  IF up THEN IF gain < MaxGain THEN gain + 1 ELSE gain
        ELSE IF gain > 0 THEN gain - 1 ELSE gain

\* setNextRange and setPrevRange of one channel.
StepGain(ch, c, up, save) ==
  LET gain == Stepped(ch[c].now.gain, up)
  IN  IF c \in Zsp /\ save THEN PutAndSave(ch, {c}, "gain", gain)
      ELSE Put(ch, c, "gain", gain)

\* The same with a mask: the masked inputs of the module of c take the next
\* gain of c; a recorder is only saved.
StepGainMask(ch, c, mask, up) ==
  IF c \in Zsp THEN Save(ch, c)
  ELSE PutAll(ch, Masked(Module[c], mask), "gain", Stepped(ch[c].now.gain, up))

SetDiff(ch, c, v, save) ==
  IF c \notin HasDiff THEN ch
  ELSE IF c \in Zsp /\ save THEN PutAndSave(ch, {c}, "diff", v)
  ELSE Put(ch, c, "diff", v)

\* setDiff with a mask replaces the differential inputs of the whole module.
SetDiffMask(ch, c, mask, v) ==
  IF c \in Zsp THEN IF c \in HasDiff THEN Save(ch, c) ELSE ch
  ELSE LET none == PutAll(ch, Peers(c), "diff", 0)
       IN  IF v = 1 THEN PutAll(none, Masked(Module[c], mask) \cap HasDiff, "diff", 1) ELSE none

SetIcp(ch, c, v) ==
  IF c \notin HasIcp THEN ch
  ELSE IF c \in Zsp THEN PutAndSave(ch, {c}, "icp", v)
  ELSE Put(IF v # 0 THEN Put(ch, c, "charge", 0) ELSE ch, c, "icp", v)

\* Mutant: the masks go to the module of the channel that speaks.
SetIcpMaskOwn(ch, c, masks, v) ==
  IF DOMAIN masks = {} \/ c \notin HasIcp THEN ch
  ELSE IF c \in Zsp THEN Save(ch, c)
  ELSE PutAll(ch, HasIcp \cap UNION {Masked(Module[c], masks[m]) : m \in DOMAIN masks}, "icp", v)

\* setICPMoreChannel for some modules and their masks: c speaks for the masked
\* inputs of each, which need not be its own; a recorder is only saved.
SetIcpMask(ch, c, masks, v) ==
  IF DOMAIN masks = {} \/ c \notin HasIcp THEN ch
  ELSE IF c \in Zsp THEN Save(ch, c)
  ELSE PutAll(ch, HasIcp \cap UNION {Masked(m, masks[m]) : m \in DOMAIN masks}, "icp", v)

\* setICP with a mask, for the module of c.
SetIcpOwnMask(ch, c, mask, v) ==
  IF c \notin HasIcp THEN ch
  ELSE IF c \in Zsp THEN Save(ch, c)
  ELSE PutAll(IF v # 0 THEN Put(ch, c, "charge", 0) ELSE ch,
              HasIcp \cap Masked(Module[c], mask), "icp", v)

SetCharge(ch, c, v) ==
  IF c \notin HasCharge THEN ch
  ELSE Put(IF v # 0 THEN Put(ch, c, "icp", 0) ELSE ch, c, "charge", v)

SetResistance(ch, c, v) == [ch EXCEPT ![c].now.text.resistance = v]

----------------------------------------------------------------------------
\* backup: the gain is copied of a recorder's channel only, what else is in
\* that place of a snapshot is arbitrary.
Backup(ch, c, junk) ==
  IF c \in Zsp THEN ch[c].now ELSE [ch[c].now EXCEPT !.gain = junk]

\* The channels of S take the plain fields of F from text.
WithTexts(ch, S, text, F) ==
  [d \in Channel |->
     IF d \in S THEN [ch[d] EXCEPT !.now.text = [f \in Text |-> IF f \in F THEN text[f] ELSE @[f]]]
                ELSE ch[d]]

RestoreTexts(ch, c, s, fields) == WithTexts(ch, {c}, s.text, fields)

LateText == {"coord", "unitSense", "resistance"}

\* The fields before the inputs: enabled to the gain.
RestoreHead(ch, c, s) ==
  LET texts == RestoreTexts(SetEnabled(ch, c, s.on), c, s, Text \ LateText)
      hpf == SetHpf(texts, c, s.hpf)
  IN  IF c \in Zsp THEN SetGain(hpf, c, s.gain) ELSE hpf

\* Mutant: the input mode is forgotten.
RestoreTailModeless(ch, c, s) ==
  LET tenso == SetTenso(SetCharge(ch, c, s.charge), c, s.tenso)
  IN  RestoreTexts(tenso, c, s, LateText)

\* From the charge amplifier on.
RestoreTail(ch, c, s) ==
  LET tenso == SetTenso(SetCharge(ch, c, s.charge), c, s.tenso)
  IN  SetInputMode(RestoreTexts(tenso, c, s, LateText), c, s.mode)

\* restore: what a cancelled or pasted single channel takes.
Restore(ch, c, s) ==
  LET diff == SetDiff(RestoreHead(ch, c, s), c, s.diff, TRUE)
  IN  RestoreTail(SetIcp(diff, c, s.icp), c, s)

\* restore_: differential inputs and ICP go to the masked inputs of the module.
RestoreOwnMask(ch, c, mask, s) ==
  LET diff == SetDiffMask(RestoreHead(ch, c, s), c, mask, s.diff)
  IN  RestoreTail(SetIcpOwnMask(diff, c, mask, s.icp), c, s)

\* restore_anydevice: ICP goes to the masked inputs of any module.
RestoreMask(ch, c, module, mask, s) ==
  LET diff == SetDiffMask(RestoreHead(ch, c, s), c, mask, s.diff)
  IN  RestoreTail(SetIcpMask(diff, c, [m \in {module} |-> mask], s.icp), c, s)
=============================================================================
