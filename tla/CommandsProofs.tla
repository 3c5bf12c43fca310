--------------------------- MODULE CommandsProofs ---------------------------
(***************************************************************************)
(* Proofs about the channels, their page and the commands of the main      *)
(* dialog, for any modules and recorders, whatever their hardware can do.  *)
(*                                                                         *)
(* First the operators of Channel, field by field: what each sets, what it *)
(* keeps, and that it leaves the channels consistent.  Then the actions of *)
(* the page and of the dialog, each of which keeps the invariant.          *)
(***************************************************************************)
EXTENDS Commands, FiniteSetTheorems, WellFoundedInduction, TLAPS

Shape == [Channel -> ChannelState]

\* From s to t no channel but c changes its settings.
Only(s, t, c) == t \in Shape /\ \A d \in Channel \ {c} : t[d].now = s[d].now

\* The fields that hold a bit.
Flag == {"on", "icp", "charge", "diff", "hpf", "tenso"}

\* Settings n with one field changed, a channel with other settings, a state
\* with another channel c.
With(n, field, v) == [n EXCEPT ![field] = v]
WithNow(x, n) == [x EXCEPT !.now = n]
WithChannel(s, c, x) == [s EXCEPT ![c] = x]

\* Settings stay settings when a field gets a value of its type.
LEMMA FlagTyped ==
  ASSUME NEW n \in Settings, NEW field \in Flag, NEW v \in Bit
  PROVE  With(n, field, v) \in Settings
BY DEF Settings, With, Flag

\* A settings record stays one when its gain is replaced by a gain.
LEMMA GainTyped ==
  ASSUME NEW n \in Settings, NEW v \in 0 .. MaxGain
  PROVE  With(n, "gain", v) \in Settings
BY DEF Settings, With

\* The same for the input mode.
LEMMA ModeTyped ==
  ASSUME NEW n \in Settings, NEW v \in Mode
  PROVE  With(n, "mode", v) \in Settings
BY DEF Settings, With

\* The same for the texts.
LEMMA TextTyped ==
  ASSUME NEW n \in Settings, NEW v \in [Text -> Value]
  PROVE  With(n, "text", v) \in Settings
BY DEF Settings, With

\* Writing the settings of a channel leaves its mode wanted and its file alone.
LEMMA NowNew ==
  ASSUME NEW x \in ChannelState, NEW n \in Settings
  PROVE  LET y == WithNow(x, n)
         IN  y \in ChannelState /\ y.now = n /\ y.want = x.want /\ y.file = x.file
BY DEF ChannelState, WithNow

\* The parts of a channel's state in a well-shaped assignment.
LEMMA NowIn ==
  ASSUME NEW s \in Shape, NEW c \in Channel
  PROVE  s[c] \in ChannelState /\ s[c].now \in Settings /\ s[c].want \in Mode
BY DEF Shape, ChannelState

\* Another value for one channel changes that channel only.
LEMMA OneNew ==
  ASSUME NEW s \in Shape, NEW c \in Channel, NEW x \in ChannelState
  PROVE  /\ Only(s, WithChannel(s, c, x), c)
         /\ WithChannel(s, c, x)[c] = x
BY DEF Only, Shape, WithChannel

\* Changes of the same channel compose.
LEMMA OnlyTwice ==
  ASSUME NEW s \in Shape, NEW t, NEW u, NEW c \in Channel, Only(s, t, c), Only(t, u, c)
  PROVE  Only(s, u, c)
BY DEF Only

\* Nothing differs from itself in any channel.
LEMMA OnlyNone ==
  ASSUME NEW s \in Shape, NEW c \in Channel
  PROVE  Only(s, s, c)
BY DEF Only

\* A state stays consistent when the one channel that changed is.
LEMMA OnlyStates ==
  ASSUME NEW s \in States, NEW c \in Channel, NEW t, Only(s, t, c), Consistent(c, t[c].now)
  PROVE  t \in States
<1>1. t \in Shape /\ \A d \in Channel \ {c} : t[d].now = s[d].now
  BY DEF Only
<1>2. ASSUME NEW d \in Channel PROVE Consistent(d, t[d].now)
  <2>1. CASE d = c
    BY <2>1
  <2>2. CASE d # c
    BY <2>2, <1>1 DEF States
  <2> QED BY <2>1, <2>2
<1> QED
  BY <1>1, <1>2 DEF States, Shape

\* The states of the setters are well shaped and consistent in every channel.
LEMMA StatesShaped ==
  ASSUME NEW s \in States
  PROVE  s \in Shape /\ \A c \in Channel : Consistent(c, s[c].now)
BY DEF States, Shape

\* Put is one field of one channel.
LEMMA PutOne ==
  ASSUME NEW s \in Shape, NEW c \in Channel, NEW field \in Flag \cup {"gain", "mode"}, NEW v,
         With(s[c].now, field, v) \in Settings
  PROVE  /\ Only(s, Put(s, c, field, v), c)
         /\ Put(s, c, field, v)[c].now = With(s[c].now, field, v)
<1> DEFINE n == With(s[c].now, field, v)
           x == WithNow(s[c], n)
<1>1. Put(s, c, field, v) = WithChannel(s, c, x)
  BY DEF Put, Shape, ChannelState, Settings, Flag, With, WithNow, WithChannel
<1>2. x \in ChannelState /\ x.now = n
  BY NowNew, NowIn
<1> HIDE DEF x
<1> QED
  BY <1>1, <1>2, OneNew

\* From s to t the channels of S, and no others, get v in their field.
AllWith(s, t, S, field, v) ==
  /\ t \in Shape
  /\ \A d \in Channel : /\ d \in S => t[d].now = With(s[d].now, field, v)
                        /\ d \notin S => t[d].now = s[d].now

\* PutAll is one field of the channels of a set.
LEMMA PutMany ==
  ASSUME NEW s \in Shape, NEW S, NEW field \in Flag \cup {"gain", "mode"}, NEW v,
         \A d \in S \cap Channel : With(s[d].now, field, v) \in Settings
  PROVE  AllWith(s, PutAll(s, S, field, v), S, field, v)
<1> DEFINE t == PutAll(s, S, field, v)
<1>1. ASSUME NEW d \in Channel
      PROVE  /\ t[d] \in ChannelState
             /\ d \in S => t[d].now = With(s[d].now, field, v)
             /\ d \notin S => t[d].now = s[d].now
  <2>1. CASE d \in S
    <3>1. t[d] = WithNow(s[d], With(s[d].now, field, v))
      BY <2>1 DEF PutAll, Shape, ChannelState, Settings, Flag, With, WithNow
    <3> HIDE DEF t
    <3> QED BY <3>1, <2>1, NowNew, NowIn
  <2>2. CASE d \notin S
    BY <2>2, NowIn DEF PutAll
  <2> QED BY <2>1, <2>2
<1>2. t = [d \in Channel |-> t[d]]
  BY DEF PutAll
<1> HIDE DEF t
<1>3. t \in Shape
  BY <1>1, <1>2 DEF Shape
<1>4. AllWith(s, t, S, field, v)
  BY <1>1, <1>3 DEF AllWith
<1> QED
  BY <1>4 DEF t

\* Writing the files changes nothing else.
LEMMA Saved ==
  ASSUME NEW s \in Shape, NEW S
  PROVE  LET t == SaveAll(s, S)
         IN  t \in Shape /\ \A d \in Channel : t[d].now = s[d].now
BY DEF SaveAll, Shape, ChannelState

\* So are the operators that save what they changed.
LEMMA PutSaved ==
  ASSUME NEW s \in Shape, NEW S, NEW field \in Flag \cup {"gain", "mode"}, NEW v,
         \A d \in S \cap Channel : With(s[d].now, field, v) \in Settings
  PROVE  AllWith(s, PutAndSave(s, S, field, v), S, field, v)
<1> DEFINE p == PutAll(s, S, field, v)
           T == {c \in S : s[c].now[field] # v}
<1>1. AllWith(s, p, S, field, v)
  BY PutMany
<1>2. PutAndSave(s, S, field, v) = SaveAll(p, T)
  BY DEF PutAndSave
<1> HIDE DEF p, T
<1>3. SaveAll(p, T) \in Shape /\ \A d \in Channel : SaveAll(p, T)[d].now = p[d].now
  BY <1>1, Saved DEF AllWith
<1> QED
  BY <1>1, <1>2, <1>3 DEF AllWith

PutSaved1(s, c, field, v) == PutAndSave(s, {c}, field, v)

\* Writing one field and announcing it changes one channel, in that field.
LEMMA PutSavedOne ==
  ASSUME NEW s \in Shape, NEW c \in Channel, NEW field \in Flag \cup {"gain", "mode"}, NEW v,
         With(s[c].now, field, v) \in Settings
  PROVE  /\ Only(s, PutSaved1(s, c, field, v), c)
         /\ PutSaved1(s, c, field, v)[c].now = With(s[c].now, field, v)
<1>1. AllWith(s, PutAndSave(s, {c}, field, v), {c}, field, v)
  BY PutSaved
<1> QED
  BY <1>1 DEF AllWith, Only, PutSaved1

\* The plain fields of a channel after those of F are taken from text.
Taken(old, text, F) == [f \in Text |-> IF f \in F THEN text[f] ELSE old[f]]

\* From s to t the channels of S take their fields of F from text.
AllTaken(s, t, S, text, F) ==
  /\ t \in Shape
  /\ \A d \in Channel :
       /\ d \in S => t[d].now = With(s[d].now, "text", Taken(s[d].now.text, text, F))
       /\ d \notin S => t[d].now = s[d].now

\* WithTexts takes plain fields and touches nothing else.
LEMMA TextsNew ==
  ASSUME NEW s \in Shape, NEW S, NEW F, NEW text, \A f \in F \cap Text : text[f] \in Value
  PROVE  AllTaken(s, WithTexts(s, S, text, F), S, text, F)
<1> DEFINE t == WithTexts(s, S, text, F)
<1>1. ASSUME NEW d \in Channel
      PROVE  /\ t[d] \in ChannelState
             /\ d \in S => t[d].now = With(s[d].now, "text", Taken(s[d].now.text, text, F))
             /\ d \notin S => t[d].now = s[d].now
  <2>1. CASE d \in S
    <3> DEFINE tx == Taken(s[d].now.text, text, F)
    <3>1. t[d] = WithNow(s[d], With(s[d].now, "text", tx))
      BY <2>1 DEF WithTexts, Shape, ChannelState, Settings, With, WithNow, Taken
    <3>2. tx \in [Text -> Value]
      BY NowIn DEF Settings, Taken
    <3> HIDE DEF t, tx
    <3>3. With(s[d].now, "text", tx) \in Settings
      BY <3>2, NowIn, TextTyped
    <3>4. t[d] \in ChannelState /\ t[d].now = With(s[d].now, "text", tx)
      BY <3>1, <3>3, NowNew, NowIn
    <3> QED
      BY <3>4, <2>1 DEF tx
  <2>2. CASE d \notin S
    BY <2>2, NowIn DEF WithTexts
  <2> QED BY <2>1, <2>2
<1>2. t = [d \in Channel |-> t[d]]
  BY DEF WithTexts
<1> HIDE DEF t
<1>3. t \in Shape
  BY <1>1, <1>2 DEF Shape
<1>4. AllTaken(s, t, S, text, F)
  BY <1>1, <1>3 DEF AllTaken
<1> QED
  BY <1>4 DEF t

Field == Flag \cup {"text", "gain", "mode"}

\* m is n but for the fields of F.
Keeps(n, m, F) == m \in Settings /\ \A f \in Field \ F : m[f] = n[f]

\* With sets one field and keeps the others.
LEMMA WithReads ==
  ASSUME NEW n \in Settings, NEW field \in Field, NEW v, With(n, field, v) \in Settings
  PROVE  Keeps(n, With(n, field, v), {field}) /\ With(n, field, v)[field] = v
BY DEF Keeps, With, Field, Flag, Settings

\* Settings with equal fields are equal.
LEMMA SettingsEqual ==
  ASSUME NEW n \in Settings, NEW m \in Settings, \A f \in Field : n[f] = m[f]
  PROVE  n = m
BY DEF Settings, Field, Flag

\* Two changes in a row touch the fields of either.
LEMMA KeepsTwice ==
  ASSUME NEW n, NEW m, NEW k, NEW F, NEW G, Keeps(n, m, F), Keeps(m, k, G)
  PROVE  Keeps(n, k, F \cup G)
BY DEF Keeps

----------------------------------------------------------------------------
\* The setters of one channel.

\* From s to t only channel c changes, in no field but those of F.
Sets(s, t, c, F) == Only(s, t, c) /\ Keeps(s[c].now, t[c].now, F)

\* Changes of one channel add up.
LEMMA SetsTwice ==
  ASSUME NEW s \in Shape, NEW t, NEW u, NEW c \in Channel, NEW F, NEW G,
         Sets(s, t, c, F), Sets(t, u, c, G)
  PROVE  Sets(s, u, c, F \cup G)
BY OnlyTwice, KeepsTwice DEF Sets

\* No change at all sets any fields.
LEMMA SetsNone ==
  ASSUME NEW s \in Shape, NEW c \in Channel, NEW F
  PROVE  Sets(s, s, c, F)
BY OnlyNone, NowIn DEF Sets, Keeps

\* Put and PutAndSave for one channel, as changes of it.
LEMMA PutSets ==
  ASSUME NEW s \in Shape, NEW c \in Channel, NEW field \in Flag \cup {"gain", "mode"}, NEW v,
         With(s[c].now, field, v) \in Settings
  PROVE  /\ Sets(s, Put(s, c, field, v), c, {field})
         /\ Put(s, c, field, v)[c].now[field] = v
BY PutOne, WithReads, NowIn DEF Sets, Field

\* Writing one field and announcing it sets that field to the value.
LEMMA PutSavedSets ==
  ASSUME NEW s \in Shape, NEW c \in Channel, NEW field \in Flag \cup {"gain", "mode"}, NEW v,
         With(s[c].now, field, v) \in Settings
  PROVE  /\ Sets(s, PutSaved1(s, c, field, v), c, {field})
         /\ PutSaved1(s, c, field, v)[c].now[field] = v
BY PutSavedOne, WithReads, NowIn DEF Sets, Field

\* setEnabledPh changes the switch.
LEMMA SetEnabledSets ==
  ASSUME NEW s \in Shape, NEW c \in Channel, NEW v \in Bit
  PROVE  Sets(s, SetEnabled(s, c, v), c, {"on"}) /\ SetEnabled(s, c, v)[c].now.on = v
<1>1. SetEnabled(s, c, v) = PutSaved1(s, c, "on", v)
  BY DEF SetEnabled, PutSaved1
<1> QED
  BY <1>1, PutSavedSets, FlagTyped, NowIn DEF Flag

\* A bridge takes its supply from ICP: setting it switches the charge amplifier off.
LEMMA SetTensoSets ==
  ASSUME NEW s \in Shape, NEW c \in HasIcp \ Zsp, NEW v \in Bit
  PROVE  LET t == SetTenso(s, c, v)
         IN  /\ Sets(s, t, c, {"icp", "charge", "tenso"})
             /\ t[c].now.tenso = v
             /\ v # 0 => t[c].now.charge = 0 /\ t[c].now.icp = 1
             /\ v = 0 => t[c].now.charge = s[c].now.charge /\ t[c].now.icp = s[c].now.icp
<1>0. c \in Channel
  BY ChannelAssumption
<1>1. CASE v = 0
  <2>1. SetTenso(s, c, v) = Put(s, c, "tenso", v)
    BY <1>1 DEF SetTenso
  <2>2. Sets(s, Put(s, c, "tenso", v), c, {"tenso"}) /\ Put(s, c, "tenso", v)[c].now.tenso = v
    BY <1>0, PutSets, FlagTyped, NowIn DEF Flag
  <2> QED
    BY <1>1, <2>1, <2>2 DEF Sets, Keeps, Field, Flag
<1>2. CASE v # 0
  <2> DEFINE x == Put(s, c, "charge", 0)
             y == Put(x, c, "icp", 1)
             z == Put(y, c, "tenso", v)
  <2>1. SetTenso(s, c, v) = z
    BY <1>2 DEF SetTenso
  <2>2. Sets(s, x, c, {"charge"}) /\ x[c].now.charge = 0
    BY <1>0, PutSets, FlagTyped, NowIn DEF Flag, Bit
  <2>3. x \in Shape
    BY <2>2 DEF Sets, Only
  <2>4. Sets(x, y, c, {"icp"}) /\ y[c].now.icp = 1
    <3> HIDE DEF x
    <3> QED BY <1>0, <2>3, PutSets, FlagTyped, NowIn DEF Flag, Bit
  <2>5. y \in Shape
    BY <2>4 DEF Sets, Only
  <2>6. Sets(y, z, c, {"tenso"}) /\ z[c].now.tenso = v
    <3> HIDE DEF y
    <3> QED BY <1>0, <2>5, PutSets, FlagTyped, NowIn DEF Flag, Bit
  <2> HIDE DEF x, y, z
  <2>7. Sets(s, z, c, {"icp", "charge", "tenso"})
    BY <1>0, <2>2, <2>4, <2>6 DEF Sets, Only, Keeps
  <2>8. z[c].now.charge = 0 /\ z[c].now.icp = 1
    BY <2>2, <2>4, <2>6 DEF Sets, Keeps, Field, Flag
  <2> QED
    BY <1>2, <2>1, <2>6, <2>7, <2>8
<1> QED
  BY <1>1, <1>2

\* The filter brings the mode of an input that has modes, and takes it away.
LEMMA SetHpfSets ==
  ASSUME NEW s \in Shape, NEW c \in Channel, NEW v \in Bit
  PROVE  LET t == SetHpf(s, c, v)
         IN  /\ Sets(s, t, c, {"hpf", "mode"})
             /\ t[c].now.hpf = v
             /\ IF c \in HasInputMode THEN v = 1 <=> t[c].now.mode = 2
                                      ELSE t[c].now.mode = s[c].now.mode
<1>1. CASE c \notin HasInputMode
  <2>1. SetHpf(s, c, v) = Put(s, c, "hpf", v)
    BY <1>1 DEF SetHpf
  <2>2. Sets(s, Put(s, c, "hpf", v), c, {"hpf"}) /\ Put(s, c, "hpf", v)[c].now.hpf = v
    BY PutSets, FlagTyped, NowIn DEF Flag
  <2> QED
    BY <1>1, <2>1, <2>2 DEF Sets, Keeps, Field, Flag
<1>2. CASE c \in HasInputMode
  <2> DEFINE want == IF v = 0 /\ s[c].want = 2 THEN 0 ELSE s[c].want
             mode == IF v # 0 THEN 2 ELSE want
             n == With(With(s[c].now, "hpf", v), "mode", mode)
             x == [WithNow(s[c], n) EXCEPT !.want = want]
  <2>1. want \in Mode /\ mode \in Mode /\ (v = 1 <=> mode = 2)
    BY NowIn DEF Mode, Bit
  <2>2. SetHpf(s, c, v) = WithChannel(s, c, x)
    <3> DEFINE y == WithChannel(s, c, WithNow(s[c], With(s[c].now, "hpf", v)))
    <3>1. Put(s, c, "hpf", v) = y
      BY DEF Put, Shape, ChannelState, Settings, With, WithNow, WithChannel
    <3>2. SetHpf(s, c, v) = [y EXCEPT ![c].want = want, ![c].now.mode = mode]
      <4> HIDE DEF y
      <4> QED BY <1>2, <3>1 DEF SetHpf
    <3>3. [y EXCEPT ![c].want = want, ![c].now.mode = mode] = WithChannel(s, c, x)
      <4> HIDE DEF want, mode
      <4> QED BY DEF Shape, ChannelState, Settings, With, WithNow, WithChannel
    <3> QED BY <3>2, <3>3
  <2>3. With(s[c].now, "hpf", v) \in Settings
    BY NowIn, FlagTyped DEF Flag
  <2>4. n \in Settings
    <3> HIDE DEF mode
    <3> QED BY <2>1, <2>3, ModeTyped
  <2>5. Keeps(s[c].now, n, {"hpf", "mode"}) /\ n.hpf = v /\ n.mode = mode
    <3> HIDE DEF mode
    <3>1. Keeps(s[c].now, With(s[c].now, "hpf", v), {"hpf"}) /\ With(s[c].now, "hpf", v).hpf = v
      BY <2>3, WithReads, NowIn DEF Field, Flag
    <3>2. Keeps(With(s[c].now, "hpf", v), n, {"mode"}) /\ n.mode = mode
      BY <2>3, <2>4, WithReads DEF Field
    <3> QED BY <3>1, <3>2 DEF Keeps, Field, Flag
  <2>6. x \in ChannelState /\ x.now = n
    <3> HIDE DEF n, want
    <3>1. WithNow(s[c], n) \in ChannelState /\ WithNow(s[c], n).now = n
      BY <2>4, NowNew, NowIn
    <3> QED BY <2>1, <3>1 DEF ChannelState
  <2>7. Only(s, WithChannel(s, c, x), c) /\ WithChannel(s, c, x)[c] = x
    <3> HIDE DEF x
    <3> QED BY <2>6, OneNew
  <2> HIDE DEF x, n, mode
  <2> QED
    BY <1>2, <2>1, <2>2, <2>5, <2>6, <2>7 DEF Sets
<1> QED
  BY <1>1, <1>2

\* The mode an input is told is overruled by its filter.
LEMMA SetInputModeSets ==
  ASSUME NEW s \in Shape, NEW c \in Channel, NEW v \in Mode
  PROVE  LET t == SetInputMode(s, c, v)
         IN  /\ Sets(s, t, c, {"mode"})
             /\ t[c].now.mode = IF c \notin HasInputMode THEN s[c].now.mode
                                ELSE IF s[c].now.hpf # 0 THEN 2 ELSE v
<1> DEFINE x == [s[c] EXCEPT !.want = v]
           u == WithChannel(s, c, x)
           mode == IF s[c].now.hpf # 0 THEN 2 ELSE v
<1>1. x \in ChannelState /\ x.now = s[c].now
  BY NowIn DEF ChannelState
<1>2. Sets(s, u, c, {}) /\ u[c].now = s[c].now /\ u \in Shape
  <2> HIDE DEF x
  <2>1. Only(s, WithChannel(s, c, x), c) /\ WithChannel(s, c, x)[c] = x
    BY <1>1, OneNew
  <2> QED BY <1>1, <2>1, NowIn DEF Sets, Keeps, Only
<1>3. CASE c \notin HasInputMode
  <2>1. SetInputMode(s, c, v) = u
    BY <1>3 DEF SetInputMode, WithChannel, Shape, ChannelState
  <2> HIDE DEF u
  <2> QED BY <1>2, <1>3, <2>1 DEF Sets, Keeps
<1>4. CASE c \in HasInputMode
  <2>1. SetInputMode(s, c, v) = Put(u, c, "mode", mode)
    BY <1>4 DEF SetInputMode, WithChannel, Shape, ChannelState
  <2>2. mode \in Mode
    BY DEF Mode
  <2> HIDE DEF u, mode
  <2>3. Sets(u, Put(u, c, "mode", mode), c, {"mode"}) /\ Put(u, c, "mode", mode)[c].now.mode = mode
    <3>1. u[c].now \in Settings /\ u \in Shape
      BY <1>2, NowIn
    <3>2. With(u[c].now, "mode", mode) \in Settings
      BY <2>2, <3>1, ModeTyped
    <3> QED BY <3>1, <3>2, PutSets
  <2>4. Sets(s, Put(u, c, "mode", mode), c, {"mode"})
    BY <1>2, <2>3 DEF Sets, Keeps, Only
  <2> QED BY <1>4, <2>1, <2>3, <2>4 DEF mode
<1> QED
  BY <1>3, <1>4

\* The absolute gain.
LEMMA SetGainSets ==
  ASSUME NEW s \in Shape, NEW c \in Channel, NEW v \in 0 .. MaxGain
  PROVE  Sets(s, SetGain(s, c, v), c, {"gain"}) /\ SetGain(s, c, v)[c].now.gain = v
<1>1. SetGain(s, c, v) = PutSaved1(s, c, "gain", v)
  BY DEF SetGain, PutSaved1
<1> QED
  BY <1>1, PutSavedSets, GainTyped, NowIn

\* Differential inputs, where the hardware has them.
LEMMA SetDiffSets ==
  ASSUME NEW s \in Shape, NEW c \in HasDiff, NEW v \in Bit, NEW save_ \in BOOLEAN
  PROVE  LET t == SetDiff(s, c, v, save_)
         IN  Sets(s, t, c, {"diff"}) /\ t[c].now.diff = v
<1>0. c \in Channel
  BY ChannelAssumption
<1>1. SetDiff(s, c, v, save_) \in {PutSaved1(s, c, "diff", v), Put(s, c, "diff", v)}
  BY DEF SetDiff, PutSaved1
<1> QED
  BY <1>0, <1>1, PutSets, PutSavedSets, FlagTyped, NowIn DEF Flag

\* ICP switches the charge amplifier of a module's input off.
LEMMA SetIcpSets ==
  ASSUME NEW s \in Shape, NEW c \in HasIcp, NEW v \in Bit
  PROVE  LET t == SetIcp(s, c, v)
         IN  /\ Sets(s, t, c, {"icp", "charge"})
             /\ t[c].now.icp = v
             /\ t[c].now.charge = IF v # 0 /\ c \notin Zsp THEN 0 ELSE s[c].now.charge
<1>0. c \in Channel
  BY ChannelAssumption
<1>1. CASE c \in Zsp
  <2>1. SetIcp(s, c, v) = PutSaved1(s, c, "icp", v)
    BY <1>1 DEF SetIcp, PutSaved1
  <2>2. Sets(s, PutSaved1(s, c, "icp", v), c, {"icp"}) /\ PutSaved1(s, c, "icp", v)[c].now.icp = v
    BY <1>0, PutSavedSets, FlagTyped, NowIn DEF Flag
  <2> QED
    BY <1>1, <2>1, <2>2 DEF Sets, Keeps, Field, Flag
<1>2. CASE c \notin Zsp
  <2> DEFINE x == IF v # 0 THEN Put(s, c, "charge", 0) ELSE s
             y == Put(x, c, "icp", v)
  <2>1. SetIcp(s, c, v) = y
    BY <1>2 DEF SetIcp
  <2>2. Sets(s, x, c, {"charge"}) /\ x[c].now.charge = IF v # 0 THEN 0 ELSE s[c].now.charge
    <3>1. CASE v # 0
      BY <3>1, <1>0, PutSets, FlagTyped, NowIn DEF Flag, Bit
    <3>2. CASE v = 0
      BY <3>2, <1>0, SetsNone
    <3> QED BY <3>1, <3>2
  <2> HIDE DEF x
  <2>3. x \in Shape
    BY <2>2 DEF Sets, Only
  <2>4. Sets(x, y, c, {"icp"}) /\ y[c].now.icp = v
    BY <1>0, <2>3, PutSets, FlagTyped, NowIn DEF Flag, Bit
  <2> HIDE DEF y
  <2>5. Sets(s, y, c, {"icp", "charge"})
    BY <1>0, <2>2, <2>4 DEF Sets, Only, Keeps
  <2>6. y[c].now.charge = x[c].now.charge
    BY <2>4 DEF Sets, Keeps, Field, Flag
  <2> QED
    BY <1>2, <2>1, <2>2, <2>4, <2>5, <2>6
<1> QED
  BY <1>1, <1>2

\* The charge amplifier switches ICP off.
LEMMA SetChargeSets ==
  ASSUME NEW s \in Shape, NEW c \in HasCharge, NEW v \in Bit
  PROVE  LET t == SetCharge(s, c, v)
         IN  /\ Sets(s, t, c, {"icp", "charge"})
             /\ t[c].now.charge = v
             /\ t[c].now.icp = IF v # 0 THEN 0 ELSE s[c].now.icp
<1>0. c \in Channel
  BY ChannelAssumption
<1> DEFINE x == IF v # 0 THEN Put(s, c, "icp", 0) ELSE s
           y == Put(x, c, "charge", v)
<1>1. SetCharge(s, c, v) = y
  BY DEF SetCharge
<1>2. Sets(s, x, c, {"icp"}) /\ x[c].now.icp = IF v # 0 THEN 0 ELSE s[c].now.icp
  <2>1. CASE v # 0
    BY <2>1, <1>0, PutSets, FlagTyped, NowIn DEF Flag, Bit
  <2>2. CASE v = 0
    BY <2>2, <1>0, SetsNone
  <2> QED BY <2>1, <2>2
<1> HIDE DEF x
<1>3. x \in Shape
  BY <1>2 DEF Sets, Only
<1>4. Sets(x, y, c, {"charge"}) /\ y[c].now.charge = v
  BY <1>0, <1>3, PutSets, FlagTyped, NowIn DEF Flag, Bit
<1> HIDE DEF y
<1>5. Sets(s, y, c, {"icp", "charge"})
  BY <1>0, <1>2, <1>4 DEF Sets, Only, Keeps
<1>6. y[c].now.icp = x[c].now.icp
  BY <1>4 DEF Sets, Keeps, Field, Flag
<1> QED
  BY <1>1, <1>2, <1>4, <1>5, <1>6

\* Plain fields of a snapshot.
LEMMA RestoreTextsSets ==
  ASSUME NEW s \in Shape, NEW c \in Channel, NEW m \in Settings, NEW F
  PROVE  LET t == RestoreTexts(s, c, m, F)
         IN  /\ Sets(s, t, c, {"text"})
             /\ t[c].now.text = Taken(s[c].now.text, m.text, F)
<1> DEFINE t == RestoreTexts(s, c, m, F)
           tx == Taken(s[c].now.text, m.text, F)
<1>1. AllTaken(s, t, {c}, m.text, F)
  BY TextsNew DEF RestoreTexts, Settings
<1>2. tx \in [Text -> Value]
  BY NowIn DEF Taken, Settings
<1> HIDE DEF t, tx
<1>3. Only(s, t, c) /\ t[c].now = With(s[c].now, "text", tx)
  BY <1>1 DEF AllTaken, Only, tx
<1>4. With(s[c].now, "text", tx) \in Settings
  BY <1>2, NowIn, TextTyped
<1>5. /\ Keeps(s[c].now, With(s[c].now, "text", tx), {"text"})
      /\ With(s[c].now, "text", tx).text = tx
  BY <1>4, NowIn, WithReads DEF Field
<1>6. Sets(s, t, c, {"text"}) /\ t[c].now.text = tx
  BY <1>3, <1>5 DEF Sets
<1> QED
  BY <1>6 DEF t, tx

\* A consistent channel stays so when fields change the way the hardware allows.
LEMMA SetsStates ==
  ASSUME NEW s \in States, NEW c \in Channel, NEW t, NEW F, Sets(s, t, c, F),
         c \notin HasIcp => t[c].now.icp = 0,
         c \notin HasCharge => t[c].now.charge = 0,
         c \notin HasDiff => t[c].now.diff = 0,
         c \notin HasIcp \ Zsp => t[c].now.tenso = 0,
         IF c \in HasInputMode THEN t[c].now.hpf = 1 <=> t[c].now.mode = 2
                               ELSE t[c].now.mode = 0
  PROVE  t \in States
BY OnlyStates DEF Sets, Consistent

\* Every setter keeps the channels consistent, whatever the hardware can do.
LEMMA SetEnabledStates ==
  ASSUME NEW s \in States, NEW c \in Channel, NEW v \in Bit
  PROVE  SetEnabled(s, c, v) \in States
<1> DEFINE t == SetEnabled(s, c, v)
<1>1. Sets(s, t, c, {"on"}) /\ Consistent(c, s[c].now)
  BY SetEnabledSets, StatesShaped
<1> HIDE DEF t
<1>2. Consistent(c, t[c].now)
  BY <1>1 DEF Sets, Keeps, Field, Flag, Consistent
<1>3. t \in States
  BY <1>1, <1>2, OnlyStates DEF Sets
<1> QED
  BY <1>3 DEF t

\* SetGain keeps every channel consistent.
LEMMA SetGainStates ==
  ASSUME NEW s \in States, NEW c \in Channel, NEW v \in 0 .. MaxGain
  PROVE  SetGain(s, c, v) \in States
<1> DEFINE t == SetGain(s, c, v)
<1>1. Sets(s, t, c, {"gain"}) /\ Consistent(c, s[c].now)
  BY SetGainSets, StatesShaped
<1> HIDE DEF t
<1>2. Consistent(c, t[c].now)
  BY <1>1 DEF Sets, Keeps, Field, Flag, Consistent
<1>3. t \in States
  BY <1>1, <1>2, OnlyStates DEF Sets
<1> QED
  BY <1>3 DEF t

\* Switching the bridge keeps every channel consistent, though it moves ICP and charge.
LEMMA SetTensoStates ==
  ASSUME NEW s \in States, NEW c \in Channel, NEW v \in Bit
  PROVE  SetTenso(s, c, v) \in States
<1>1. CASE c \notin HasIcp \ Zsp
  BY <1>1 DEF SetTenso
<1>2. CASE c \in HasIcp \ Zsp
  <2> DEFINE t == SetTenso(s, c, v)
  <2>1. /\ Sets(s, t, c, {"icp", "charge", "tenso"}) /\ Consistent(c, s[c].now)
        /\ t[c].now.charge \in {0, s[c].now.charge}
    BY <1>2, SetTensoSets, StatesShaped
  <2> HIDE DEF t
  <2>2. t \in States
    BY <1>2, <2>1, SetsStates DEF Sets, Keeps, Field, Flag, Consistent
  <2> QED BY <2>2 DEF t
<1> QED
  BY <1>1, <1>2

\* Switching the filter keeps it together with the mode, which it moves.
LEMMA SetHpfStates ==
  ASSUME NEW s \in States, NEW c \in Channel, NEW v \in Bit
  PROVE  SetHpf(s, c, v) \in States
<1> DEFINE t == SetHpf(s, c, v)
<1>1. /\ Sets(s, t, c, {"hpf", "mode"}) /\ Consistent(c, s[c].now)
      /\ t[c].now.hpf = v
      /\ c \in HasInputMode => (v = 1 <=> t[c].now.mode = 2)
      /\ c \notin HasInputMode => t[c].now.mode = s[c].now.mode
  BY SetHpfSets, StatesShaped
<1> HIDE DEF t
<1>2. t \in States
  BY <1>1, SetsStates DEF Sets, Keeps, Field, Flag, Consistent
<1> QED
  BY <1>2 DEF t

\* The mode of the filter may be asked for only while the filter is on.
LEMMA SetInputModeStates ==
  ASSUME NEW s \in States, NEW c \in Channel, NEW v \in Mode, v # 2 \/ s[c].now.hpf = 1
  PROVE  SetInputMode(s, c, v) \in States
<1> DEFINE t == SetInputMode(s, c, v)
<1>1. /\ Sets(s, t, c, {"mode"}) /\ Consistent(c, s[c].now)
      /\ t[c].now.mode = IF c \notin HasInputMode THEN s[c].now.mode
                         ELSE IF s[c].now.hpf # 0 THEN 2 ELSE v
  BY SetInputModeSets, StatesShaped
<1>2. s[c].now.hpf \in Bit
  BY NowIn, StatesShaped DEF Settings
<1> HIDE DEF t
<1>3. t[c].now.hpf = s[c].now.hpf
  BY <1>1 DEF Sets, Keeps, Field, Flag
<1>4. IF c \in HasInputMode THEN t[c].now.hpf = 1 <=> t[c].now.mode = 2
                           ELSE t[c].now.mode = 0
  BY <1>1, <1>2, <1>3 DEF Consistent, Bit
<1>5. t \in States
  BY <1>1, <1>4, SetsStates DEF Sets, Keeps, Field, Flag, Consistent
<1> QED
  BY <1>5 DEF t

\* Switching the differential mode keeps every channel consistent.
LEMMA SetDiffStates ==
  ASSUME NEW s \in States, NEW c \in Channel, NEW v \in Bit, NEW save_ \in BOOLEAN
  PROVE  SetDiff(s, c, v, save_) \in States
<1>1. CASE c \notin HasDiff
  BY <1>1 DEF SetDiff
<1>2. CASE c \in HasDiff
  <2> DEFINE t == SetDiff(s, c, v, save_)
  <2>1. Sets(s, t, c, {"diff"}) /\ Consistent(c, s[c].now)
    BY <1>2, SetDiffSets, StatesShaped
  <2> HIDE DEF t
  <2>2. t \in States
    BY <1>2, <2>1, SetsStates DEF Sets, Keeps, Field, Flag, Consistent
  <2> QED BY <2>2 DEF t
<1> QED
  BY <1>1, <1>2

\* Switching ICP keeps every channel consistent, though it moves charge.
LEMMA SetIcpStates ==
  ASSUME NEW s \in States, NEW c \in Channel, NEW v \in Bit
  PROVE  SetIcp(s, c, v) \in States
<1>1. CASE c \notin HasIcp
  BY <1>1 DEF SetIcp
<1>2. CASE c \in HasIcp
  <2> DEFINE t == SetIcp(s, c, v)
  <2>1. /\ Sets(s, t, c, {"icp", "charge"}) /\ Consistent(c, s[c].now)
        /\ t[c].now.charge \in {0, s[c].now.charge}
    BY <1>2, SetIcpSets, StatesShaped
  <2> HIDE DEF t
  <2>2. t \in States
    BY <1>2, <2>1, SetsStates DEF Sets, Keeps, Field, Flag, Consistent
  <2> QED BY <2>2 DEF t
<1> QED
  BY <1>1, <1>2

\* Switching the charge amplifier keeps every channel consistent, though it moves ICP.
LEMMA SetChargeStates ==
  ASSUME NEW s \in States, NEW c \in Channel, NEW v \in Bit
  PROVE  SetCharge(s, c, v) \in States
<1>1. CASE c \notin HasCharge
  BY <1>1 DEF SetCharge
<1>2. CASE c \in HasCharge
  <2> DEFINE t == SetCharge(s, c, v)
  <2>1. /\ Sets(s, t, c, {"icp", "charge"}) /\ Consistent(c, s[c].now)
        /\ t[c].now.icp \in {0, s[c].now.icp}
    BY <1>2, SetChargeSets, StatesShaped
  <2> HIDE DEF t
  <2>2. t \in States
    BY <1>2, <2>1, SetsStates DEF Sets, Keeps, Field, Flag, Consistent
  <2> QED BY <2>2 DEF t
<1> QED
  BY <1>1, <1>2

\* Saving, and plain fields, have nothing to do with consistency.
LEMMA SaveAllStates ==
  ASSUME NEW s \in States, NEW S
  PROVE  SaveAll(s, S) \in States
BY Saved, StatesShaped DEF States, Shape

\* Texts may be written to any channels: no setting depends on them.
LEMMA WithTextsStates ==
  ASSUME NEW s \in States, NEW S, NEW F, NEW text, \A f \in F \cap Text : text[f] \in Value
  PROVE  WithTexts(s, S, text, F) \in States
<1> DEFINE t == WithTexts(s, S, text, F)
<1>1. AllTaken(s, t, S, text, F)
  BY TextsNew, StatesShaped
<1> HIDE DEF t
<1>2. ASSUME NEW d \in Channel PROVE Consistent(d, t[d].now)
  <2>1. Consistent(d, s[d].now) /\ s[d].now \in Settings /\ t[d].now \in Settings
    BY <1>1, NowIn, StatesShaped DEF AllTaken
  <2>2. CASE d \notin S
    BY <1>1, <2>1, <2>2 DEF AllTaken
  <2>3. CASE d \in S
    <3> DEFINE tx == Taken(s[d].now.text, text, F)
    <3>1. t[d].now = With(s[d].now, "text", tx)
      BY <1>1, <2>3 DEF AllTaken
    <3> HIDE DEF tx
    <3>2. Keeps(s[d].now, t[d].now, {"text"})
      BY <2>1, <3>1, WithReads DEF Field
    <3> QED BY <2>1, <3>2 DEF Keeps, Field, Flag, Consistent
  <2> QED BY <2>2, <2>3
<1>3. t \in States
  BY <1>1, <1>2 DEF AllTaken, States, Shape
<1> QED
  BY <1>3 DEF t

\* A field that no rule of consistency is about.
LEMMA AllWithGain ==
  ASSUME NEW s \in States, NEW t, NEW S, NEW v \in 0 .. MaxGain, AllWith(s, t, S, "gain", v)
  PROVE  t \in States
<1>1. ASSUME NEW d \in Channel PROVE Consistent(d, t[d].now)
  <2>1. Consistent(d, s[d].now) /\ s[d].now \in Settings /\ t[d].now \in Settings
    BY NowIn, StatesShaped DEF AllWith
  <2>2. CASE d \notin S
    BY <2>1, <2>2 DEF AllWith
  <2>3. CASE d \in S
    <3>1. t[d].now = With(s[d].now, "gain", v)
      BY <2>3 DEF AllWith
    <3>2. Keeps(s[d].now, t[d].now, {"gain"})
      BY <2>1, <3>1, WithReads DEF Field
    <3> QED BY <2>1, <3>2 DEF Keeps, Field, Flag, Consistent
  <2> QED BY <2>2, <2>3
<1> QED
  BY <1>1 DEF AllWith, States, Shape

\* ICP that only channels with ICP are told of.
LEMMA AllWithIcp ==
  ASSUME NEW s \in States, NEW t, NEW S, NEW v \in Bit, AllWith(s, t, S, "icp", v),
         S \cap Channel \subseteq HasIcp
  PROVE  t \in States
<1>1. ASSUME NEW d \in Channel PROVE Consistent(d, t[d].now)
  <2>1. Consistent(d, s[d].now) /\ s[d].now \in Settings /\ t[d].now \in Settings
    BY NowIn, StatesShaped DEF AllWith
  <2>2. CASE d \notin S
    BY <2>1, <2>2 DEF AllWith
  <2>3. CASE d \in S
    <3>1. t[d].now = With(s[d].now, "icp", v) /\ d \in HasIcp
      BY <2>3 DEF AllWith
    <3>2. Keeps(s[d].now, t[d].now, {"icp"})
      BY <2>1, <3>1, WithReads DEF Field, Flag
    <3> QED BY <2>1, <3>1, <3>2 DEF Keeps, Field, Flag, Consistent
  <2> QED BY <2>2, <2>3
<1> QED
  BY <1>1 DEF AllWith, States, Shape

\* Differential inputs that only channels with them are told of, or nobody.
LEMMA AllWithDiff ==
  ASSUME NEW s \in States, NEW t, NEW S, NEW v \in Bit, AllWith(s, t, S, "diff", v),
         v = 0 \/ S \cap Channel \subseteq HasDiff
  PROVE  t \in States
<1>1. ASSUME NEW d \in Channel PROVE Consistent(d, t[d].now)
  <2>1. Consistent(d, s[d].now) /\ s[d].now \in Settings /\ t[d].now \in Settings
    BY NowIn, StatesShaped DEF AllWith
  <2>2. CASE d \notin S
    BY <2>1, <2>2 DEF AllWith
  <2>3. CASE d \in S
    <3>1. t[d].now = With(s[d].now, "diff", v) /\ (v = 0 \/ d \in HasDiff)
      BY <2>3 DEF AllWith
    <3>2. Keeps(s[d].now, t[d].now, {"diff"}) /\ t[d].now.diff = v
      BY <2>1, <3>1, WithReads DEF Field, Flag
    <3> QED BY <2>1, <3>1, <3>2 DEF Keeps, Field, Flag, Consistent
  <2> QED BY <2>2, <2>3
<1> QED
  BY <1>1 DEF AllWith, States, Shape

\* The fields that stand for switches on the output of an input.
LEMMA AllWithOn ==
  ASSUME NEW s \in States, NEW t, NEW S, NEW v \in Bit, AllWith(s, t, S, "on", v)
  PROVE  t \in States
<1>1. ASSUME NEW d \in Channel PROVE Consistent(d, t[d].now)
  <2>1. Consistent(d, s[d].now) /\ s[d].now \in Settings /\ t[d].now \in Settings
    BY NowIn, StatesShaped DEF AllWith
  <2>2. CASE d \notin S
    BY <2>1, <2>2 DEF AllWith
  <2>3. CASE d \in S
    <3>1. t[d].now = With(s[d].now, "on", v)
      BY <2>3 DEF AllWith
    <3>2. Keeps(s[d].now, t[d].now, {"on"})
      BY <2>1, <3>1, WithReads DEF Field, Flag
    <3> QED BY <2>1, <3>2 DEF Keeps, Field, Flag, Consistent
  <2> QED BY <2>2, <2>3
<1> QED
  BY <1>1 DEF AllWith, States, Shape

----------------------------------------------------------------------------
\* Masks, whole modules, and what is done to every channel of a set.

\* The masked commands reach channels that have the hardware only.
LEMMA PutIcpStates ==
  ASSUME NEW s \in States, NEW S \in SUBSET HasIcp, NEW v \in Bit
  PROVE  PutAll(s, S, "icp", v) \in States
BY PutMany, FlagTyped, NowIn, StatesShaped, AllWithIcp DEF Flag

\* The ICP mask a first channel sends for several keeps all of them consistent.
LEMMA SetIcpMaskStates ==
  ASSUME NEW s \in States, NEW c, NEW masks, NEW v \in Bit
  PROVE  SetIcpMask(s, c, masks, v) \in States
<1> DEFINE S == HasIcp \cap UNION {Masked(m, masks[m]) : m \in DOMAIN masks}
<1>1. SetIcpMask(s, c, masks, v) \in {s, Save(s, c), PutAll(s, S, "icp", v)}
  BY DEF SetIcpMask
<1>2. S \in SUBSET HasIcp
  OBVIOUS
<1> HIDE DEF S
<1>3. PutAll(s, S, "icp", v) \in States
  BY <1>2, PutIcpStates
<1>4. Save(s, c) \in States
  BY SaveAllStates DEF Save
<1> QED
  BY <1>1, <1>3, <1>4

\* So does the mask that is sent from a window.
LEMMA SetIcpOwnMaskStates ==
  ASSUME NEW s \in States, NEW c \in Channel, NEW mask, NEW v \in Bit
  PROVE  SetIcpOwnMask(s, c, mask, v) \in States
<1> DEFINE x == IF v # 0 THEN Put(s, c, "charge", 0) ELSE s
           S == HasIcp \cap Masked(Module[c], mask)
<1>1. SetIcpOwnMask(s, c, mask, v) \in {s, Save(s, c), PutAll(x, S, "icp", v)}
  BY DEF SetIcpOwnMask
<1>2. S \in SUBSET HasIcp
  OBVIOUS
<1>3. x \in States
  <2>1. CASE v = 0
    BY <2>1
  <2>2. CASE v # 0
    <3> DEFINE y == Put(s, c, "charge", 0)
    <3>1. Sets(s, y, c, {"charge"}) /\ y[c].now.charge = 0 /\ Consistent(c, s[c].now)
      BY PutSets, FlagTyped, NowIn, StatesShaped DEF Flag, Bit
    <3> HIDE DEF y
    <3>2. y \in States
      BY <3>1, SetsStates DEF Sets, Keeps, Field, Flag, Consistent
    <3> QED BY <2>2, <3>2 DEF y
  <2> QED BY <2>1, <2>2
<1> HIDE DEF S, x
<1>4. PutAll(x, S, "icp", v) \in States
  BY <1>2, <1>3, PutIcpStates
<1>5. Save(s, c) \in States
  BY SaveAllStates DEF Save
<1> QED
  BY <1>1, <1>4, <1>5

\* So does the mask of the differential mode.
LEMMA SetDiffMaskStates ==
  ASSUME NEW s \in States, NEW c \in Channel, NEW mask, NEW v \in Bit
  PROVE  SetDiffMask(s, c, mask, v) \in States
<1> DEFINE none == PutAll(s, Peers(c), "diff", 0)
           S == Masked(Module[c], mask) \cap HasDiff
<1>1. SetDiffMask(s, c, mask, v) \in {s, Save(s, c), none, PutAll(none, S, "diff", 1)}
  BY DEF SetDiffMask
<1>2. none \in States
  <2>1. AllWith(s, PutAll(s, Peers(c), "diff", 0), Peers(c), "diff", 0)
    BY PutMany, FlagTyped, NowIn, StatesShaped DEF Flag, Bit
  <2> QED BY <2>1, AllWithDiff DEF Bit
<1>3. S \cap Channel \subseteq HasDiff
  OBVIOUS
<1> HIDE DEF none, S
<1>4. PutAll(none, S, "diff", 1) \in States
  <2>1. AllWith(none, PutAll(none, S, "diff", 1), S, "diff", 1)
    BY <1>2, PutMany, FlagTyped, NowIn, StatesShaped DEF Flag, Bit
  <2> QED BY <1>2, <1>3, <2>1, AllWithDiff DEF Bit
<1>5. Save(s, c) \in States
  BY SaveAllStates DEF Save
<1> QED
  BY <1>1, <1>2, <1>4, <1>5

\* One gain for a set of channels keeps all of them consistent.
LEMMA PutGainStates ==
  ASSUME NEW s \in States, NEW S, NEW v \in 0 .. MaxGain
  PROVE  PutAll(s, S, "gain", v) \in States /\ PutAndSave(s, S, "gain", v) \in States
BY PutMany, PutSaved, GainTyped, NowIn, StatesShaped, AllWithGain

\* The gain stays within its range when it steps.
LEMMA SteppedIn ==
  ASSUME NEW v \in 0 .. MaxGain, NEW up
  PROVE  Stepped(v, up) \in 0 .. MaxGain
BY ChannelAssumption DEF Stepped

\* A step of the gain keeps the channel consistent, saved or not.
LEMMA StepGainStates ==
  ASSUME NEW s \in States, NEW c \in Channel, NEW up, NEW save_
  PROVE  StepGain(s, c, up, save_) \in States /\ StepGainMask(s, c, {}, up) \in States
<1> DEFINE v == Stepped(s[c].now.gain, up)
<1>1. v \in 0 .. MaxGain
  BY SteppedIn, NowIn, StatesShaped DEF Settings
<1>2. Put(s, c, "gain", v) \in States
  <2> DEFINE y == Put(s, c, "gain", v)
  <2>1. With(s[c].now, "gain", v) \in Settings
    <3> HIDE DEF v
    <3> QED BY <1>1, GainTyped, NowIn, StatesShaped
  <2>2. Sets(s, y, c, {"gain"}) /\ Consistent(c, s[c].now)
    <3> HIDE DEF v
    <3> QED BY <2>1, PutSets, StatesShaped
  <2> HIDE DEF y
  <2>3. Consistent(c, y[c].now)
    BY <2>2 DEF Sets, Keeps, Field, Flag, Consistent
  <2>4. y \in States
    BY <2>2, <2>3, OnlyStates DEF Sets
  <2> QED BY <2>4 DEF y
<1>3. StepGain(s, c, up, save_) \in {PutAndSave(s, {c}, "gain", v), Put(s, c, "gain", v)}
  BY DEF StepGain
<1>4. PutAndSave(s, {c}, "gain", v) \in States
  <2> HIDE DEF v
  <2> QED BY <1>1, PutGainStates
<1>5. StepGainMask(s, c, {}, up) \in {Save(s, c), PutAll(s, Masked(Module[c], {}), "gain", v)}
  BY DEF StepGainMask
<1>6. Save(s, c) \in States
  BY SaveAllStates DEF Save
<1>7. PutAll(s, Masked(Module[c], {}), "gain", v) \in States
  <2> HIDE DEF v
  <2> QED BY <1>1, PutGainStates
<1> QED
  BY <1>2, <1>3, <1>4, <1>5, <1>6, <1>7

\* A step of the gain of a whole mask does so too.
LEMMA StepGainMaskStates ==
  ASSUME NEW s \in States, NEW c \in Channel, NEW mask, NEW up
  PROVE  StepGainMask(s, c, mask, up) \in States
<1> DEFINE v == Stepped(s[c].now.gain, up)
<1>1. v \in 0 .. MaxGain
  BY SteppedIn, NowIn, StatesShaped DEF Settings
<1>2. StepGainMask(s, c, mask, up) \in {Save(s, c), PutAll(s, Masked(Module[c], mask), "gain", v)}
  BY DEF StepGainMask
<1>3. Save(s, c) \in States
  BY SaveAllStates DEF Save
<1>4. PutAll(s, Masked(Module[c], mask), "gain", v) \in States
  <2> HIDE DEF v
  <2> QED BY <1>1, PutGainStates
<1> QED
  BY <1>2, <1>3, <1>4

\* The mode wanted is no setting; the page copies the mode of the driver to it.
LEMMA WantStates ==
  ASSUME NEW s \in States, NEW c \in Channel, NEW w \in Mode
  PROVE  [s EXCEPT ![c].want = w] \in States
<1> DEFINE x == [s[c] EXCEPT !.want = w]
<1>1. x \in ChannelState /\ x.now = s[c].now
  BY NowIn, StatesShaped DEF ChannelState
<1>2. [s EXCEPT ![c].want = w] = WithChannel(s, c, x)
  BY DEF WithChannel, States, ChannelState
<1> HIDE DEF x
<1>3. WithChannel(s, c, x) \in States
  BY <1>1, OneNew, OnlyStates, StatesShaped
<1> QED
  BY <1>2, <1>3

\* Reading the input mode gives consistent states and changes no setting.
LEMMA AdaptStates ==
  ASSUME NEW s \in States, NEW c \in Channel
  PROVE  Adapt(s, c) \in States /\ \A d \in Channel : Adapt(s, c)[d].now = s[d].now
<1>1. s[c].now.mode \in Mode
  BY NowIn, StatesShaped DEF Settings
<1>2. Adapt(s, c) \in {s, [s EXCEPT ![c].want = s[c].now.mode]}
  BY DEF Adapt
<1>3. [s EXCEPT ![c].want = s[c].now.mode] \in States
  BY <1>1, WantStates
<1>4. \A d \in Channel : [s EXCEPT ![c].want = s[c].now.mode][d].now = s[d].now
  BY DEF States, ChannelState
<1> QED
  BY <1>2, <1>3, <1>4

\* HpfOn: every channel is changed on its own.
LEMMA HpfEachStates ==
  ASSUME NEW s \in States, NEW S, NEW v \in Bit
  PROVE  ForEach(s, S, LAMBDA t, c : SetHpf(t, c, v)) \in States
<1> DEFINE t == ForEach(s, S, LAMBDA u, c : SetHpf(u, c, v))
<1>1. t = [d \in Channel |-> IF d \in S THEN SetHpf(s, d, v)[d] ELSE s[d]]
  BY DEF ForEach
<1>2. ASSUME NEW d \in Channel PROVE t[d] \in ChannelState /\ Consistent(d, t[d].now)
  <2>1. t[d] \in {SetHpf(s, d, v)[d], s[d]}
    BY <1>1
  <2>2. SetHpf(s, d, v) \in States
    BY SetHpfStates
  <2> HIDE DEF t
  <2> QED BY <2>1, <2>2, NowIn, StatesShaped
<1> HIDE DEF t
<1>3. t \in States
  BY <1>1, <1>2 DEF States
<1> QED
  BY <1>3 DEF t

----------------------------------------------------------------------------
\* Restoring a snapshot.

\* The parts of restore, one after the other.
LEMMA RestoreTextsStates ==
  ASSUME NEW s \in States, NEW c, NEW m \in Settings, NEW F
  PROVE  RestoreTexts(s, c, m, F) \in States
BY WithTextsStates DEF RestoreTexts, Settings

\* The first part of Restore gives consistent states, and the filter of the snapshot.
LEMMA RestoreHeadStates ==
  ASSUME NEW s \in States, NEW c \in Channel, NEW m \in Settings
  PROVE  /\ RestoreHead(s, c, m) \in States
         /\ RestoreHead(s, c, m)[c].now.hpf = m.hpf
<1> DEFINE x == SetEnabled(s, c, m.on)
           y == RestoreTexts(x, c, m, Text \ LateText)
           z == SetHpf(y, c, m.hpf)
           t == RestoreHead(s, c, m)
<1>0. m.on \in Bit /\ m.hpf \in Bit /\ m.gain \in 0 .. MaxGain
  BY DEF Settings
<1>1. x \in States
  BY <1>0, SetEnabledStates
<1>2. y \in States
  <2> HIDE DEF x
  <2> QED BY <1>1, RestoreTextsStates
<1>3. z \in States /\ z[c].now.hpf = m.hpf
  <2> HIDE DEF y
  <2> QED BY <1>0, <1>2, SetHpfStates, SetHpfSets, StatesShaped
<1>4. t = IF c \in Zsp THEN SetGain(z, c, m.gain) ELSE z
  BY DEF RestoreHead
<1> HIDE DEF t, z
<1>5. CASE c \in Zsp
  <2>1. Sets(z, SetGain(z, c, m.gain), c, {"gain"}) /\ SetGain(z, c, m.gain) \in States
    BY <1>0, <1>3, SetGainSets, SetGainStates, StatesShaped
  <2> QED BY <1>3, <1>4, <1>5, <2>1 DEF Sets, Keeps, Field, Flag, t
<1>6. CASE c \notin Zsp
  BY <1>3, <1>4, <1>6 DEF t
<1> QED
  BY <1>5, <1>6

\* The rest of Restore does, because the filter it needs is back by then.
LEMMA RestoreTailStates ==
  ASSUME NEW s \in States, NEW c \in Channel, NEW m \in Settings, m.mode # 2 \/ s[c].now.hpf = 1
  PROVE  RestoreTail(s, c, m) \in States
<1> DEFINE x == SetCharge(s, c, m.charge)
           y == SetTenso(x, c, m.tenso)
           z == RestoreTexts(y, c, m, LateText)
<1>0. m.charge \in Bit /\ m.tenso \in Bit /\ m.mode \in Mode
  BY DEF Settings
<1>1. x \in States /\ x[c].now.hpf = s[c].now.hpf
  <2>1. CASE c \notin HasCharge
    BY <2>1 DEF SetCharge
  <2>2. CASE c \in HasCharge
    <3>1. Sets(s, x, c, {"icp", "charge"}) /\ x \in States
      BY <2>2, <1>0, SetChargeSets, SetChargeStates, StatesShaped
    <3> HIDE DEF x
    <3> QED BY <3>1 DEF Sets, Keeps, Field, Flag
  <2> QED BY <2>1, <2>2
<1> HIDE DEF x
<1>2. y \in States /\ y[c].now.hpf = x[c].now.hpf
  <2>1. CASE c \notin HasIcp \ Zsp
    BY <1>1, <2>1 DEF SetTenso
  <2>2. CASE c \in HasIcp \ Zsp
    <3>1. Sets(x, y, c, {"icp", "charge", "tenso"}) /\ y \in States
      BY <2>2, <1>0, <1>1, SetTensoSets, SetTensoStates, StatesShaped
    <3> HIDE DEF y
    <3> QED BY <3>1 DEF Sets, Keeps, Field, Flag
  <2> QED BY <2>1, <2>2
<1> HIDE DEF y
<1>3. z \in States /\ z[c].now.hpf = y[c].now.hpf
  <2>1. z \in States /\ Sets(y, z, c, {"text"})
    BY <1>2, RestoreTextsStates, RestoreTextsSets, StatesShaped
  <2> HIDE DEF z
  <2> QED BY <2>1 DEF Sets, Keeps, Field, Flag
<1>4. RestoreTail(s, c, m) = SetInputMode(z, c, m.mode)
  BY DEF RestoreTail, x, y
<1> HIDE DEF z
<1> QED
  BY <1>0, <1>1, <1>2, <1>3, <1>4, SetInputModeStates

\* A snapshot that asks for the mode of the filter has the filter on.
LEMMA SnapshotMode ==
  ASSUME NEW m, Snapshot(m)
  PROVE  m \in Settings /\ (m.mode # 2 \/ m.hpf = 1)
BY DEF Snapshot, Settings, Bit

\* Differential inputs and ICP leave the filter alone.
LEMMA PutAllHpf ==
  ASSUME NEW s \in Shape, NEW S, NEW field \in {"icp", "diff", "charge"}, NEW v \in Bit,
         NEW c \in Channel
  PROVE  PutAll(s, S, field, v)[c].now.hpf = s[c].now.hpf
<1>1. AllWith(s, PutAll(s, S, field, v), S, field, v)
  BY PutMany, FlagTyped, NowIn DEF Flag
<1>2. Keeps(s[c].now, With(s[c].now, field, v), {field})
  BY FlagTyped, NowIn, WithReads DEF Flag, Field
<1> QED
  BY <1>1, <1>2 DEF AllWith, Keeps, Field, Flag

\* Announcing a change moves no filter.
LEMMA SaveHpf ==
  ASSUME NEW s \in Shape, NEW e, NEW c \in Channel
  PROVE  Save(s, e)[c].now.hpf = s[c].now.hpf
BY Saved DEF Save

\* Restoring any snapshot keeps the channels consistent: the filter is restored before
\* the mode (chan.cpp:56).
LEMMA RestoreStates ==
  ASSUME NEW s \in States, NEW c \in Channel, NEW m, Snapshot(m)
  PROVE  Restore(s, c, m) \in States
<1> DEFINE x == RestoreHead(s, c, m)
           y == SetDiff(x, c, m.diff, TRUE)
           z == SetIcp(y, c, m.icp)
<1>0. m \in Settings /\ m.diff \in Bit /\ m.icp \in Bit /\ (m.mode # 2 \/ m.hpf = 1)
  BY SnapshotMode DEF Settings
<1>1. x \in States /\ x[c].now.hpf = m.hpf
  BY <1>0, RestoreHeadStates
<1> HIDE DEF x
<1>2. y \in States /\ y[c].now.hpf = x[c].now.hpf
  <2>1. CASE c \notin HasDiff
    BY <1>1, <2>1 DEF SetDiff
  <2>2. CASE c \in HasDiff
    <3>1. Sets(x, y, c, {"diff"}) /\ y \in States
      BY <2>2, <1>0, <1>1, SetDiffSets, SetDiffStates, StatesShaped
    <3> HIDE DEF y
    <3> QED BY <3>1 DEF Sets, Keeps, Field, Flag
  <2> QED BY <2>1, <2>2
<1> HIDE DEF y
<1>3. z \in States /\ z[c].now.hpf = y[c].now.hpf
  <2>1. CASE c \notin HasIcp
    BY <1>2, <2>1 DEF SetIcp
  <2>2. CASE c \in HasIcp
    <3>1. Sets(y, z, c, {"icp", "charge"}) /\ z \in States
      BY <2>2, <1>0, <1>2, SetIcpSets, SetIcpStates, StatesShaped
    <3> HIDE DEF z
    <3> QED BY <3>1 DEF Sets, Keeps, Field, Flag
  <2> QED BY <2>1, <2>2
<1>4. Restore(s, c, m) = RestoreTail(z, c, m)
  BY DEF Restore, x, y
<1> HIDE DEF z
<1> QED
  BY <1>0, <1>1, <1>2, <1>3, <1>4, RestoreTailStates

\* The mask of the differential mode moves no filter.
LEMMA DiffMaskHpf ==
  ASSUME NEW s \in States, NEW c \in Channel, NEW mask, NEW v \in Bit
  PROVE  SetDiffMask(s, c, mask, v)[c].now.hpf = s[c].now.hpf
<1> DEFINE none == PutAll(s, Peers(c), "diff", 0)
           S == Masked(Module[c], mask) \cap HasDiff
<1>1. SetDiffMask(s, c, mask, v) \in {s, Save(s, c), none, PutAll(none, S, "diff", 1)}
  BY DEF SetDiffMask
<1>2. none \in Shape /\ none[c].now.hpf = s[c].now.hpf
  <2>1. AllWith(s, PutAll(s, Peers(c), "diff", 0), Peers(c), "diff", 0)
    BY PutMany, FlagTyped, NowIn, StatesShaped DEF Flag, Bit
  <2> QED BY <2>1, PutAllHpf, StatesShaped DEF Bit, AllWith
<1> HIDE DEF none, S
<1>3. PutAll(none, S, "diff", 1)[c].now.hpf = none[c].now.hpf
  BY <1>2, PutAllHpf DEF Bit
<1>4. Save(s, c)[c].now.hpf = s[c].now.hpf
  BY SaveHpf, StatesShaped
<1> QED
  BY <1>1, <1>2, <1>3, <1>4

\* So do the two forms with a mask.
LEMMA RestoreMaskStates ==
  ASSUME NEW s \in States, NEW c \in Channel, NEW module, NEW mask, NEW m, Snapshot(m)
  PROVE  RestoreMask(s, c, module, mask, m) \in States
<1> DEFINE x == RestoreHead(s, c, m)
           y == SetDiffMask(x, c, mask, m.diff)
           z == SetIcpMask(y, c, [e \in {module} |-> mask], m.icp)
<1>0. m \in Settings /\ m.diff \in Bit /\ m.icp \in Bit /\ (m.mode # 2 \/ m.hpf = 1)
  BY SnapshotMode DEF Settings
<1>1. x \in States /\ x[c].now.hpf = m.hpf
  BY <1>0, RestoreHeadStates
<1> HIDE DEF x
<1>2. y \in States /\ y[c].now.hpf = x[c].now.hpf
  BY <1>0, <1>1, SetDiffMaskStates, DiffMaskHpf
<1> HIDE DEF y
<1>3. z \in States /\ z[c].now.hpf = y[c].now.hpf
  <2> DEFINE S == HasIcp \cap UNION {Masked(e, mask) : e \in {module}}
  <2>1. z \in {y, Save(y, c), PutAll(y, S, "icp", m.icp)}
    BY DEF SetIcpMask
  <2>2. S \in SUBSET HasIcp
    OBVIOUS
  <2> HIDE DEF S, z
  <2>3. Save(y, c) \in States /\ Save(y, c)[c].now.hpf = y[c].now.hpf
    BY <1>2, SaveHpf, SaveAllStates, StatesShaped DEF Save
  <2>4. /\ PutAll(y, S, "icp", m.icp) \in States
        /\ PutAll(y, S, "icp", m.icp)[c].now.hpf = y[c].now.hpf
    <3>1. y \in States /\ y \in Shape /\ m.icp \in Bit
      BY <1>0, <1>2, StatesShaped
    <3>2. PutAll(y, S, "icp", m.icp) \in States
      BY <3>1, <2>2, PutIcpStates
    <3>3. PutAll(y, S, "icp", m.icp)[c].now.hpf = y[c].now.hpf
      BY <3>1, PutAllHpf
    <3> QED BY <3>2, <3>3
  <2> QED
    BY <1>2, <2>1, <2>3, <2>4
<1>4. RestoreMask(s, c, module, mask, m) = RestoreTail(z, c, m)
  BY DEF RestoreMask, x, y
<1> HIDE DEF z
<1> QED
  BY <1>0, <1>1, <1>2, <1>3, <1>4, RestoreTailStates

\* Restoring one channel with the masks of all gives consistent states.
LEMMA RestoreOwnMaskStates ==
  ASSUME NEW s \in States, NEW c \in Channel, NEW mask, NEW m, Snapshot(m)
  PROVE  RestoreOwnMask(s, c, mask, m) \in States
<1> DEFINE x == RestoreHead(s, c, m)
           y == SetDiffMask(x, c, mask, m.diff)
           z == SetIcpOwnMask(y, c, mask, m.icp)
<1>0. m \in Settings /\ m.diff \in Bit /\ m.icp \in Bit /\ (m.mode # 2 \/ m.hpf = 1)
  BY SnapshotMode DEF Settings
<1>1. x \in States /\ x[c].now.hpf = m.hpf
  BY <1>0, RestoreHeadStates
<1> HIDE DEF x
<1>2. y \in States /\ y[c].now.hpf = x[c].now.hpf
  BY <1>0, <1>1, SetDiffMaskStates, DiffMaskHpf
<1> HIDE DEF y
<1>3. z \in States
  BY <1>0, <1>2, SetIcpOwnMaskStates
<1>5. z[c].now.hpf = y[c].now.hpf
  <2> DEFINE S == HasIcp \cap Masked(Module[c], mask)
             w == IF m.icp # 0 THEN Put(y, c, "charge", 0) ELSE y
  <2>1. z \in {y, Save(y, c), PutAll(w, S, "icp", m.icp)}
    BY DEF SetIcpOwnMask
  <2>2. w \in Shape /\ w[c].now.hpf = y[c].now.hpf
    <3>1. CASE m.icp = 0
      BY <1>2, <3>1, StatesShaped
    <3>2. CASE m.icp # 0
      <4>1. Sets(y, Put(y, c, "charge", 0), c, {"charge"})
        BY <1>2, PutSets, FlagTyped, NowIn, StatesShaped DEF Flag, Bit
      <4> QED BY <3>2, <4>1 DEF Sets, Only, Keeps, Field, Flag
    <3> QED BY <3>1, <3>2
  <2> HIDE DEF S, z, w
  <2> QED
    BY <1>0, <1>2, <2>1, <2>2, PutAllHpf, SaveHpf, StatesShaped
<1>4. RestoreOwnMask(s, c, mask, m) = RestoreTail(z, c, m)
  BY DEF RestoreOwnMask, x, y
<1> HIDE DEF z
<1> QED
  BY <1>0, <1>1, <1>2, <1>3, <1>4, <1>5, RestoreTailStates

----------------------------------------------------------------------------
\* What is done for one number after the other.

\* Every set of numbers has a least one.
LEMMA LeastNumber ==
  ASSUME NEW S \in SUBSET Nat, S # {}
  PROVE  \E n \in S : \A m \in S : n <= m
<1>1. IsWellFoundedOn(OpToRel(<, Nat), Nat)
  BY NatLessThanWellFounded
<1>2. PICK n \in S : \A m \in S : ~ (<< m, n >> \in OpToRel(<, Nat))
  BY <1>1, WFMin, Zenon
<1>3. ASSUME NEW m \in S PROVE n <= m
  <2>1. m \in Nat /\ n \in Nat /\ ~ (<< m, n >> \in OpToRel(<, Nat))
    BY <1>2
  <2> QED
    BY <2>1 DEF OpToRel
<1> QED
  BY <1>3

\* What holds of 0 and passes from each number to the next holds up to n.
LEMMA Climbing ==
  ASSUME NEW n \in Nat, NEW S \in SUBSET (0 .. n), 0 \in S,
         \A i \in 1 .. n : i - 1 \in S => i \in S
  PROVE  S = 0 .. n
<1> SUFFICES ASSUME (0 .. n) \ S # {} PROVE FALSE
  OBVIOUS
<1>1. (0 .. n) \ S \in SUBSET Nat
  OBVIOUS
<1>2. PICK k \in (0 .. n) \ S : \A m \in (0 .. n) \ S : k <= m
  BY <1>1, LeastNumber
<1> QED
  BY <1>2

\* What each step of a sequence of steps keeps holds after any of them.
LEMMA Climbed ==
  ASSUME NEW G, NEW n \in Nat, NEW g, g[0] \in G,
         \A i \in 1 .. n : g[i - 1] \in G => g[i] \in G
  PROVE  \A i \in 0 .. n : g[i] \in G
<1> DEFINE S == {i \in 0 .. n : g[i] \in G}
<1>1. S \in SUBSET (0 .. n) /\ 0 \in S /\ \A i \in 1 .. n : i - 1 \in S => i \in S
  OBVIOUS
<1> HIDE DEF S
<1>2. S = 0 .. n
  BY <1>1, Climbing
<1> QED
  BY <1>2 DEF S

\* There is a function that takes the steps of R.
Follows(g, s, n, R) ==
  /\ DOMAIN g = 0 .. n
  /\ g = [i \in 0 .. n |-> IF i = 0 THEN s ELSE R[<< g[i - 1], i >>]]

\* The function that InTurn asks for exists.
LEMMA Steps ==
  ASSUME NEW s, NEW n \in Nat, NEW R
  PROVE  \E g : Follows(g, s, n, R)
<1> DEFINE S == {i \in 0 .. n : \E g : Follows(g, s, i, R)}
<1>1. 0 \in S
  <2>1. Follows([i \in 0 .. 0 |-> s], s, 0, R)
    BY DEF Follows
  <2> QED
    BY <2>1
<1>2. ASSUME NEW i \in 1 .. n, i - 1 \in S PROVE i \in S
  <2>1. PICK g : Follows(g, s, i - 1, R)
    BY <1>2
  <2> DEFINE h == [k \in 0 .. i |-> IF k = i THEN R[<< g[i - 1], i >>] ELSE g[k]]
  <2>2. ASSUME NEW k \in 0 .. i
        PROVE  h[k] = IF k = 0 THEN s ELSE R[<< h[k - 1], k >>]
    <3>1. CASE k = i
      <4>1. h[k] = R[<< g[i - 1], i >>] /\ h[k - 1] = g[i - 1] /\ k # 0
        BY <3>1, <1>2
      <4> QED BY <4>1, <3>1
    <3>2. CASE k # i
      <4>1. k \in 0 .. i - 1 /\ h[k] = g[k] /\ (k # 0 => h[k - 1] = g[k - 1])
        BY <3>2, <1>2
      <4>2. g[k] = IF k = 0 THEN s ELSE R[<< g[k - 1], k >>]
        BY <4>1, <2>1 DEF Follows
      <4> QED BY <4>1, <4>2
    <3> QED BY <3>1, <3>2
  <2>3. Follows(h, s, i, R)
    <3>0. DOMAIN h = 0 .. i
      OBVIOUS
    <3>1. h = [k \in 0 .. i |-> h[k]]
      OBVIOUS
    <3> HIDE DEF h
    <3> QED BY <3>0, <3>1, <2>2 DEF Follows
  <2> QED BY <2>3, <1>2
<1> HIDE DEF S
<1>3. S = 0 .. n
  <2>1. S \in SUBSET (0 .. n)
    BY DEF S
  <2> QED BY <1>1, <1>2, <2>1, Climbing
<1> QED
  BY <1>3 DEF S

\* R keeps to G, hence so do its steps.
LEMMA StepsWithin ==
  ASSUME NEW G, NEW s \in G, NEW n \in Nat, NEW R \in [G \X (1 .. n) -> G], NEW g,
         Follows(g, s, n, R)
  PROVE  \A i \in 0 .. n : g[i] \in G
<1>1. g[0] = s
  BY DEF Follows
<1>2. ASSUME NEW i \in 1 .. n, g[i - 1] \in G PROVE g[i] \in G
  <2>1. g[i] = R[<< g[i - 1], i >>]
    BY DEF Follows
  <2> QED BY <1>2, <2>1
<1> QED
  BY <1>1, <1>2, Climbed

\* A set of states that each paste keeps to is kept by all of them in turn.
LEMMA PasteTurns ==
  ASSUME NEW G, NEW s \in G, Len(members) \in Nat,
         \A t \in G, i \in 1 .. Len(members) : PasteInto(t, i) \in G
  PROVE  InTurn(s, Len(members), PasteInto) \in G
<1> DEFINE n == Len(members)
           E(g) == g = [i \in 0 .. n |-> IF i = 0 THEN s ELSE PasteInto(g[i - 1], i)]
           upTo == CHOOSE g : E(g)
           R == [x \in G \X (1 .. n) |-> PasteInto(x[1], x[2])]
<1>1. PICK g : Follows(g, s, n, R)
  BY Steps
<1>2. R \in [G \X (1 .. n) -> G]
  OBVIOUS
<1>3. \A i \in 0 .. n : g[i] \in G
  <2> HIDE DEF R, n
  <2> QED BY <1>1, <1>2, StepsWithin DEF n
<1>4. E(g)
  <2>1. ASSUME NEW i \in 0 .. n PROVE g[i] = IF i = 0 THEN s ELSE PasteInto(g[i - 1], i)
    <3>1. CASE i = 0
      BY <1>1, <3>1 DEF Follows
    <3>2. CASE i # 0
      <4>1. i \in 1 .. n /\ g[i - 1] \in G
        BY <1>3, <3>2
      <4>2. g[i] = R[<< g[i - 1], i >>]
        <5> HIDE DEF R, n
        <5> QED BY <1>1, <3>2 DEF Follows
      <4> QED BY <4>1, <4>2, <3>2
    <3> QED BY <3>1, <3>2
  <2>2. g = [i \in 0 .. n |-> g[i]]
    BY <1>1 DEF Follows
  <2> QED BY <2>1, <2>2
<1>5. E(upTo)
  BY <1>4
<1>6. InTurn(s, n, PasteInto) = upTo[n]
  BY DEF InTurn
<1> HIDE DEF upTo
<1>7. upTo[0] \in G
  BY <1>5
<1>8. ASSUME NEW i \in 1 .. n, upTo[i - 1] \in G PROVE upTo[i] \in G
  <2>1. upTo[i] = PasteInto(upTo[i - 1], i)
    BY <1>5
  <2> QED BY <1>8, <2>1
<1>9. upTo[n] \in G
  <2>1. n \in Nat /\ n \in 0 .. n
    OBVIOUS
  <2> HIDE DEF n
  <2> QED BY <1>7, <1>8, <2>1, Climbed
<1> QED
  BY <1>6, <1>9

----------------------------------------------------------------------------
\* The page.

\* What a page can be opened for.
Opened == Seq(Channel) \ {<< >>}

\* The channels are consistent, and the snapshots of an open page fit its members.
TabInv ==
  /\ ch \in States
  /\ form \in [Box -> Bit]
  /\ clip = << >> \/ (clip = << clip[1] >> /\ Snapshot(clip[1]))
  /\ gui = "open" =>
       /\ cur \in Channel
       /\ members \in Opened
       /\ mementos = [i \in DOMAIN members |-> mementos[i]]
       /\ \A i \in DOMAIN members : /\ mementos[i] \in Settings
                                    /\ Consistent(members[i], mementos[i])

\* What backup takes of a consistent channel is a snapshot.
LEMMA ConsistentSnapshot ==
  ASSUME NEW c, NEW m \in Settings, Consistent(c, m)
  PROVE  Snapshot(m)
BY DEF Consistent, Snapshot

\* The channels a page is opened for.
LEMMA OpenedFacts ==
  ASSUME NEW g \in Opened
  PROVE  /\ Len(g) \in Nat \ {0} /\ DOMAIN g = 1 .. Len(g)
         /\ \A i \in 1 .. Len(g) : g[i] \in Channel
         /\ g[1] \in Channel /\ g[Len(g)] \in Channel
         /\ Range(g) \subseteq Channel
BY DEF Opened, Range

\* A snapshot is settings of the channel, consistent as the channel was.
LEMMA BackupConsistent ==
  ASSUME NEW s \in States, NEW c \in Channel, NEW junk \in 0 .. MaxGain
  PROVE  Backup(s, c, junk) \in Settings /\ Consistent(c, Backup(s, c, junk))
<1>1. s[c].now \in Settings /\ Consistent(c, s[c].now)
  BY NowIn, StatesShaped
<1>2. CASE c \in Zsp
  BY <1>1, <1>2 DEF Backup
<1>3. CASE c \notin Zsp
  <2> DEFINE m == With(s[c].now, "gain", junk)
  <2>1. Backup(s, c, junk) = m
    BY <1>3 DEF Backup, With
  <2>2. m \in Settings
    BY <1>1, GainTyped
  <2>3. Keeps(s[c].now, m, {"gain"})
    BY <1>1, <2>2, WithReads DEF Field
  <2> HIDE DEF m
  <2>4. Consistent(c, m)
    BY <1>1, <2>3 DEF Keeps, Field, Flag, Consistent
  <2> QED BY <2>1, <2>2, <2>4
<1> QED
  BY <1>2, <1>3

\* What the boxes show.
LEMMA FormTyped ==
  ASSUME NEW s \in States, NEW c \in Channel
  PROVE  FormOf(s, c) \in [Box -> Bit]
<1>1. s[c].now \in Settings
  BY NowIn, StatesShaped
<1> QED
  BY <1>1 DEF FormOf, Box, Settings, Bit

\* A click on the form leaves a form.
LEMMA FormPut ==
  ASSUME NEW f \in [Box -> Bit], NEW b \in Box, NEW v \in Bit
  PROVE  [f EXCEPT ![b] = v] \in [Box -> Bit]
OBVIOUS

\* An action within the page, after which the channels are consistent.
LEMMA Within ==
  ASSUME TabInv, gui = "open", UNCHANGED << gui, members, mementos, clip >>,
         ch' \in States, form' \in [Box -> Bit], cur' \in Channel
  PROVE  TabInv'
BY DEF TabInv

\* The page writes to channels.
LEMMA TargetIn ==
  ASSUME TabInv, gui = "open"
  PROVE  /\ Target \subseteq Channel /\ Members \subseteq Channel
         /\ members[1] \in Channel /\ members[Len(members)] \in Channel
BY OpenedFacts DEF TabInv, Target, Members

\* Operators of the page that keep the channels consistent.
LEMMA TextsStates ==
  ASSUME NEW s \in States, NEW S, NEW f, NEW v \in Value
  PROVE  Texts(s, S, f, v) \in States
BY WithTextsStates DEF Texts

\* The filter box of the page gives consistent states, for one channel or for many.
LEMMA HpfOnStates ==
  ASSUME NEW s \in States, NEW v \in Bit
  PROVE  HpfOn(s, v) \in States
BY HpfEachStates DEF HpfOn

\* The ICP box for a group gives consistent states.
LEMMA IcpOfGroupStates ==
  ASSUME NEW s \in States, NEW v \in Bit
  PROVE  IcpOfGroup(s, v) \in States
<1> DEFINE S == Members \cap Zsp \cap HasIcp
           t == PutAndSave(s, S, "icp", v)
<1>1. t \in States
  <2>1. AllWith(s, t, S, "icp", v)
    BY PutSaved, FlagTyped, NowIn, StatesShaped DEF Flag
  <2>2. S \cap Channel \subseteq HasIcp
    OBVIOUS
  <2> HIDE DEF t, S
  <2> QED BY <2>1, <2>2, AllWithIcp
<1>2. IcpOfGroup(s, v) = SetIcpMask(t, members[1], [m \in MaskModules |-> MaskOf(m)], v)
  BY DEF IcpOfGroup
<1> HIDE DEF t
<1> QED
  BY <1>1, <1>2, SetIcpMaskStates

\* The ICP box of the page gives consistent states and a filter box.
LEMMA IcpStates ==
  ASSUME TabInv, gui = "open", NEW s \in States, NEW v \in Bit
  PROVE  Icp(s, v).ch \in States /\ Icp(s, v).hpf \in Bit
<1> DEFINE icp == IF Group THEN IcpOfGroup(s, v) ELSE SetIcp(s, cur, v)
           follows == \E c \in Target : icp[c].now.mode \notin {1, 3}
           hpf == IF follows THEN v ELSE form.hpf
<1>1. icp \in States
  BY IcpOfGroupStates, SetIcpStates DEF TabInv
<1>2. hpf \in Bit
  BY DEF TabInv, Box
<1>3. Icp(s, v).ch = HpfOn(icp, hpf) /\ Icp(s, v).hpf = hpf
  BY DEF Icp
<1> HIDE DEF icp, hpf
<1> QED
  BY <1>1, <1>2, <1>3, HpfOnStates

\* One lemma per action of the page: it keeps TabInv.
LEMMA OpenInv ==
  ASSUME TabInv, NEW g \in Opened, NEW junk \in 0 .. MaxGain, Open(g, junk)
  PROVE  TabInv'
<1>1. g[1] \in Channel /\ DOMAIN g = 1 .. Len(g) /\ \A i \in 1 .. Len(g) : g[i] \in Channel
  BY OpenedFacts
<1>2. /\ gui' = "open" /\ members' = g /\ clip' = clip
      /\ mementos' = [i \in DOMAIN g |-> Backup(ch, g[i], junk)]
      /\ ch' = Adapt(ch, g[1]) /\ cur' = g[1] /\ form' = FormOf(ch, g[1])
  BY DEF Open, Show
<1>3. \A i \in DOMAIN g : /\ mementos'[i] \in Settings
                          /\ Consistent(g[i], mementos'[i])
  BY <1>1, <1>2, BackupConsistent DEF TabInv
<1>4. ch' \in States /\ form' \in [Box -> Bit]
  BY <1>1, <1>2, AdaptStates, FormTyped DEF TabInv
<1>5. mementos' = [i \in DOMAIN g |-> mementos'[i]]
  BY <1>2
<1> QED
  BY <1>1, <1>2, <1>3, <1>4, <1>5 DEF TabInv

\* Writing texts keeps the invariant of the page.
LEMMA WriteInv ==
  ASSUME TabInv, NEW S, NEW f, NEW v \in Value, Write(S, f, v)
  PROVE  TabInv'
BY Within, TextsStates DEF TabInv, Write, Edit

\* So do the handlers that only write texts.
LEMMA TextActionsInv ==
  ASSUME TabInv, NEW v \in Value, NEW w \in Value, NEW x \in Value,
         SelectUnitSense(v, w) \/ SelectUnit(v, w, x) \/ TensoSettings(v, w, x)
           \/ SelectResistance(v)
  PROVE  TabInv'
<1>1. gui = "open" /\ UNCHANGED << gui, members, mementos, clip, form, cur >>
  BY DEF SelectUnitSense, SelectUnit, TensoSettings, SelectResistance, Edit
<1>2. ch' \in States
  <2>1. ch \in States
    BY DEF TabInv
  <2>2. CASE SelectUnitSense(v, w)
    <3>1. Texts(ch, Target, "unitSense", v) \in States
      BY <2>1, TextsStates
    <3>2. ch' = Texts(Texts(ch, Target, "unitSense", v), Target, "sense", w)
      BY <2>2 DEF SelectUnitSense
    <3> QED BY <3>1, <3>2, TextsStates
  <2>3. CASE SelectUnit(v, w, x)
    <3> DEFINE s == Texts(ch, Target, "unit", v)
               t == Texts(s, Target, "sense", w)
    <3>1. s \in States
      BY <2>1, TextsStates
    <3>2. ch' = Texts(t, Target, "reference", x)
      BY <2>3 DEF SelectUnit
    <3> HIDE DEF s
    <3>3. t \in States
      BY <3>1, TextsStates
    <3> HIDE DEF t
    <3> QED BY <3>2, <3>3, TextsStates
  <2>4. CASE TensoSettings(v, w, x)
    <3> DEFINE s == Texts(ch, Target, "sense", v)
               t == Texts(s, Target, "unit", w)
    <3>1. s \in States
      BY <2>1, TextsStates
    <3>2. ch' = Texts(t, Target, "reference", x)
      BY <2>4 DEF TensoSettings
    <3> HIDE DEF s
    <3>3. t \in States
      BY <3>1, TextsStates
    <3> HIDE DEF t
    <3> QED BY <3>2, <3>3, TextsStates
  <2>5. CASE SelectResistance(v)
    BY <2>1, <2>5, TextsStates DEF SelectResistance
  <2> QED BY <2>2, <2>3, <2>4, <2>5
<1> QED
  BY <1>1, <1>2, Within DEF TabInv

\* The filter box keeps the invariant of the page.
LEMMA ClickHpfInv ==
  ASSUME TabInv, NEW v \in Bit, ClickHpf(v)
  PROVE  TabInv'
<1>1. gui = "open" /\ UNCHANGED << gui, members, mementos, clip, cur >>
  BY DEF ClickHpf, Click, Edit
<1>2. ch' \in States
  BY HpfOnStates DEF TabInv, ClickHpf
<1>3. form' \in [Box -> Bit]
  BY FormPut DEF TabInv, ClickHpf, Box
<1> QED
  BY <1>1, <1>2, <1>3, Within DEF TabInv

\* The ICP box keeps the invariant of the page.
LEMMA ClickIcpInv ==
  ASSUME TabInv, NEW v \in Bit, ClickIcp(v)
  PROVE  TabInv'
<1>1. gui = "open" /\ UNCHANGED << gui, members, mementos, clip, cur >>
  BY DEF ClickIcp, Click, Edit
<1>2. ch' = Icp(ch, v).ch /\ form' = [form EXCEPT !.icp = v, !.hpf = Icp(ch, v).hpf]
  BY DEF ClickIcp
<1>3. Icp(ch, v).ch \in States /\ Icp(ch, v).hpf \in Bit
  BY <1>1, IcpStates DEF TabInv
<1>4. form' \in [Box -> Bit]
  BY <1>2, <1>3 DEF TabInv, Box
<1> QED
  BY <1>1, <1>2, <1>3, <1>4, Within DEF TabInv

\* The charge box keeps the invariant of the page.
LEMMA ClickChargeInv ==
  ASSUME TabInv, NEW v \in Bit, ClickCharge(v)
  PROVE  TabInv'
<1>1. gui = "open" /\ UNCHANGED << gui, members, mementos, clip, cur >>
  BY DEF ClickCharge, Click, Edit
<1>2. SetCharge(ch, cur, v) \in States
  BY <1>1, SetChargeStates DEF TabInv
<1>3. ch' \in States
  BY <1>2, HpfOnStates DEF ClickCharge
<1>4. form' \in [Box -> Bit]
  BY DEF ClickCharge, TabInv, Box
<1> QED
  BY <1>1, <1>3, <1>4, Within DEF TabInv

\* The bridge box keeps the invariant of the page.
LEMMA ClickTensoInv ==
  ASSUME TabInv, NEW v \in Bit, NEW preset \in Value, ClickTenso(v, preset)
  PROVE  TabInv'
<1>1. gui = "open" /\ UNCHANGED << gui, members, mementos, clip, cur >>
  BY DEF ClickTenso, Click, Edit
<1> DEFINE s == SetTenso(ch, cur, v)
           F == {"reference", "sense", "unit", "unitSense"}
           t == WithTexts(s, Target, [f \in Text |-> preset], F)
<1>2. s \in States
  BY <1>1, SetTensoStates DEF TabInv
<1>3. ch' = HpfOn(t, v)
  BY DEF ClickTenso
<1> HIDE DEF s
<1>4. t \in States
  BY <1>2, WithTextsStates
<1> HIDE DEF t
<1>5. ch' \in States
  BY <1>3, <1>4, HpfOnStates
<1>6. form' \in [Box -> Bit]
  BY DEF ClickTenso, TabInv, Box
<1> QED
  BY <1>1, <1>5, <1>6, Within DEF TabInv

\* What recorders are told for themselves, one channel at a time.
LEMMA DiffEachStates ==
  ASSUME NEW s \in States, NEW S, NEW v \in Bit
  PROVE  ForEach(s, S, LAMBDA t, c : SetDiff(t, c, v, FALSE)) \in States
<1> DEFINE t == ForEach(s, S, LAMBDA u, c : SetDiff(u, c, v, FALSE))
<1>1. t = [d \in Channel |-> IF d \in S THEN SetDiff(s, d, v, FALSE)[d] ELSE s[d]]
  BY DEF ForEach
<1>2. ASSUME NEW d \in Channel PROVE t[d] \in ChannelState /\ Consistent(d, t[d].now)
  <2>1. t[d] \in {SetDiff(s, d, v, FALSE)[d], s[d]}
    BY <1>1
  <2>2. SetDiff(s, d, v, FALSE) \in States
    BY SetDiffStates
  <2> HIDE DEF t
  <2> QED BY <2>1, <2>2, NowIn, StatesShaped
<1> HIDE DEF t
<1>3. t \in States
  BY <1>1, <1>2 DEF States
<1> QED
  BY <1>3 DEF t

\* A step of the gain of each channel of a set keeps them consistent.
LEMMA StepEachStates ==
  ASSUME NEW s \in States, NEW S, NEW up \in BOOLEAN
  PROVE  ForEach(s, S, LAMBDA t, c : StepGain(t, c, up, FALSE)) \in States
<1> DEFINE t == ForEach(s, S, LAMBDA u, c : StepGain(u, c, up, FALSE))
<1>1. t = [d \in Channel |-> IF d \in S THEN StepGain(s, d, up, FALSE)[d] ELSE s[d]]
  BY DEF ForEach
<1>2. ASSUME NEW d \in Channel PROVE t[d] \in ChannelState /\ Consistent(d, t[d].now)
  <2>1. t[d] \in {StepGain(s, d, up, FALSE)[d], s[d]}
    BY <1>1
  <2>2. StepGain(s, d, up, FALSE) \in States
    BY StepGainStates
  <2> HIDE DEF t
  <2> QED BY <2>1, <2>2, NowIn, StatesShaped
<1> HIDE DEF t
<1>3. t \in States
  BY <1>1, <1>2 DEF States
<1> QED
  BY <1>3 DEF t

\* The box of the differential mode keeps the invariant of the page.
LEMMA ClickDiffInv ==
  ASSUME TabInv, NEW v \in Bit, ClickDiff(v)
  PROVE  TabInv'
<1>1. gui = "open" /\ UNCHANGED << gui, members, mementos, clip, cur >>
  BY DEF ClickDiff, Click, Edit
<1> DEFINE mask == {Number[c] : c \in Members \ FeedBack}
           zsp == ForEach(ch, Members \cap Zsp, LAMBDA s, c : SetDiff(s, c, v, FALSE))
<1>2. ch \in States
  BY DEF TabInv
<1>8. zsp \in States
  BY <1>2, DiffEachStates
<1>3. ch' = IF Group THEN SetDiffMask(zsp, members[1], mask, v) ELSE SetDiff(ch, cur, v, TRUE)
  BY DEF ClickDiff
<1> HIDE DEF mask, zsp
<1>4. SetDiffMask(zsp, members[1], mask, v) \in States
  BY <1>1, <1>8, TargetIn, SetDiffMaskStates
<1>5. SetDiff(ch, cur, v, TRUE) \in States
  BY <1>1, <1>2, SetDiffStates DEF TabInv
<1>6. form' \in [Box -> Bit]
  BY DEF ClickDiff, TabInv, Box
<1>7. ch' \in States
  BY <1>3, <1>4, <1>5
<1> QED
  BY <1>1, <1>6, <1>7, Within DEF TabInv

\* The boxes of self test and noise keep the invariant of the page.
LEMMA TestModeInv ==
  ASSUME TabInv, NEW v \in Bit, ClickSelfTest(v) \/ ClickNoise(v)
  PROVE  TabInv'
<1>1. gui = "open" /\ UNCHANGED << gui, members, mementos, clip, cur >>
  BY DEF ClickSelfTest, ClickNoise, Click, Edit
<1>2. SetInputMode(ch, cur, v) \in States /\ SetInputMode(ch, cur, 3 * v) \in States
  <2>1. v \in Mode /\ 3 * v \in Mode /\ v # 2 /\ 3 * v # 2
    BY DEF Bit, Mode
  <2> QED BY <1>1, <2>1, SetInputModeStates DEF TabInv
<1>3. ch' \in States /\ form' \in [Box -> Bit]
  BY <1>2 DEF ClickSelfTest, ClickNoise, TabInv, Box
<1> QED
  BY <1>1, <1>3, Within DEF TabInv

\* The arrows of the range keep the invariant of the page.
LEMMA StepRangeInv ==
  ASSUME TabInv, NEW up \in BOOLEAN, StepRange(up)
  PROVE  TabInv'
<1>1. gui = "open" /\ UNCHANGED << gui, members, mementos, clip, cur, form >>
  BY DEF StepRange, Edit
<1> DEFINE mask == {Number[c] : c \in Members \ FeedBack}
           zsp == ForEach(ch, Members \cap Zsp, LAMBDA s, c : StepGain(s, c, up, FALSE))
<1>2. ch \in States
  BY DEF TabInv
<1>8. zsp \in States
  BY <1>2, StepEachStates
<1>3. ch' = IF Group THEN StepGainMask(zsp, members[1], mask, up) ELSE StepGain(ch, cur, up, TRUE)
  BY DEF StepRange
<1> HIDE DEF mask, zsp
<1>4. StepGainMask(zsp, members[1], mask, up) \in States
  BY <1>1, <1>8, TargetIn, StepGainMaskStates
<1>5. StepGain(ch, cur, up, TRUE) \in States
  BY <1>1, <1>2, StepGainStates DEF TabInv
<1>7. ch' \in States
  BY <1>3, <1>4, <1>5
<1> QED
  BY <1>1, <1>7, Within DEF TabInv

\* Switching a channel on or off keeps the invariant of the page.
LEMMA ClickStateInv ==
  ASSUME TabInv, NEW v \in Bit, ClickState(v)
  PROVE  TabInv'
<1>1. gui = "open" /\ UNCHANGED << gui, members, mementos, clip, cur, form >>
  BY DEF ClickState, Edit
<1>2. ch' \in States
  BY <1>1, SetEnabledStates DEF ClickState, TabInv
<1> QED
  BY <1>1, <1>2, Within DEF TabInv

\* A sensor of the data base, whatever it switches, keeps the invariant of the page.
LEMMA SelectSensorInv ==
  ASSUME TabInv, NEW v \in Value, NEW icp \in Bit, NEW charge \in Bit, NEW hpf \in Bit,
         SelectSensor(v, icp, charge, hpf)
  PROVE  TabInv'
<1>1. gui = "open" /\ UNCHANGED << gui, members, mementos, clip, cur >>
  BY DEF SelectSensor, Edit
<1> DEFINE on1 == Icp(HpfOn(SetCharge(ch, cur, charge), charge), icp).ch
           on0 == HpfOn(SetCharge(Icp(ch, icp).ch, cur, charge), charge)
           on == IF icp = 1 THEN on1 ELSE on0
           texts == WithTexts(on, {cur}, [f \in Text |-> v], Text)
           hpfs == SetHpf(texts, cur, hpf)
           icps == SetIcp(hpfs, cur, icp)
           supply == SetCharge(icps, cur, charge)
<1>2. ch' \in {supply, SetTenso(supply, cur, 0)}
  BY DEF SelectSensor
<1>3. form' \in [Box -> Bit]
  BY DEF SelectSensor, TabInv, Box, Bit
<1>4. ch \in States /\ cur \in Channel
  BY <1>1 DEF TabInv
<1>5. on1 \in States
  <2>1. SetCharge(ch, cur, charge) \in States
    BY <1>4, SetChargeStates
  <2>2. HpfOn(SetCharge(ch, cur, charge), charge) \in States
    BY <2>1, HpfOnStates
  <2> QED BY <1>1, <2>2, IcpStates
<1>6. on0 \in States
  <2>1. Icp(ch, icp).ch \in States
    BY <1>1, <1>4, IcpStates
  <2>2. SetCharge(Icp(ch, icp).ch, cur, charge) \in States
    BY <1>4, <2>1, SetChargeStates
  <2> QED BY <2>2, HpfOnStates
<1>7. on \in States
  BY <1>5, <1>6
<1> HIDE DEF on
<1>8. texts \in States
  BY <1>7, WithTextsStates
<1> HIDE DEF texts
<1>9. hpfs \in States
  BY <1>4, <1>8, SetHpfStates
<1> HIDE DEF hpfs
<1>10. icps \in States
  BY <1>4, <1>9, SetIcpStates
<1> HIDE DEF icps
<1>11. supply \in States
  BY <1>4, <1>10, SetChargeStates
<1> HIDE DEF supply
<1>12. SetTenso(supply, cur, 0) \in States
  BY <1>4, <1>11, SetTensoStates DEF Bit
<1>13. ch' \in States
  BY <1>2, <1>11, <1>12
<1> QED
  BY <1>1, <1>3, <1>13, <1>4, Within

\* Reading a TEDS, found or not, keeps the invariant of the page.
LEMMA TedsInv ==
  ASSUME TabInv, NEW v \in Value, StartTeds \/ TedsRead(v) \/ TedsFails
  PROVE  TabInv'
<1>1. CASE StartTeds
  BY <1>1 DEF StartTeds, Edit, TabInv
<1>2. CASE TedsFails
  BY <1>2 DEF TedsFails, TabInv
<1>3. CASE TedsRead(v)
  <2> DEFINE s == Texts(ch, {cur}, "comment", v)
             t == Texts(s, {cur}, "unitSense", v)
             u == Texts(t, Target, "unit", v)
             texts == Texts(u, Target, "sense", v)
             on == SetIcp(texts, cur, 1)
  <2>1. gui = "open" /\ UNCHANGED << gui, members, mementos, clip, cur >>
    BY <1>3 DEF TedsRead
  <2>2. ch' \in {texts, SetCharge(on, cur, 0)}
    BY <1>3 DEF TedsRead
  <2>3. form' \in [Box -> Bit]
    BY <1>3 DEF TedsRead, TabInv, Box, Bit
  <2>4. ch \in States /\ cur \in Channel
    BY <2>1 DEF TabInv
  <2>5. s \in States
    BY <2>4, TextsStates
  <2> HIDE DEF s
  <2>6. t \in States
    BY <2>5, TextsStates
  <2> HIDE DEF t
  <2>7. u \in States
    BY <2>6, TextsStates
  <2> HIDE DEF u
  <2>8. texts \in States
    BY <2>7, TextsStates
  <2> HIDE DEF texts
  <2>9. on \in States
    BY <2>4, <2>8, SetIcpStates DEF Bit
  <2> HIDE DEF on
  <2>10. SetCharge(on, cur, 0) \in States
    BY <2>4, <2>9, SetChargeStates DEF Bit
  <2>11. ch' \in States
    BY <2>2, <2>8, <2>10
  <2> QED BY <2>1, <2>3, <2>4, <2>11, Within
<1> QED
  BY <1>1, <1>2, <1>3

\* Copy keeps the invariant of the page: the clipboard is a snapshot.
LEMMA CopyInv ==
  ASSUME TabInv, NEW junk \in 0 .. MaxGain, Copy(junk)
  PROVE  TabInv'
<1>1. /\ gui = "open" /\ UNCHANGED << gui, members, mementos, cur, ch, form >>
      /\ clip' = << Backup(ch, cur, junk) >>
  BY DEF Copy, Edit
<1>2. Snapshot(Backup(ch, cur, junk))
  BY <1>1, BackupConsistent, ConsistentSnapshot DEF TabInv
<1>3. clip' = << clip'[1] >> /\ Snapshot(clip'[1])
  BY <1>1, <1>2
<1> QED
  BY <1>1, <1>3 DEF TabInv

\* A name.
LEMMA SetTextStates ==
  ASSUME NEW s \in States, NEW c \in Channel, NEW f \in Text, NEW v \in Value
  PROVE  SetText(s, c, f, v) \in States
<1> DEFINE tx == [s[c].now.text EXCEPT ![f] = v]
           n == With(s[c].now, "text", tx)
           x == WithNow(s[c], n)
           t == WithChannel(s, c, x)
<1>1. SetText(s, c, f, v) = t
  BY DEF SetText, With, WithNow, WithChannel, States, ChannelState, Settings
<1>2. s[c].now \in Settings /\ Consistent(c, s[c].now)
  BY NowIn, StatesShaped
<1>3. tx \in [Text -> Value]
  BY <1>2 DEF Settings
<1> HIDE DEF tx
<1>4. n \in Settings
  BY <1>2, <1>3, TextTyped
<1>5. Keeps(s[c].now, n, {"text"})
  BY <1>2, <1>4, WithReads DEF Field
<1> HIDE DEF n
<1>6. Consistent(c, n)
  BY <1>2, <1>5 DEF Keeps, Field, Flag, Consistent
<1>7. x \in ChannelState /\ x.now = n
  BY <1>4, NowNew, NowIn, StatesShaped
<1> HIDE DEF x
<1>8. Only(s, t, c) /\ t[c] = x
  BY <1>7, OneNew, StatesShaped
<1> QED
  BY <1>1, <1>6, <1>7, <1>8, OnlyStates

\* A paste restores the clipboard to one member and gives its name back.
LEMMA PasteIntoStates ==
  ASSUME TabInv, gui = "open", clip # << >>, NEW s \in States, NEW i \in 1 .. Len(members)
  PROVE  PasteInto(s, i) \in States
<1> DEFINE x == Restore(s, members[i], clip[1])
           y == Adapt(x, members[i])
<1>1. members[i] \in Channel /\ i \in DOMAIN members
  BY OpenedFacts DEF TabInv
<1>2. Snapshot(clip[1])
  BY DEF TabInv
<1>3. x \in States
  BY <1>1, <1>2, RestoreStates
<1> HIDE DEF x
<1>4. y \in States
  BY <1>1, <1>3, AdaptStates
<1>5. mementos[i].text.name \in Value /\ "name" \in Text
  <2>1. mementos[i] \in Settings
    BY <1>1 DEF TabInv
  <2> QED BY <2>1, ChannelAssumption DEF Settings
<1>6. PasteInto(s, i) = SetText(y, members[i], "name", mementos[i].text.name)
  BY DEF PasteInto, x
<1> HIDE DEF y
<1> QED
  BY <1>1, <1>4, <1>5, <1>6, SetTextStates

\* Paste keeps the invariant of the page, from whichever channel the clipboard is.
LEMMA PasteInv ==
  ASSUME TabInv, Paste
  PROVE  TabInv'
<1>1. gui = "open" /\ clip # << >> /\ UNCHANGED << gui, members, mementos, clip >>
  BY DEF Paste
<1> DEFINE all == InTurn(ch, Len(members), PasteInto)
           last == members[Len(members)]
<1>2. ch' = all /\ cur' = last /\ form' = FormOf(all, last)
  BY DEF Paste
<1>3. Len(members) \in Nat /\ last \in Channel
  BY <1>1, OpenedFacts DEF TabInv
<1>4. all \in States
  <2>1. ch \in States
    BY DEF TabInv
  <2>2. \A t \in States, i \in 1 .. Len(members) : PasteInto(t, i) \in States
    BY <1>1, PasteIntoStates
  <2> QED BY <1>3, <2>1, <2>2, PasteTurns
<1> HIDE DEF all
<1>5. FormOf(all, last) \in [Box -> Bit]
  BY <1>3, <1>4, FormTyped
<1> QED
  BY <1>1, <1>2, <1>3, <1>4, <1>5, Within

\* Ok keeps the invariant of the page.
LEMMA OkInv ==
  ASSUME TabInv, Ok
  PROVE  TabInv'
<1>1. gui = "open" /\ gui' = "ok" /\ UNCHANGED << form, clip >>
  BY DEF Ok
<1> DEFINE F == {"sense", "unitSense", "reference", "shift", "amplify"}
           texts == WithTexts(ch, Target, ch[cur].now.text, F)
           gain == ch[cur].now.gain
<1>2. ch' \in {PutAndSave(texts, Members \ FeedBack, "gain", gain), texts}
  BY DEF Ok
<1>3. ch[cur].now.text \in [Text -> Value] /\ gain \in 0 .. MaxGain /\ ch \in States
  BY <1>1, NowIn, StatesShaped DEF TabInv, Settings
<1>4. texts \in States
  BY <1>3, WithTextsStates
<1> HIDE DEF texts, gain
<1>5. PutAndSave(texts, Members \ FeedBack, "gain", gain) \in States
  BY <1>3, <1>4, PutGainStates
<1>6. ch' \in States
  BY <1>2, <1>4, <1>5
<1> QED
  BY <1>1, <1>6 DEF TabInv

\* The snapshot of OnUserCancel is that of the member or of one before it.
LEMMA SlotIn ==
  ASSUME TabInv, gui = "open", NEW i \in 1 .. Len(members)
  PROVE  /\ Slot(i) \in 1 .. Len(members)
         /\ Snapshot(Was(i)) /\ Was(i) \in Settings
         /\ members[Slot(i)] \in Channel /\ members[i] \in Channel
<1>0. Len(members) \in Nat /\ DOMAIN members = 1 .. Len(members)
  BY OpenedFacts DEF TabInv
<1> DEFINE S == {j \in 1 .. (i - 1) : Plain(j)}
<1>1. IsFiniteSet(1 .. (i - 1)) /\ Cardinality(1 .. (i - 1)) = i - 1
  <2>1. i - 1 \in Int /\ 1 \in Int /\ ~(1 > i - 1) => i - 1 - 1 + 1 = i - 1
    BY <1>0
  <2>2. i \in Nat /\ i >= 1
    BY <1>0
  <2>3. /\ IsFiniteSet(1 .. (i - 1))
        /\ Cardinality(1 .. (i - 1)) = IF 1 > i - 1 THEN 0 ELSE (i - 1) - 1 + 1
    BY <2>2, FS_Interval
  <2> QED BY <2>2, <2>3
<1>2. Cardinality(S) \in 0 .. (i - 1)
  <2>1. S \subseteq 1 .. (i - 1)
    OBVIOUS
  <2> HIDE DEF S
  <2>2. IsFiniteSet(S) /\ Cardinality(S) <= i - 1
    BY <1>1, <2>1, FS_Subset
  <2> QED BY <1>0, <2>2, FS_CardinalityType
<1>3. Slot(i) = 1 + Cardinality(S)
  BY DEF Slot
<1> HIDE DEF S
<1>4. Slot(i) \in 1 .. Len(members)
  BY <1>0, <1>2, <1>3
<1>5. Was(i) \in Settings /\ Consistent(members[Slot(i)], Was(i))
  BY <1>0, <1>4 DEF TabInv, Was
<1> QED
  BY <1>4, <1>5, ConsistentSnapshot, OpenedFacts DEF TabInv

\* The parts of a cancellation for several channels.
LEMMA OffAgainStates ==
  ASSUME NEW s \in States, NEW modules
  PROVE  OffAgain(s, modules) \in States
BY SetIcpMaskStates DEF OffAgain, Bit

\* Undoing one member of a group of a recorder gives consistent states.
LEMMA RecorderUndoneStates ==
  ASSUME TabInv, gui = "open", NEW s \in States, NEW i \in 1 .. Len(members)
  PROVE  RecorderUndone(s, i) \in States
<1> DEFINE x == SetIcp(s, members[i], Was(i).icp)
<1>1. Was(i).icp \in Bit /\ Was(i).gain \in 0 .. MaxGain /\ members[i] \in Channel
  BY SlotIn DEF Settings
<1>2. x \in States
  BY <1>1, SetIcpStates
<1>3. RecorderUndone(s, i) \in {s, SetGain(x, members[i], Was(i).gain)}
  BY DEF RecorderUndone
<1> HIDE DEF x
<1> QED
  BY <1>1, <1>2, <1>3, SetGainStates

\* Undoing one member of a group of a module gives consistent states.
LEMMA ModuleUndoneStates ==
  ASSUME TabInv, gui = "open", NEW s \in States, NEW i \in 1 .. Len(members)
  PROVE  ModuleUndone(s, i) \in States
<1> DEFINE m == Module[members[i]]
           x == RestoreMask(s, members[Slot(i)], m, Had(m, 1), Was(i))
<1>1. x \in States
  BY SlotIn, RestoreMaskStates
<1>2. ModuleUndone(s, i) \in {s, OffAgain(x, {m})}
  BY DEF ModuleUndone
<1> HIDE DEF x
<1> QED
  BY <1>1, <1>2, OffAgainStates

\* As PasteTurns, for the members of a cancelled group.
LEMMA RecorderTurns ==
  ASSUME NEW G, NEW s \in G, Len(members) \in Nat,
         \A t \in G, i \in 1 .. Len(members) : RecorderUndone(t, i) \in G
  PROVE  InTurn(s, Len(members), RecorderUndone) \in G
<1> DEFINE n == Len(members)
           E(g) == g = [i \in 0 .. n |-> IF i = 0 THEN s ELSE RecorderUndone(g[i - 1], i)]
           upTo == CHOOSE g : E(g)
           R == [x \in G \X (1 .. n) |-> RecorderUndone(x[1], x[2])]
<1>1. PICK g : Follows(g, s, n, R)
  BY Steps
<1>2. R \in [G \X (1 .. n) -> G]
  OBVIOUS
<1>3. \A i \in 0 .. n : g[i] \in G
  <2> HIDE DEF R, n
  <2> QED BY <1>1, <1>2, StepsWithin DEF n
<1>4. E(g)
  <2>1. ASSUME NEW i \in 0 .. n PROVE g[i] = IF i = 0 THEN s ELSE RecorderUndone(g[i - 1], i)
    <3>1. CASE i = 0
      BY <1>1, <3>1 DEF Follows
    <3>2. CASE i # 0
      <4>1. i \in 1 .. n /\ g[i - 1] \in G
        BY <1>3, <3>2
      <4>2. g[i] = R[<< g[i - 1], i >>]
        <5> HIDE DEF R, n
        <5> QED BY <1>1, <3>2 DEF Follows
      <4> QED BY <4>1, <4>2, <3>2
    <3> QED BY <3>1, <3>2
  <2>2. g = [i \in 0 .. n |-> g[i]]
    BY <1>1 DEF Follows
  <2> QED BY <2>1, <2>2
<1>5. E(upTo)
  BY <1>4
<1>6. InTurn(s, n, RecorderUndone) = upTo[n]
  BY DEF InTurn
<1> HIDE DEF upTo
<1>7. upTo[0] \in G
  BY <1>5
<1>8. ASSUME NEW i \in 1 .. n, upTo[i - 1] \in G PROVE upTo[i] \in G
  <2>1. upTo[i] = RecorderUndone(upTo[i - 1], i)
    BY <1>5
  <2> QED BY <1>8, <2>1
<1>9. upTo[n] \in G
  <2>1. n \in Nat /\ n \in 0 .. n
    OBVIOUS
  <2> HIDE DEF n
  <2> QED BY <1>7, <1>8, <2>1, Climbed
<1> QED
  BY <1>6, <1>9

\* What undoing any one member keeps, undoing all in their order keeps.
LEMMA ModuleTurns ==
  ASSUME NEW G, NEW s \in G, Len(members) \in Nat,
         \A t \in G, i \in 1 .. Len(members) : ModuleUndone(t, i) \in G
  PROVE  InTurn(s, Len(members), ModuleUndone) \in G
<1> DEFINE n == Len(members)
           E(g) == g = [i \in 0 .. n |-> IF i = 0 THEN s ELSE ModuleUndone(g[i - 1], i)]
           upTo == CHOOSE g : E(g)
           R == [x \in G \X (1 .. n) |-> ModuleUndone(x[1], x[2])]
<1>1. PICK g : Follows(g, s, n, R)
  BY Steps
<1>2. R \in [G \X (1 .. n) -> G]
  OBVIOUS
<1>3. \A i \in 0 .. n : g[i] \in G
  <2> HIDE DEF R, n
  <2> QED BY <1>1, <1>2, StepsWithin DEF n
<1>4. E(g)
  <2>1. ASSUME NEW i \in 0 .. n PROVE g[i] = IF i = 0 THEN s ELSE ModuleUndone(g[i - 1], i)
    <3>1. CASE i = 0
      BY <1>1, <3>1 DEF Follows
    <3>2. CASE i # 0
      <4>1. i \in 1 .. n /\ g[i - 1] \in G
        BY <1>3, <3>2
      <4>2. g[i] = R[<< g[i - 1], i >>]
        <5> HIDE DEF R, n
        <5> QED BY <1>1, <3>2 DEF Follows
      <4> QED BY <4>1, <4>2, <3>2
    <3> QED BY <3>1, <3>2
  <2>2. g = [i \in 0 .. n |-> g[i]]
    BY <1>1 DEF Follows
  <2> QED BY <2>1, <2>2
<1>5. E(upTo)
  BY <1>4
<1>6. InTurn(s, n, ModuleUndone) = upTo[n]
  BY DEF InTurn
<1> HIDE DEF upTo
<1>7. upTo[0] \in G
  BY <1>5
<1>8. ASSUME NEW i \in 1 .. n, upTo[i - 1] \in G PROVE upTo[i] \in G
  <2>1. upTo[i] = ModuleUndone(upTo[i - 1], i)
    BY <1>5
  <2> QED BY <1>8, <2>1
<1>9. upTo[n] \in G
  <2>1. n \in Nat /\ n \in 0 .. n
    OBVIOUS
  <2> HIDE DEF n
  <2> QED BY <1>7, <1>8, <2>1, Climbed
<1> QED
  BY <1>6, <1>9

\* Undoing a whole group gives consistent states.
LEMMA GroupUndoneStates ==
  ASSUME TabInv, gui = "open"
  PROVE  GroupUndone \in States
<1> DEFINE zsp == InTurn(ch, Len(members), RecorderUndone)
           on == InTurn(zsp, Len(members), ModuleUndone)
<1>1. Len(members) \in Nat /\ ch \in States
  BY OpenedFacts DEF TabInv
<1>2. zsp \in States
  <2>1. \A t \in States, i \in 1 .. Len(members) : RecorderUndone(t, i) \in States
    BY RecorderUndoneStates
  <2> QED BY <1>1, <2>1, RecorderTurns
<1>3. GroupUndone = OffAgain(on, {m \in MaskModules : Had(m, 1) = {}})
  BY DEF GroupUndone
<1> HIDE DEF zsp
<1>4. on \in States
  <2>1. \A t \in States, i \in 1 .. Len(members) : ModuleUndone(t, i) \in States
    BY ModuleUndoneStates
  <2> QED BY <1>1, <1>2, <2>1, ModuleTurns
<1> HIDE DEF on
<1> QED
  BY <1>3, <1>4, OffAgainStates

\* Cancel keeps the invariant of the page, by its button or by Escape.
LEMMA CancelInv ==
  ASSUME TabInv, Cancel \/ Escape
  PROVE  TabInv'
<1>1. gui = "open" /\ gui' = "cancelled" /\ UNCHANGED << form, clip >>
  BY DEF Cancel, Escape
<1> DEFINE mask == {Number[c] : c \in Members \ FeedBack}
<1>2. ch' \in {GroupUndone, Restore(ch, members[1], mementos[1]),
               RestoreOwnMask(ch, members[1], mask, mementos[1])}
  BY DEF Cancel, Escape
<1> HIDE DEF mask
<1>3. ch \in States /\ members[1] \in Channel /\ Snapshot(mementos[1])
  BY <1>1, OpenedFacts, ConsistentSnapshot DEF TabInv
<1>4. ch' \in States
  BY <1>1, <1>2, <1>3, GroupUndoneStates, RestoreStates, RestoreOwnMaskStates
<1> QED
  BY <1>1, <1>4 DEF TabInv

\* TabInv is inductive.
LEMMA TabInitInv ==
  ASSUME TabInit
  PROVE  TabInv
<1>1. ch \in States /\ gui = "closed"
  BY TabAssumption DEF TabInit
<1>2. clip = << >> \/ (clip = << clip[1] >> /\ Snapshot(clip[1]))
  BY TabAssumption DEF TabInit
<1>3. form \in [Box -> Bit]
  BY DEF TabInit, Bit
<1> QED
  BY <1>1, <1>2, <1>3 DEF TabInv

\* Every step of the page keeps its invariant.
LEMMA TabNextInv ==
  ASSUME TabInv, [TabNext]_tabVars
  PROVE  TabInv'
<1>1. CASE UNCHANGED tabVars
  BY <1>1 DEF tabVars, TabInv
<1>2. ASSUME NEW g \in Groups, NEW junk \in 0 .. MaxGain, Open(g, junk) PROVE TabInv'
  BY <1>2, OpenInv, TabAssumption DEF Opened
<1>3. ASSUME NEW v \in Value,
             EditName(v) \/ EditComment(v) \/ EditCoordinate(v) \/ EditSense(v) \/ EditUnit(v)
      PROVE  TabInv'
  BY <1>3, WriteInv DEF EditName, EditComment, EditCoordinate, EditSense, EditUnit
<1>4. ASSUME NEW v \in Value, NEW f, EditLevel(f, v) PROVE TabInv'
  BY <1>4, WriteInv DEF EditLevel
<1>5. ASSUME NEW v \in Value, SelectResistance(v) \/ TedsRead(v) \/ \E b \in Bit : ClickTenso(b, v)
      PROVE  TabInv'
  BY <1>5, TextActionsInv, TedsInv, ClickTensoInv
<1>6. ASSUME NEW v \in Value, NEW w \in Value, SelectUnitSense(v, w) PROVE TabInv'
  BY <1>6, TextActionsInv
<1>7. ASSUME NEW v \in Value, NEW w \in Value, NEW x \in Value,
             SelectUnit(v, w, x) \/ TensoSettings(v, w, x)
      PROVE  TabInv'
  BY <1>7, TextActionsInv
<1>8. ASSUME NEW b \in Bit,
             \/ ClickHpf(b) \/ ClickIcp(b) \/ ClickCharge(b) \/ ClickDiff(b)
             \/ ClickSelfTest(b) \/ ClickNoise(b) \/ ClickState(b)
      PROVE  TabInv'
  BY <1>8, ClickHpfInv, ClickIcpInv, ClickChargeInv, ClickDiffInv, TestModeInv, ClickStateInv
<1>9. ASSUME NEW up \in BOOLEAN, StepRange(up) PROVE TabInv'
  BY <1>9, StepRangeInv
<1>10. ASSUME NEW v \in Value, NEW icp \in Bit, NEW charge \in Bit, NEW hpf \in Bit,
              SelectSensor(v, icp, charge, hpf)
       PROVE  TabInv'
  BY <1>10, SelectSensorInv
<1>11. CASE StartTeds
  BY <1>11 DEF StartTeds, Edit, TabInv
<1>12. CASE TedsFails
  BY <1>12 DEF TedsFails, TabInv
<1>13. ASSUME NEW junk \in 0 .. MaxGain, Copy(junk) PROVE TabInv'
  BY <1>13, CopyInv
<1>14. CASE Paste \/ Ok \/ Cancel \/ Escape
  BY <1>14, PasteInv, OkInv, CancelInv
<1>15. CASE TabNext
  BY <1>2, <1>3, <1>4, <1>5, <1>6, <1>7, <1>8, <1>9, <1>10, <1>11, <1>12, <1>13, <1>14, <1>15
     DEF TabNext
<1> QED
  BY <1>1, <1>15

\* ModeFollowsFilter is what consistency says of inputs with a mode.
LEMMA FilterFollowed ==
  ASSUME TabInv
  PROVE  ModeFollowsFilter
BY ChannelAssumption DEF TabInv, States, Consistent, ModeFollowsFilter

\* On the page of a channel or of a group, for any channels, edits and snapshots, an
\* input with a high-pass filter is in the mode of that filter, and no other is.
THEOREM TabModeFollowsFilter == TabSpec => []ModeFollowsFilter
<1>1. TabInit => TabInv
  BY TabInitInv
<1>2. TabInv /\ [TabNext]_tabVars => TabInv'
  BY TabNextInv
<1>3. TabInv => ModeFollowsFilter
  BY FilterFollowed
<1> QED
  BY <1>1, <1>2, <1>3, PTL DEF TabSpec

----------------------------------------------------------------------------
\* Cancelling the dialog of one channel.

\* The setters for a channel that has the hardware or not.
LEMMA SetDiffAny ==
  ASSUME NEW s \in States, NEW c \in Channel, NEW v \in Bit
  PROVE  LET t == SetDiff(s, c, v, TRUE)
         IN  /\ t \in States /\ Keeps(s[c].now, t[c].now, {"diff"})
             /\ c \in HasDiff => t[c].now.diff = v
<1>1. CASE c \notin HasDiff
  <2>1. SetDiff(s, c, v, TRUE) = s
    BY <1>1 DEF SetDiff
  <2> QED BY <1>1, <2>1, SetsNone, StatesShaped DEF Sets
<1>2. CASE c \in HasDiff
  BY <1>2, SetDiffSets, SetDiffStates, StatesShaped DEF Sets
<1> QED
  BY <1>1, <1>2

\* ICP of a channel that has none stays off.
LEMMA SetIcpAny ==
  ASSUME NEW s \in States, NEW c \in Channel, NEW v \in Bit
  PROVE  LET t == SetIcp(s, c, v)
         IN  /\ t \in States /\ Keeps(s[c].now, t[c].now, {"icp", "charge"})
             /\ c \in HasIcp => t[c].now.icp = v
<1>1. CASE c \notin HasIcp
  <2>1. SetIcp(s, c, v) = s
    BY <1>1 DEF SetIcp
  <2> QED BY <1>1, <2>1, SetsNone, StatesShaped DEF Sets
<1>2. CASE c \in HasIcp
  BY <1>2, SetIcpSets, SetIcpStates, StatesShaped DEF Sets
<1> QED
  BY <1>1, <1>2

\* What SetCharge gives on any channel, with the amplifier or without.
LEMMA SetChargeAny ==
  ASSUME NEW s \in States, NEW c \in Channel, NEW v \in Bit
  PROVE  LET t == SetCharge(s, c, v)
         IN  /\ t \in States /\ Keeps(s[c].now, t[c].now, {"icp", "charge"})
             /\ c \in HasCharge => t[c].now.charge = v
             /\ v = 0 => t[c].now.icp = s[c].now.icp
<1>1. CASE c \notin HasCharge
  <2>1. SetCharge(s, c, v) = s
    BY <1>1 DEF SetCharge
  <2> QED BY <1>1, <2>1, SetsNone, StatesShaped DEF Sets
<1>2. CASE c \in HasCharge
  BY <1>2, SetChargeSets, SetChargeStates, StatesShaped DEF Sets
<1> QED
  BY <1>1, <1>2

\* What SetTenso gives on any channel, with a bridge or without.
LEMMA SetTensoAny ==
  ASSUME NEW s \in States, NEW c \in Channel, NEW v \in Bit
  PROVE  LET t == SetTenso(s, c, v)
         IN  /\ t \in States /\ Keeps(s[c].now, t[c].now, {"icp", "charge", "tenso"})
             /\ c \in HasIcp \ Zsp => t[c].now.tenso = v
             /\ c \in HasIcp \ Zsp /\ v = 1 => t[c].now.charge = 0 /\ t[c].now.icp = 1
             /\ c \notin HasIcp \ Zsp \/ v = 0
                  => t[c].now.charge = s[c].now.charge /\ t[c].now.icp = s[c].now.icp
<1>1. CASE c \notin HasIcp \ Zsp
  <2>1. SetTenso(s, c, v) = s
    BY <1>1 DEF SetTenso
  <2> QED BY <1>1, <2>1, SetsNone, StatesShaped DEF Sets
<1>2. CASE c \in HasIcp \ Zsp
  <2> DEFINE t == SetTenso(s, c, v)
  <2>1. /\ Sets(s, t, c, {"icp", "charge", "tenso"}) /\ t \in States
        /\ t[c].now.tenso = v
        /\ v # 0 => t[c].now.charge = 0 /\ t[c].now.icp = 1
        /\ v = 0 => t[c].now.charge = s[c].now.charge /\ t[c].now.icp = s[c].now.icp
    BY <1>2, SetTensoSets, SetTensoStates, StatesShaped
  <2> HIDE DEF t
  <2>2. /\ t \in States /\ Keeps(s[c].now, t[c].now, {"icp", "charge", "tenso"})
        /\ t[c].now.tenso = v
        /\ v = 1 => t[c].now.charge = 0 /\ t[c].now.icp = 1
        /\ v = 0 => t[c].now.charge = s[c].now.charge /\ t[c].now.icp = s[c].now.icp
    BY <2>1 DEF Sets
  <2> QED BY <1>2, <2>2 DEF t
<1> QED
  BY <1>1, <1>2

\* After the first fields: what RestoreHead sets stays, the filter brings a mode.
LEMMA RestoreHeadGives ==
  ASSUME NEW s \in States, NEW c \in Channel, NEW m \in Settings
  PROVE  LET n == RestoreHead(s, c, m)[c].now
         IN  /\ RestoreHead(s, c, m) \in States
             /\ n.on = m.on /\ n.hpf = m.hpf
             /\ \A f \in Text \ LateText : n.text[f] = m.text[f]
             /\ c \in Zsp => n.gain = m.gain
<1> DEFINE x == SetEnabled(s, c, m.on)
           y == RestoreTexts(x, c, m, Text \ LateText)
           z == SetHpf(y, c, m.hpf)
           t == RestoreHead(s, c, m)
<1>0. m.on \in Bit /\ m.hpf \in Bit /\ m.gain \in 0 .. MaxGain
  BY DEF Settings
<1>1. x \in States /\ x[c].now.on = m.on
  BY <1>0, SetEnabledStates, SetEnabledSets, StatesShaped
<1> HIDE DEF x
<1>2. /\ y \in States /\ Sets(x, y, c, {"text"})
      /\ y[c].now.text = Taken(x[c].now.text, m.text, Text \ LateText)
  BY <1>1, RestoreTextsStates, RestoreTextsSets, StatesShaped
<1> HIDE DEF y
<1>3. z \in States /\ Sets(y, z, c, {"hpf", "mode"}) /\ z[c].now.hpf = m.hpf
  BY <1>0, <1>2, SetHpfStates, SetHpfSets, StatesShaped
<1> HIDE DEF z
<1>4. /\ z[c].now.on = m.on /\ z[c].now.hpf = m.hpf
      /\ \A f \in Text \ LateText : z[c].now.text[f] = m.text[f]
  <2>1. z[c].now.on = m.on /\ z[c].now.text = y[c].now.text
    BY <1>1, <1>2, <1>3 DEF Sets, Keeps, Field, Flag
  <2> QED BY <2>1, <1>2, <1>3 DEF Taken
<1>5. t = IF c \in Zsp THEN SetGain(z, c, m.gain) ELSE z
  BY DEF RestoreHead, x, y, z
<1> HIDE DEF t
<1>6. CASE c \in Zsp
  <2>1. Sets(z, t, c, {"gain"}) /\ t \in States /\ t[c].now.gain = m.gain
    BY <1>0, <1>3, <1>5, <1>6, SetGainSets, SetGainStates, StatesShaped
  <2>2. t[c].now.on = z[c].now.on /\ t[c].now.hpf = z[c].now.hpf /\ t[c].now.text = z[c].now.text
    BY <2>1 DEF Sets, Keeps, Field, Flag
  <2> QED BY <1>4, <2>1, <2>2 DEF t
<1>7. CASE c \notin Zsp
  BY <1>3, <1>4, <1>5, <1>7 DEF t
<1> QED
  BY <1>6, <1>7

\* From the charge amplifier on: ICP and charge amplifier exclude one another, a
\* bridge needs ICP.
LEMMA RestoreTailGives ==
  ASSUME NEW s \in States, NEW c \in Channel, NEW m \in Settings, Consistent(c, m),
         Restorable(m), s[c].now.hpf = m.hpf, c \in HasIcp => s[c].now.icp = m.icp
  PROVE  LET n == RestoreTail(s, c, m)[c].now
         IN  /\ Keeps(s[c].now, n, {"icp", "charge", "tenso", "text", "mode"})
             /\ n.icp = m.icp /\ n.charge = m.charge /\ n.tenso = m.tenso /\ n.mode = m.mode
             /\ n.text = Taken(s[c].now.text, m.text, LateText)
<1> DEFINE x == SetCharge(s, c, m.charge)
           y == SetTenso(x, c, m.tenso)
           z == RestoreTexts(y, c, m, LateText)
           t == SetInputMode(z, c, m.mode)
<1>0. /\ m.charge \in Bit /\ m.tenso \in Bit /\ m.mode \in Mode /\ m.icp \in Bit /\ m.hpf \in Bit
      /\ m.icp = 0 \/ m.charge = 0
      /\ m.tenso = 1 => m.icp = 1
  BY DEF Settings, Restorable, Bit
<1>1. /\ x \in States /\ Keeps(s[c].now, x[c].now, {"icp", "charge"})
      /\ x[c].now.icp = m.icp /\ x[c].now.charge = m.charge
  <2>1. /\ x \in States /\ Keeps(s[c].now, x[c].now, {"icp", "charge"})
        /\ c \in HasCharge => x[c].now.charge = m.charge
        /\ m.charge = 0 => x[c].now.icp = s[c].now.icp
    BY <1>0, SetChargeAny
  <2>2. x[c].now \in Settings /\ Consistent(c, x[c].now) /\ Consistent(c, s[c].now)
    BY <2>1, NowIn, StatesShaped
  <2> HIDE DEF x
  <2>3. x[c].now.charge = m.charge
    BY <2>1, <2>2 DEF Consistent
  <2>4. x[c].now.icp = m.icp
    <3>1. CASE c \notin HasIcp
      BY <3>1, <2>2 DEF Consistent
    <3>2. CASE c \in HasIcp /\ m.charge = 0
      BY <3>2, <2>1
    <3>3. CASE c \in HasIcp /\ m.charge # 0
      <4>1. c \in HasCharge /\ m.icp = 0
        BY <3>3, <1>0 DEF Consistent
      <4>2. x[c].now.icp = 0
        BY <4>1, <3>3, <1>0, SetChargeSets, StatesShaped DEF x
      <4> QED BY <4>1, <4>2
    <3> QED BY <3>1, <3>2, <3>3
  <2> QED BY <2>1, <2>3, <2>4
<1> HIDE DEF x
<1>2. /\ y \in States /\ Keeps(x[c].now, y[c].now, {"icp", "charge", "tenso"})
      /\ y[c].now.icp = m.icp /\ y[c].now.charge = m.charge /\ y[c].now.tenso = m.tenso
  <2>1. /\ y \in States /\ Keeps(x[c].now, y[c].now, {"icp", "charge", "tenso"})
        /\ c \in HasIcp \ Zsp => y[c].now.tenso = m.tenso
        /\ c \in HasIcp \ Zsp /\ m.tenso = 1 => y[c].now.charge = 0 /\ y[c].now.icp = 1
        /\ c \notin HasIcp \ Zsp \/ m.tenso = 0
             => y[c].now.charge = x[c].now.charge /\ y[c].now.icp = x[c].now.icp
    BY <1>0, <1>1, SetTensoAny
  <2>2. Consistent(c, y[c].now)
    BY <2>1, StatesShaped
  <2> HIDE DEF y
  <2>3. y[c].now.tenso = m.tenso
    BY <2>1, <2>2 DEF Consistent
  <2>4. y[c].now.icp = m.icp /\ y[c].now.charge = m.charge
    BY <1>0, <1>1, <2>1 DEF Bit
  <2> QED BY <2>1, <2>3, <2>4
<1> HIDE DEF y
<1>3. /\ z \in States /\ Keeps(y[c].now, z[c].now, {"text"})
      /\ z[c].now.text = Taken(y[c].now.text, m.text, LateText)
  BY <1>2, RestoreTextsStates, RestoreTextsSets, StatesShaped DEF Sets
<1> HIDE DEF z
<1>4. /\ Keeps(z[c].now, t[c].now, {"mode"})
      /\ t[c].now.mode = IF c \notin HasInputMode THEN z[c].now.mode
                         ELSE IF z[c].now.hpf # 0 THEN 2 ELSE m.mode
  BY <1>0, <1>3, SetInputModeSets, StatesShaped DEF Sets
<1> HIDE DEF t
<1>5. z[c].now.hpf = m.hpf
  BY <1>1, <1>2, <1>3 DEF Keeps, Field, Flag
<1>6. t[c].now.mode = m.mode
  <2>1. CASE c \notin HasInputMode
    <3>1. Consistent(c, z[c].now)
      BY <1>3, StatesShaped
    <3> QED BY <2>1, <3>1, <1>4 DEF Consistent
  <2>2. CASE c \in HasInputMode
    BY <2>2, <1>0, <1>4, <1>5 DEF Consistent, Bit
  <2> QED BY <2>1, <2>2
<1>7. /\ t[c].now.icp = m.icp /\ t[c].now.charge = m.charge /\ t[c].now.tenso = m.tenso
      /\ t[c].now.text = z[c].now.text /\ y[c].now.text = s[c].now.text
  BY <1>1, <1>2, <1>3, <1>4 DEF Keeps, Field, Flag
<1>8. Keeps(s[c].now, t[c].now, {"icp", "charge", "tenso", "text", "mode"})
  BY <1>1, <1>2, <1>3, <1>4 DEF Keeps
<1>9. RestoreTail(s, c, m) = t
  BY DEF RestoreTail, x, y, z, t
<1> QED
  BY <1>3, <1>6, <1>7, <1>8, <1>9

\* Restoring gives every field of the snapshot back, the gain only to recorders.
LEMMA RestoreGives ==
  ASSUME NEW s \in States, NEW c \in Channel, NEW m \in Settings, Consistent(c, m),
         Restorable(m)
  PROVE  LET n == Restore(s, c, m)[c].now
         IN  /\ n \in Settings
             /\ \A f \in Field \ {"gain"} : n[f] = m[f]
             /\ c \in Zsp => n.gain = m.gain
<1> DEFINE x == RestoreHead(s, c, m)
           y == SetDiff(x, c, m.diff, TRUE)
           z == SetIcp(y, c, m.icp)
           n == RestoreTail(z, c, m)[c].now
<1>0. m.diff \in Bit /\ m.icp \in Bit /\ m.text \in [Text -> Value]
  BY DEF Settings
<1>1. /\ x \in States
      /\ x[c].now.on = m.on /\ x[c].now.hpf = m.hpf
      /\ \A f \in Text \ LateText : x[c].now.text[f] = m.text[f]
      /\ c \in Zsp => x[c].now.gain = m.gain
  BY RestoreHeadGives
<1> HIDE DEF x
<1>2. /\ y \in States /\ Keeps(x[c].now, y[c].now, {"diff"})
      /\ c \in HasDiff => y[c].now.diff = m.diff
  BY <1>0, <1>1, SetDiffAny
<1>3. y[c].now.diff = m.diff
  <2>1. Consistent(c, y[c].now)
    BY <1>2, StatesShaped
  <2> HIDE DEF y
  <2> QED BY <1>2, <2>1 DEF Consistent
<1> HIDE DEF y
<1>4. /\ z \in States /\ Keeps(y[c].now, z[c].now, {"icp", "charge"})
      /\ c \in HasIcp => z[c].now.icp = m.icp
  BY <1>0, <1>2, SetIcpAny
<1> HIDE DEF z
<1>5. z[c].now.hpf = m.hpf
  BY <1>1, <1>2, <1>4 DEF Keeps, Field, Flag
<1>6. /\ Keeps(z[c].now, n, {"icp", "charge", "tenso", "text", "mode"})
      /\ n.icp = m.icp /\ n.charge = m.charge /\ n.tenso = m.tenso /\ n.mode = m.mode
      /\ n.text = Taken(z[c].now.text, m.text, LateText)
  BY <1>4, <1>5, RestoreTailGives
<1>7. Restore(s, c, m)[c].now = n
  BY DEF Restore, x, y, z
<1> HIDE DEF n
<1>8. n.on = m.on /\ n.hpf = m.hpf /\ n.diff = m.diff /\ n.gain = x[c].now.gain
  BY <1>1, <1>2, <1>3, <1>4, <1>6 DEF Keeps, Field, Flag
<1>9. n.text = m.text
  <2>1. z[c].now.text = x[c].now.text
    BY <1>2, <1>4 DEF Keeps, Field, Flag
  <2>2. \A f \in Text : n.text[f] = m.text[f]
    BY <1>1, <1>6, <2>1 DEF Taken
  <2>3. n.text \in [Text -> Value]
    BY <1>6 DEF Keeps, Settings
  <2> QED BY <1>0, <2>2, <2>3
<1>10. n \in Settings
  BY <1>6 DEF Keeps
<1>11. \A f \in Field \ {"gain"} : n[f] = m[f]
  BY <1>6, <1>8, <1>9 DEF Field, Flag
<1> QED
  BY <1>1, <1>7, <1>8, <1>10, <1>11

\* Cancel and Escape restore the one channel of the page from its one snapshot.
LEMMA CancelGives ==
  ASSUME TabInv, gui = "open", ~Group, Restorable(mementos[1]), Cancel \/ Escape
  PROVE  Undone(members[1], mementos[1])
<1> DEFINE c == members[1]
           m == mementos[1]
           n == ch'[c].now
<1>1. c \in Channel /\ m \in Settings /\ Consistent(c, m) /\ ch \in States
  BY OpenedFacts DEF TabInv
<1>2. ch' = Restore(ch, c, m)
  BY DEF Cancel, Escape
<1>3. /\ n \in Settings
      /\ \A f \in Field \ {"gain"} : n[f] = m[f]
      /\ c \in Zsp => n.gain = m.gain
  BY <1>1, <1>2, RestoreGives
<1> HIDE DEF n
<1>4. CASE c \in Zsp
  <2>1. \A f \in Field : n[f] = m[f]
    BY <1>3, <1>4 DEF Field
  <2>2. n = m
    BY <1>1, <1>3, <2>1, SettingsEqual
  <2> QED BY <1>4, <2>2 DEF Undone, n
<1>5. CASE c \notin Zsp
  <2> DEFINE a == With(n, "gain", 0)
             b == With(m, "gain", 0)
  <2>1. 0 \in 0 .. MaxGain
    BY ChannelAssumption
  <2>2. a \in Settings /\ b \in Settings
    BY <1>1, <1>3, <2>1, GainTyped
  <2>3. Keeps(n, a, {"gain"}) /\ a.gain = 0 /\ Keeps(m, b, {"gain"}) /\ b.gain = 0
    BY <1>1, <1>3, <2>2, WithReads DEF Field
  <2> HIDE DEF a, b
  <2>4. \A f \in Field : a[f] = b[f]
    BY <1>3, <2>3 DEF Keeps
  <2>5. a = b
    BY <2>2, <2>4, SettingsEqual
  <2> QED BY <1>5, <2>5 DEF Undone, a, b, n, With
<1> QED
  BY <1>4, <1>5

\* Only Cancel and Escape close the page of a cancelled dialog.
LEMMA CancelsBy ==
  ASSUME TabNext, gui = "open", gui' = "cancelled"
  PROVE  Cancel \/ Escape
BY DEF TabNext, Open, EditName, EditComment, EditCoordinate, EditSense, EditUnit, EditLevel,
       Write, SelectResistance, SelectUnitSense, SelectUnit, TensoSettings, ClickHpf, ClickIcp,
       ClickCharge, ClickDiff, ClickSelfTest, ClickNoise, ClickState, ClickTenso, Click, Edit,
       StepRange, SelectSensor, StartTeds, TedsFails, TedsRead, Copy, Paste, Ok

\* Cancelling the page of one channel gives back every setting its snapshot holds,
\* whatever was edited, read from a sensor or pasted before.
THEOREM TabCancelUndoes == TabSpec => CancelUndoes
<1> DEFINE A == gui = "open" /\ gui' = "cancelled" /\ ~Group /\ Restorable(mementos[1])
                  => Undone(members[1], mementos[1])
<1>1. TabInit => TabInv
  BY TabInitInv
<1>2. TabInv /\ [TabNext]_tabVars => TabInv'
  BY TabNextInv
<1>3. TabInv /\ [TabNext]_tabVars => [A]_tabVars
  BY CancelsBy, CancelGives
<1> QED
  BY <1>1, <1>2, <1>3, PTL DEF TabSpec, CancelUndoes

----------------------------------------------------------------------------
\* The order of the list.

\* Rows are numbered from 1 and show channels or what channels belong to.
LEMMA RowsFacts ==
  /\ Len(Rows) \in Nat /\ Row = 1 .. Len(Rows)
  /\ \A i \in Row : Rows[i] \in Channel \/ \E c \in Channel : Module[c] = Rows[i]
BY CommandsAssumption DEF Row

\* Least is one of the numbers.
LEMMA LeastIn ==
  ASSUME NEW S \in SUBSET Nat, S # {}
  PROVE  Least(S) \in S
BY LeastNumber DEF Least

\* The number of elements with a lesser key.
Rank(S, K, x) == Cardinality({y \in S : K[y] < K[x]})

\* In a finite set with different keys there is an element of every rank.
LEMMA Ranks ==
  ASSUME NEW S, IsFiniteSet(S), NEW K \in [S -> Nat], \A x, y \in S : K[x] = K[y] => x = y
  PROVE  /\ Cardinality(S) \in Nat
         /\ \A k \in 1 .. Cardinality(S) : \E x \in S : Rank(S, K, x) = k - 1
<1> DEFINE n == Cardinality(S)
           Below(x) == {y \in S : K[y] < K[x]}
           r == [x \in S |-> Cardinality(Below(x))]
           Im == {r[x] : x \in S}
<1>1. n \in Nat
  BY FS_CardinalityType
<1>2. ASSUME NEW x \in S PROVE IsFiniteSet(Below(x)) /\ r[x] \in 0 .. (n - 1)
  <2>1. Below(x) \subseteq S /\ x \in S /\ x \notin Below(x)
    OBVIOUS
  <2> HIDE DEF Below
  <2>2. IsFiniteSet(Below(x)) /\ Cardinality(Below(x)) <= n /\ Below(x) # S
    BY <2>1, FS_Subset
  <2>3. Cardinality(Below(x)) # n
    BY <2>1, <2>2, FS_Subset
  <2>4. Cardinality(Below(x)) \in Nat
    BY <2>2, FS_CardinalityType
  <2>5. r[x] = Cardinality(Below(x))
    OBVIOUS
  <2> HIDE DEF r, n
  <2> QED BY <1>1, <2>2, <2>3, <2>4, <2>5
<1>3. ASSUME NEW x \in S, NEW y \in S, K[x] < K[y] PROVE r[x] # r[y]
  <2>1. Below(x) \subseteq Below(y) /\ x \in Below(y) /\ x \notin Below(x)
    BY <1>3
  <2>2. IsFiniteSet(Below(y))
    BY <1>2
  <2> HIDE DEF Below
  <2>3. Cardinality(Below(x)) # Cardinality(Below(y))
    BY <2>1, <2>2, FS_Subset
  <2> QED BY <2>3
<1>4. \A x, y \in S : r[x] = r[y] => x = y
  <2> SUFFICES ASSUME NEW x \in S, NEW y \in S, r[x] = r[y] PROVE x = y
    OBVIOUS
  <2> HIDE DEF r
  <2>1. K[x] \in Nat /\ K[y] \in Nat /\ ~ (K[x] < K[y]) /\ ~ (K[y] < K[x])
    BY <1>3
  <2> QED BY <2>1
<1>5. r \in Bijection(S, Im)
  <2>1. r \in [S -> Im]
    OBVIOUS
  <2> HIDE DEF r
  <2> QED BY <2>1, <1>4 DEF Bijection, Injection, IsInjective, Surjection
<1> HIDE DEF r
<1>6. ExistsBijection(S, Im)
  BY <1>5 DEF ExistsBijection
<1> HIDE DEF Im
<1>7. IsFiniteSet(Im) /\ Cardinality(Im) = n
  BY <1>6, FS_Bijection
<1>8. IsFiniteSet(0 .. (n - 1)) /\ Cardinality(0 .. (n - 1)) = n
  <2>1. n - 1 \in Int /\ 0 \in Int
    BY <1>1
  <2>2. /\ IsFiniteSet(0 .. (n - 1))
        /\ Cardinality(0 .. (n - 1)) = IF 0 > n - 1 THEN 0 ELSE (n - 1) - 0 + 1
    BY <2>1, FS_Interval
  <2> QED BY <1>1, <2>2
<1>9. Im = 0 .. (n - 1)
  <2>1. Im \subseteq 0 .. (n - 1)
    BY <1>2 DEF Im
  <2> QED BY <1>7, <1>8, <2>1, FS_Subset
<1>10. ASSUME NEW k \in 1 .. n PROVE \E x \in S : Rank(S, K, x) = k - 1
  <2>1. k - 1 \in Im
    BY <1>1, <1>9
  <2>2. PICK x \in S : r[x] = k - 1
    BY <2>1 DEF Im
  <2> QED BY <2>2 DEF r, Rank
<1> QED
  BY <1>1, <1>10

\* Sequences of channels by their elements.
LEMMA SequenceOpened ==
  ASSUME NEW n \in Nat \ {0}, NEW g, g = [k \in 1 .. n |-> g[k]],
         \A k \in 1 .. n : g[k] \in Channel
  PROVE  g \in Opened
<1>1. g \in [1 .. n -> Channel]
  OBVIOUS
<1>2. g \in Seq(Channel)
  BY <1>1
<1>3. Len(g) = n
  BY <1>1
<1> QED
  BY <1>2, <1>3 DEF Opened

\* A selected channel has a row of its own that is selected.
LEMMA PickedFacts ==
  ASSUME chosen \subseteq Row, NEW c \in Picked
  PROVE  c \in Channel /\ RowOf(c) \in Nat /\ Rows[RowOf(c)] = c
<1> DEFINE S == {i \in chosen : Rows[i] = c}
<1>1. c \in Channel /\ S # {}
  BY DEF Picked, IsChannel
<1>2. S \in SUBSET Nat
  <2>1. Row \subseteq Nat
    BY RowsFacts
  <2> QED BY <2>1
<1>3. RowOf(c) = Least(S)
  BY DEF RowOf
<1> HIDE DEF S
<1>4. RowOf(c) \in S
  BY <1>1, <1>2, <1>3, LeastIn
<1> QED
  BY <1>1, <1>2, <1>4 DEF S

\* The channels picked, or those of a device, as a window has them.
LEMMA PickedOpened ==
  ASSUME chosen \subseteq Row, Picked # {}
  PROVE  InOrder(Picked, RowOf) \in Opened
<1> DEFINE K == [c \in Picked |-> RowOf(c)]
           n == Cardinality(Picked)
           g == InOrder(Picked, RowOf)
<1>1. Picked \in SUBSET Channel /\ K \in [Picked -> Nat] /\ IsFiniteSet(Picked)
  BY PickedFacts, ChannelAssumption, FS_Subset
<1>2. \A x, y \in Picked : K[x] = K[y] => x = y
  BY PickedFacts
<1>3. n \in Nat \ {0}
  BY <1>1, FS_CardinalityType, FS_EmptySet
<1>4. ASSUME NEW x \in Picked
      PROVE  Cardinality({y \in Picked : RowOf(y) < RowOf(x)}) = Rank(Picked, K, x)
  <2>1. {y \in Picked : RowOf(y) < RowOf(x)} = {y \in Picked : K[y] < K[x]}
    OBVIOUS
  <2> QED BY <2>1 DEF Rank
<1>5. ASSUME NEW k \in 1 .. n PROVE g[k] \in Channel
  <2> DEFINE P(x) == Cardinality({y \in Picked : RowOf(y) < RowOf(x)}) = k - 1
  <2>1. \E x \in Picked : Rank(Picked, K, x) = k - 1
    <3> HIDE DEF K
    <3> QED BY <1>1, <1>2, Ranks
  <2>2. \E x \in Picked : P(x)
    BY <1>4, <2>1
  <2>3. g[k] = CHOOSE x \in Picked : P(x)
    BY DEF InOrder
  <2> HIDE DEF P, g
  <2>4. g[k] \in Picked
    BY <2>2, <2>3
  <2> QED BY <1>1, <2>4
<1>6. g = [k \in 1 .. n |-> g[k]]
  BY DEF InOrder
<1> HIDE DEF g, n
<1>7. g \in Opened
  BY <1>3, <1>5, <1>6, SequenceOpened
<1> QED
  BY <1>7 DEF g

\* The channels of a device.
LEMMA DeviceOpened ==
  ASSUME NEW m, \E c \in Channel : Module[c] = m
  PROVE  AllChannels(m) \in Opened
<1> DEFINE S == {c \in Channel : Module[c] = m}
           K == [c \in S |-> Number[c]]
           n == Cardinality(S)
           g == AllChannels(m)
<1>1. S \in SUBSET Channel /\ S # {} /\ K \in [S -> Nat] /\ IsFiniteSet(S)
  BY ChannelAssumption, FS_Subset
<1>2. \A x, y \in S : K[x] = K[y] => x = y
  BY ChannelAssumption
<1>3. n \in Nat \ {0}
  <2> HIDE DEF S
  <2> QED BY <1>1, FS_CardinalityType, FS_EmptySet
<1>4. ASSUME NEW x \in S
      PROVE  Cardinality({y \in S : Number[y] < Number[x]}) = Rank(S, K, x)
  <2>1. {y \in S : Number[y] < Number[x]} = {y \in S : K[y] < K[x]}
    OBVIOUS
  <2> HIDE DEF S, K
  <2> QED BY <2>1 DEF Rank
<1>5. ASSUME NEW k \in 1 .. n PROVE g[k] \in Channel
  <2> DEFINE P(x) == Cardinality({y \in S : Number[y] < Number[x]}) = k - 1
  <2>1. \E x \in S : Rank(S, K, x) = k - 1
    <3> HIDE DEF K, S
    <3> QED BY <1>1, <1>2, Ranks
  <2>2. \E x \in S : P(x)
    <3> HIDE DEF S, K
    <3> QED BY <1>4, <2>1
  <2>3. g[k] = CHOOSE x \in S : P(x)
    BY DEF AllChannels, InOrder
  <2> HIDE DEF P, g, S
  <2>4. g[k] \in S
    BY <2>2, <2>3
  <2> QED BY <1>1, <2>4
<1>6. g = [k \in 1 .. n |-> g[k]]
  <2> DEFINE e(k) == CHOOSE x \in S : Cardinality({y \in S : Number[y] < Number[x]}) = k - 1
  <2>1. g = [k \in 1 .. n |-> e(k)]
    BY DEF AllChannels, InOrder
  <2> HIDE DEF e, g, n
  <2> QED BY <2>1
<1> HIDE DEF g, n
<1>7. g \in Opened
  BY <1>3, <1>5, <1>6, SequenceOpened
<1> QED
  BY <1>7 DEF g

----------------------------------------------------------------------------
\* The commands.

\* A menu changes no setting.
LEMMA AfterMenuKeeps ==
  ASSUME ch \in States, NEW c \in Channel
  PROVE  AfterMenu(c) \in States /\ \A d \in Channel : AfterMenu(c)[d].now = ch[d].now
BY AdaptStates DEF AfterMenu

\* The commands on one channel change what they are about.
LEMMA ToggleGives ==
  ASSUME ch \in States, NEW c \in Channel
  PROVE  Toggle(c) \in States /\ Sets(ch, Toggle(c), c, {"on"})
<1> DEFINE s == AfterMenu(c)
           v == 1 - ch[c].now.on
<1>1. s \in States /\ \A d \in Channel : s[d].now = ch[d].now
  BY AfterMenuKeeps
<1>2. v \in Bit
  BY NowIn, StatesShaped DEF Settings, Bit
<1>3. Toggle(c) = SetEnabled(s, c, v)
  BY DEF Toggle
<1> HIDE DEF s, v
<1>4. SetEnabled(s, c, v) \in States /\ Sets(s, SetEnabled(s, c, v), c, {"on"})
  BY <1>1, <1>2, SetEnabledStates, SetEnabledSets, StatesShaped
<1> QED
  BY <1>1, <1>3, <1>4 DEF Sets, Only

\* The AC/DC command on one channel gives consistent states.
LEMMA AcDcGives ==
  ASSUME ch \in States, NEW c \in Channel
  PROVE  SetHpf(AfterMenu(c), c, 1 - ch[c].now.hpf) \in States
<1>1. 1 - ch[c].now.hpf \in Bit
  BY NowIn, StatesShaped DEF Settings, Bit
<1> QED
  BY <1>1, AfterMenuKeeps, SetHpfStates

\* Switching the ICP of a channel that has ICP.
LEMMA SwitchIcpGives ==
  ASSUME ch \in States, NEW c \in Channel
  PROVE  LET v == 1 - ch[c].now.icp
         IN  /\ SwitchIcp(c, v) \in States
             /\ Only(ch, SwitchIcp(c, v), c)
             /\ c \in HasIcp => SwitchIcp(c, v)[c].now.icp # ch[c].now.icp
<1> DEFINE v == 1 - ch[c].now.icp
           s == AfterMenu(c)
           icp == SetIcp(s, c, v)
           hpf == SetHpf(icp, c, v)
<1>1. s \in States /\ \A d \in Channel : s[d].now = ch[d].now
  BY AfterMenuKeeps
<1>2. v \in Bit /\ v # ch[c].now.icp
  BY NowIn, StatesShaped DEF Settings, Bit
<1>3. SwitchIcp(c, v) \in {icp, hpf}
  BY DEF SwitchIcp
<1> HIDE DEF s, v
<1>4. icp \in States /\ Only(s, icp, c) /\ (c \in HasIcp => icp[c].now.icp = v)
  <2>1. CASE c \in HasIcp
    BY <2>1, <1>1, <1>2, SetIcpStates, SetIcpSets, StatesShaped DEF Sets
  <2>2. CASE c \notin HasIcp
    <3>1. icp = s
      BY <2>2 DEF SetIcp
    <3> QED BY <2>2, <3>1, <1>1, OnlyNone, StatesShaped
  <2> QED BY <2>1, <2>2
<1> HIDE DEF icp
<1>5. hpf \in States /\ Sets(icp, hpf, c, {"hpf", "mode"})
  BY <1>2, <1>4, SetHpfStates, SetHpfSets, StatesShaped
<1> HIDE DEF hpf
<1>6. Only(s, hpf, c) /\ hpf[c].now.icp = icp[c].now.icp
  <2>1. Only(icp, hpf, c)
    BY <1>5 DEF Sets
  <2>2. Only(s, hpf, c)
    BY <1>1, <1>4, <2>1, OnlyTwice, StatesShaped
  <2>3. hpf[c].now.icp = icp[c].now.icp
    BY <1>5 DEF Sets, Keeps, Field, Flag
  <2> QED BY <2>2, <2>3
<1>7. Only(ch, icp, c) /\ Only(ch, hpf, c)
  BY <1>1, <1>4, <1>6 DEF Only
<1>8. /\ SwitchIcp(c, v) \in States /\ Only(ch, SwitchIcp(c, v), c)
      /\ c \in HasIcp => SwitchIcp(c, v)[c].now.icp # ch[c].now.icp
  BY <1>2, <1>3, <1>4, <1>5, <1>6, <1>7
<1> QED
  BY <1>8 DEF v

\* The charge command gives consistent states and the other setting.
LEMMA ChargeGives ==
  ASSUME ch \in States, NEW c \in HasCharge
  PROVE  LET t == SetCharge(AfterMenu(c), c, 1 - ch[c].now.charge)
         IN  t \in States /\ t[c].now.charge # ch[c].now.charge
<1>0. c \in Channel
  BY ChannelAssumption
<1> DEFINE v == 1 - ch[c].now.charge
           s == AfterMenu(c)
<1>1. s \in States
  BY <1>0, AfterMenuKeeps
<1>2. v \in Bit /\ v # ch[c].now.charge
  BY <1>0, NowIn, StatesShaped DEF Settings, Bit
<1> HIDE DEF v, s
<1>3. SetCharge(s, c, v) \in States /\ SetCharge(s, c, v)[c].now.charge = v
  BY <1>0, <1>1, <1>2, SetChargeStates, SetChargeSets, StatesShaped
<1> QED
  BY <1>2, <1>3 DEF v, s

\* A mask made of selected channels names no other channel.
LEMMA MaskPicked ==
  ASSUME NEW m, NEW mask \in SUBSET PickedMask(m)
  PROVE  Masked(m, mask) \subseteq Picked
<1> SUFFICES ASSUME NEW d \in Masked(m, mask) PROVE d \in Picked
  OBVIOUS
<1>1. d \in Channel /\ Module[d] = m /\ Number[d] \in mask
  BY DEF Masked
<1>2. PICK c \in PickedOf(m) : Number[c] = Number[d]
  BY <1>1 DEF PickedMask
<1>3. c \in Picked /\ Module[c] = m /\ c \in Channel
  BY <1>2 DEF PickedOf, Picked, IsChannel
<1> QED
  BY <1>1, <1>2, <1>3, ChannelAssumption

\* States like ch but for what the selected channels are set to.
Kept == {t \in States : \A c \in Channel \ Picked : t[c].now = ch[c].now}

\* Several channels on or off.
LEMMA SwitchToldGives ==
  ASSUME ch \in States, NEW v \in Bit
  PROVE  /\ SwitchTold(v) \in Kept
         /\ \A c \in Channel : Keeps(ch[c].now, SwitchTold(v)[c].now, {"on"})
         /\ \A c \in Picked \cap Zsp : SwitchTold(v)[c].file = SwitchTold(v)[c].now
<1> DEFINE S == UNION {Masked(Module[c], OnOffMask(Module[c])) : c \in Picked}
           s == SwitchMasked(v)
           t == PutAll(s, Told, "on", v)
<1>1. S \subseteq Picked /\ Told \subseteq Picked /\ Picked \subseteq Channel
  <2>1. ASSUME NEW m PROVE OnOffMask(m) \in SUBSET PickedMask(m)
    BY DEF OnOffMask
  <2>2. S \subseteq Picked
    BY <2>1, MaskPicked
  <2> QED BY <2>2 DEF Told, Picked, IsChannel
<1>2. \E first : s \in {ch, Save(ch, first), PutAll(ch, S, "on", v)}
  BY DEF SwitchMasked
<1> HIDE DEF S, s
<1>3. AllWith(ch, PutAll(ch, S, "on", v), S, "on", v)
  BY PutMany, FlagTyped, NowIn, StatesShaped DEF Flag
<1>4. PutAll(ch, S, "on", v) \in States
  BY <1>3, AllWithOn
<1>5. ASSUME NEW c \in Channel
      PROVE  /\ Keeps(ch[c].now, PutAll(ch, S, "on", v)[c].now, {"on"})
             /\ c \notin Picked => PutAll(ch, S, "on", v)[c].now = ch[c].now
  <2>0. ch[c].now \in Settings /\ With(ch[c].now, "on", v) \in Settings
    BY FlagTyped, NowIn, StatesShaped DEF Flag
  <2>1. Keeps(ch[c].now, With(ch[c].now, "on", v), {"on"}) /\ Keeps(ch[c].now, ch[c].now, {"on"})
    <3>1. Keeps(ch[c].now, With(ch[c].now, "on", v), {"on"})
      BY <2>0, WithReads DEF Flag, Field
    <3>2. Keeps(ch[c].now, ch[c].now, {"on"})
      BY <2>0 DEF Keeps
    <3> QED BY <3>1, <3>2
  <2> QED BY <1>1, <1>3, <2>1 DEF AllWith
<1>6. /\ s \in States
      /\ \A c \in Channel : /\ Keeps(ch[c].now, s[c].now, {"on"})
                            /\ c \notin Picked => s[c].now = ch[c].now
  <2>1. CASE s = ch
    BY <2>1, NowIn, StatesShaped DEF Keeps
  <2>2. CASE \E first : s = Save(ch, first)
    BY <2>2, Saved, SaveAllStates, NowIn, StatesShaped DEF Save, Keeps
  <2>3. CASE s = PutAll(ch, S, "on", v)
    BY <2>3, <1>4, <1>5
  <2> QED BY <1>2, <2>1, <2>2, <2>3
<1>7. AllWith(s, t, Told, "on", v)
  BY <1>6, PutMany, FlagTyped, NowIn, StatesShaped DEF Flag
<1> HIDE DEF t
<1>8. t \in States
  BY <1>6, <1>7, AllWithOn
<1>9. ASSUME NEW c \in Channel
      PROVE  /\ Keeps(ch[c].now, t[c].now, {"on"})
             /\ c \notin Picked => t[c].now = ch[c].now
  <2>1. Keeps(s[c].now, With(s[c].now, "on", v), {"on"}) /\ Keeps(ch[c].now, s[c].now, {"on"})
    BY <1>6, FlagTyped, NowIn, StatesShaped, WithReads DEF Flag, Field
  <2>2. Keeps(s[c].now, t[c].now, {"on"}) \/ t[c].now = s[c].now
    BY <1>7, <2>1 DEF AllWith
  <2>3. Keeps(ch[c].now, t[c].now, {"on"})
    BY <2>1, <2>2 DEF Keeps
  <2> QED BY <1>1, <1>6, <1>7, <2>3 DEF AllWith
<1>10. SwitchTold(v) = SaveAll(t, Told)
  BY DEF SwitchTold, s, t
<1>11. /\ SaveAll(t, Told) \in States
       /\ \A c \in Channel : SaveAll(t, Told)[c].now = t[c].now
  BY <1>8, Saved, SaveAllStates, StatesShaped
<1>12. ASSUME NEW c \in Picked \cap Zsp
       PROVE  SaveAll(t, Told)[c].file = SaveAll(t, Told)[c].now
  <2>1. c \in Told /\ c \in Channel
    BY <1>1 DEF Told
  <2>2. SaveAll(t, Told)[c] = [t[c] EXCEPT !.file = t[c].now] /\ t[c] \in ChannelState
    BY <1>8, <2>1, NowIn, StatesShaped DEF SaveAll
  <2> QED BY <2>2 DEF ChannelState
<1> QED
  BY <1>9, <1>10, <1>11, <1>12 DEF Kept

\* Filters of several channels.
LEMMA SwitchFilterGives ==
  ASSUME ch \in States
  PROVE  /\ SwitchFilter \in Kept
         /\ \A c \in Picked \cap Zsp : SwitchFilter[c].file = SwitchFilter[c].now
<1> DEFINE v == IF AreSelectedChannelsHPF THEN 0 ELSE 1
           those == {c \in Picked : ch[c].now.hpf = 1 - v}
           t == ForEach(ch, those, LAMBDA s, c : SetHpf(s, c, v))
<1>1. v \in Bit /\ those \subseteq Picked /\ Picked \subseteq Channel
  BY DEF Bit, Picked, IsChannel
<1>2. SwitchFilter = SaveAll(t, Picked)
  BY DEF SwitchFilter
<1> HIDE DEF v, those
<1>3. t \in States
  BY <1>1, HpfEachStates
<1>4. \A c \in Channel \ Picked : t[c] = ch[c]
  BY <1>1 DEF ForEach
<1> HIDE DEF t
<1>5. /\ SaveAll(t, Picked) \in States
      /\ \A c \in Channel : SaveAll(t, Picked)[c].now = t[c].now
  BY <1>3, Saved, SaveAllStates, StatesShaped
<1>6. ASSUME NEW c \in Picked \cap Zsp
      PROVE  SaveAll(t, Picked)[c].file = SaveAll(t, Picked)[c].now
  <2>1. SaveAll(t, Picked)[c] = [t[c] EXCEPT !.file = t[c].now] /\ t[c] \in ChannelState
    BY <1>1, <1>3, NowIn, StatesShaped DEF SaveAll
  <2> QED BY <2>1 DEF ChannelState
<1> QED
  BY <1>2, <1>4, <1>5, <1>6 DEF Kept

\* The first part of IcpOfSeveral.
RecordersTold(s, v) == InTurn(s, Len(Rows), LAMBDA t, i : RecorderIcp(t, i, v))

\* As PasteTurns, for the recorders that IcpRequestMoreChannel passes.
LEMMA RecorderIcpTurns ==
  ASSUME NEW G, NEW s \in G, NEW v,
         \A t \in G, i \in 1 .. Len(Rows) : RecorderIcp(t, i, v) \in G
  PROVE  RecordersTold(s, v) \in G
<1> DEFINE n == Len(Rows)
           E(g) == g = [i \in 0 .. n |-> IF i = 0 THEN s ELSE RecorderIcp(g[i - 1], i, v)]
           upTo == CHOOSE g : E(g)
           R == [x \in G \X (1 .. n) |-> RecorderIcp(x[1], x[2], v)]
<1>0. n \in Nat
  BY RowsFacts
<1>1. PICK g : Follows(g, s, n, R)
  BY <1>0, Steps
<1>2. R \in [G \X (1 .. n) -> G]
  OBVIOUS
<1>3. \A i \in 0 .. n : g[i] \in G
  <2> HIDE DEF R, n
  <2> QED BY <1>0, <1>1, <1>2, StepsWithin
<1>4. E(g)
  <2>1. ASSUME NEW i \in 0 .. n PROVE g[i] = IF i = 0 THEN s ELSE RecorderIcp(g[i - 1], i, v)
    <3>1. CASE i = 0
      BY <1>1, <3>1 DEF Follows
    <3>2. CASE i # 0
      <4>1. i \in 1 .. n /\ g[i - 1] \in G
        BY <1>0, <1>3, <3>2
      <4>2. g[i] = R[<< g[i - 1], i >>]
        <5> HIDE DEF R, n
        <5> QED BY <1>1, <3>2 DEF Follows
      <4> QED BY <4>1, <4>2, <3>2
    <3> QED BY <3>1, <3>2
  <2>2. g = [i \in 0 .. n |-> g[i]]
    BY <1>1 DEF Follows
  <2> QED BY <2>1, <2>2
<1>5. E(upTo)
  BY <1>4
<1>6. RecordersTold(s, v) = upTo[n]
  BY DEF RecordersTold, InTurn
<1> HIDE DEF upTo
<1>7. upTo[0] \in G
  BY <1>0, <1>5
<1>8. ASSUME NEW i \in 1 .. n, upTo[i - 1] \in G PROVE upTo[i] \in G
  <2>1. upTo[i] = RecorderIcp(upTo[i - 1], i, v)
    BY <1>0, <1>5
  <2> QED BY <1>8, <2>1
<1>9. upTo[n] \in G
  <2>1. n \in Nat /\ n \in 0 .. n
    BY <1>0
  <2> HIDE DEF n
  <2> QED BY <1>7, <1>8, <2>1, Climbed
<1> QED
  BY <1>6, <1>9

\* ICP for one row of a recorder changes no channel outside the selection.
LEMMA RecorderIcpKept ==
  ASSUME ch \in States, NEW t \in Kept, NEW i \in 1 .. Len(Rows), NEW v \in Bit
  PROVE  RecorderIcp(t, i, v) \in Kept
<1>1. CASE ~(i \in chosen /\ Rows[i] \in Zsp)
  BY <1>1 DEF RecorderIcp
<1>2. CASE i \in chosen /\ Rows[i] \in Zsp
  <2> DEFINE c == Rows[i]
             x == SetHpf(t, c, v)
             y == SetIcp(x, c, v)
  <2>1. c \in Channel /\ c \in Picked /\ t \in States
    BY <1>2, ChannelAssumption DEF Picked, IsChannel, Kept
  <2>2. RecorderIcp(t, i, v) = y
    BY <1>2 DEF RecorderIcp
  <2> HIDE DEF c
  <2>3. x \in States /\ Sets(t, x, c, {"hpf", "mode"})
    BY <2>1, SetHpfStates, SetHpfSets, StatesShaped
  <2> HIDE DEF x
  <2>4. y \in States /\ Only(x, y, c)
    <3>1. CASE c \in HasIcp
      BY <3>1, <2>1, <2>3, SetIcpStates, SetIcpSets, StatesShaped DEF Sets
    <3>2. CASE c \notin HasIcp
      <4>1. y = x
        BY <3>2 DEF SetIcp
      <4> QED BY <4>1, <2>1, <2>3, OnlyNone, StatesShaped
    <3> QED BY <3>1, <3>2
  <2> HIDE DEF y
  <2>5. \A d \in Channel \ {c} : y[d].now = t[d].now
    BY <2>3, <2>4 DEF Sets, Only
  <2> QED BY <2>1, <2>2, <2>4, <2>5 DEF Kept
<1> QED
  BY <1>1, <1>2

\* ICP of several channels, of recorders and through masks.
LEMMA IcpOfSeveralKept ==
  ASSUME ch \in States, NEW v \in Bit
  PROVE  IcpOfSeveral(v) \in Kept
<1> DEFINE first == FirstOf(Picked)
           modules == {Module[c] : c \in Picked \ Zsp}
           masks == [m \in modules |-> PickedMask(m)]
           zsp == RecordersTold(ch, v)
           saved == Save(zsp, first)
           icp == SetIcpMask(saved, first, masks, v)
           those == {c \in Picked : icp[c].now.mode \notin {1, 3}}
           t == ForEach(icp, those, LAMBDA s, c : SetHpf(s, c, 1))
<1>1. IcpOfSeveral(v) = t
  BY DEF IcpOfSeveral, RecordersTold
<1>2. zsp \in Kept
  <2>1. ch \in Kept
    BY DEF Kept
  <2>2. \A s \in Kept, i \in 1 .. Len(Rows) : RecorderIcp(s, i, v) \in Kept
    BY RecorderIcpKept
  <2> QED BY <2>1, <2>2, RecorderIcpTurns
<1> HIDE DEF zsp, first
<1>3. saved \in Kept
  BY <1>2, Saved, SaveAllStates, StatesShaped DEF Save, Kept
<1> HIDE DEF saved
<1>4. icp \in Kept
  <2> DEFINE S == HasIcp \cap UNION {Masked(m, PickedMask(m)) : m \in modules}
  <2>1. icp \in {saved, Save(saved, first), PutAll(saved, S, "icp", v)}
    BY DEF SetIcpMask
  <2>2. S \subseteq Picked /\ S \subseteq HasIcp
    BY MaskPicked
  <2> HIDE DEF S, icp
  <2>3. Save(saved, first) \in Kept
    BY <1>3, Saved, SaveAllStates, StatesShaped DEF Save, Kept
  <2>4. PutAll(saved, S, "icp", v) \in States
    BY <1>3, <2>2, PutIcpStates DEF Kept
  <2>5. AllWith(saved, PutAll(saved, S, "icp", v), S, "icp", v)
    BY <1>3, PutMany, FlagTyped, NowIn, StatesShaped DEF Flag, Kept
  <2>6. PutAll(saved, S, "icp", v) \in Kept
    BY <1>3, <2>2, <2>4, <2>5 DEF AllWith, Kept
  <2> QED BY <1>3, <2>1, <2>3, <2>6
<1>5. those \subseteq Picked
  OBVIOUS
<1> HIDE DEF icp, those
<1>6. t \in States
  BY <1>4, HpfEachStates DEF Kept, Bit
<1>7. \A c \in Channel \ Picked : t[c] = icp[c]
  BY <1>5 DEF ForEach
<1> HIDE DEF t
<1> QED
  BY <1>1, <1>4, <1>6, <1>7 DEF Kept

----------------------------------------------------------------------------
\* The main dialog.

\* Mark and selection are rows.
Chosen == chosen \subseteq Row /\ mark \in Row \cup {0} /\ item \in Row \cup {0}

Switches == save \in BOOLEAN /\ modified \in BOOLEAN /\ timer \in BOOLEAN /\ owed \in BOOLEAN

CommandsInv == TabInv /\ Chosen /\ Switches /\ SaveUnderWay

\* The server announces a change of any field but the filter and the mode.
LEMMA AnnouncedBy ==
  ASSUME ch \in States, NEW s \in States, NEW c \in Channel \ Zsp,
         NEW f \in Field \ {"hpf", "mode"}, s[c].now[f] # ch[c].now[f]
  PROVE  Announced(s, c)
<1> DEFINE n == ch[c].now
           m == s[c].now
           Bare(x) == [x EXCEPT !.hpf = 0, !.mode = 0]
<1>1. n \in Settings /\ m \in Settings
  BY NowIn, StatesShaped
<1>2. ASSUME NEW x \in Settings PROVE Bare(x)[f] = x[f]
  BY DEF Settings, Field, Flag
<1>3. Announced(s, c) <=> Bare(m) # Bare(n)
  BY DEF Announced
<1> HIDE DEF Bare
<1>4. n[f] # m[f]
  OBVIOUS
<1> HIDE DEF n, m
<1> QED
  BY <1>1, <1>2, <1>3, <1>4

\* A command leaves page and selection alone, and what it changed is announced.
LEMMA ChangedGives ==
  ASSUME CommandsInv, NEW s \in States, Changed(s)
  PROVE  /\ TabInv' /\ Chosen' /\ modified' \in BOOLEAN /\ timer' = timer
         /\ ch' = s /\ (modified => modified')
         /\ (\E c \in Channel : Announced(s, c)) => modified'
<1>1. /\ ch' = s /\ timer' = timer
      /\ UNCHANGED << gui, members, cur, mementos, form, clip >>
      /\ UNCHANGED << chosen, mark, item >>
      /\ modified' \in IF \E c \in Channel : Announced(s, c) THEN {TRUE} ELSE {modified, TRUE}
  BY DEF Changed
<1>2. TabInv'
  BY <1>1 DEF CommandsInv, TabInv
<1>3. Chosen'
  BY <1>1 DEF CommandsInv, Chosen, Row
<1>4. modified' \in BOOLEAN /\ (modified => modified')
  BY <1>1 DEF CommandsInv, Switches
<1>5. (\E c \in Channel : Announced(s, c)) => modified'
  BY <1>1
<1> QED
  BY <1>1, <1>2, <1>3, <1>4, <1>5

\* If whatever has to be saved was announced, it will be.
LEMMA UnsavedInv ==
  ASSUME CommandsInv, NEW s \in States, Changed(s), save' = TRUE, Unsaved,
         (\E c \in Channel \ Zsp : s[c].now # ch[c].now) => \E c \in Channel : Announced(s, c)
  PROVE  CommandsInv'
<1> DEFINE more == \E c \in Channel \ Zsp : s[c].now # ch[c].now
           told == \E c \in Channel : Announced(s, c)
<1>1. /\ TabInv' /\ Chosen' /\ modified' \in BOOLEAN /\ timer' = timer
      /\ ch' = s /\ (modified => modified') /\ (told => modified')
  BY ChangedGives
<1>2. owed' = (owed \/ more)
  BY <1>1 DEF Unsaved
<1>3. more => told
  OBVIOUS
<1> HIDE DEF more, told
<1>4. Switches'
  BY <1>1, <1>2 DEF Switches, CommandsInv
<1>5. SaveUnderWay'
  <2>1. owed' => owed \/ more
    BY <1>2
  <2>2. owed => timer \/ modified
    BY DEF CommandsInv, SaveUnderWay
  <2> QED BY <1>1, <1>3, <2>1, <2>2, Zenon DEF SaveUnderWay
<1> QED
  BY <1>1, <1>4, <1>5 DEF CommandsInv

\* A command that changes consistent channels and starts the save keeps the invariant.
LEMMA SavedInv ==
  ASSUME CommandsInv, NEW s \in States, Changed(s), SavedAtOnce
  PROVE  CommandsInv'
BY ChangedGives DEF CommandsInv, Switches, SaveUnderWay, SavedAtOnce

\* One lemma per command: it keeps CommandsInv.
LEMMA DisableInv ==
  ASSUME CommandsInv, DisableRequest
  PROVE  CommandsInv'
<1> DEFINE c == Rows[item]
           s == Toggle(c)
<1>1. c \in Channel /\ Changed(s) /\ save' = TRUE /\ Unsaved
  BY DEF DisableRequest, One, IsChannel
<1>2. ch \in States
  BY DEF CommandsInv, TabInv
<1> HIDE DEF c
<1>3. s \in States /\ Sets(ch, s, c, {"on"})
  BY <1>1, <1>2, ToggleGives
<1> HIDE DEF s
<1>4. ASSUME NEW d \in Channel \ Zsp, s[d].now # ch[d].now PROVE Announced(s, d)
  <2>1. d = c
    BY <1>3, <1>4 DEF Sets, Only
  <2>2. ch[d].now \in Settings /\ s[d].now \in Settings
    BY <1>2, <1>3, NowIn, StatesShaped
  <2>3. PICK f \in Field : ch[d].now[f] # s[d].now[f]
    BY <1>4, <2>2, SettingsEqual
  <2>4. f \notin {"hpf", "mode"}
    BY <1>3, <2>1, <2>3 DEF Sets, Keeps, Field, Flag
  <2> QED BY <1>2, <1>3, <2>3, <2>4, AnnouncedBy
<1> QED
  BY <1>1, <1>3, <1>4, UnsavedInv

\* The ICP command keeps the invariant.
LEMMA IcpInv ==
  ASSUME CommandsInv, IcpRequest
  PROVE  CommandsInv'
<1> DEFINE c == Rows[item]
           s == SwitchIcp(c, 1 - ch[c].now.icp)
<1>1. c \in Channel /\ Changed(s) /\ save' = TRUE /\ Unsaved /\ "icp" \in OneMenu(c)
  BY DEF IcpRequest, One, IsChannel
<1>2. ch \in States
  BY DEF CommandsInv, TabInv
<1> HIDE DEF c
<1>3. c \in HasIcp
  BY <1>1 DEF OneMenu
<1>4. s \in States /\ Only(ch, s, c) /\ s[c].now.icp # ch[c].now.icp
  BY <1>1, <1>2, <1>3, SwitchIcpGives
<1> HIDE DEF s
<1>5. ASSUME NEW d \in Channel \ Zsp, s[d].now # ch[d].now PROVE Announced(s, d)
  <2>1. d = c
    BY <1>4, <1>5 DEF Only
  <2> QED BY <1>2, <1>4, <2>1, AnnouncedBy DEF Field, Flag
<1> QED
  BY <1>1, <1>4, <1>5, UnsavedInv

\* The charge command keeps the invariant.
LEMMA ChargeInv ==
  ASSUME CommandsInv, ChargeRequest
  PROVE  CommandsInv'
<1> DEFINE c == Rows[item]
           s == SetCharge(AfterMenu(c), c, 1 - ch[c].now.charge)
<1>1. c \in Channel /\ Changed(s) /\ save' = TRUE /\ Unsaved /\ "charge" \in OneMenu(c)
  BY DEF ChargeRequest, One, IsChannel
<1>2. ch \in States
  BY DEF CommandsInv, TabInv
<1> HIDE DEF c
<1>3. c \in HasCharge /\ c \notin Zsp
  BY <1>1, ChannelAssumption DEF OneMenu
<1>4. s \in States /\ s[c].now.charge # ch[c].now.charge
  BY <1>2, <1>3, ChargeGives
<1> HIDE DEF s
<1>5. Announced(s, c)
  BY <1>1, <1>2, <1>3, <1>4, AnnouncedBy DEF Field, Flag
<1> QED
  BY <1>1, <1>4, <1>5, UnsavedInv

\* The AC/DC command keeps the invariant.
LEMMA AcDcInv ==
  ASSUME CommandsInv, AcDcRequest
  PROVE  CommandsInv'
<1> DEFINE c == Rows[item]
           s == SetHpf(AfterMenu(c), c, 1 - ch[c].now.hpf)
<1>1. c \in Channel /\ Changed(s) /\ SavedAtOnce
  BY DEF AcDcRequest, One, IsChannel
<1>2. s \in States
  BY <1>1, AcDcGives DEF CommandsInv, TabInv
<1> QED
  BY <1>1, <1>2, SavedInv

\* Switching several channels on or off keeps the invariant.
LEMMA DisableManyInv ==
  ASSUME CommandsInv, DisableRequestMoreChannel
  PROVE  CommandsInv'
<1> DEFINE v == IF AreSelectedChannelsEnabled THEN 0 ELSE 1
           s == SwitchTold(v)
<1>1. Changed(s) /\ save' = TRUE /\ Unsaved
  BY DEF DisableRequestMoreChannel, Many
<1>2. ch \in States /\ v \in Bit
  BY DEF CommandsInv, TabInv, Bit
<1> HIDE DEF v
<1>3. s \in States /\ \A c \in Channel : Keeps(ch[c].now, s[c].now, {"on"})
  BY <1>2, SwitchToldGives DEF Kept
<1> HIDE DEF s
<1>4. ASSUME NEW d \in Channel \ Zsp, s[d].now # ch[d].now PROVE Announced(s, d)
  <2>1. ch[d].now \in Settings /\ s[d].now \in Settings
    BY <1>2, <1>3, NowIn, StatesShaped
  <2>2. PICK f \in Field : ch[d].now[f] # s[d].now[f]
    BY <1>4, <2>1, SettingsEqual
  <2>3. f \notin {"hpf", "mode"}
    BY <1>3, <2>2 DEF Keeps, Field, Flag
  <2> QED BY <1>2, <1>3, <2>2, <2>3, AnnouncedBy
<1> QED
  BY <1>1, <1>3, <1>4, UnsavedInv

\* AC/DC for several channels keeps the invariant.
LEMMA AcDcManyInv ==
  ASSUME CommandsInv, AcDcRequestMoreChannel
  PROVE  CommandsInv'
<1>1. Changed(SwitchFilter) /\ SavedAtOnce
  BY DEF AcDcRequestMoreChannel, Many
<1>2. SwitchFilter \in States
  BY SwitchFilterGives DEF CommandsInv, TabInv, Kept
<1> QED
  BY <1>1, <1>2, SavedInv

\* ICP for several channels keeps the invariant, whichever of them have it.
LEMMA IcpManyInv ==
  ASSUME CommandsInv, IcpRequestMoreChannel
  PROVE  CommandsInv'
<1> DEFINE v == IF AreSelectedChannelsICP THEN 0 ELSE 1
           s == IcpOfSeveral(v)
<1>1. /\ Changed(s) /\ save' = TRUE
      /\ IF \E c \in Channel : Announced(ch', c) THEN Unsaved ELSE UNCHANGED owed
  BY DEF IcpRequestMoreChannel, Many
<1>2. ch \in States /\ v \in Bit
  BY DEF CommandsInv, TabInv, Bit
<1> HIDE DEF v
<1>3. s \in States
  BY <1>2, IcpOfSeveralKept DEF Kept
<1> HIDE DEF s
<1>4. /\ TabInv' /\ Chosen' /\ modified' \in BOOLEAN /\ timer' = timer
      /\ ch' = s /\ (modified => modified')
  BY <1>1, <1>3, ChangedGives
<1>5. CASE \E c \in Channel : Announced(s, c)
  BY <1>1, <1>3, <1>4, <1>5, UnsavedInv
<1>6. CASE ~ \E c \in Channel : Announced(s, c)
  BY <1>1, <1>4, <1>6 DEF CommandsInv, Switches, SaveUnderWay
<1> QED
  BY <1>5, <1>6

\* Selecting changes nothing but the selection.
LEMMA FollowGives ==
  ASSUME Chosen, NEW new \in SUBSET Row, Follow(new)
  PROVE  mark' \in Row \cup {0} /\ item' \in Row \cup {0}
BY DEF Follow, Chosen

\* Another selection keeps the invariant.
LEMMA SelectingGives ==
  ASSUME CommandsInv, UNCHANGED tabVars, UNCHANGED << save, modified, timer, owed >>, Chosen'
  PROVE  CommandsInv'
BY DEF CommandsInv, TabInv, tabVars, Switches, SaveUnderWay

\* Rows between rows, and the first of some, are rows.
LEMMA BetweenRows ==
  ASSUME NEW i \in Row, NEW j \in Row
  PROVE  i .. j \subseteq Row
BY RowsFacts

\* A selection that is not empty has a first row.
LEMMA LeastRow ==
  ASSUME NEW S \in SUBSET Row, S # {}
  PROVE  Least(S) \in S
<1>1. Row \subseteq Nat
  BY RowsFacts
<1> QED
  BY <1>1, LeastIn

\* One lemma per way of selecting, for windows, their ends, and the server.
LEMMA SelectInv ==
  ASSUME CommandsInv,
         \/ \E i \in Row : ClickRow(i) \/ ControlClick(i) \/ ShiftClick(i) \/ TreeSelect(i)
         \/ ShiftDown \/ OtherView
  PROVE  CommandsInv'
<1>1. Chosen
  BY DEF CommandsInv
<1>2. ASSUME NEW i \in Row, ClickRow(i) PROVE CommandsInv'
  <2>1. Chosen'
    BY <1>1, <1>2 DEF ClickRow, Chosen, Row
  <2> QED BY <1>2, <2>1, SelectingGives DEF ClickRow, Selecting
<1>3. ASSUME NEW i \in Row, ControlClick(i) PROVE CommandsInv'
  <2> DEFINE now == IF i \in chosen THEN chosen \ {i} ELSE chosen \cup {i}
  <2>1. now \subseteq Row
    BY <1>1 DEF Chosen
  <2>2. chosen' \subseteq now /\ Follow(now \ chosen)
    BY <1>3 DEF ControlClick
  <2> HIDE DEF now
  <2>3. mark' \in Row \cup {0} /\ item' \in Row \cup {0}
    BY <1>1, <2>1, <2>2, FollowGives
  <2>4. Chosen'
    BY <2>1, <2>2, <2>3 DEF Chosen, Row
  <2> QED BY <1>3, <2>4, SelectingGives DEF ControlClick, Selecting
<1>4. ASSUME NEW i \in Row, ShiftClick(i) PROVE CommandsInv'
  <2>1. mark \in Row
    BY <1>1, <1>4 DEF ShiftClick, Chosen
  <2>2. chosen' \in {mark .. i, i .. mark} /\ Follow(chosen' \ chosen)
    BY <1>4 DEF ShiftClick
  <2>3. chosen' \subseteq Row
    BY <2>1, <2>2, BetweenRows
  <2>4. mark' \in Row \cup {0} /\ item' \in Row \cup {0}
    BY <1>1, <2>2, <2>3, FollowGives
  <2>5. Chosen'
    BY <2>3, <2>4 DEF Chosen, Row
  <2> QED BY <1>4, <2>5, SelectingGives DEF ShiftClick, Selecting
<1>5. ASSUME NEW i \in Row, TreeSelect(i) PROVE CommandsInv'
  <2>1. Chosen'
    BY <1>1, <1>5 DEF TreeSelect, Chosen, Row
  <2> QED BY <1>5, <2>1, SelectingGives DEF TreeSelect, Selecting
<1>6. CASE ShiftDown
  <2>1. CASE mark = 0
    <3> DEFINE first == {i \in Row : Selectable(i)}
    <3>1. first # {} /\ chosen' = chosen \cup {Least(first)} /\ Follow({Least(first)})
      BY <1>6, <2>1 DEF ShiftDown
    <3>2. first \in SUBSET Row
      OBVIOUS
    <3> HIDE DEF first
    <3>3. Least(first) \in Row
      BY <3>1, <3>2, LeastRow
    <3>4. mark' \in Row \cup {0} /\ item' \in Row \cup {0}
      BY <1>1, <3>1, <3>3, FollowGives
    <3>5. Chosen'
      BY <1>1, <3>1, <3>3, <3>4 DEF Chosen, Row
    <3> QED BY <1>6, <3>5, SelectingGives DEF ShiftDown, Selecting
  <2>2. CASE mark # 0
    <3> DEFINE last == IF chosen = {} THEN 0 ELSE Greatest(chosen)
               from == IF mark < last THEN mark ELSE last
               below == {i \in Row : i > last /\ Selectable(i)}
               new == {i \in from .. Least(below) : i \in Row /\ Selectable(i)}
    <3>1. /\ below # {} /\ chosen' = chosen \cup new
          /\ mark' = Least(below) /\ item' = Least(below)
      BY <1>6, <2>2 DEF ShiftDown
    <3>2. below \in SUBSET Row /\ new \subseteq Row
      OBVIOUS
    <3> HIDE DEF below, new
    <3>3. Least(below) \in Row
      BY <3>1, <3>2, LeastRow
    <3>4. Chosen'
      BY <1>1, <3>1, <3>2, <3>3 DEF Chosen, Row
    <3> QED BY <1>6, <3>4, SelectingGives DEF ShiftDown, Selecting
  <2> QED BY <2>1, <2>2
<1>7. CASE OtherView
  <2>1. Chosen'
    BY <1>1, <1>7 DEF OtherView, Chosen, Row
  <2> QED BY <1>7, <2>1, SelectingGives DEF OtherView
<1> QED
  BY <1>2, <1>3, <1>4, <1>5, <1>6, <1>7

\* A window that opens on one row or on many keeps the invariant.
LEMMA OpenWindowInv ==
  ASSUME CommandsInv, NEW name, NEW g \in Opened, OpenWindow(name, g)
  PROVE  CommandsInv'
<1>1. PICK junk \in 0 .. MaxGain : Open(g, junk)
  BY DEF OpenWindow
<1>2. TabInv'
  BY <1>1, OpenInv DEF CommandsInv
<1>3. Chosen' /\ Switches' /\ SaveUnderWay'
  BY DEF OpenWindow, CommandsInv, Chosen, Row, Switches, SaveUnderWay
<1> QED
  BY <1>2, <1>3 DEF CommandsInv

\* The commands that open windows keep the invariant.
LEMMA PropertiesInv ==
  ASSUME CommandsInv,
         \/ PropertiesRequest \/ PropertiesGroupChannelRequest
         \/ PropertiesGroupRequest \/ ZSPPropertiesGroupRequest
  PROVE  CommandsInv'
<1>1. CASE PropertiesRequest
  <2>1. << Rows[item] >> \in Opened
    BY <1>1 DEF PropertiesRequest, IsChannel, Opened
  <2> QED BY <1>1, <2>1, OpenWindowInv DEF PropertiesRequest
<1>2. CASE PropertiesGroupChannelRequest
  <2>1. InOrder(Picked, RowOf) \in Opened
    BY <1>2, PickedOpened DEF PropertiesGroupChannelRequest, CommandsInv, Chosen
  <2> QED BY <1>2, <2>1, OpenWindowInv DEF PropertiesGroupChannelRequest
<1>3. CASE PropertiesGroupRequest \/ ZSPPropertiesGroupRequest
  <2>1. item # 0 /\ ~IsChannel(item) /\ OpenWindow("all", AllChannels(Rows[item]))
    BY <1>3 DEF PropertiesGroupRequest, ZSPPropertiesGroupRequest
  <2>2. \E c \in Channel : Module[c] = Rows[item]
    BY <2>1, RowsFacts DEF CommandsInv, Chosen, IsChannel
  <2>3. AllChannels(Rows[item]) \in Opened
    BY <2>2, DeviceOpened
  <2> QED BY <2>1, <2>3, OpenWindowInv
<1> QED
  BY <1>1, <1>2, <1>3

\* A step inside the window is a step of the page, and keeps the invariant.
LEMMA InWindowInv ==
  ASSUME CommandsInv, InWindow
  PROVE  CommandsInv'
<1>1. (\E v \in Bit : ClickIcp(v)) \/ (\E up \in BOOLEAN : StepRange(up)) \/ Ok \/ Cancel
  BY DEF InWindow
<1>2. TabInv'
  BY <1>1, ClickIcpInv, StepRangeInv, OkInv, CancelInv DEF CommandsInv
<1>3. Chosen'
  BY DEF InWindow, CommandsInv, Chosen, Row
<1>4. modified' \in {modified, TRUE} /\ UNCHANGED << save, timer, owed >>
  BY DEF InWindow
<1>5. Switches' /\ SaveUnderWay'
  BY <1>4 DEF CommandsInv, Switches, SaveUnderWay
<1> QED
  BY <1>2, <1>3, <1>5 DEF CommandsInv

\* The end of a window keeps the invariant, confirmed or cancelled.
LEMMA ReturnInv ==
  ASSUME CommandsInv, ReturnOne \/ ReturnMany \/ ReturnAll
  PROVE  CommandsInv'
<1>1. /\ Back /\ (Confirmed \/ Dismissed)
      /\ Dismissed \/ save' \in BOOLEAN
  BY DEF ReturnOne, ReturnMany, ReturnAll
<1>2. Chosen'
  BY <1>1 DEF Back, CommandsInv, Chosen, Row
<1>3. ch' \in States
  <2>1. ch \in States
    BY DEF CommandsInv, TabInv
  <2> QED BY <1>1, <2>1, SaveAllStates DEF Confirmed, Dismissed
<1>4. TabInv'
  <2>1. form' \in [Box -> Bit] /\ gui' = "closed" /\ clip' = clip
    BY <1>1 DEF Back, Bit
  <2> QED BY <1>3, <2>1 DEF CommandsInv, TabInv
<1>5. CASE Dismissed
  <2>1. UNCHANGED << timer, owed, save, modified >>
    BY <1>1, <1>5 DEF Back, Dismissed
  <2> QED BY <1>2, <1>4, <2>1 DEF CommandsInv, Switches, SaveUnderWay
<1>6. CASE Confirmed /\ save' \in BOOLEAN
  <2>1. timer' = TRUE /\ owed' = TRUE /\ modified' = modified
    BY <1>1, <1>6 DEF Back, Confirmed
  <2> QED BY <1>2, <1>4, <1>6, <2>1 DEF CommandsInv, Switches, SaveUnderWay
<1> QED
  BY <1>1, <1>5, <1>6

\* The driver's announcement and the timer's save keep the invariant.
LEMMA ServerInv ==
  ASSUME CommandsInv, ServerModify \/ TimerSaves
  PROVE  CommandsInv'
<1>1. TabInv' /\ Chosen'
  BY DEF ServerModify, TimerSaves, tabVars, CommandsInv, TabInv, Chosen, Row
<1>2. CASE ServerModify
  <2>1. modified' = FALSE /\ timer' = (timer \/ save) /\ save' = save /\ owed' = owed
    BY <1>2 DEF ServerModify
  <2>2. timer' \in BOOLEAN
    BY <2>1, Zenon
  <2>3. Switches'
    BY <2>1, <2>2 DEF CommandsInv, Switches
  <2>4. owed => timer \/ save
    BY DEF CommandsInv, SaveUnderWay
  <2>5. SaveUnderWay'
    BY <2>1, <2>4, Zenon DEF SaveUnderWay
  <2> QED BY <1>1, <2>3, <2>5 DEF CommandsInv
<1>3. CASE TimerSaves
  BY <1>1, <1>3 DEF TimerSaves, CommandsInv, Switches, SaveUnderWay
<1> QED
  BY <1>2, <1>3

\* CommandsInv is inductive.
LEMMA CommandsInitInv ==
  ASSUME CommandsInit
  PROVE  CommandsInv
BY TabInitInv DEF CommandsInit, CommandsInv, Chosen, Switches, SaveUnderWay

\* Every step keeps the invariant.
LEMMA CommandsNextInv ==
  ASSUME CommandsInv, [CommandsNext]_<< tabVars, dialogVars >>
  PROVE  CommandsInv'
<1>1. CASE UNCHANGED << tabVars, dialogVars >>
  BY <1>1, SelectingGives DEF CommandsInv, Chosen, Row, dialogVars
<1>2. CASE CommandsNext
  BY <1>2, SelectInv, DisableInv, AcDcInv, IcpInv, ChargeInv, DisableManyInv, AcDcManyInv,
     IcpManyInv, PropertiesInv, InWindowInv, ReturnInv, ServerInv DEF CommandsNext
<1> QED
  BY <1>1, <1>2

\* The invariant of the main dialog with its windows: consistent channels, a
\* selection of rows, and saving under way.
THEOREM CommandsInvariant == CommandsSpec => []CommandsInv
<1>1. CommandsInit => CommandsInv
  BY CommandsInitInv
<1>2. CommandsInv /\ [CommandsNext]_<< tabVars, dialogVars >> => CommandsInv'
  BY CommandsNextInv
<1> QED
  BY <1>1, <1>2, PTL DEF CommandsSpec

\* What a command changed, or a window confirmed, is in devices.cfg, or the timer
\* that writes it runs, or the announcement that starts it is on the way and heeded.
THEOREM CommandsSaveUnderWay == CommandsSpec => []SaveUnderWay
<1>1. CommandsInv => SaveUnderWay
  BY DEF CommandsInv
<1> QED
  BY <1>1, CommandsInvariant, PTL

\* The commands of the menus keep filter and mode together too.
THEOREM CommandsModeFollowsFilter == CommandsSpec => []ModeFollowsFilter
<1>1. CommandsInv => ModeFollowsFilter
  BY FilterFollowed DEF CommandsInv
<1> QED
  BY <1>1, CommandsInvariant, PTL

----------------------------------------------------------------------------
\* What a step of the main dialog may not do.

\* A command that leaves no window open is one of seven.
LEMMA CommandBy ==
  ASSUME CommandsNext, commands' # commands, gui' = "closed"
  PROVE  \/ DisableRequest \/ AcDcRequest \/ IcpRequest \/ ChargeRequest
         \/ DisableRequestMoreChannel \/ AcDcRequestMoreChannel \/ IcpRequestMoreChannel
BY DEF CommandsNext, ClickRow, ControlClick, ShiftClick, TreeSelect, ShiftDown, OtherView,
       Selecting, PropertiesRequest, PropertiesGroupChannelRequest, PropertiesGroupRequest,
       ZSPPropertiesGroupRequest, OpenWindow, Open, InWindow, ReturnOne, ReturnMany, ReturnAll,
       Back, ServerModify, TimerSaves

\* The commands on one channel need a single selection.
LEMMA SeveralBy ==
  ASSUME Several
  PROVE  ~ (DisableRequest \/ AcDcRequest \/ IcpRequest \/ ChargeRequest)
BY DEF DisableRequest, AcDcRequest, IcpRequest, ChargeRequest, One

\* What the commands on several channels leave behind.
LEMMA ManyGives ==
  ASSUME CommandsInv
  PROVE  /\ DisableRequestMoreChannel \/ AcDcRequestMoreChannel
              => ch' \in Kept /\ \A c \in Picked \cap Zsp : ch'[c].file = ch'[c].now
         /\ IcpRequestMoreChannel => ch' \in Kept
<1>1. ch \in States
  BY DEF CommandsInv, TabInv
<1>2. ASSUME DisableRequestMoreChannel
      PROVE  ch' \in Kept /\ \A c \in Picked \cap Zsp : ch'[c].file = ch'[c].now
  <2> DEFINE v == IF AreSelectedChannelsEnabled THEN 0 ELSE 1
  <2>1. ch' = SwitchTold(v)
    BY <1>2 DEF DisableRequestMoreChannel, Many, Changed
  <2>2. v \in Bit
    BY DEF Bit
  <2> HIDE DEF v
  <2> QED BY <1>1, <2>1, <2>2, SwitchToldGives
<1>3. ASSUME AcDcRequestMoreChannel
      PROVE  ch' \in Kept /\ \A c \in Picked \cap Zsp : ch'[c].file = ch'[c].now
  BY <1>1, <1>3, SwitchFilterGives DEF AcDcRequestMoreChannel, Many, Changed
<1>4. ASSUME IcpRequestMoreChannel PROVE ch' \in Kept
  <2> DEFINE v == IF AreSelectedChannelsICP THEN 0 ELSE 1
  <2>1. ch' = IcpOfSeveral(v)
    BY <1>4 DEF IcpRequestMoreChannel, Many, Changed
  <2>2. v \in Bit
    BY DEF Bit
  <2> HIDE DEF v
  <2> QED BY <1>1, <2>1, <2>2, IcpOfSeveralKept
<1> QED
  BY <1>2, <1>3, <1>4

\* A command for several channels changes no channel that is not selected, whatever
\* module or mask it goes through, and after on/off or filters every selected recorder
\* has its settings in its file.
THEOREM CommandsStay == CommandsSpec => CommandsKeepToSelection
<1> DEFINE A == Several /\ commands' # commands /\ gui' = "closed"
                  => /\ \A c \in Channel \ Picked : ch'[c].now = ch[c].now
                     /\ DisableRequestMoreChannel \/ AcDcRequestMoreChannel
                          => \A c \in Picked \cap Zsp : ch'[c].file = ch'[c].now
<1>1. CommandsInv /\ [CommandsNext]_<< tabVars, dialogVars >> => [A]_<< tabVars, dialogVars >>
  <2> SUFFICES ASSUME CommandsInv, CommandsNext, Several, commands' # commands, gui' = "closed"
               PROVE  /\ \A c \in Channel \ Picked : ch'[c].now = ch[c].now
                      /\ DisableRequestMoreChannel \/ AcDcRequestMoreChannel
                           => \A c \in Picked \cap Zsp : ch'[c].file = ch'[c].now
    OBVIOUS
  <2>1. ch' \in Kept
    BY CommandBy, SeveralBy, ManyGives
  <2> QED BY <2>1, ManyGives DEF Kept
<1> QED
  BY <1>1, CommandsInvariant, PTL DEF CommandsSpec, CommandsKeepToSelection

\* A window of one channel that the main dialog opened is undone when cancelled.
THEOREM CommandsCancelUndoes == CommandsSpec => CancelUndoes
<1> DEFINE A == gui = "open" /\ gui' = "cancelled" /\ ~Group /\ Restorable(mementos[1])
                  => Undone(members[1], mementos[1])
<1>1. CommandsInv /\ [CommandsNext]_<< tabVars, dialogVars >> => [A]_tabVars
  <2> SUFFICES ASSUME CommandsInv, [CommandsNext]_<< tabVars, dialogVars >>,
                      gui = "open", gui' = "cancelled", ~Group, Restorable(mementos[1])
               PROVE  Undone(members[1], mementos[1])
    OBVIOUS
  <2>1. Cancel
    BY DEF CommandsNext, ClickRow, ControlClick, ShiftClick, TreeSelect, ShiftDown, OtherView,
           Selecting, DisableRequest, AcDcRequest, IcpRequest, ChargeRequest, One, Asking,
           DisableRequestMoreChannel, AcDcRequestMoreChannel, IcpRequestMoreChannel, Many,
           PropertiesRequest, PropertiesGroupChannelRequest, PropertiesGroupRequest,
           ZSPPropertiesGroupRequest, OpenWindow, Open, InWindow, ClickIcp, Click, StepRange,
           Edit, Ok, ReturnOne, ReturnMany, ReturnAll, Back, ServerModify, TimerSaves, tabVars
  <2> QED BY <2>1, CancelGives DEF CommandsInv
<1> QED
  BY <1>1, CommandsInvariant, PTL DEF CommandsSpec, CancelUndoes
=============================================================================
