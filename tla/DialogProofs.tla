---------------------------- MODULE DialogProofs ----------------------------
(***************************************************************************)
(* Two dialogs that work on their own while they are open.  For any files, *)
(* attempts and clicks: the page of a recorder's card never waits for its  *)
(* copy thread while that thread waits for the page, and is left as it was *)
(* when everything is done.  For any bridge, gauges and readings: what the *)
(* dialog of a strain gauge shows, and where its balance ends.             *)
(***************************************************************************)
EXTENDS Registrator, TensoDlg, WellFoundedInduction, TLAPS

----------------------------------------------------------------------------
\* The page of a card.

\* The tasks of the GUI thread are always the rest of one of its handlers.
Updating == << "list" >>
Opening == << "list", "check" >>
Formatting == << "format", "list", "serve" >>
Removing == << "delete", "list" >>
Setting == << "read", "dac", "list", "modal", "write", "list", "write", "list" >>
Serving == << "serve" >>
Joining == << "join" >>

Formatting2 == << "list", "serve" >>
Setting2 == << "dac", "list", "modal", "write", "list", "write", "list" >>
Setting3 == << "list", "modal", "write", "list", "write", "list" >>
Setting4 == << "modal", "write", "list", "write", "list" >>
Setting5 == << "write", "list", "write", "list" >>
Setting6 == << "list", "write", "list" >>
Setting7 == << "write", "list" >>
Checking == << "check" >>

GuiServes == {Formatting, Formatting2, Serving}
GuiPoints ==
  GuiServes \cup {<< >>, Updating, Opening, Checking, Removing, Joining, Setting, Setting2,
                  Setting3, Setting4, Setting5, Setting6, Setting7}

\* Those of the copy thread are the rest of a download, or of one that was
\* cancelled (Cancelled) or got no access.
Beginning == << "begin" >>
Asking == << "copy" >>
Copying == << "enable", "shut", "config", "files", "close", "list", "open", "disable", "serve" >>
Copying2 == << "shut", "config", "files", "close", "list", "open", "disable", "serve" >>
Copying3 == << "config", "files", "close", "list", "open", "disable", "serve" >>
Copying4 == << "files", "close", "list", "open", "disable", "serve" >>
Copying5 == << "close", "list", "open", "disable", "serve" >>
Copying6 == << "list", "open", "disable", "serve" >>
Copying7 == << "open", "disable", "serve" >>
Copying8 == << "disable", "serve" >>
Cancelled2 == << "open", "disable", "list" >>
Cancelled3 == << "disable", "list" >>

\* The points at which the page is a copying one.
HeldPoints ==
  {Copying2, Copying3, Copying4, Copying5, Copying6, Copying7, Copying8,
   Cancelled, Cancelled2, Cancelled3}

EarlyPoints == {Beginning, Asking, Copying}
LatePoints == {Serving, Updating, << >>}
CopyPoints == HeldPoints \cup EarlyPoints \cup LatePoints

\* The points at which the copy thread will still start the server, and at
\* which it will still open the tabs.
CopyServes == (HeldPoints \ {Cancelled2, Cancelled3}) \cup {Asking, Copying, Serving}
CopyOpens == HeldPoints \ {Copying8, Cancelled3}

Held == todo["copy"] \in HeldPoints

Note == {"copied", "test", "tested", "shut", "open"}
IsPosted(note) == \E i \in 1..Len(posted) : posted[i] = note

\* A note is posted and no other one comes behind it.
LastPosted(note, other) ==
  \E i \in 1..Len(posted) :
    posted[i] = note /\ \A j \in 1..Len(posted) : i < j => posted[j] # other

PageTypeOK ==
  /\ todo \in [Worker -> GuiPoints \cup CopyPoints]
  /\ todo["gui"] \in GuiPoints /\ todo["copy"] \in CopyPoints
  /\ rtc \in {"off", "begins", "runs", "ends"}
  /\ gate \in BOOLEAN /\ serving \in BOOLEAN
  /\ posted \in Seq(Note)
  /\ hidden \subseteq Button /\ disabled \subseteq Button

\* A copying page has its buttons hidden, and the handler that reads from the
\* card is not under way; they are hidden until the one note about the end of
\* the download is taken.
CopyInv ==
  /\ Held => EnableCopyIndicators \subseteq hidden /\ todo["gui"] # Setting
             /\ ~ IsPosted("copied")
  /\ IsPosted("copied") => EnableCopyIndicators \subseteq hidden
                           /\ todo["copy"] \in LatePoints
  /\ hidden # {} => Held \/ IsPosted("copied")
  /\ \A i, j \in 1..Len(posted) : posted[i] = "copied" /\ posted[j] = "copied" => i = j

\* Whoever stopped the data has still to start them.
ServeInv ==
  serving \/ todo["gui"] \in GuiServes \/ todo["copy"] \in CopyServes \/ rtc \in {"runs", "ends"}

\* Whoever locked the tabs has still to unlock them.
GateInv ==
  /\ IsPosted("shut") => LastPosted("open", "shut") \/ rtc = "runs"
  /\ gate \/ LastPosted("open", "shut") \/ rtc = "runs" \/ todo["copy"] \in CopyOpens

\* Whoever disabled buttons has still to enable them.
ButtonInv ==
  /\ IsPosted("test") => LastPosted("tested", "test") \/ rtc = "runs"
  /\ disabled = {} \/ LastPosted("tested", "test") \/ rtc = "runs"
       \/ (disabled \subseteq CopyDisables /\ (Held \/ IsPosted("copied")))
  /\ "rtc" \in disabled => Held \/ IsPosted("copied")

PageInv == PageTypeOK /\ CopyInv /\ ServeInv /\ GateInv /\ ButtonInv

----------------------------------------------------------------------------
\* The points.

\* What comes next at a point of a handler, and what is left after it.
LEMMA GuiHeads ==
  /\ \A s \in GuiPoints : s # << >> =>
       /\ Tail(s) \in GuiPoints \ {Setting}
       /\ Head(s) \notin {"copy", "none"}
       /\ (Head(s) # "serve" /\ s \in GuiServes) => Tail(s) \in GuiServes
  /\ \A s \in GuiPoints : s # << >> /\ Head(s) = "dac" => Tail(Tail(s)) \in GuiPoints \ {Setting}
  /\ \A s \in GuiPoints : s # << >> /\ Head(s) \in {"dac", "check", "modal", "join"} =>
                            s \notin GuiServes
  /\ Setting # << >> /\ Head(Setting) = "read"
<1>1. /\ Tail(Updating) = << >> /\ Tail(Serving) = << >> /\ Tail(Joining) = << >>
      /\ Tail(Checking) = << >>
      /\ Tail(Opening) = Checking /\ Tail(Removing) = Updating
      /\ Tail(Formatting) = Formatting2 /\ Tail(Formatting2) = Serving
  BY DEF Updating, Serving, Joining, Checking, Opening, Removing, Formatting, Formatting2
<1>2. /\ Tail(Setting) = Setting2 /\ Tail(Setting2) = Setting3 /\ Tail(Setting3) = Setting4
      /\ Tail(Setting4) = Setting5 /\ Tail(Setting5) = Setting6 /\ Tail(Setting6) = Setting7
      /\ Tail(Setting7) = Updating
  BY DEF Setting, Setting2, Setting3, Setting4, Setting5, Setting6, Setting7, Updating
<1>3. /\ Head(Updating) = "list" /\ Head(Serving) = "serve" /\ Head(Joining) = "join"
      /\ Head(Checking) = "check" /\ Head(Opening) = "list" /\ Head(Removing) = "delete"
      /\ Head(Formatting) = "format" /\ Head(Formatting2) = "list"
  BY DEF Updating, Serving, Joining, Checking, Opening, Removing, Formatting, Formatting2
<1>4. /\ Head(Setting) = "read" /\ Head(Setting2) = "dac" /\ Head(Setting3) = "list"
      /\ Head(Setting4) = "modal" /\ Head(Setting5) = "write" /\ Head(Setting6) = "list"
      /\ Head(Setting7) = "write"
  BY DEF Setting, Setting2, Setting3, Setting4, Setting5, Setting6, Setting7
<1>5. /\ Setting \notin {Updating, Serving, Joining, Checking, Formatting2}
      /\ Setting \notin {Setting2, Setting3, Setting4, Setting5, Setting6, Setting7, << >>}
      /\ Serving # << >>
  BY <1>3, <1>4 DEF Setting, Serving
<1>6. ASSUME NEW s \in GuiServes
      PROVE  /\ Head(s) \in {"format", "list", "serve"}
             /\ Tail(s) \in GuiPoints \ {Setting}
             /\ Head(s) # "serve" => Tail(s) \in GuiServes
  BY <1>1, <1>3, <1>5, <1>6 DEF GuiServes, GuiPoints
<1>7. ASSUME NEW s \in {Updating, Opening, Checking, Removing, Joining}
      PROVE  /\ Head(s) \in {"list", "check", "delete", "join"}
             /\ Tail(s) \in GuiPoints \ {Setting}
  BY <1>1, <1>3, <1>5, <1>7 DEF GuiPoints
<1>8. ASSUME NEW s \in {Setting, Setting2, Setting3, Setting4, Setting5, Setting6, Setting7}
      PROVE  /\ Head(s) \in {"read", "dac", "list", "modal", "write"}
             /\ Tail(s) \in GuiPoints \ {Setting}
             /\ Head(s) = "dac" => Tail(Tail(s)) = Setting4
  BY <1>2, <1>4, <1>5, <1>8 DEF GuiPoints
<1> QED
  BY <1>4, <1>5, <1>6, <1>7, <1>8 DEF GuiPoints

\* The same for the copy thread.
LEMMA CopyHeads ==
  /\ Head(Beginning) = "begin" /\ Head(Asking) = "copy"
  /\ Head(Copying) = "enable" /\ Tail(Copying) = Copying2
  /\ Head(Copying2) = "shut" /\ Tail(Copying2) = Copying3
  /\ Head(Copying3) = "config" /\ Tail(Copying3) = Copying4
  /\ Head(Copying4) = "files" /\ Tail(Copying4) = Copying5
  /\ Head(Copying5) = "close" /\ Tail(Copying5) = Copying6
  /\ Head(Copying6) = "list" /\ Tail(Copying6) = Copying7
  /\ Head(Copying7) = "open" /\ Tail(Copying7) = Copying8
  /\ Head(Copying8) = "disable" /\ Tail(Copying8) = Serving
  /\ Head(Cancelled) = "serve" /\ Tail(Cancelled) = Cancelled2
  /\ Head(Cancelled2) = "open" /\ Tail(Cancelled2) = Cancelled3
  /\ Head(Cancelled3) = "disable" /\ Tail(Cancelled3) = Updating
  /\ Head(Serving) = "serve" /\ Tail(Serving) = << >>
  /\ Head(Updating) = "list" /\ Tail(Updating) = << >>
  /\ << >> \notin HeldPoints \cup EarlyPoints \cup {Serving, Updating}
<1>1. /\ Head(Beginning) = "begin" /\ Head(Asking) = "copy"
      /\ Head(Copying) = "enable" /\ Tail(Copying) = Copying2
      /\ Head(Copying2) = "shut" /\ Tail(Copying2) = Copying3
  BY DEF Beginning, Asking, Copying, Copying2, Copying3
<1>2. /\ Head(Copying3) = "config" /\ Tail(Copying3) = Copying4
      /\ Head(Copying4) = "files" /\ Tail(Copying4) = Copying5
      /\ Head(Copying5) = "close" /\ Tail(Copying5) = Copying6
      /\ Head(Copying6) = "list" /\ Tail(Copying6) = Copying7
  BY DEF Copying3, Copying4, Copying5, Copying6, Copying7
<1>3. /\ Head(Copying7) = "open" /\ Tail(Copying7) = Copying8
      /\ Head(Copying8) = "disable" /\ Tail(Copying8) = Serving
      /\ Head(Cancelled) = "serve" /\ Tail(Cancelled) = Cancelled2
      /\ Head(Cancelled2) = "open" /\ Tail(Cancelled2) = Cancelled3
      /\ Head(Cancelled3) = "disable" /\ Tail(Cancelled3) = Updating
  BY DEF Copying7, Copying8, Serving, Cancelled, Cancelled2, Cancelled3, Updating
<1>4. /\ Head(Serving) = "serve" /\ Tail(Serving) = << >>
      /\ Head(Updating) = "list" /\ Tail(Updating) = << >>
  BY DEF Serving, Updating
<1>5. << >> \notin HeldPoints \cup EarlyPoints \cup {Serving, Updating}
  BY DEF HeldPoints, EarlyPoints, Serving, Updating, Beginning, Asking, Copying, Copying2,
         Copying3, Copying4, Copying5, Copying6, Copying7, Copying8, Cancelled, Cancelled2,
         Cancelled3
<1> QED
  BY <1>1, <1>2, <1>3, <1>4, <1>5
----------------------------------------------------------------------------
\* The notes.

\* A note is put to the end.
LEMMA PostOne ==
  ASSUME posted \in Seq(Note), NEW note \in Note, posted' = Append(posted, note)
  PROVE  /\ posted' \in Seq(Note)
         /\ Len(posted) \in Nat /\ Len(posted') = Len(posted) + 1
         /\ \A i \in 1..Len(posted) : posted'[i] = posted[i]
         /\ posted'[Len(posted) + 1] = note
OBVIOUS

\* Two are.
LEMMA PostTwo ==
  ASSUME posted \in Seq(Note), NEW first \in Note, NEW second \in Note,
         posted' = posted \o << first, second >>
  PROVE  /\ posted' \in Seq(Note)
         /\ Len(posted) \in Nat /\ Len(posted') = Len(posted) + 2
         /\ \A i \in 1..Len(posted) : posted'[i] = posted[i]
         /\ posted'[Len(posted) + 1] = first /\ posted'[Len(posted) + 2] = second
OBVIOUS

\* The first one is taken.
LEMMA TakeOne ==
  ASSUME posted \in Seq(Note), posted # << >>, posted' = Tail(posted)
  PROVE  /\ posted' \in Seq(Note) /\ Head(posted) = posted[1] /\ Head(posted) \in Note
         /\ \A n : IsPosted(n)' => IsPosted(n)
         /\ \A n : IsPosted(n) => IsPosted(n)' \/ Head(posted) = n
         /\ \A n, m : LastPosted(n, m) => LastPosted(n, m)' \/ Head(posted) = n
         /\ \A n, m : LastPosted(n, m) => LastPosted(n, m)' \/ ~ IsPosted(m)'
<1>1. /\ posted' \in Seq(Note) /\ Head(posted) = posted[1] /\ Head(posted) \in Note
      /\ Len(posted) \in Nat /\ Len(posted) >= 1 /\ Len(posted') = Len(posted) - 1
      /\ \A i \in 1..Len(posted') : posted'[i] = posted[i + 1] /\ i + 1 \in 1..Len(posted)
  OBVIOUS
<1>2. \A i \in 2..Len(posted) : i - 1 \in 1..Len(posted') /\ posted'[i - 1] = posted[i]
  <2> SUFFICES ASSUME NEW i \in 2..Len(posted)
               PROVE  i - 1 \in 1..Len(posted') /\ posted'[i - 1] = posted[i]
    OBVIOUS
  <2>1. i - 1 \in 1..Len(posted') /\ (i - 1) + 1 = i
    BY <1>1
  <2> QED
    BY <1>1, <2>1
<1>3. \A n : IsPosted(n)' => IsPosted(n)
  BY <1>1 DEF IsPosted
<1>4. \A n : IsPosted(n) => IsPosted(n)' \/ Head(posted) = n
  <2> SUFFICES ASSUME NEW n, NEW i \in 1..Len(posted), posted[i] = n, Head(posted) # n
               PROVE  IsPosted(n)'
    BY DEF IsPosted
  <2>1. i \in 2..Len(posted)
    BY <1>1
  <2> QED
    BY <1>2, <2>1 DEF IsPosted
<1>5. ASSUME NEW n, NEW m, LastPosted(n, m)
      PROVE  LastPosted(n, m)' \/ (Head(posted) = n /\ ~ IsPosted(m)')
  <2>1. PICK i \in 1..Len(posted) :
          posted[i] = n /\ \A j \in 1..Len(posted) : i < j => posted[j] # m
    BY <1>5 DEF LastPosted
  <2>2. CASE i = 1
    BY <1>1, <2>1, <2>2 DEF IsPosted
  <2>3. CASE i # 1
    <3>1. i \in 2..Len(posted)
      BY <1>1, <2>1, <2>3
    <3>2. \A j \in 1..Len(posted') : i - 1 < j => posted'[j] # m
      BY <1>1, <2>1, <3>1
    <3> QED
      BY <1>2, <2>1, <3>1, <3>2 DEF LastPosted
  <2> QED
    BY <2>2, <2>3
<1> QED
  BY <1>1, <1>3, <1>4, <1>5

----------------------------------------------------------------------------
\* The steps.

\* The page as it is when it opens.
LEMMA InitPage == RegInit => PageInv
<1> SUFFICES ASSUME RegInit PROVE PageInv
  OBVIOUS
<1>1. todo["gui"] = Opening /\ todo["copy"] = << >> /\ todo \in [Worker -> {Opening, << >>}]
  BY DEF RegInit, Worker, Opening
<1>2. PageTypeOK
  BY <1>1 DEF RegInit, PageTypeOK, GuiPoints, CopyPoints, LatePoints
<1>3. CopyInv /\ ServeInv /\ GateInv /\ ButtonInv
  <2>1. ~ Held
    BY <1>1, CopyHeads DEF Held
  <2> QED
    BY <2>1 DEF RegInit, CopyInv, ServeInv, GateInv, ButtonInv, IsPosted
<1> QED
  BY <1>2, <1>3 DEF PageInv

\* A step that leaves the tasks, the buttons and the notes alone.
LEMMA StillPage ==
  ASSUME PageInv, UNCHANGED << todo, hidden, disabled, gate, serving, rtc, posted >>
  PROVE  PageInv'
BY DEF PageInv, PageTypeOK, CopyInv, ServeInv, GateInv, ButtonInv, Held, IsPosted, LastPosted

\* The GUI thread goes on to s.
LEMMA GuiPage ==
  ASSUME PageInv, NEW s \in GuiPoints, todo' = [todo EXCEPT !["gui"] = s],
         UNCHANGED << hidden, disabled, rtc, posted >>,
         s = Setting => todo["gui"] = Setting \/ "settings" \notin hidden,
         gate' = TRUE \/ gate' = gate,
         serving' \in BOOLEAN,
         \/ serving' = TRUE \/ s \in GuiServes
         \/ serving' = serving /\ (todo["gui"] \in GuiServes => s \in GuiServes)
  PROVE  PageInv'
<1>1. todo'["gui"] = s /\ todo'["copy"] = todo["copy"] /\ PageTypeOK'
  BY DEF PageInv, PageTypeOK, Worker
<1>2. CopyInv'
  <2>1. Held => "settings" \in hidden
    BY DEF PageInv, CopyInv, EnableCopyIndicators
  <2>2. Held' = Held
    BY <1>1 DEF Held
  <2> QED
    BY <1>1, <2>1, <2>2 DEF PageInv, CopyInv, IsPosted
<1>3. ServeInv'
  BY <1>1 DEF PageInv, ServeInv
<1>4. GateInv'
  BY <1>1 DEF PageInv, GateInv, IsPosted, LastPosted
<1>5. ButtonInv'
  BY <1>1 DEF PageInv, ButtonInv, IsPosted, LastPosted, Held
<1> QED
  BY <1>1, <1>2, <1>3, <1>4, <1>5 DEF PageInv

\* The copy thread goes on to s, without letting the page know.
LEMMA CopyPage ==
  ASSUME PageInv, NEW s \in CopyPoints, todo' = [todo EXCEPT !["copy"] = s],
         UNCHANGED << hidden, disabled, rtc, posted >>,
         s \in HeldPoints <=> Held,
         todo["copy"] \in LatePoints => s \in LatePoints \/ ~ IsPosted("copied"),
         gate' \in BOOLEAN,
         \/ gate' = TRUE \/ s \in CopyOpens
         \/ gate' = gate /\ (todo["copy"] \in CopyOpens => s \in CopyOpens),
         serving' \in BOOLEAN,
         \/ serving' = TRUE \/ s \in CopyServes
         \/ serving' = serving /\ (todo["copy"] \in CopyServes => s \in CopyServes)
  PROVE  PageInv'
<1>1. todo'["copy"] = s /\ todo'["gui"] = todo["gui"] /\ PageTypeOK'
  BY DEF PageInv, PageTypeOK, Worker
<1>2. Held' = Held
  BY <1>1 DEF Held, PageInv, PageTypeOK
<1>3. CopyInv'
  BY <1>1, <1>2 DEF PageInv, CopyInv, IsPosted
<1>4. ServeInv'
  BY <1>1 DEF PageInv, ServeInv
<1>5. GateInv'
  BY <1>1 DEF PageInv, GateInv, IsPosted, LastPosted
<1>6. ButtonInv'
  BY <1>1, <1>2 DEF PageInv, ButtonInv, IsPosted, LastPosted
<1> QED
  BY <1>1, <1>3, <1>4, <1>5, <1>6 DEF PageInv

\* The task at the head tells the point of the copy thread, up to what is left.
HeadTells(s) ==
  /\ Head(s) = "begin" => s = Beginning
  /\ Head(s) = "copy" => s = Asking
  /\ Head(s) = "enable" => s = Copying
  /\ Head(s) = "shut" => s = Copying2
  /\ Head(s) = "config" => s = Copying3
  /\ Head(s) = "files" => s = Copying4
  /\ Head(s) = "close" => s = Copying5
  /\ Head(s) = "list" => s \in {Copying6, Updating}
  /\ Head(s) = "open" => s \in {Copying7, Cancelled2}
  /\ Head(s) = "disable" => s \in {Copying8, Cancelled3}
  /\ Head(s) = "serve" => s \in {Serving, Cancelled}
  /\ Head(s) \in {"begin", "copy", "enable", "shut", "config", "files", "close", "list",
                  "open", "disable", "serve"}
  /\ s # << >>

\* What the copy thread has still to do is told by what it does next.
LEMMA CopyTasks == \A s \in CopyPoints \ {<< >>} : HeadTells(s)
<1>1. /\ HeadTells(Beginning) /\ HeadTells(Asking) /\ HeadTells(Copying)
  <2>1. Beginning # << >> /\ Asking # << >> /\ Copying # << >>
    BY CopyHeads DEF EarlyPoints
  <2> QED
    BY <2>1, CopyHeads DEF HeadTells
<1>2. /\ HeadTells(Copying2) /\ HeadTells(Copying3) /\ HeadTells(Copying4)
      /\ HeadTells(Copying5) /\ HeadTells(Copying6)
  <2>1. /\ Copying2 # << >> /\ Copying3 # << >> /\ Copying4 # << >>
        /\ Copying5 # << >> /\ Copying6 # << >>
    BY CopyHeads DEF HeldPoints
  <2> QED
    BY <2>1, CopyHeads DEF HeadTells
<1>3. /\ HeadTells(Copying7) /\ HeadTells(Copying8) /\ HeadTells(Cancelled)
      /\ HeadTells(Cancelled2) /\ HeadTells(Cancelled3)
  <2>1. /\ Copying7 # << >> /\ Copying8 # << >> /\ Cancelled # << >>
        /\ Cancelled2 # << >> /\ Cancelled3 # << >>
    BY CopyHeads DEF HeldPoints
  <2> QED
    BY <2>1, CopyHeads DEF HeadTells
<1>4. HeadTells(Serving) /\ HeadTells(Updating)
  <2>1. Serving # << >> /\ Updating # << >>
    BY CopyHeads
  <2> QED
    BY <2>1, CopyHeads DEF HeadTells
<1> HIDE DEF HeadTells
<1> QED
  BY <1>1, <1>2, <1>3, <1>4 DEF CopyPoints, HeldPoints, EarlyPoints, LatePoints

\* Where the threads are when they do a task.
LEMMA TaskPoints ==
  ASSUME PageInv
  PROVE  /\ Task("gui") = "none" <=> todo["gui"] = << >>
         /\ todo["gui"] # << >> => Task("gui") = Head(todo["gui"])
         /\ Task("copy") = "none" <=> todo["copy"] = << >>
         /\ Task("copy") = "begin" => todo["copy"] = Beginning
         /\ Task("copy") = "copy" => todo["copy"] = Asking
         /\ Task("copy") = "enable" => todo["copy"] = Copying
         /\ Task("copy") = "shut" => todo["copy"] = Copying2
         /\ Task("copy") = "config" => todo["copy"] = Copying3
         /\ Task("copy") = "files" => todo["copy"] = Copying4
         /\ Task("copy") = "close" => todo["copy"] = Copying5
         /\ Task("copy") = "list" => todo["copy"] \in {Copying6, Updating}
         /\ Task("copy") = "open" => todo["copy"] \in {Copying7, Cancelled2}
         /\ Task("copy") = "disable" => todo["copy"] \in {Copying8, Cancelled3}
         /\ Task("copy") = "serve" => todo["copy"] \in {Serving, Cancelled}
         /\ Task("copy") \in {"none", "begin", "copy", "enable", "shut", "config", "files",
                              "close", "list", "open", "disable", "serve"}
<1>1. todo["gui"] \in GuiPoints /\ todo["copy"] \in CopyPoints
  BY DEF PageInv, PageTypeOK
<1>2. /\ Task("gui") = "none" <=> todo["gui"] = << >>
      /\ todo["gui"] # << >> => Task("gui") = Head(todo["gui"])
  BY <1>1, GuiHeads DEF Task
<1>3. CASE todo["copy"] = << >>
  BY <1>2, <1>3 DEF Task
<1>4. CASE todo["copy"] # << >>
  <2>1. HeadTells(todo["copy"])
    BY <1>1, <1>4, CopyTasks
  <2>2. Task("copy") = Head(todo["copy"])
    BY <1>4 DEF Task
  <2> QED
    BY <1>2, <1>4, <2>1, <2>2 DEF HeadTells
<1> QED
  BY <1>3, <1>4

\* The points of the copy thread are of one kind each.
LEMMA PointKinds ==
  /\ {Serving, Updating, << >>, Beginning, Asking, Copying} \cap HeldPoints = {}
  /\ {Beginning, Asking, Copying} \cap LatePoints = {}
  /\ << >> \notin CopyServes \cup CopyOpens /\ Serving \notin CopyOpens
  /\ {Updating, Beginning} \cap (CopyServes \cup CopyOpens) = {}
  /\ {Asking, Copying} \cap CopyOpens = {}
  /\ Copying8 \notin CopyOpens
  /\ {Cancelled2, Cancelled3} \cap CopyServes = {} /\ Cancelled3 \notin CopyOpens
  /\ HeldPoints \cap LatePoints = {}
<1> DEFINE Sound(s) == /\ s # << >> /\ Head(s) \notin {"begin", "copy", "enable"}
                       /\ Head(s) \in {"list", "serve"} => Tail(s) # << >>
<1>1. \A s \in HeldPoints : Sound(s)
  <2>1. << >> \notin HeldPoints
    BY CopyHeads
  <2>2. Sound(Copying2) /\ Sound(Copying3) /\ Sound(Copying4) /\ Sound(Copying5)
    BY <2>1, CopyHeads DEF HeldPoints
  <2>3. Sound(Copying6) /\ Sound(Copying7) /\ Sound(Copying8)
    BY <2>1, CopyHeads DEF HeldPoints
  <2>4. Sound(Cancelled) /\ Sound(Cancelled2) /\ Sound(Cancelled3)
    BY <2>1, CopyHeads DEF HeldPoints
  <2> HIDE DEF Sound
  <2> QED
    BY <2>2, <2>3, <2>4 DEF HeldPoints
<1>2. \A s \in {Serving, Updating, << >>, Beginning, Asking, Copying} : ~ Sound(s)
  BY CopyHeads
<1> HIDE DEF Sound
<1>3. {Beginning, Asking, Copying} \cap LatePoints = {}
  <2>1. /\ Beginning \notin LatePoints /\ Asking \notin LatePoints /\ Copying \notin LatePoints
    BY CopyHeads DEF LatePoints, EarlyPoints
  <2> QED
    BY <2>1
<1>4. /\ Cancelled2 # Cancelled3 /\ Copying8 # Cancelled2 /\ Copying8 # Cancelled3
      /\ Serving # Asking /\ Serving # Copying /\ Updating # Serving
  BY CopyHeads
<1>5. << >> # Serving /\ << >> # Asking /\ << >> # Copying
  BY CopyHeads DEF EarlyPoints
<1>6. /\ Updating \notin {Asking, Copying, Serving}
      /\ Beginning \notin {Asking, Copying, Serving}
  BY CopyHeads
<1>7. {Cancelled2, Cancelled3} \cap {Asking, Copying, Serving} = {}
  BY CopyHeads
<1> QED
  BY <1>1, <1>2, <1>3, <1>4, <1>5, <1>6, <1>7 DEF LatePoints, CopyServes, CopyOpens

\* What the GUI thread and the copy thread do with the card, and its refusals.
LEMMA GuiCardPage ==
  ASSUME PageInv,
         \/ Refused("gui") \/ Granted("gui") \/ Serve("gui")
         \/ \E ok \in BOOLEAN : List("gui", ok)
         \/ \E gone \in SUBSET CardFile : Erase("gui", gone)
         \/ Read \/ EndModal \/ Joined \/ \E ok \in BOOLEAN : Write(ok)
  PROVE  PageInv'
<1>1. UNCHANGED << hidden, disabled, gate, rtc, posted >>
  BY DEF Refused, Granted, Serve, List, Erase, Read, EndModal, Joined, Write
<1>2. Task("gui") # "none"
  BY DEF Refused, Granted, Serve, List, Erase, Read, EndModal, Joined, Write, CardTask
<1>3. todo["gui"] \in GuiPoints /\ todo["gui"] # << >> /\ Task("gui") = Head(todo["gui"])
  BY <1>2, TaskPoints DEF PageInv, PageTypeOK
<1>4. serving' = TRUE \/ (serving' = serving /\ Task("gui") # "serve")
  BY DEF Refused, Granted, Serve, List, Erase, Read, EndModal, Joined, Write, CardTask
<1>5. \/ todo' = todo
      \/ todo' = [todo EXCEPT !["gui"] = Tail(todo["gui"])]
      \/ todo' = [todo EXCEPT !["gui"] = Tail(Tail(todo["gui"]))] /\ Task("gui") = "dac"
      \/ todo' = [todo EXCEPT !["gui"] = << >>] /\ Task("gui") = "join"
  <2>1. Task("gui") # "copy"
    BY <1>3, GuiHeads
  <2>2. CASE Refused("gui")
    BY <2>1, <2>2 DEF Refused, GivesUp, GoesOn, WithoutAccess
  <2>3. CASE Granted("gui")
    BY <2>1, <2>3 DEF Granted, GivesUp, GoesOn, WithoutAccess, Stays
  <2>4. CASE \/ Serve("gui") \/ Read \/ EndModal \/ Joined
             \/ \E ok \in BOOLEAN : List("gui", ok)
             \/ \E gone \in SUBSET CardFile : Erase("gui", gone)
    BY <2>4 DEF Serve, Read, EndModal, Joined, List, Erase, GoesOn
  <2>5. CASE \E ok \in BOOLEAN : Write(ok)
    BY <2>5 DEF Write, GoesOn, Stays
  <2> QED
    BY <2>2, <2>3, <2>4, <2>5
<1>6. serving' \in BOOLEAN
  BY <1>4 DEF PageInv, PageTypeOK
<1>7. CASE todo' = todo
  <2>1. ServeInv'
    BY <1>1, <1>4, <1>7 DEF PageInv, ServeInv
  <2>2. PageTypeOK' /\ CopyInv'
    BY <1>1, <1>6, <1>7 DEF PageInv, PageTypeOK, CopyInv, Held, IsPosted
  <2>3. GateInv' /\ ButtonInv'
    BY <1>1, <1>7 DEF PageInv, GateInv, ButtonInv, Held, IsPosted, LastPosted
  <2> QED
    BY <2>1, <2>2, <2>3 DEF PageInv
<1>8. CASE todo' = [todo EXCEPT !["gui"] = Tail(todo["gui"])]
  <2> DEFINE s == Tail(todo["gui"])
  <2>1. s \in GuiPoints \ {Setting}
    BY <1>3, GuiHeads
  <2>2. Task("gui") # "serve" /\ todo["gui"] \in GuiServes => s \in GuiServes
    BY <1>3, GuiHeads
  <2> HIDE DEF s
  <2> QED
    BY <1>1, <1>4, <1>6, <1>8, <2>1, <2>2, GuiPage DEF s
<1>9. CASE todo' = [todo EXCEPT !["gui"] = Tail(Tail(todo["gui"]))] /\ Task("gui") = "dac"
  <2>1. Tail(Tail(todo["gui"])) \in GuiPoints \ {Setting} /\ todo["gui"] \notin GuiServes
    BY <1>3, <1>9, GuiHeads
  <2> QED
    BY <1>1, <1>4, <1>6, <1>9, <2>1, GuiPage
<1>10. CASE todo' = [todo EXCEPT !["gui"] = << >>] /\ Task("gui") = "join"
  <2>1. << >> \in GuiPoints \ {Setting} /\ todo["gui"] \notin GuiServes
    BY <1>3, <1>10, GuiHeads DEF GuiPoints
  <2> QED
    BY <1>1, <1>4, <1>6, <1>10, <2>1, GuiPage
<1> QED
  BY <1>5, <1>7, <1>8, <1>9, <1>10

\* After the first list, and what the user starts.
LEMMA GuiStartsPage ==
  ASSUME PageInv,
         CheckCfg \/ ClickUpdate \/ ClickFormat \/ ClickRemove \/ ClickSettings
  PROVE  PageInv'
<1>1. Setting \notin {Updating, Formatting, Serving, Removing}
  BY DEF Setting, Updating, Formatting, Serving, Removing
<1>2. {Updating, Formatting, Serving, Removing, Setting} \subseteq GuiPoints
  BY DEF GuiPoints, GuiServes
<1>3. << >> \notin GuiServes
  BY DEF GuiServes, Formatting, Formatting2, Serving
<1>4. Task("gui") = "none" => todo["gui"] = << >>
  BY TaskPoints
<1>5. serving \in BOOLEAN /\ todo["gui"] \in GuiPoints
  BY DEF PageInv, PageTypeOK
<1>6. CASE CheckCfg
  <2>1. todo["gui"] # << >> /\ Head(todo["gui"]) = "check"
    BY <1>6 DEF CheckCfg, Task
  <2>2. Tail(todo["gui"]) \in GuiPoints \ {Setting} /\ todo["gui"] \notin GuiServes
    BY <1>5, <2>1, GuiHeads
  <2>3. /\ UNCHANGED << hidden, disabled, rtc, posted, serving >>
        /\ gate' = TRUE \/ gate' = gate
        /\ \/ todo' = [todo EXCEPT !["gui"] = Tail(todo["gui"])]
           \/ todo' = [todo EXCEPT !["gui"] = Updating]
    BY <1>6 DEF CheckCfg, GoesOn, Updating
  <2> QED
    BY <1>1, <1>2, <1>5, <2>2, <2>3, GuiPage
<1>7. CASE ClickUpdate
  <2>1. /\ todo' = [todo EXCEPT !["gui"] = Updating] /\ todo["gui"] = << >>
        /\ UNCHANGED << hidden, disabled, gate, serving, rtc, posted >>
    BY <1>4, <1>7 DEF ClickUpdate, Click, Starts, Updating
  <2> QED
    BY <1>1, <1>2, <1>3, <1>5, <2>1, GuiPage
<1>8. CASE ClickFormat
  <2>1. /\ \/ todo' = [todo EXCEPT !["gui"] = Formatting]
           \/ todo' = [todo EXCEPT !["gui"] = Serving]
        /\ UNCHANGED << hidden, disabled, gate, rtc, posted >> /\ serving' = FALSE
    BY <1>8 DEF ClickFormat, Click, Starts, Formatting, Serving
  <2>2. {Formatting, Serving} \subseteq GuiServes
    BY DEF GuiServes
  <2> QED
    BY <1>1, <1>2, <2>1, <2>2, GuiPage
<1>9. CASE ClickRemove
  <2>1. /\ todo' = [todo EXCEPT !["gui"] = Removing] /\ todo["gui"] = << >>
        /\ UNCHANGED << hidden, disabled, gate, serving, rtc, posted >>
    BY <1>4, <1>9 DEF ClickRemove, Click, Starts, Removing
  <2> QED
    BY <1>1, <1>2, <1>3, <1>5, <2>1, GuiPage
<1>10. CASE ClickSettings
  <2>1. /\ todo' = [todo EXCEPT !["gui"] = Setting] /\ todo["gui"] = << >>
        /\ UNCHANGED << hidden, disabled, gate, serving, rtc, posted >>
        /\ "settings" \notin hidden
    BY <1>4, <1>10 DEF ClickSettings, Click, Starts, Setting
  <2> QED
    BY <1>2, <1>3, <1>5, <2>1, GuiPage
<1> QED
  BY <1>6, <1>7, <1>8, <1>9, <1>10

\* The copy thread, where it leaves the buttons alone.
LEMMA CopyWorksPage ==
  ASSUME PageInv,
         \/ Refused("copy") \/ Granted("copy") \/ Serve("copy")
         \/ \E ok \in BOOLEAN : List("copy", ok)
         \/ \E gone \in SUBSET CardFile : Erase("copy", gone)
         \/ ClickDownload \/ CopyBegins \/ FetchConfig \/ FetchedAll \/ CopyCloses
         \/ FetchBegins \/ FetchEnds \/ Reopen
  PROVE  PageInv'
<1>1. UNCHANGED << hidden, disabled, gate, rtc, posted >>
  BY DEF Refused, Granted, Serve, List, Erase, ClickDownload, Click, Starts, CopyBegins,
         FetchConfig, FetchedAll, CopyCloses, FetchBegins, FetchEnds, Reopen
<1>2. gate \in BOOLEAN /\ serving \in BOOLEAN
  BY DEF PageInv, PageTypeOK
<1> DEFINE Goes(s) == todo' = [todo EXCEPT !["copy"] = s]
<1>3. CASE UNCHANGED << todo, serving >>
  BY <1>1, <1>3, StillPage
<1>4. CASE Goes(Beginning) /\ serving' = serving /\ todo["copy"] = << >> /\ "download" \notin hidden
  <2>1. ~ IsPosted("copied")
    BY <1>4 DEF PageInv, CopyInv, EnableCopyIndicators
  <2>2. Beginning \in CopyPoints /\ Beginning \notin HeldPoints
    BY PointKinds DEF CopyPoints, EarlyPoints
  <2> QED
    BY <1>1, <1>2, <1>4, <2>1, <2>2, PointKinds, CopyPage DEF Held
<1>5. CASE Goes(Asking) /\ todo["copy"] = Beginning /\ serving' = FALSE
  <2>1. Asking \in CopyPoints /\ Asking \in CopyServes
    BY DEF CopyPoints, EarlyPoints, CopyServes
  <2> QED
    BY <1>1, <1>2, <1>5, <2>1, PointKinds, CopyPage DEF Held
<1>6. CASE (Goes(Copying) \/ Goes(Serving)) /\ todo["copy"] = Asking /\ serving' = serving
  <2>1. {Copying, Serving} \subseteq CopyPoints \cap CopyServes
    BY DEF CopyPoints, EarlyPoints, LatePoints, CopyServes
  <2> QED
    BY <1>1, <1>2, <1>6, <2>1, PointKinds, CopyPage DEF Held
<1>7. CASE /\ serving' = serving
           /\ \/ todo["copy"] = Copying3 /\ (Goes(Copying4) \/ Goes(Cancelled))
              \/ todo["copy"] = Copying4 /\ Goes(Copying5)
              \/ todo["copy"] = Copying5 /\ Goes(Copying6)
              \/ todo["copy"] = Copying6 /\ Goes(Copying7)
  <2>1. /\ {Copying3, Copying4, Copying5, Copying6, Copying7, Cancelled} \subseteq HeldPoints
        /\ HeldPoints \subseteq CopyPoints
    BY DEF HeldPoints, CopyPoints
  <2>2. {Copying4, Copying5, Copying6, Copying7, Cancelled} \subseteq CopyServes \cap CopyOpens
    <3>1. \A s \in {Copying4, Copying5, Copying6, Copying7, Cancelled} :
            s \notin {Copying8, Cancelled2, Cancelled3}
      <4> DEFINE Apart(s) == s \notin {Copying8, Cancelled2, Cancelled3}
      <4>1. Copying7 # Cancelled2
        BY CopyHeads DEF Copying8, Cancelled3
      <4>2. Apart(Copying4) /\ Apart(Copying5) /\ Apart(Copying6) /\ Apart(Copying7)
        BY <4>1, CopyHeads
      <4>3. Apart(Cancelled)
        BY CopyHeads
      <4> HIDE DEF Apart
      <4>4. \A s \in {Copying4, Copying5, Copying6, Copying7, Cancelled} : Apart(s)
        BY <4>2, <4>3
      <4> QED
        BY <4>4 DEF Apart
    <3> QED
      BY <2>1, <3>1 DEF CopyServes, CopyOpens
  <2> QED
    BY <1>1, <1>2, <1>7, <2>1, <2>2, PointKinds, CopyPage DEF Held
<1>8. CASE Goes(<< >>) /\ todo["copy"] \in {Updating, Serving}
             /\ (serving' = TRUE \/ (serving' = serving /\ todo["copy"] = Updating))
  <2>1. << >> \in CopyPoints /\ << >> \in LatePoints
    BY DEF CopyPoints, LatePoints
  <2> QED
    BY <1>1, <1>2, <1>8, <2>1, PointKinds, CopyPage DEF Held
<1>9. CASE Goes(Cancelled2) /\ todo["copy"] = Cancelled /\ serving' = TRUE
  <2>1. {Cancelled, Cancelled2} \subseteq HeldPoints /\ Cancelled2 \in CopyPoints
    BY DEF HeldPoints, CopyPoints
  <2>2. Cancelled2 \in CopyOpens
    BY <2>1, PointKinds, CopyHeads DEF CopyOpens
  <2> QED
    BY <1>1, <1>2, <1>9, <2>1, <2>2, PointKinds, CopyPage DEF Held
\* which of these the actions are
<1>10. CASE Refused("copy")
  <2>1. Task("copy") \in {"copy", "list"} /\ serving' = serving
    BY <1>10, TaskPoints DEF Refused, CardTask
  <2>2. todo' = todo \/ Goes(WithoutAccess("copy"))
    BY <1>10 DEF Refused, GivesUp, GoesOn
  <2>3. Task("copy") = "copy" => todo["copy"] = Asking /\ WithoutAccess("copy") = Serving
    BY TaskPoints DEF WithoutAccess, Serving
  <2>4. Task("copy") = "list" => \/ todo["copy"] = Copying6 /\ WithoutAccess("copy") = Copying7
                                 \/ todo["copy"] = Updating /\ WithoutAccess("copy") = << >>
    BY TaskPoints, CopyHeads DEF WithoutAccess
  <2> QED
    BY <1>3, <1>6, <1>7, <1>8, <2>1, <2>2, <2>3, <2>4
<1>11. CASE Granted("copy")
  <2>1. Task("copy") \in {"copy", "list"} /\ serving' = serving
    BY <1>11, TaskPoints DEF Granted, CardTask
  <2>2. todo' = todo \/ Goes(WithoutAccess("copy")) \/ (Task("copy") = "copy" /\ Goes(Copying))
    BY <1>11 DEF Granted, GivesUp, GoesOn, Stays, Copying
  <2>3. Task("copy") = "copy" => todo["copy"] = Asking /\ WithoutAccess("copy") = Serving
    BY TaskPoints DEF WithoutAccess, Serving
  <2>4. Task("copy") = "list" => \/ todo["copy"] = Copying6 /\ WithoutAccess("copy") = Copying7
                                 \/ todo["copy"] = Updating /\ WithoutAccess("copy") = << >>
    BY TaskPoints, CopyHeads DEF WithoutAccess
  <2> QED
    BY <1>3, <1>6, <1>7, <1>8, <2>1, <2>2, <2>3, <2>4
<1>12. CASE Serve("copy")
  <2>1. todo["copy"] \in {Serving, Cancelled} /\ serving' = TRUE /\ Goes(Tail(todo["copy"]))
    BY <1>12, TaskPoints DEF Serve, GoesOn
  <2>2. Tail(Serving) = << >> /\ Tail(Cancelled) = Cancelled2
    BY CopyHeads
  <2> QED
    BY <1>8, <1>9, <2>1, <2>2
<1>13. CASE \E ok \in BOOLEAN : List("copy", ok)
  <2>1. todo["copy"] \in {Copying6, Updating} /\ serving' = serving /\ Goes(Tail(todo["copy"]))
    BY <1>13, TaskPoints DEF List, GoesOn
  <2>2. Tail(Copying6) = Copying7 /\ Tail(Updating) = << >>
    BY CopyHeads
  <2> QED
    BY <1>7, <1>8, <2>1, <2>2
<1>14. CASE \E gone \in SUBSET CardFile : Erase("copy", gone)
  BY <1>14, TaskPoints DEF Erase
<1>15. CASE ClickDownload
  <2>1. Task("copy") = "none" /\ Goes(Beginning) /\ serving' = serving /\ "download" \notin hidden
    BY <1>15 DEF ClickDownload, Click, Starts, Beginning
  <2> QED
    BY <1>4, <2>1, TaskPoints
<1>16. CASE CopyBegins
  <2>1. Task("copy") = "begin" /\ Goes(Asking) /\ serving' = FALSE
    BY <1>16 DEF CopyBegins, GoesOn, Asking
  <2> QED
    BY <1>5, <2>1, TaskPoints
<1>17. CASE FetchConfig \/ FetchedAll \/ CopyCloses
  <2>1. /\ serving' = serving
        /\ \/ Task("copy") = "config" /\ (Goes(Tail(todo["copy"])) \/ Goes(Cancelled))
           \/ Task("copy") \in {"files", "close"} /\ Goes(Tail(todo["copy"]))
    BY <1>17 DEF FetchConfig, FetchedAll, CopyCloses, GoesOn
  <2>2. /\ Task("copy") = "config" => todo["copy"] = Copying3
        /\ Task("copy") = "files" => todo["copy"] = Copying4
        /\ Task("copy") = "close" => todo["copy"] = Copying5
    BY TaskPoints
  <2>3. /\ Tail(Copying3) = Copying4 /\ Tail(Copying4) = Copying5 /\ Tail(Copying5) = Copying6
    BY CopyHeads
  <2> QED
    BY <1>7, <2>1, <2>2, <2>3
<1>18. CASE FetchBegins \/ FetchEnds \/ Reopen
  BY <1>3, <1>18 DEF FetchBegins, FetchEnds, Reopen, Stays
<1> QED
  BY <1>10, <1>11, <1>12, <1>13, <1>14, <1>15, <1>16, <1>17, <1>18

\* The copy thread tells the page and the tabs that it begins and that it is done.
LEMMA CopySendsPage ==
  ASSUME PageInv, CopySends
  PROVE  PageInv'
<1>1. /\ Task("copy") \in {"enable", "shut", "open"} /\ Pumping
      /\ todo' = [todo EXCEPT !["copy"] = Tail(todo["copy"])]
      /\ UNCHANGED << serving, rtc, posted >>
  BY DEF CopySends, GoesOn
<1>2. gate \in BOOLEAN /\ serving \in BOOLEAN
  BY DEF PageInv, PageTypeOK
<1>3. CASE Task("copy") = "enable"
  <2>1. /\ todo["copy"] = Copying /\ todo' = [todo EXCEPT !["copy"] = Copying2]
        /\ hidden' = EnableCopyIndicators /\ disabled' = disabled \cup CopyDisables
        /\ gate' = gate
    BY <1>1, <1>3, TaskPoints, CopyHeads, ZenonT(40) DEF CopySends
  <2>2. /\ Copying2 \in HeldPoints /\ Copying2 \in CopyPoints
        /\ Copying2 \in CopyServes /\ Copying2 \in CopyOpens
    <3>1. Copying2 \notin {Copying8, Cancelled2, Cancelled3}
      BY CopyHeads
    <3> QED
      BY <3>1 DEF HeldPoints, CopyPoints, CopyServes, CopyOpens
  <2>3. todo["gui"] # Setting
    <3>1. Task("gui") \in {"none", "modal"}
      BY <1>1 DEF Pumping
    <3> QED
      BY <3>1, GuiHeads, TaskPoints
  <2>4. ~ IsPosted("copied") /\ ~ Held
    BY <2>1, PointKinds DEF PageInv, CopyInv, Held
  <2>5. todo'["copy"] = Copying2 /\ todo'["gui"] = todo["gui"] /\ Held'
    BY <2>1, <2>2 DEF PageInv, PageTypeOK, Worker, Held
  <2>6. PageTypeOK'
    BY <1>1, <2>1, <2>2, <2>5
    DEF PageInv, PageTypeOK, EnableCopyIndicators, CopyDisables, Button
  <2>7. CopyInv'
    BY <1>1, <2>1, <2>3, <2>4, <2>5 DEF PageInv, CopyInv, IsPosted
  <2>8. ServeInv' /\ GateInv'
    BY <1>1, <2>1, <2>2, <2>5 DEF PageInv, ServeInv, GateInv, IsPosted, LastPosted
  <2>9. ButtonInv'
    BY <1>1, <2>1, <2>4, <2>5 DEF PageInv, ButtonInv, IsPosted, LastPosted, CopyDisables
  <2> QED
    BY <2>6, <2>7, <2>8, <2>9 DEF PageInv
<1>4. CASE Task("copy") = "shut"
  <2>1. /\ todo["copy"] = Copying2 /\ todo' = [todo EXCEPT !["copy"] = Copying3]
        /\ UNCHANGED << hidden, disabled >> /\ gate' = FALSE
    BY <1>1, <1>4, TaskPoints, CopyHeads, ZenonT(40) DEF CopySends
  <2>2. /\ {Copying2, Copying3} \subseteq HeldPoints /\ Copying3 \in CopyPoints
        /\ Copying3 \in CopyServes /\ Copying3 \in CopyOpens
    <3>1. Copying3 \notin {Copying8, Cancelled2, Cancelled3}
      BY CopyHeads
    <3> QED
      BY <3>1 DEF HeldPoints, CopyPoints, CopyServes, CopyOpens
  <2> QED
    BY <1>1, <1>2, <2>1, <2>2, PointKinds, CopyPage DEF Held
<1>5. CASE Task("copy") = "open"
  <2>1. /\ UNCHANGED << hidden, disabled >> /\ gate' = TRUE
        /\ \/ todo["copy"] = Copying7 /\ todo' = [todo EXCEPT !["copy"] = Copying8]
           \/ todo["copy"] = Cancelled2 /\ todo' = [todo EXCEPT !["copy"] = Cancelled3]
    BY <1>1, <1>5, TaskPoints, CopyHeads, ZenonT(40) DEF CopySends
  <2>2. /\ {Copying7, Copying8, Cancelled2, Cancelled3} \subseteq HeldPoints
        /\ HeldPoints \subseteq CopyPoints
        /\ Copying8 \in CopyServes /\ Cancelled2 \notin CopyServes
    <3>1. Copying8 \notin {Cancelled2, Cancelled3}
      BY CopyHeads
    <3>2. Cancelled2 \notin CopyServes
      BY PointKinds
    <3> QED
      BY <3>1, <3>2 DEF HeldPoints, CopyPoints, CopyServes
  <2> QED
    BY <1>1, <1>2, <2>1, <2>2, PointKinds, CopyPage DEF Held
<1> QED
  BY <1>1, <1>3, <1>4, <1>5

\* The download is over, and the buttons may come back.
LEMMA DisablePage ==
  ASSUME PageInv, Disable
  PROVE  PageInv'
<1>1. /\ Task("copy") = "disable" /\ posted' = Append(posted, "copied")
      /\ todo' = [todo EXCEPT !["copy"] = Tail(todo["copy"])]
      /\ UNCHANGED << hidden, disabled, gate, serving, rtc >>
  BY DEF Disable, GoesOn
<1>2. /\ \/ todo["copy"] = Copying8 /\ todo' = [todo EXCEPT !["copy"] = Serving]
         \/ todo["copy"] = Cancelled3 /\ todo' = [todo EXCEPT !["copy"] = Updating]
      /\ Held
  <2>1. {Copying8, Cancelled3} \subseteq HeldPoints
    BY DEF HeldPoints
  <2> QED
    BY <1>1, <2>1, TaskPoints, CopyHeads DEF Held
<1>3. posted \in Seq(Note) /\ "copied" \in Note
  BY DEF PageInv, PageTypeOK, Note
<1>4. /\ posted' \in Seq(Note)
      /\ Len(posted) \in Nat /\ Len(posted') = Len(posted) + 1
      /\ \A i \in 1..Len(posted) : posted'[i] = posted[i]
      /\ posted'[Len(posted) + 1] = "copied"
  BY <1>1, <1>3, PostOne
<1>5. /\ ~ IsPosted("copied") /\ EnableCopyIndicators \subseteq hidden
      /\ Copying8 \notin CopyOpens /\ Cancelled3 \notin CopyServes \cup CopyOpens
  BY <1>2, PointKinds DEF PageInv, CopyInv
<1>6. /\ todo'["gui"] = todo["gui"] /\ todo'["copy"] \in LatePoints /\ ~ Held'
      /\ todo["copy"] \in CopyServes => todo'["copy"] \in CopyServes
      /\ todo["copy"] \notin CopyOpens
      /\ todo' \in [Worker -> GuiPoints \cup CopyPoints]
  <2>1. {Serving, Updating} \subseteq LatePoints /\ LatePoints \subseteq CopyPoints
        /\ Serving \in CopyServes
    BY DEF LatePoints, CopyPoints, CopyServes
  <2> QED
    BY <1>2, <1>5, <2>1, PointKinds DEF PageInv, PageTypeOK, Worker, Held
<1>7. \A n : n # "copied" => (IsPosted(n)' <=> IsPosted(n))
  BY <1>4 DEF IsPosted
<1>8. \A n, m : m # "copied" /\ LastPosted(n, m) => LastPosted(n, m)'
  BY <1>4 DEF LastPosted
<1>9. IsPosted("copied")'
  BY <1>4 DEF IsPosted
<1>10. PageTypeOK'
  BY <1>1, <1>4, <1>6 DEF PageInv, PageTypeOK, CopyPoints
<1>11. CopyInv'
  <2>1. ASSUME NEW i \in 1..Len(posted'), posted'[i] = "copied" PROVE i = Len(posted) + 1
    BY <1>4, <1>5, <2>1 DEF IsPosted
  <2> QED
    BY <1>1, <1>5, <1>6, <1>9, <2>1 DEF CopyInv
<1>12. ServeInv'
  BY <1>1, <1>6 DEF PageInv, ServeInv
<1>13. GateInv'
  BY <1>1, <1>6, <1>7, <1>8 DEF PageInv, GateInv
<1>14. ButtonInv'
  BY <1>1, <1>7, <1>8, <1>9 DEF PageInv, ButtonInv
<1> QED
  BY <1>10, <1>11, <1>12, <1>13, <1>14 DEF PageInv

\* The test of the clock posts two notes when it begins and two when it ends.
LEMMA TestRtcPage ==
  ASSUME PageInv, TestRtc
  PROVE  PageInv'
<1>1. UNCHANGED << todo, hidden, disabled, gate >>
  BY DEF TestRtc
<1>2. posted \in Seq(Note) /\ {"test", "shut", "tested", "open"} \subseteq Note
  BY DEF PageInv, PageTypeOK, Note
<1>3. Held' = Held
  BY <1>1 DEF Held
<1>4. CASE rtc = "begins"
  <2>1. rtc' = "runs" /\ serving' = FALSE /\ posted' = posted \o << "test", "shut" >>
    BY <1>4 DEF TestRtc
  <2>2. /\ posted' \in Seq(Note)
        /\ Len(posted) \in Nat /\ Len(posted') = Len(posted) + 2
        /\ \A i \in 1..Len(posted) : posted'[i] = posted[i]
        /\ posted'[Len(posted) + 1] = "test" /\ posted'[Len(posted) + 2] = "shut"
    BY <1>2, <2>1, PostTwo
  <2>3. \A i \in 1..Len(posted') : posted'[i] = "copied" => i \in 1..Len(posted)
    BY <2>2
  <2>4. IsPosted("copied")' <=> IsPosted("copied")
    BY <2>2, <2>3 DEF IsPosted
  <2>5. PageTypeOK'
    BY <1>1, <2>1, <2>2 DEF PageInv, PageTypeOK
  <2>6. CopyInv'
    <3>1. \A i, j \in 1..Len(posted') : posted'[i] = "copied" /\ posted'[j] = "copied" => i = j
      BY <2>2, <2>3 DEF PageInv, CopyInv
    <3> QED
      BY <1>1, <1>3, <2>4, <3>1 DEF PageInv, CopyInv
  <2>7. ServeInv' /\ GateInv'
    BY <2>1 DEF ServeInv, GateInv
  <2>8. ButtonInv'
    BY <1>1, <1>3, <2>1, <2>4 DEF PageInv, ButtonInv
  <2> QED
    BY <2>5, <2>6, <2>7, <2>8 DEF PageInv
<1>5. CASE rtc = "runs"
  <2>1. rtc' = "ends" /\ serving' = serving /\ posted' = posted \o << "tested", "open" >>
    BY <1>5 DEF TestRtc
  <2>2. /\ posted' \in Seq(Note)
        /\ Len(posted) \in Nat /\ Len(posted') = Len(posted) + 2
        /\ \A i \in 1..Len(posted) : posted'[i] = posted[i]
        /\ posted'[Len(posted) + 1] = "tested" /\ posted'[Len(posted) + 2] = "open"
    BY <1>2, <2>1, PostTwo
  <2>3. \A i \in 1..Len(posted') : posted'[i] = "copied" => i \in 1..Len(posted)
    BY <2>2
  <2>4. IsPosted("copied")' <=> IsPosted("copied")
    BY <2>2, <2>3 DEF IsPosted
  <2>5. LastPosted("tested", "test")' /\ LastPosted("open", "shut")'
    <3>1. /\ Len(posted) + 1 \in 1..Len(posted') /\ Len(posted) + 2 \in 1..Len(posted')
          /\ \A j \in 1..Len(posted') : Len(posted) + 1 < j => j = Len(posted) + 2
          /\ \A j \in 1..Len(posted') : ~ (Len(posted) + 2 < j)
      BY <2>2
    <3> QED
      BY <2>2, <3>1 DEF LastPosted
  <2>6. PageTypeOK'
    BY <1>1, <2>1, <2>2 DEF PageInv, PageTypeOK
  <2>7. CopyInv'
    <3>1. \A i, j \in 1..Len(posted') : posted'[i] = "copied" /\ posted'[j] = "copied" => i = j
      BY <2>2, <2>3 DEF PageInv, CopyInv
    <3> QED
      BY <1>1, <1>3, <2>4, <3>1 DEF PageInv, CopyInv
  <2>8. ServeInv' /\ GateInv'
    BY <2>1, <2>5 DEF ServeInv, GateInv
  <2>9. ButtonInv'
    BY <1>1, <1>3, <2>4, <2>5 DEF PageInv, ButtonInv
  <2> QED
    BY <2>6, <2>7, <2>8, <2>9 DEF PageInv
<1>6. CASE rtc = "ends"
  <2>1. rtc' = "off" /\ serving' = TRUE /\ posted' = posted
    BY <1>6 DEF TestRtc
  <2>2. PageTypeOK' /\ CopyInv' /\ ServeInv'
    BY <1>1, <1>3, <2>1 DEF PageInv, PageTypeOK, CopyInv, ServeInv, IsPosted
  <2>3. GateInv' /\ ButtonInv'
    BY <1>1, <1>3, <1>6, <2>1 DEF PageInv, GateInv, ButtonInv, IsPosted, LastPosted
  <2> QED
    BY <2>2, <2>3 DEF PageInv
<1> QED
  BY <1>4, <1>5, <1>6 DEF TestRtc

\* The button of the test.
LEMMA ClickTestRtcPage ==
  ASSUME PageInv, ClickTestRtc
  PROVE  PageInv'
<1>1. UNCHANGED << hidden, disabled, gate, serving, posted >> /\ Task("gui") = "none"
  BY DEF ClickTestRtc
<1>2. CASE todo' = [todo EXCEPT !["gui"] = Joining] /\ rtc' = rtc
  <2>1. Joining \in GuiPoints /\ Joining # Setting
    BY DEF GuiPoints, Joining, Setting
  <2>2. todo["gui"] \notin GuiServes
    <3>1. todo["gui"] = << >>
      BY <1>1, TaskPoints
    <3> QED
      BY <3>1 DEF GuiServes, Formatting, Formatting2, Serving
  <2> QED
    BY <1>1, <1>2, <2>1, <2>2, GuiPage DEF PageInv, PageTypeOK
<1>3. CASE rtc = "off" /\ rtc' = "begins" /\ todo' = todo
  <2>1. PageTypeOK' /\ CopyInv' /\ ServeInv'
    BY <1>1, <1>3 DEF PageInv, PageTypeOK, CopyInv, ServeInv, IsPosted, Held
  <2>2. GateInv' /\ ButtonInv'
    BY <1>1, <1>3 DEF PageInv, GateInv, ButtonInv, IsPosted, LastPosted, Held
  <2> QED
    BY <2>1, <2>2 DEF PageInv
<1> QED
  BY <1>2, <1>3 DEF ClickTestRtc, Joining

\* A note that is posted once is posted at most once after another one, or it
\* itself, was taken.
LEMMA TakeOnce ==
  ASSUME posted \in Seq(Note), posted # << >>, posted' = Tail(posted),
         NEW n, \A i, j \in 1..Len(posted) : posted[i] = n /\ posted[j] = n => i = j
  PROVE  /\ \A i, j \in 1..Len(posted') : posted'[i] = n /\ posted'[j] = n => i = j
         /\ Head(posted) = n => ~ IsPosted(n)'
<1>1. /\ Head(posted) = posted[1] /\ Len(posted) \in Nat /\ 1 \in 1..Len(posted)
      /\ Len(posted') = Len(posted) - 1
      /\ \A i \in 1..Len(posted') : posted'[i] = posted[i + 1] /\ i + 1 \in 1..Len(posted)
  OBVIOUS
<1>2. ASSUME NEW i \in 1..Len(posted'), NEW j \in 1..Len(posted'),
             posted'[i] = n, posted'[j] = n
      PROVE  i = j
  <2>1. i + 1 = j + 1
    BY <1>1, <1>2
  <2> QED
    BY <2>1
<1>3. ASSUME NEW i \in 1..Len(posted'), posted'[i] = n, Head(posted) = n
      PROVE  FALSE
  <2>1. i + 1 = 1
    BY <1>1, <1>3
  <2> QED
    BY <2>1
<1> QED
  BY <1>2, <1>3 DEF IsPosted

\* The notes are taken by the window, one after the other.
LEMMA TakesPage ==
  ASSUME PageInv, TakeCopied \/ TakeTest \/ TakeGate
  PROVE  PageInv'
<1>1. /\ posted # << >> /\ posted' = Tail(posted)
      /\ UNCHANGED << todo, serving, rtc >>
  BY DEF TakeCopied, TakeTest, TakeGate, Take
<1>2. posted \in Seq(Note)
  BY DEF PageInv, PageTypeOK
<1> PICK h : h = Head(posted)
  OBVIOUS
<1>3. /\ posted' \in Seq(Note) /\ IsPosted(h)
      /\ \A n : IsPosted(n)' => IsPosted(n)
      /\ \A n : IsPosted(n) => IsPosted(n)' \/ h = n
      /\ \A n, m : LastPosted(n, m) => LastPosted(n, m)' \/ h = n
      /\ \A n, m : LastPosted(n, m) => LastPosted(n, m)' \/ ~ IsPosted(m)'
  <2>1. 1 \in 1..Len(posted) /\ posted[1] = h
    BY <1>1, <1>2
  <2> QED
    BY <1>1, <1>2, <2>1, TakeOne DEF IsPosted
<1>4. /\ \A i, j \in 1..Len(posted') : posted'[i] = "copied" /\ posted'[j] = "copied" => i = j
      /\ h = "copied" => ~ IsPosted("copied")'
  BY <1>1, <1>2, TakeOnce DEF PageInv, CopyInv
<1>5. Held' = Held
  BY <1>1 DEF Held
<1>6. ServeInv'
  BY <1>1 DEF PageInv, ServeInv
<1>7. CASE TakeCopied
  <2>1. /\ h = "copied" /\ hidden' = {} /\ disabled' = disabled \ CopyDisables /\ gate' = gate
    BY <1>7 DEF TakeCopied, Take
  <2>2. ~ Held /\ ~ IsPosted("copied")'
    BY <1>3, <1>4, <2>1 DEF PageInv, CopyInv
  <2>3. PageTypeOK'
    BY <1>1, <1>3, <2>1 DEF PageInv, PageTypeOK
  <2>4. CopyInv'
    BY <1>4, <1>5, <2>1, <2>2 DEF CopyInv
  <2>5. GateInv'
    BY <1>1, <1>3, <2>1 DEF PageInv, GateInv
  <2>6. ButtonInv'
    BY <1>1, <1>3, <2>1 DEF PageInv, ButtonInv, CopyDisables
  <2> QED
    BY <1>6, <2>3, <2>4, <2>5, <2>6 DEF PageInv
<1>8. CASE TakeTest
  <2>1. /\ h \in {"test", "tested"} /\ hidden' = hidden /\ gate' = gate
        /\ disabled' = IF h = "test" THEN disabled \cup (Button \ {"rtc"})
                       ELSE disabled \cap {"rtc"}
    BY <1>8 DEF TakeTest, Take
  <2>2. IsPosted("copied")' <=> IsPosted("copied")
    BY <1>3, <2>1
  <2>3. PageTypeOK'
    BY <1>1, <1>3, <2>1 DEF PageInv, PageTypeOK
  <2>4. CopyInv'
    BY <1>1, <1>4, <1>5, <2>1, <2>2 DEF PageInv, CopyInv
  <2>5. GateInv'
    BY <1>1, <1>3, <2>1 DEF PageInv, GateInv
  <2>6. ButtonInv'
    <3>1. IsPosted("test")' => LastPosted("tested", "test")' \/ rtc' = "runs"
      BY <1>1, <1>3 DEF PageInv, ButtonInv
    <3>2. "rtc" \in disabled' => Held' \/ IsPosted("copied")'
      BY <1>5, <2>1, <2>2 DEF PageInv, ButtonInv
    <3>3. CASE h = "test"
      <4>1. LastPosted("tested", "test")' \/ rtc' = "runs"
        BY <1>1, <1>3, <3>3 DEF PageInv, ButtonInv
      <4> QED
        BY <3>1, <3>2, <4>1 DEF ButtonInv
    <3>4. CASE h = "tested"
      <4>1. disabled' \subseteq CopyDisables /\ (disabled' # {} => "rtc" \in disabled')
        BY <2>1, <3>4 DEF CopyDisables
      <4> QED
        BY <3>1, <3>2, <4>1 DEF ButtonInv
    <3> QED
      BY <2>1, <3>3, <3>4
  <2> QED
    BY <1>6, <2>3, <2>4, <2>5, <2>6 DEF PageInv
<1>9. CASE TakeGate
  <2>1. /\ h \in {"shut", "open"} /\ hidden' = hidden /\ disabled' = disabled
        /\ gate' = (h = "open")
    BY <1>9 DEF TakeGate, Take
  <2>2. IsPosted("copied")' <=> IsPosted("copied")
    BY <1>3, <2>1
  <2>3. PageTypeOK'
    BY <1>1, <1>3, <2>1 DEF PageInv, PageTypeOK
  <2>4. CopyInv'
    BY <1>1, <1>4, <1>5, <2>1, <2>2 DEF PageInv, CopyInv
  <2>5. GateInv'
    BY <1>1, <1>3, <2>1 DEF PageInv, GateInv
  <2>6. ButtonInv'
    BY <1>1, <1>3, <1>5, <2>1, <2>2 DEF PageInv, ButtonInv
  <2> QED
    BY <1>6, <2>3, <2>4, <2>5, <2>6 DEF PageInv
<1> QED
  BY <1>7, <1>8, <1>9

\* Every step of the page keeps the invariant.
LEMMA StepPage == PageInv /\ [RegNext]_regVars => PageInv'
<1> SUFFICES ASSUME PageInv, [RegNext]_regVars PROVE PageInv'
  OBVIOUS
<1>1. CASE UNCHANGED regVars
  BY <1>1, StillPage DEF regVars
<1>2. ASSUME NEW t \in Worker,
             \/ Refused(t) \/ Granted(t) \/ Serve(t)
             \/ \E ok \in BOOLEAN : List(t, ok)
             \/ \E gone \in SUBSET CardFile : Erase(t, gone)
      PROVE  PageInv'
  <2>1. CASE t = "gui"
    BY <1>2, <2>1, GuiCardPage
  <2>2. CASE t = "copy"
    BY <1>2, <2>2, CopyWorksPage
  <2> QED
    BY <2>1, <2>2 DEF Worker
<1>3. CASE Read \/ EndModal \/ Joined \/ \E ok \in BOOLEAN : Write(ok)
  BY <1>3, GuiCardPage
<1>4. CASE CheckCfg \/ ClickUpdate \/ ClickFormat \/ ClickRemove \/ ClickSettings
  BY <1>4, GuiStartsPage
<1>5. CASE \/ ClickDownload \/ CopyBegins \/ FetchConfig \/ FetchedAll \/ CopyCloses
           \/ FetchBegins \/ FetchEnds \/ Reopen
  BY <1>5, CopyWorksPage
<1>6. CASE CopySends \/ Disable
  BY <1>6, CopySendsPage, DisablePage
<1>7. CASE TestRtc \/ ClickTestRtc
  BY <1>7, TestRtcPage, ClickTestRtcPage
<1>8. CASE TakeCopied \/ TakeTest \/ TakeGate
  BY <1>8, TakesPage
<1> QED
  BY <1>1, <1>2, <1>3, <1>4, <1>5, <1>6, <1>7, <1>8 DEF RegNext

----------------------------------------------------------------------------
\* At every moment the GUI thread, the copy thread and the clock thread are at
\* points of their handlers that agree with the buttons, the tabs, the server
\* and the notes on their way.
THEOREM PageAgrees == RegSpec => []PageInv
<1> QED
  BY InitPage, StepPage, PTL DEF RegSpec

\* Only the parameters of the registration are read from the card.
LEMMA OnlySettingReads == \A s \in GuiPoints \ {<< >>} : Head(s) = "read" => s = Setting
<1> DEFINE Sole(s) == s # << >> /\ Head(s) = "read" => s = Setting
<1>1. Sole(Updating) /\ Sole(Opening) /\ Sole(Removing) /\ Sole(Joining) /\ Sole(Checking)
  BY DEF Updating, Opening, Removing, Joining, Checking
<1>2. Sole(Formatting) /\ Sole(Formatting2) /\ Sole(Serving) /\ Sole(<< >>) /\ Sole(Setting)
  BY DEF Formatting, Formatting2, Serving
<1>3. Sole(Setting2) /\ Sole(Setting3) /\ Sole(Setting4) /\ Sole(Setting5)
      /\ Sole(Setting6) /\ Sole(Setting7)
  BY DEF Setting2, Setting3, Setting4, Setting5, Setting6, Setting7
<1> HIDE DEF Sole
<1>4. \A s \in GuiPoints : Sole(s)
  BY <1>1, <1>2, <1>3 DEF GuiPoints, GuiServes
<1> QED
  BY <1>4 DEF Sole

\* The GUI thread never waits for the block of the copy thread while that waits
\* for the GUI thread to take a message: the button that leads there is hidden
\* before the block is set for the first time, and stays so until the page has
\* learnt that the download is over.
THEOREM NeverAStandOff == RegSpec => []NoStandOff
<1>1. PageInv => NoStandOff
  <2> SUFFICES ASSUME PageInv, Task("gui") = "read", Task("copy") = "files"
               PROVE  FALSE
    BY DEF NoStandOff
  <2>1. todo["gui"] = Setting
    BY TaskPoints, OnlySettingReads DEF PageInv, PageTypeOK
  <2>2. Held
    BY TaskPoints DEF Held, HeldPoints
  <2> QED
    BY <2>1, <2>2 DEF PageInv, CopyInv
<1> QED
  BY <1>1, PageAgrees, PTL

\* When every thread is done and every message taken, the tabs can be changed,
\* every button is back and the server delivers data, whatever was refused,
\* cancelled or interrupted on the way.
THEOREM PageComesBack == RegSpec => []RestedIsRestored
<1>1. PageInv => RestedIsRestored
  <2> SUFFICES ASSUME PageInv, \A t \in Worker : Task(t) = "none", rtc = "off",
                      posted = << >>
               PROVE  gate /\ serving /\ hidden = {} /\ disabled = {}
    BY DEF RestedIsRestored
  <2>1. todo["gui"] = << >> /\ todo["copy"] = << >>
    BY TaskPoints DEF Worker
  <2>2. \A n, m : ~ IsPosted(n) /\ ~ LastPosted(n, m)
    BY DEF IsPosted, LastPosted
  <2>3. ~ Held /\ << >> \notin CopyServes \cup CopyOpens
    BY <2>1, PointKinds DEF Held
  <2>4. << >> \notin GuiServes
    BY DEF GuiServes, Formatting, Formatting2, Serving
  <2>5. gate /\ serving
    BY <2>1, <2>2, <2>3, <2>4 DEF PageInv, GateInv, ServeInv
  <2>6. hidden = {} /\ disabled = {}
    BY <2>2, <2>3 DEF PageInv, CopyInv, ButtonInv
  <2> QED
    BY <2>5, <2>6
<1> QED
  BY <1>1, PageAgrees, PTL

----------------------------------------------------------------------------
\* The dialog that balances a bridge.

Reading == Int \cup {NaN}
Potentiometers == [mode : 0..3, pot1 : Pot, pot2 : Pot]
Search == [stage : 0..3, start : Pot, end : Pot, cur : Int, pot2 : Pot, fs : Reading,
           fe : Reading, larger : BOOLEAN]

DialogTypes ==
  /\ group \in Seq(Gauge) /\ group # << >>
  /\ bridge \in [slope : Int, zero : Int]
  /\ gauge \in [Gauge -> Potentiometers]
  /\ stored \in [Gauge -> Potentiometers]
  /\ mode \in 0..3
  /\ slider \in Pot \X Pot
  /\ timers \subseteq 1..3
  /\ bal \in Search
  /\ remembered \in Potentiometers
  /\ shown \in Reading
  /\ honest \in BOOLEAN /\ fresh \in BOOLEAN

\* The slider of the balance is where pot1 of every gauge of the dialog is,
\* or will be when timer 1 has fired; or the gauges are as they were opened or
\* saved, or as they were before a measurement that failed.
Stands == \A i \in 1..Len(group) : gauge[group[i]].pot1 = slider[1]
AsStored ==
  /\ slider[1] = stored[First].pot1
  /\ \A i \in 1..Len(group) : gauge[group[i]].pot1 = stored[group[i]].pot1
GivenBack ==
  /\ failed /\ slider[1] = Middle
  /\ \A i \in 1..Len(group) : gauge[group[i]].pot1 = remembered.pot1

SliderInv == 1 \in timers \/ Stands \/ AsStored \/ GivenBack

\* The position the search has set and waits for a reading of.
Position == CASE bal.stage = 1 -> bal.start [] bal.stage = 2 -> bal.end [] OTHER -> bal.cur

\* While timer 2 or 3 runs the controls are off.  A measurement is made with the
\* slider in the middle.  A search has a bracket, and
\* the slider and the bridge are where it has set them.
SearchInv ==
  /\ timers \cap {2, 3} # {} => enabled = {}
  /\ ~ {2, 3} \subseteq timers
  /\ 3 \in timers => slider[1] = Middle
  /\ 2 \in timers =>
       /\ bal.stage # 0 /\ Position \in Pot
       /\ slider[1] = Position /\ gauge[First].pot1 = Position
       /\ bal.stage # 3 => bal.start = 0 /\ bal.end = Top

\* The position nearest to the one without imbalance.
Nearest(q) == Round(q + bridge.zero, 4)

\* The readings of a search are those of its bracket, whose line crosses zero
\* where the bridge does.
Readings ==
  /\ bal.stage = 2 => bal.fs \in {NaN, Imbalance(bal.start, bal.pot2)}
  /\ bal.stage = 3 =>
       /\ bal.fs = Imbalance(bal.start, bal.pot2)
       /\ bal.fe = Imbalance(bal.end, bal.pot2)
       /\ bal.fs # bal.fe
       /\ bal.cur = Nearest(bal.pot2)

\* A new reading is that of the position, and those of an honest search are
\* as they should be.
ReadingInv ==
  /\ fresh => shown \in {NaN, Imbalance(gauge[First].pot1, gauge[First].pot2) - Shift[First]}
  /\ 2 \in timers /\ honest /\ Len(group) = 1 => Readings

DlgInv == DialogTypes /\ SliderInv /\ SearchInv /\ ReadingInv
----------------------------------------------------------------------------
\* Every set of numbers has a least one.
LEMMA LeastNumber ==
  ASSUME NEW S \in SUBSET Nat, S # {}
  PROVE  \E n \in S : \A m \in S : n <= m
<1>1. IsWellFoundedOn(OpToRel(<, Nat), Nat)
  BY NatLessThanWellFounded
<1>2. PICK n \in S : \A m \in S : ~ (<< m, n >> \in OpToRel(<, Nat))
  BY <1>1, WFMin, Zenon
<1>3. ASSUME NEW m \in S PROVE n <= m
  <2>1. m \in Nat /\ n \in Nat /\ ~ (<< m, n >> \in OpToRel(<, Nat))
    BY <1>2
  <2> QED
    BY <2>1 DEF OpToRel
<1> QED
  BY <1>3

\* What holds of 0 and passes from each number to the next holds up to n.
LEMMA Climbing ==
  ASSUME NEW n \in Nat, NEW S \in SUBSET (0 .. n), 0 \in S,
         \A i \in 1 .. n : i - 1 \in S => i \in S
  PROVE  S = 0 .. n
<1> SUFFICES ASSUME (0 .. n) \ S # {} PROVE FALSE
  OBVIOUS
<1>1. (0 .. n) \ S \in SUBSET Nat
  OBVIOUS
<1>2. PICK k \in (0 .. n) \ S : \A m \in (0 .. n) \ S : k <= m
  BY <1>1, LeastNumber
<1> QED
  BY <1>2

\* The same, said of the values of a function.
LEMMA Climbed ==
  ASSUME NEW G, NEW n \in Nat, NEW g, g[0] \in G,
         \A i \in 1 .. n : g[i - 1] \in G => g[i] \in G
  PROVE  \A i \in 0 .. n : g[i] \in G
<1> DEFINE S == {i \in 0 .. n : g[i] \in G}
<1>1. S \in SUBSET (0 .. n) /\ 0 \in S /\ \A i \in 1 .. n : i - 1 \in S => i \in S
  OBVIOUS
<1> HIDE DEF S
<1>2. S = 0 .. n
  BY <1>1, Climbing
<1> QED
  BY <1>2 DEF S

\* There is a function that takes the steps of R.
Follows(g, s, n, R) ==
  /\ DOMAIN g = 0 .. n
  /\ g = [i \in 0 .. n |-> IF i = 0 THEN s ELSE R[<< g[i - 1], i >>]]

\* The function that InTurn asks for exists.
LEMMA Steps ==
  ASSUME NEW s, NEW n \in Nat, NEW R
  PROVE  \E g : Follows(g, s, n, R)
<1> DEFINE S == {i \in 0 .. n : \E g : Follows(g, s, i, R)}
<1>1. 0 \in S
  <2>1. Follows([i \in 0 .. 0 |-> s], s, 0, R)
    BY DEF Follows
  <2> QED
    BY <2>1
<1>2. ASSUME NEW i \in 1 .. n, i - 1 \in S PROVE i \in S
  <2>1. PICK g : Follows(g, s, i - 1, R)
    BY <1>2
  <2> DEFINE h == [k \in 0 .. i |-> IF k = i THEN R[<< g[i - 1], i >>] ELSE g[k]]
  <2>2. ASSUME NEW k \in 0 .. i
        PROVE  h[k] = IF k = 0 THEN s ELSE R[<< h[k - 1], k >>]
    <3>1. CASE k = i
      <4>1. h[k] = R[<< g[i - 1], i >>] /\ h[k - 1] = g[i - 1] /\ k # 0
        BY <3>1, <1>2
      <4> QED BY <4>1, <3>1
    <3>2. CASE k # i
      <4>1. k \in 0 .. i - 1 /\ h[k] = g[k] /\ (k # 0 => h[k - 1] = g[k - 1])
        BY <3>2, <1>2
      <4>2. g[k] = IF k = 0 THEN s ELSE R[<< g[k - 1], k >>]
        BY <4>1, <2>1 DEF Follows
      <4> QED BY <4>1, <4>2
    <3> QED BY <3>1, <3>2
  <2>3. Follows(h, s, i, R)
    <3>0. DOMAIN h = 0 .. i
      OBVIOUS
    <3>1. h = [k \in 0 .. i |-> h[k]]
      OBVIOUS
    <3> HIDE DEF h
    <3> QED BY <3>0, <3>1, <2>2 DEF Follows
  <2> QED BY <2>3, <1>2
<1> HIDE DEF S
<1>3. S = 0 .. n
  <2>1. S \in SUBSET (0 .. n)
    BY DEF S
  <2> QED BY <1>1, <1>2, <2>1, Climbing
<1> QED
  BY <1>3 DEF S

\* R keeps to G, hence so do its steps.
LEMMA StepsWithin ==
  ASSUME NEW G, NEW s \in G, NEW n \in Nat, NEW R \in [G \X (1 .. n) -> G], NEW g,
         Follows(g, s, n, R)
  PROVE  \A i \in 0 .. n : g[i] \in G
<1>1. g[0] = s
  BY DEF Follows
<1>2. ASSUME NEW i \in 1 .. n, g[i - 1] \in G PROVE g[i] \in G
  <2>1. g[i] = R[<< g[i - 1], i >>]
    BY DEF Follows
  <2> QED BY <1>2, <2>1
<1> QED
  BY <1>1, <1>2, Climbed


----------------------------------------------------------------------------
\* What the searches read.

\* The sum over a group is a number, that over one gauge is its shift.
LEMMA ShiftsGiven ==
  ASSUME NEW g \in Seq(Gauge), group = g, g # << >>
  PROVE  /\ Shifts \in Int
         /\ Len(g) = 1 => Shifts = Shift[g[1]]
<1> DEFINE n == Len(g)
           E(u) == u = [i \in 0 .. n |-> IF i = 0 THEN 0 ELSE u[i - 1] + Shift[g[i]]]
           upTo == CHOOSE u : E(u)
           R == [x \in Int \X (1 .. n) |-> x[1] + Shift[g[x[2]]]]
           G == Int
<1>0. n \in Nat /\ \A i \in 1 .. n : g[i] \in Gauge /\ Shift[g[i]] \in Int
  BY TensoAssumption
<1>1. PICK u : Follows(u, 0, n, R)
  BY <1>0, Steps
<1>2. R \in [Int \X (1 .. n) -> Int]
  BY <1>0
<1>3. \A i \in 0 .. n : u[i] \in Int
  <2>1. R \in [G \X (1 .. n) -> G] /\ 0 \in G
    BY <1>2
  <2> HIDE DEF R, n, G
  <2>2. \A i \in 0 .. n : u[i] \in G
    BY <1>0, <1>1, <2>1, StepsWithin
  <2> QED BY <2>2 DEF G
<1>4. E(u)
  <2>1. ASSUME NEW i \in 0 .. n PROVE u[i] = IF i = 0 THEN 0 ELSE u[i - 1] + Shift[g[i]]
    <3>1. CASE i = 0
      BY <1>1, <3>1 DEF Follows
    <3>2. CASE i # 0
      <4>1. i \in 1 .. n /\ u[i - 1] \in Int
        BY <1>0, <1>3, <3>2
      <4>2. u[i] = R[<< u[i - 1], i >>]
        <5> HIDE DEF R, n
        <5> QED BY <1>1, <3>2 DEF Follows
      <4> QED BY <4>1, <4>2, <3>2
    <3> QED BY <3>1, <3>2
  <2>2. u = [i \in 0 .. n |-> u[i]]
    BY <1>1 DEF Follows
  <2> QED BY <2>1, <2>2
<1>5. E(upTo)
  BY <1>4
<1>6. Shifts = upTo[n]
  BY DEF Shifts
<1> HIDE DEF upTo
<1>7. upTo[0] = 0 /\ \A i \in 1 .. n : upTo[i] = upTo[i - 1] + Shift[g[i]]
  BY <1>0, <1>5
<1>8. upTo[n] \in Int
  <2>1. \A i \in 1 .. n : upTo[i - 1] \in Int => upTo[i] \in Int
    BY <1>0, <1>7
  <2>2. upTo[0] \in Int /\ n \in 0 .. n
    BY <1>0, <1>7
  <2> HIDE DEF n
  <2> QED BY <1>0, <2>1, <2>2, Climbed
<1>9. ASSUME n = 1 PROVE upTo[n] = Shift[g[1]]
  BY <1>0, <1>7, <1>9
<1> QED
  BY <1>6, <1>8, <1>9

\* A bracket of the positions around r, as a probe has it: the resistance at its
\* lower end is not below r, that at its upper end is, and one of them was probed.
Brackets(r) ==
  {b \in [start : Pot, end : 1 .. Top + 1, pos : Pot] :
     /\ b.start < b.end /\ b.pos \in {b.start, b.end}
     /\ r <= Resistance[0] => r <= Resistance[b.start]
     /\ b.end \in Pot => Resistance[b.end] < r}

\* Halving a bracket gives a smaller one, unless nothing lies between its ends.
LEMMA HalvedGiven ==
  ASSUME NEW r \in Int, NEW b \in Brackets(r)
  PROVE  /\ Halved(b, r) \in Brackets(r)
         /\ \/ b.end - b.start <= 1 /\ Halved(b, r) = b
            \/ Halved(b, r).end - Halved(b, r).start < b.end - b.start
<1> DEFINE mid == (b.start + b.end) \div 2
<1>0. /\ Top \in Nat \ {0} /\ \A p \in Pot : Resistance[p] \in Int
      /\ Pot \subseteq Nat /\ \A p \in Nat : p < Top + 1 => p \in Pot
  BY TensoAssumption DEF Pot
<1>1. CASE b.end - b.start <= 1
  BY <1>1 DEF Halved
<1>2. CASE ~ (b.end - b.start <= 1)
  <2>1. /\ b \in [start : Pot, end : 1 .. Top + 1, pos : Pot] /\ b.start < b.end
        /\ b.start \in Nat /\ b.end \in Nat /\ b.end <= Top + 1
        /\ r <= Resistance[0] => r <= Resistance[b.start]
        /\ b.end \in Pot => Resistance[b.end] < r
    <3>1. /\ b \in [start : Pot, end : 1 .. Top + 1, pos : Pot] /\ b.start < b.end
          /\ r <= Resistance[0] => r <= Resistance[b.start]
          /\ b.end \in Pot => Resistance[b.end] < r
      BY DEF Brackets
    <3>2. b.start \in Pot /\ b.end \in 1 .. Top + 1
      BY <3>1
    <3>3. b.end \in Nat /\ b.end <= Top + 1
      BY <3>2, TensoAssumption
    <3>4. b.start \in Nat
      BY <3>2, TensoAssumption DEF Pot
    <3> QED BY <3>1, <3>3, <3>4
  <2>2. b.start < mid /\ mid < b.end /\ mid \in Pot /\ mid \in 1 .. Top + 1
    BY <1>0, <1>2, <2>1
  <2>3. Halved(b, r) = IF Resistance[mid] < r THEN [b EXCEPT !.end = mid, !.pos = mid]
                       ELSE [b EXCEPT !.start = mid, !.pos = mid]
    BY <1>2 DEF Halved
  <2> HIDE DEF mid
  <2>4. CASE Resistance[mid] < r
    <3>1. Halved(b, r) = [b EXCEPT !.end = mid, !.pos = mid]
      BY <2>3, <2>4
    <3> DEFINE h == Halved(b, r)
    <3>2. /\ h \in [start : Pot, end : 1 .. Top + 1, pos : Pot]
          /\ h.start = b.start /\ h.end = mid /\ h.pos = mid
      BY <2>1, <2>2, <3>1
    <3> HIDE DEF h
    <3>3. h \in Brackets(r)
      BY <2>1, <2>2, <2>4, <3>2 DEF Brackets
    <3>4. h.end - h.start < b.end - b.start
      BY <1>0, <2>1, <2>2, <3>2
    <3> QED BY <3>3, <3>4 DEF h
  <2>5. CASE ~ (Resistance[mid] < r)
    <3>1. Halved(b, r) = [b EXCEPT !.start = mid, !.pos = mid]
      BY <2>3, <2>5
    <3> DEFINE h == Halved(b, r)
    <3>2. /\ h \in [start : Pot, end : 1 .. Top + 1, pos : Pot]
          /\ h.start = mid /\ h.end = b.end /\ h.pos = mid
      BY <2>1, <2>2, <3>1
    <3> HIDE DEF h
    <3>3. r <= Resistance[mid]
      BY <1>0, <2>2, <2>5
    <3>4. h \in Brackets(r)
      BY <2>1, <2>2, <3>2, <3>3 DEF Brackets
    <3>5. h.end - h.start < b.end - b.start
      BY <1>0, <2>1, <2>2, <3>2
    <3> QED BY <3>4, <3>5 DEF h
  <2> QED BY <2>4, <2>5
<1> QED
  BY <1>1, <1>2

\* A probe ends at one of two neighbours between which r lies.
LEMMA ProbeGiven ==
  ASSUME NEW r \in Int
  PROVE  \E b \in Brackets(r) : b.end = b.start + 1 /\ Probe(r) = b.pos
<1> DEFINE n == Top + 1
           first == [start |-> 0, end |-> n, pos |-> 0]
           E(u) == u = [k \in 0 .. n |-> IF k = 0 THEN first ELSE Halved(u[k - 1], r)]
           after == CHOOSE u : E(u)
           G == Brackets(r)
           R == [x \in G \X (1 .. n) |-> Halved(x[1], r)]
<1>0. n \in Nat /\ Top \in Nat \ {0} /\ first \in G
  <2>1. Top \in Nat \ {0} /\ n \in Nat /\ n \notin Pot /\ n \in 1 .. Top + 1 /\ 0 \in Pot /\ 0 < n
    BY TensoAssumption DEF Pot
  <2> HIDE DEF n
  <2> QED BY <2>1 DEF Brackets
<1>1. ASSUME NEW b \in G PROVE Halved(b, r) \in G
  BY HalvedGiven
<1> HIDE DEF first, G
<1>2. R \in [G \X (1 .. n) -> G]
  BY <1>1
<1>3. PICK u : Follows(u, first, n, R)
  BY <1>0, Steps
<1>4. \A i \in 0 .. n : u[i] \in G
  <2> HIDE DEF R, n
  <2> QED BY <1>0, <1>2, <1>3, StepsWithin
<1>5. E(u)
  <2>1. ASSUME NEW i \in 0 .. n PROVE u[i] = IF i = 0 THEN first ELSE Halved(u[i - 1], r)
    <3>1. CASE i = 0
      BY <1>3, <3>1 DEF Follows
    <3>2. CASE i # 0
      <4>1. i \in 1 .. n /\ u[i - 1] \in G
        BY <1>0, <1>4, <3>2
      <4>2. u[i] = R[<< u[i - 1], i >>]
        <5> HIDE DEF R, n
        <5> QED BY <1>3, <3>2 DEF Follows
      <4> QED BY <4>1, <4>2, <3>2
    <3> QED BY <3>1, <3>2
  <2>2. u = [i \in 0 .. n |-> u[i]]
    BY <1>3 DEF Follows
  <2> QED BY <2>1, <2>2
<1>6. E(after)
  BY <1>5
<1>7. Probe(r) = after[n].pos
  BY DEF Probe, first
<1> HIDE DEF after
<1>8. after[0] = first /\ \A i \in 1 .. n : after[i] = Halved(after[i - 1], r)
  BY <1>0, <1>6
<1>9. \A i \in 0 .. n : after[i] \in G
  <2>1. \A i \in 1 .. n : after[i - 1] \in G => after[i] \in G
    BY <1>1, <1>8
  <2> HIDE DEF n
  <2> QED BY <1>0, <1>8, <2>1, Climbed
<1> DEFINE Size(i) == after[i].end - after[i].start
           Small == {i \in 0 .. n : Size(i) <= 1 \/ Size(i) <= n - i}
<1>10. \A i \in 0 .. n : Size(i) \in Nat
  <2>1. ASSUME NEW b \in G PROVE b.end - b.start \in Nat
    BY TensoAssumption DEF G, Brackets, Pot
  <2> QED BY <1>9, <2>1
<1>11. 0 \in Small
  BY <1>0, <1>8 DEF first
<1>12. ASSUME NEW i \in 1 .. n, i - 1 \in Small PROVE i \in Small
  <2>1. i - 1 \in 0 .. n /\ i \in 0 .. n
    BY <1>0
  <2>2. Size(i - 1) <= 1 \/ Size(i - 1) <= n - (i - 1)
    BY <1>12
  <2>3. after[i - 1] \in G /\ after[i] = Halved(after[i - 1], r)
    BY <1>8, <1>9, <2>1
  <2>4. (Size(i - 1) <= 1 /\ after[i] = after[i - 1]) \/ Size(i) < Size(i - 1)
    BY <2>3, HalvedGiven DEF G
  <2>5. Size(i) \in Nat /\ Size(i - 1) \in Nat
    BY <1>10, <2>1
  <2> HIDE DEF Size
  <2>6. Size(i) <= 1 \/ Size(i) <= n - i
    <3>1. CASE Size(i - 1) <= 1 /\ after[i] = after[i - 1]
      BY <3>1 DEF Size
    <3>2. CASE Size(i) < Size(i - 1)
      BY <1>0, <2>2, <2>5, <3>2
    <3> QED BY <2>4, <3>1, <3>2
  <2> QED BY <2>1, <2>6
<1> HIDE DEF Size
<1>13. Size(n) <= 1
  <2>1. Small \in SUBSET (0 .. n)
    OBVIOUS
  <2> HIDE DEF Small, n
  <2>2. Small = 0 .. n
    BY <1>0, <1>11, <1>12, <2>1, Climbing
  <2>3. n \in Small
    BY <1>0, <2>2
  <2>4. Size(n) <= 1 \/ Size(n) <= n - n
    BY <2>3 DEF Small
  <2> QED BY <1>0, <1>10, <2>4
<1>14. after[n] \in G
  BY <1>0, <1>9
<1>15. after[n].end = after[n].start + 1
  <2>1. ASSUME NEW b \in G, b.end - b.start <= 1 PROVE b.end = b.start + 1
    BY <2>1, TensoAssumption DEF G, Brackets, Pot
  <2> QED BY <1>13, <1>14, <2>1 DEF Size
<1> QED
  BY <1>7, <1>14, <1>15 DEF G

\* Among the positions the one found is as near to the typed resistance as any.
\* This is what OnApplyButtonPress is for (tenso_dlg.cpp:420-440, 1077-1109).
THEOREM TypedIsNearest ==
  ASSUME NEW r \in Int
  PROVE  /\ GetNearestVal(r) \in Pot
         /\ \A p \in Pot : Abs(Resistance[GetNearestVal(r)] - r) <= Abs(Resistance[p] - r)
<1> DEFINE probe == Probe(r)
           off(p) == Abs(Resistance[p] - r)
           near == {probe - 1, probe, probe + 1} \cap Pot
           best == {p \in near : \A q \in near : off(p) <= off(q)}
           found == GetNearestVal(r)
<1>1. /\ Top \in Nat \ {0} /\ 0 \in Pot /\ Top \in Pot
      /\ \A p \in Pot : p \in Nat /\ 0 <= p /\ p <= Top /\ Resistance[p] \in Int
      /\ \A p, q \in Pot : p <= q => Resistance[q] <= Resistance[p]
      /\ \A p \in Int : 0 <= p /\ p <= Top => p \in Pot
  <2>1. /\ Top \in Nat \ {0} /\ 0 \in Pot /\ Top \in Pot
        /\ \A p \in Pot : p \in Nat /\ 0 <= p /\ p <= Top /\ Resistance[p] \in Int
        /\ \A p \in Int : 0 <= p /\ p <= Top => p \in Pot
    BY TensoAssumption DEF Pot
  <2>2. ASSUME NEW p \in Pot, NEW q \in Pot, p <= q PROVE Resistance[q] <= Resistance[p]
    <3>1. CASE p = q
      BY <2>1, <3>1
    <3>2. CASE p # q
      <4>1. p < q /\ p \in 0..Top /\ q \in 0..Top
        BY <2>1, <2>2, <3>2
      <4> QED BY <2>1, <4>1, TensoAssumption
    <3> QED BY <3>1, <3>2
  <2> QED BY <2>1, <2>2
<1>2. found = IF r > Resistance[0] THEN 0 ELSE IF r < Resistance[Top] THEN Top
              ELSE IF probe \in best THEN probe
              ELSE IF probe + 1 \in best THEN probe + 1 ELSE probe - 1
  BY DEF GetNearestVal
<1>3. \A p \in Pot : off(p) \in Nat
  BY <1>1 DEF Abs
<1> HIDE DEF found, probe
<1>4. CASE r > Resistance[0]
  <2>1. found = 0
    BY <1>2, <1>4
  <2>2. ASSUME NEW p \in Pot PROVE off(0) <= off(p)
    <3>1. Resistance[p] <= Resistance[0]
      BY <1>1
    <3> QED BY <1>1, <1>4, <3>1 DEF Abs
  <2> QED BY <1>1, <2>1, <2>2 DEF found
<1>5. CASE ~ (r > Resistance[0]) /\ r < Resistance[Top]
  <2>1. found = Top
    BY <1>2, <1>5
  <2>2. ASSUME NEW p \in Pot PROVE off(Top) <= off(p)
    <3>1. Resistance[Top] <= Resistance[p]
      BY <1>1
    <3> QED BY <1>1, <1>5, <3>1 DEF Abs
  <2> QED BY <1>1, <2>1, <2>2 DEF found
<1>6. CASE ~ (r > Resistance[0]) /\ ~ (r < Resistance[Top])
  <2>1. PICK b \in Brackets(r) : b.end = b.start + 1 /\ probe = b.pos
    BY ProbeGiven DEF probe
  <2>2. /\ b.start \in Pot /\ r <= Resistance[b.start] /\ b.pos \in {b.start, b.end}
        /\ b.end \in Pot => Resistance[b.end] < r
        /\ b.pos \in Pot
    BY <1>1, <1>6, <2>1 DEF Brackets
  <2> DEFINE s == b.start
             e == b.end
  <2>3. /\ s \in near /\ probe \in near /\ (e \in Pot => e \in near) /\ e = s + 1
        /\ s \in Pot /\ near \subseteq Pot
    <3>1. s \in Pot /\ s \in Nat /\ e = s + 1 /\ (probe = s \/ probe = e) /\ probe \in Pot
      BY <1>1, <2>1, <2>2
    <3> HIDE DEF s, e
    <3>2. s \in {probe - 1, probe, probe + 1} /\ e \in {probe - 1, probe, probe + 1}
      BY <3>1
    <3> QED BY <3>1, <3>2
  <2>4. ASSUME NEW p \in Pot PROVE off(s) <= off(p) \/ (e \in Pot /\ off(e) <= off(p))
    <3>1. ASSUME NEW x \in Int, NEW y \in Int,
                 (r <= x /\ x <= y) \/ (y <= x /\ x < r)
          PROVE  Abs(x - r) <= Abs(y - r)
      BY <3>1 DEF Abs
    <3>2. s \in Pot /\ s \in Nat /\ p \in Nat /\ p <= Top /\ e = s + 1
      BY <1>1, <2>3
    <3>3. r <= Resistance[s] /\ (e \in Pot => Resistance[e] < r)
      BY <2>2
    <3> HIDE DEF s, e
    <3>4. CASE p <= s
      <4>1. Resistance[s] <= Resistance[p] /\ Resistance[s] \in Int /\ Resistance[p] \in Int
        BY <1>1, <3>2, <3>4
      <4> QED BY <3>1, <3>3, <4>1
    <3>5. CASE ~ (p <= s)
      <4>1. e <= p /\ e \in Int /\ 0 <= e /\ e <= Top
        BY <1>1, <3>2, <3>5
      <4>2. e \in Pot
        BY <1>1, <4>1
      <4>3. Resistance[p] <= Resistance[e] /\ Resistance[e] \in Int /\ Resistance[p] \in Int
        BY <1>1, <4>1, <4>2
      <4> QED BY <3>1, <3>3, <4>2, <4>3
    <3> QED BY <3>4, <3>5
  <2> HIDE DEF off, s, e, near
  <2>5. ASSUME NEW p \in best, NEW q \in Pot PROVE off(p) <= off(q)
    <3>1. p \in Pot /\ off(p) <= off(s) /\ (e \in Pot => off(p) <= off(e))
      BY <2>3, <2>5
    <3>2. off(p) \in Nat /\ off(q) \in Nat /\ off(s) \in Nat /\ (e \in Pot => off(e) \in Nat)
      BY <1>3, <2>3, <3>1
    <3> QED BY <2>4, <3>1, <3>2
  <2>6. probe - 1 \in best \/ probe \in best \/ probe + 1 \in best
    <3>1. \E p \in near : \A q \in near : off(p) <= off(q)
      <4>1. CASE e \in Pot /\ off(e) <= off(s)
        <5>1. ASSUME NEW q \in near PROVE off(e) <= off(q)
          BY <1>3, <2>3, <2>4, <4>1
        <5> QED BY <2>3, <4>1, <5>1
      <4>2. CASE ~ (e \in Pot /\ off(e) <= off(s))
        <5>1. ASSUME NEW q \in near PROVE off(s) <= off(q)
          <6>1. q \in Pot /\ off(q) \in Nat /\ off(s) \in Nat /\ (e \in Pot => off(e) \in Nat)
            BY <1>3, <2>3
          <6> QED BY <2>4, <4>2, <6>1
        <5> QED BY <2>3, <5>1
      <4> QED BY <4>1, <4>2
    <3> QED BY <3>1 DEF near
  <2>7. best \subseteq Pot
    BY <2>3
  <2>8. found \in best
    <3> HIDE DEF best
    <3> QED BY <1>2, <1>6, <2>6
  <2> HIDE DEF best
  <2>9. found \in Pot /\ \A p \in Pot : off(found) <= off(p)
    BY <2>5, <2>7, <2>8
  <2> QED BY <2>9 DEF off, found
<1> QED
  BY <1>4, <1>5, <1>6

----------------------------------------------------------------------------
\* The line through two readings.

\* A fraction may be expanded before it is cut off.
LEMMA Scaling ==
  ASSUME NEW b \in Nat \ {0}, NEW x \in Int, NEW y \in Nat \ {0}
  PROVE  (b * x) \div (b * y) = x \div y
<1> DEFINE q == x \div y
<1>1. q \in Int /\ y * q <= x /\ x < y * q + y
  OBVIOUS
<1>2. b * y \in Nat \ {0} /\ b * x \in Int
  OBVIOUS
<1> HIDE DEF q
<1>3. ASSUME NEW m \in Int, NEW n \in Int, m <= n PROVE b * m <= b * n
  <2>1. n - m \in Nat
    BY <1>3
  <2>2. ASSUME NEW u \in Nat PROVE b * u >= 0
    OBVIOUS
  <2>3. b * (n - m) >= 0
    BY <2>1, <2>2
  <2>4. b * (n - m) = b * n - b * m
    OBVIOUS
  <2>5. b * m \in Int /\ b * n \in Int
    OBVIOUS
  <2> QED BY <2>3, <2>4, <2>5
<1>4. b * (y * q) = (b * y) * q
  BY <1>1
<1>5. b * (y * q) <= b * x
  BY <1>1, <1>3
<1>6. b * x < b * (y * q) + b * y
  <2>1. x + 1 <= y * q + y /\ y * q + y \in Int /\ x + 1 \in Int
    BY <1>1
  <2>2. b * (x + 1) <= b * (y * q + y)
    BY <2>1, <1>3
  <2>3. b * (x + 1) = b * x + b
    OBVIOUS
  <2>4. ASSUME NEW m \in Int, NEW n \in Int PROVE b * (m + n) = b * m + b * n
    OBVIOUS
  <2>5. b * (y * q + y) = b * (y * q) + b * y
    BY <1>1, <2>4
  <2> QED BY <1>1, <1>2, <2>2, <2>3, <2>5
<1>7. ASSUME NEW d \in Nat \ {0}, NEW n \in Int, NEW p \in Int, d * p <= n, n < d * p + d
      PROVE  n \div d = p
  BY <1>7
<1>8. (b * x) \div (b * y) = q
  BY <1>1, <1>2, <1>4, <1>5, <1>6, <1>7
<1> QED
  BY <1>8 DEF q

\* A fraction is rounded alike however it is expanded.
LEMMA RoundScales ==
  ASSUME NEW a \in Int \ {0}, NEW k \in Int
  PROVE  Round(a * k, 4 * a) = Round(k, 4)
<1> DEFINE b == IF a < 0 THEN -a ELSE a
           m == IF k >= 0 THEN (2 * k + 4) \div 8 ELSE -((4 - 2 * k) \div 8)
<1>1. b \in Nat \ {0} /\ (a < 0 => b = -a) /\ (a > 0 => b = a)
  OBVIOUS
<1>2. Round(k, 4) = m
  BY DEF Round, Abs
<1>3. (IF 4 * a < 0 THEN -(a * k) ELSE a * k) = b * k /\ Abs(4 * a) = b * 4
  BY <1>1 DEF Abs
<1>4. Round(a * k, 4 * a) = IF b * k >= 0 THEN (2 * (b * k) + b * 4) \div (2 * (b * 4))
                            ELSE -((b * 4 - 2 * (b * k)) \div (2 * (b * 4)))
  BY <1>3 DEF Round
<1> HIDE DEF b
<1>5. b * k >= 0 <=> k >= 0
  BY <1>1
<1>6. /\ 2 * (b * k) + b * 4 = b * (2 * k + 4) /\ 2 * (b * 4) = b * 8
      /\ b * 4 - 2 * (b * k) = b * (4 - 2 * k)
  BY <1>1
<1>7. (b * (2 * k + 4)) \div (b * 8) = (2 * k + 4) \div 8
  BY <1>1, Scaling
<1>8. (b * (4 - 2 * k)) \div (b * 8) = (4 - 2 * k) \div 8
  BY <1>1, Scaling
<1> QED
  BY <1>2, <1>4, <1>5, <1>6, <1>7, <1>8

\* The line through two readings of the bridge is zero where the bridge is.
LEMMA RootIsNearest ==
  ASSUME DialogTypes, NEW STATE s, s \in Pot, NEW STATE e, e \in Pot, NEW STATE q, q \in Pot,
         Imbalance(s, q) # Imbalance(e, q)
  PROVE  Root(Imbalance(s, q), Imbalance(e, q), s, e) = Nearest(q)
<1> DEFINE fs == Imbalance(s, q)
           fe == Imbalance(e, q)
           k == q + bridge.zero
           a == bridge.slope * (e - s)
<1>1. /\ bridge.slope \in Int /\ bridge.zero \in Int /\ NaN \notin Int
      /\ s \in Int /\ e \in Int /\ q \in Int
  BY TensoAssumption DEF DialogTypes, Pot
<1>2. fs = bridge.slope * (4 * s - k) /\ fe = bridge.slope * (4 * e - k)
  BY <1>1 DEF Imbalance
<1>3. fs \in Int /\ fe \in Int /\ k \in Int /\ a \in Int
  BY <1>1, <1>2
<1>4. fe - fs = 4 * a
  <2>1. fe - fs = bridge.slope * ((4 * e - k) - (4 * s - k))
    BY <1>1, <1>2, <1>3
  <2>2. (4 * e - k) - (4 * s - k) = 4 * (e - s)
    BY <1>1, <1>3
  <2> QED BY <1>1, <2>1, <2>2
<1>5. s * (fe - fs) - fs * (e - s) = a * k
  <2>1. s * (4 * a) = a * (4 * s)
    BY <1>1, <1>3
  <2>2. fs * (e - s) = a * (4 * s - k)
    BY <1>1, <1>2, <1>3
  <2>3. a * (4 * s) - a * (4 * s - k) = a * k
    BY <1>1, <1>3
  <2> QED BY <1>4, <2>1, <2>2, <2>3
<1>6. a # 0
  BY <1>3, <1>4
<1>7. Root(fs, fe, s, e) = Round(s * (fe - fs) - fs * (e - s), fe - fs)
  BY <1>1, <1>3 DEF Root
<1> HIDE DEF fs, fe, a, k
<1>8. Root(fs, fe, s, e) = Round(k, 4)
  BY <1>3, <1>4, <1>5, <1>6, <1>7, RoundScales
<1> QED
  BY <1>8 DEF fs, fe, k, Nearest

\* No position has a smaller imbalance than the nearest one.
LEMMA NearestIsBest ==
  ASSUME DialogTypes, NEW STATE q, q \in Pot, NEW STATE p, p \in Pot
  PROVE  Abs(Imbalance(Nearest(q), q)) <= Abs(Imbalance(p, q))
<1> DEFINE k == q + bridge.zero
           n == Round(k, 4)
           x == 4 * n - k
           y == 4 * p - k
           c == bridge.slope
<1>1. /\ c \in Int /\ bridge.zero \in Int /\ p \in Int /\ q \in Int /\ k \in Int
  BY DEF DialogTypes, Pot
<1>2. n = IF k >= 0 THEN (2 * k + 4) \div 8 ELSE -((4 - 2 * k) \div 8)
  BY DEF Round, Abs
<1> HIDE DEF n, k
<1>3. n \in Int /\ -2 <= 4 * n - k /\ 4 * n - k <= 2
  BY <1>1, <1>2
<1>4. x \in Int /\ y \in Int /\ Abs(x) <= Abs(y)
  BY <1>1, <1>3 DEF Abs
<1>5. Imbalance(Nearest(q), q) = c * x /\ Imbalance(p, q) = c * y
  BY <1>1, <1>3 DEF Imbalance, Nearest, n, k
<1> HIDE DEF x, y, c
<1>6. ASSUME NEW u \in Int PROVE Abs(c * u) = Abs(c) * Abs(u)
  BY <1>1 DEF Abs
<1>7. Abs(c) \in Nat /\ Abs(x) \in Nat /\ Abs(y) \in Nat
  BY <1>1, <1>4 DEF Abs
<1>8. Abs(c) * Abs(x) <= Abs(c) * Abs(y)
  <2> HIDE DEF Abs
  <2> QED BY <1>4, <1>7
<1> QED
  BY <1>1, <1>4, <1>5, <1>6, <1>8

----------------------------------------------------------------------------
\* Every step of the dialog.

\* What the types of the dialog say of its gauges, positions and readings.
LEMMA DialogGiven ==
  ASSUME DialogTypes
  PROVE  /\ Len(group) \in Nat \ {0} /\ First \in Gauge /\ LastGauge \in Gauge
         /\ First = group[1] /\ 1 \in 1..Len(group) /\ (Len(group) = 1 => LastGauge = First)
         /\ Shift[First] \in Int /\ Top \in Nat \ {0} /\ Pot \subseteq Nat
         /\ 0 \in Pot /\ Top \in Pot
         /\ Middle \in Pot /\ NaN \notin Int
         /\ Shifts \in Int /\ (Len(group) = 1 => Shifts = Shift[First])
         /\ CurMean \in Reading /\ (CurMean # NaN => shown # NaN)
         /\ \A p, q \in Pot : Imbalance(p, q) \in Int
<1>1. group \in Seq(Gauge) /\ group # << >> /\ Len(group) \in Nat \ {0}
  BY DEF DialogTypes
<1>2. First \in Gauge /\ LastGauge \in Gauge /\ (Len(group) = 1 => LastGauge = First)
  BY <1>1 DEF First, LastGauge
<1>3. Shift[First] \in Int
  BY <1>2, TensoAssumption
<1>4. /\ Top \in Nat \ {0} /\ Pot \subseteq Nat /\ 0 \in Pot /\ Top \in Pot /\ Middle \in Pot
      /\ NaN \notin Int
  BY TensoAssumption DEF Pot, Middle
<1>5. Shifts \in Int /\ (Len(group) = 1 => Shifts = Shift[First])
  BY <1>1, ShiftsGiven DEF First
<1>6. CurMean \in Reading /\ (CurMean # NaN => shown # NaN)
  BY <1>5 DEF CurMean, Reading, DialogTypes
<1>7. ASSUME NEW p \in Pot, NEW q \in Pot PROVE Imbalance(p, q) \in Int
  BY <1>4 DEF Imbalance, DialogTypes
<1> QED
  BY <1>1, <1>2, <1>3, <1>4, <1>5, <1>6, <1>7 DEF First

\* Both potentiometers of every gauge of the dialog are set.
LEMMA SetTensoGives ==
  ASSUME DialogTypes, NEW STATE m, m \in -1..3, NEW STATE p, p \in Pot, NEW STATE q, q \in Pot,
         SetTenso(m, p, q)
  PROVE  /\ gauge' \in [Gauge -> Potentiometers]
         /\ fresh' = FALSE
         /\ \A i \in 1..Len(group) : gauge'[group[i]].pot1 = p /\ gauge'[group[i]].pot2 = q
<1>1. gauge \in [Gauge -> Potentiometers] /\ group \in Seq(Gauge) /\ Pot \subseteq Nat
  BY DialogGiven DEF DialogTypes
<1>2. ASSUME NEW c \in Gauge
      PROVE  /\ gauge'[c] \in Potentiometers
             /\ c = First \/ Len(group) # 1 => gauge'[c].pot1 = p /\ gauge'[c].pot2 = q
  BY <1>1 DEF SetTenso, Potentiometers
<1>3. ASSUME NEW i \in 1..Len(group)
      PROVE  group[i] \in Gauge /\ (group[i] = First \/ Len(group) # 1)
  BY <1>1 DEF First
<1>4. gauge' = [c \in Gauge |-> gauge'[c]]
  BY DEF SetTenso
<1>5. fresh' = FALSE
  BY DEF SetTenso
<1> QED
  BY <1>2, <1>3, <1>4, <1>5

\* A mode alone leaves the potentiometers.
LEMMA SetTensoKeeps ==
  ASSUME DialogTypes, NEW m \in 0..3, SetTenso(m, -1, -1)
  PROVE  /\ gauge' \in [Gauge -> Potentiometers]
         /\ fresh' = FALSE
         /\ \A c \in Gauge : gauge'[c].pot1 = gauge[c].pot1
<1>1. gauge \in [Gauge -> Potentiometers]
  BY DEF DialogTypes
<1>2. ASSUME NEW c \in Gauge
      PROVE  gauge'[c] \in Potentiometers /\ gauge'[c].pot1 = gauge[c].pot1
  BY <1>1 DEF SetTenso, Potentiometers
<1>3. gauge' = [c \in Gauge |-> gauge'[c]]
  BY DEF SetTenso
<1>4. fresh' = FALSE
  BY DEF SetTenso
<1> QED
  BY <1>2, <1>3, <1>4

\* A reading in good time is that of the position the search waits for.
LEMMA FreshReading ==
  ASSUME DlgInv, 2 \in timers, fresh, gauge[LastGauge].pot2 = bal.pot2, Len(group) = 1
  PROVE  CurMean \in {NaN, Imbalance(Position, bal.pot2)}
<1>0. DialogTypes
  BY DEF DlgInv
<1>1. First = LastGauge /\ gauge[First].pot1 = Position /\ gauge[First].pot2 = bal.pot2
  <2>1. First = LastGauge
    BY <1>0, DialogGiven
  <2>2. gauge[First].pot1 = Position
    BY DEF DlgInv, SearchInv
  <2> QED BY <2>1, <2>2
<1>2. shown \in {NaN, Imbalance(Position, bal.pot2) - Shift[First]}
  BY <1>1 DEF DlgInv, ReadingInv
<1>3. Position \in Pot /\ bal.pot2 \in Pot
  BY DEF DlgInv, SearchInv, DialogTypes, Search
<1>4. Imbalance(Position, bal.pot2) \in Int
  BY <1>3, DialogGiven DEF DlgInv
<1>5. Shifts = Shift[First] /\ Shift[First] \in Int
  BY DialogGiven DEF DlgInv
<1> QED
  BY <1>2, <1>4, <1>5 DEF CurMean

\* A root is a number, and one between the positions comes from two different
\* readings.
LEMMA RootGiven ==
  ASSUME NEW STATE s, s \in Pot, NEW STATE e, e \in Pot,
         NEW STATE fs, fs \in Reading, NEW STATE fe, fe \in Reading
  PROVE  /\ Root(fs, fe, s, e) \in Int
         /\ Root(fs, fe, s, e) \in s..e => fs \in Int /\ fe \in Int /\ fs # fe
<1>1. s \in Nat /\ e \in Nat /\ NaN \notin Int
  BY TensoAssumption DEF Pot
<1>2. CASE NaN \in {fs, fe} \/ fs = fe
  <2>1. Root(fs, fe, s, e) = -1
    BY <1>2 DEF Root
  <2> QED BY <1>1, <2>1
<1>3. CASE ~ (NaN \in {fs, fe} \/ fs = fe)
  <2>1. fs \in Int /\ fe \in Int /\ fs # fe
    BY <1>3 DEF Reading
  <2>2. Root(fs, fe, s, e) = Round(s * (fe - fs) - fs * (e - s), fe - fs)
    BY <1>3 DEF Root
  <2>3. ASSUME NEW x \in Int, NEW y \in Int \ {0} PROVE Round(x, y) \in Int
    <3> DEFINE n == IF y < 0 THEN -x ELSE x
               d == Abs(y)
    <3>1. n \in Int /\ d \in Nat \ {0}
      BY DEF Abs
    <3>2. Round(x, y) = IF n >= 0 THEN (2 * n + d) \div (2 * d) ELSE -((d - 2 * n) \div (2 * d))
      BY DEF Round
    <3> HIDE DEF n, d
    <3> QED BY <3>1, <3>2
  <2>4. s * (fe - fs) - fs * (e - s) \in Int /\ fe - fs \in Int \ {0}
    BY <1>1, <2>1
  <2> QED BY <2>1, <2>2, <2>3, <2>4
<1> QED
  BY <1>2, <1>3

\* Slider and gauges go to the position of a search together.
LEMMA Moved ==
  ASSUME DialogTypes, NEW STATE p, p \in Pot, NEW STATE q, q \in Pot, MovePot1(p, q), group' = group
  PROVE  /\ gauge' \in [Gauge -> Potentiometers] /\ fresh' = FALSE
         /\ slider' \in Pot \X Pot /\ slider'[1] = p
         /\ Stands' /\ First' = First
         /\ gauge'[First].pot1 = p /\ gauge'[First].pot2 = q
<1>1. SetTenso(-1, p, q) /\ slider' = [slider EXCEPT ![1] = p]
  BY DEF MovePot1
<1>2. slider' \in Pot \X Pot /\ slider'[1] = p
  BY <1>1 DEF DialogTypes
<1>3. /\ gauge' \in [Gauge -> Potentiometers] /\ fresh' = FALSE
      /\ \A i \in 1..Len(group) : gauge'[group[i]].pot1 = p /\ gauge'[group[i]].pot2 = q
  <2>1. -1 \in -1..3
    OBVIOUS
  <2> QED BY <1>1, <2>1, SetTensoGives
<1>4. Stands' /\ First' = First
  BY <1>2, <1>3 DEF Stands, First
<1>5. First = group[1] /\ 1 \in 1..Len(group)
  BY DialogGiven
<1> QED
  BY <1>2, <1>3, <1>4, <1>5

\* The dialog as it opens for any selection.
LEMMA InitDialog == TensoInit => DlgInv
<1> SUFFICES ASSUME TensoInit PROVE DlgInv
  OBVIOUS
<1>1. group \in Seq(Gauge) /\ group # << >> /\ bridge \in [slope : Int, zero : Int]
  BY TensoAssumption DEF TensoInit
<1>2. First \in Gauge /\ 0 \in Pot
  BY <1>1, TensoAssumption DEF First, Pot
<1>3. stored \in [Gauge -> Potentiometers]
  BY TensoAssumption DEF TensoInit, Potentiometers, Pot
<1>4. gauge \in [Gauge -> Potentiometers] /\ mode \in 0..3 /\ slider \in Pot \X Pot
  BY <1>2, <1>3 DEF TensoInit, Potentiometers
<1>5. bal \in Search /\ remembered \in Potentiometers
  BY <1>2 DEF TensoInit, Search, Potentiometers, Reading
<1>6. DialogTypes
  BY <1>1, <1>3, <1>4, <1>5 DEF TensoInit, DialogTypes, Reading
<1>7. SliderInv
  <2>1. \A i \in 1..Len(group) : group[i] \in Gauge
    BY <1>1
  <2>2. AsStored
    BY <1>3, <2>1 DEF TensoInit, AsStored, Potentiometers
  <2> QED BY <2>2 DEF SliderInv
<1>8. SearchInv /\ ReadingInv
  BY DEF TensoInit, SearchInv, ReadingInv
<1> QED
  BY <1>6, <1>7, <1>8 DEF DlgInv

\* A reading arrives.
LEMMA MeasuredStep ==
  ASSUME DlgInv, Measured
  PROVE  DlgInv'
<1> USE DEF Measured
<1>1. DialogTypes
  BY DEF DlgInv
<1>2. First \in Gauge /\ Shift[First] \in Int /\ gauge[First] \in Potentiometers
  BY <1>1, DialogGiven DEF DialogTypes
<1>3. Imbalance(gauge[First].pot1, gauge[First].pot2) \in Int
  BY <1>1, <1>2, DialogGiven DEF Potentiometers
<1>4. shown' \in Reading
  BY <1>2, <1>3 DEF Reading
<1>5. DialogTypes'
  BY <1>1, <1>4 DEF DialogTypes
<1>6. SliderInv' /\ SearchInv'
  BY DEF DlgInv, SliderInv, SearchInv, Stands, AsStored, GivenBack, First, Position
<1>7. ReadingInv'
  BY DEF DlgInv, ReadingInv, Readings, First, Nearest, Imbalance
<1> QED
  BY <1>5, <1>6, <1>7 DEF DlgInv

\* The user selects a bridge mode while the controls are on.
LEMMA SelectModeStep ==
  ASSUME DlgInv, NEW m \in {Half, Quarter}, SelectMode(m)
  PROVE  DlgInv'
<1>1. DialogTypes /\ SetTenso(m, -1, -1)
  BY DEF DlgInv, SelectMode
<1>2. m \in 0..3
  BY DEF Half, Quarter
<1>3. /\ gauge' \in [Gauge -> Potentiometers] /\ fresh' = FALSE
      /\ \A c \in Gauge : gauge'[c].pot1 = gauge[c].pot1
  BY <1>1, <1>2, SetTensoKeeps
<1>4. /\ UNCHANGED << group, bridge, stored, slider, timers, bal, remembered, shown, dlg,
                      honest, failed >>
      /\ mode' = m /\ "mode" \in enabled
  BY DEF SelectMode
<1>5. DialogTypes'
  BY <1>1, <1>2, <1>3, <1>4 DEF DialogTypes
<1>6. First \in Gauge /\ \A i \in 1..Len(group) : group[i] \in Gauge
  BY <1>1, DialogGiven DEF DialogTypes
<1>7. SliderInv'
  BY <1>3, <1>4, <1>6 DEF DlgInv, SliderInv, Stands, AsStored, GivenBack, First
<1>8. timers' \cap {2, 3} = {}
  BY <1>4 DEF DlgInv, SearchInv
<1>9. SearchInv' /\ ReadingInv'
  BY <1>3, <1>8 DEF SearchInv, ReadingInv
<1> QED
  BY <1>5, <1>7, <1>9 DEF DlgInv

\* The sliders are moved while no automatic step is to come.
LEMMA SlidersMoved ==
  ASSUME DlgInv, NEW i \in {1, 2}, NEW p \in Pot, slider' = [slider EXCEPT ![i] = p],
         timers' = timers \cup {1}, enabled # {},
         UNCHANGED << group, bridge, gauge, stored, mode, enabled, bal, remembered, shown,
                      dlg, fresh, honest, failed >>
  PROVE  DlgInv'
<1>1. DialogTypes'
  BY DEF DlgInv, DialogTypes
<1>2. SliderInv'
  BY DEF SliderInv
<1>3. timers' \cap {2, 3} = {}
  BY DEF DlgInv, SearchInv
<1>4. SearchInv' /\ ReadingInv'
  BY <1>3 DEF DlgInv, SearchInv, ReadingInv, First, Imbalance
<1> QED
  BY <1>1, <1>2, <1>4 DEF DlgInv

\* A slider is moved.
LEMMA MoveSliderStep ==
  ASSUME DlgInv, NEW i \in {1, 2}, NEW p \in Pot, MoveSlider(i, p)
  PROVE  DlgInv'
BY SlidersMoved DEF MoveSlider

\* A resistance is typed; its position is one.
LEMMA ApplyStep ==
  ASSUME DlgInv, NEW r \in Typed, Apply(r)
  PROVE  DlgInv'
<1>1. GetNearestVal(r) \in Pot
  BY TensoAssumption, TypedIsNearest
<1> QED
  BY <1>1, SlidersMoved DEF Apply

\* The variables of a search that begins have their types.
LEMMA SearchBegins ==
  ASSUME DialogTypes, NEW STATE c, c \in Pot, NEW STATE q, q \in Pot
  PROVE  [stage |-> 1, start |-> 0, end |-> Top, cur |-> c, pot2 |-> q, fs |-> 0, fe |-> 0,
          larger |-> FALSE] \in Search
<1>1. 0 \in Reading /\ c \in Int /\ 0 \in Pot /\ Top \in Pot
  BY DialogGiven DEF Reading
<1> QED
  BY <1>1 DEF Search

\* The balance of a quarter bridge and of another one.
LEMMA BalanceBegins ==
  ASSUME DlgInv, Balance
  PROVE  DlgInv'
<1>1. DialogTypes /\ gauge[LastGauge] \in Potentiometers /\ Middle \in Pot /\ 0 \in Pot
      /\ Pot \subseteq Nat /\ Top \in Pot /\ First \in Gauge
  BY DialogGiven DEF DlgInv, DialogTypes
<1>2. /\ UNCHANGED << group, bridge, stored, mode, shown, dlg >>
      /\ enabled' = {} /\ failed' = FALSE /\ timers \cap {2, 3} = {}
  BY DEF Balance, DlgInv, SearchInv
<1>3. /\ gauge[LastGauge].mode \in 0..3
      /\ gauge[LastGauge].pot1 \in Pot /\ gauge[LastGauge].pot2 \in Pot
  BY <1>1 DEF Potentiometers
<1>4. CASE mode = Quarter
  <2>1. /\ remembered' = gauge[LastGauge] /\ slider' = [slider EXCEPT ![1] = Middle]
        /\ timers' = timers \cup {3} /\ UNCHANGED << bal, honest >>
        /\ SetTenso(gauge[LastGauge].mode, Middle, gauge[LastGauge].pot2)
    BY <1>4 DEF Balance
  <2>2. /\ gauge' \in [Gauge -> Potentiometers] /\ fresh' = FALSE
        /\ \A i \in 1..Len(group) : gauge'[group[i]].pot1 = Middle
    <3> DEFINE m == gauge[LastGauge].mode
               q == gauge[LastGauge].pot2
    <3>1. m \in -1..3 /\ q \in Pot /\ SetTenso(m, Middle, q)
      BY <1>3, <2>1
    <3> HIDE DEF m, q
    <3>2. \A i \in 1..Len(group) : gauge'[group[i]].pot1 = Middle /\ gauge'[group[i]].pot2 = q
      BY <1>1, <3>1, SetTensoGives
    <3>3. gauge' \in [Gauge -> Potentiometers] /\ fresh' = FALSE
      BY <1>1, <3>1, SetTensoGives
    <3> QED BY <3>2, <3>3
  <2>3. slider' \in Pot \X Pot /\ slider'[1] = Middle
    BY <1>1, <2>1 DEF DialogTypes
  <2>4. DialogTypes'
    <3>1. timers' \subseteq 1..3 /\ remembered' \in Potentiometers /\ honest' \in BOOLEAN
      BY <1>1, <2>1 DEF DialogTypes
    <3> QED BY <1>1, <1>2, <2>1, <2>2, <2>3, <3>1 DEF DialogTypes
  <2>5. SliderInv'
    BY <1>2, <2>2, <2>3 DEF SliderInv, Stands
  <2>6. SearchInv'
    BY <1>2, <2>1, <2>3 DEF SearchInv
  <2>7. ReadingInv'
    BY <1>2, <2>1, <2>2 DEF ReadingInv
  <2> QED BY <2>4, <2>5, <2>6, <2>7 DEF DlgInv
<1>5. CASE mode # Quarter
  <2>1. /\ MovePot1(0, gauge[LastGauge].pot2) /\ honest' = TRUE
        /\ bal' = [stage |-> 1, start |-> 0, end |-> Top, cur |-> gauge[LastGauge].pot1,
                   pot2 |-> gauge[LastGauge].pot2, fs |-> 0, fe |-> 0, larger |-> FALSE]
        /\ timers' = timers \cup {2} /\ UNCHANGED remembered
    BY <1>5 DEF Balance, BeginBalance
  <2>2. /\ gauge' \in [Gauge -> Potentiometers] /\ fresh' = FALSE
        /\ slider' \in Pot \X Pot /\ slider'[1] = 0
        /\ Stands' /\ First' = First /\ gauge'[First].pot1 = 0
    BY <1>1, <1>2, <1>3, <2>1, Moved
  <2>3. bal' \in Search
    BY <1>1, <1>3, <2>1, SearchBegins
  <2>4. DialogTypes'
    <3>1. timers' \subseteq 1..3 /\ remembered' \in Potentiometers /\ honest' \in BOOLEAN
      BY <1>1, <2>1 DEF DialogTypes
    <3> QED BY <1>1, <1>2, <2>1, <2>2, <2>3, <3>1 DEF DialogTypes
  <2>5. SliderInv'
    BY <2>2 DEF SliderInv
  <2>6. SearchInv'
    BY <1>1, <1>2, <2>1, <2>2 DEF SearchInv, Position
  <2>7. ReadingInv'
    BY <1>2, <2>1, <2>2 DEF ReadingInv, Readings
  <2> QED BY <2>4, <2>5, <2>6, <2>7 DEF DlgInv
<1> QED
  BY <1>4, <1>5

\* Timer 1, also during a search.
LEMMA FollowSlidersStep ==
  ASSUME DlgInv, FollowSliders
  PROVE  DlgInv'
<1>1. DialogTypes /\ slider[1] \in Pot /\ slider[2] \in Pot /\ -1 \in -1..3
  BY DEF DlgInv, DialogTypes
<1>2. /\ SetTenso(-1, slider[1], slider[2]) /\ timers' = timers \ {1}
      /\ UNCHANGED << group, bridge, stored, mode, slider, enabled, bal, remembered, shown,
                      dlg, honest, failed >>
  BY DEF FollowSliders
<1>3. /\ gauge' \in [Gauge -> Potentiometers] /\ fresh' = FALSE
      /\ \A i \in 1..Len(group) : gauge'[group[i]].pot1 = slider[1]
  BY <1>1, <1>2, SetTensoGives
<1>4. DialogTypes'
  BY <1>1, <1>2, <1>3 DEF DialogTypes
<1>5. SliderInv'
  BY <1>2, <1>3 DEF SliderInv, Stands
<1>6. First' = First /\ gauge'[First].pot1 = slider[1]
  BY <1>1, <1>2, <1>3, DialogGiven DEF First
<1>7. SearchInv'
  BY <1>2, <1>6 DEF DlgInv, SearchInv, Position
<1>8. ReadingInv'
  BY <1>2, <1>3 DEF DlgInv, ReadingInv, Readings, Imbalance, Nearest
<1> QED
  BY <1>4, <1>5, <1>7, <1>8 DEF DlgInv

\* The gauge was measured and the search begins.
LEMMA MeasureStep ==
  ASSUME DlgInv, Measure
  PROVE  DlgInv'
<1>1. DialogTypes /\ remembered.pot1 \in Pot /\ remembered.pot2 \in Pot
      /\ Pot \subseteq Nat /\ Top \in Pot /\ 0 \in Pot
  BY DialogGiven DEF DlgInv, DialogTypes, Potentiometers
<1>2. /\ UNCHANGED << group, bridge, stored, mode, enabled, remembered, shown, dlg, failed >>
      /\ MovePot1(0, remembered.pot2) /\ honest' = TRUE
      /\ bal' = [stage |-> 1, start |-> 0, end |-> Top, cur |-> remembered.pot1,
                 pot2 |-> remembered.pot2, fs |-> 0, fe |-> 0, larger |-> FALSE]
      /\ timers' = (timers \ {3}) \cup {2} /\ enabled = {}
  BY DEF Measure, DlgInv, SearchInv
<1>3. /\ gauge' \in [Gauge -> Potentiometers] /\ fresh' = FALSE
      /\ slider' \in Pot \X Pot /\ slider'[1] = 0
      /\ Stands' /\ First' = First /\ gauge'[First].pot1 = 0
  BY <1>1, <1>2, Moved
<1>4. bal' \in Search
  BY <1>1, <1>2, SearchBegins
<1>5. DialogTypes'
  <2>1. timers' \subseteq 1..3
    BY <1>1, <1>2 DEF DialogTypes
  <2> QED BY <1>1, <1>2, <1>3, <1>4, <2>1 DEF DialogTypes
<1>6. SliderInv'
  BY <1>3 DEF SliderInv
<1>7. SearchInv'
  BY <1>1, <1>2, <1>3 DEF SearchInv, Position
<1>8. ReadingInv'
  BY <1>2, <1>3 DEF ReadingInv, Readings
<1> QED
  BY <1>5, <1>6, <1>7, <1>8 DEF DlgInv

\* The gauge could not be measured.
LEMMA MeasureFailsStep ==
  ASSUME DlgInv, MeasureFails
  PROVE  DlgInv'
<1>1. DialogTypes /\ remembered \in Potentiometers
  BY DEF DlgInv, DialogTypes
<1>2. remembered.mode \in -1..3 /\ remembered.pot1 \in Pot /\ remembered.pot2 \in Pot
  BY <1>1 DEF Potentiometers
<1>3. /\ UNCHANGED << group, bridge, stored, mode, slider, bal, remembered, shown, dlg, honest >>
      /\ SetTenso(remembered.mode, remembered.pot1, remembered.pot2)
      /\ timers' = timers \ {3} /\ failed' = TRUE /\ 2 \notin timers
  BY DEF MeasureFails, DlgInv, SearchInv
<1>4. /\ gauge' \in [Gauge -> Potentiometers] /\ fresh' = FALSE
      /\ \A i \in 1..Len(group) : gauge'[group[i]].pot1 = remembered.pot1
  BY <1>1, <1>2, <1>3, SetTensoGives
<1>5. DialogTypes'
  BY <1>1, <1>3, <1>4 DEF DialogTypes
<1>6. slider[1] = Middle
  BY DEF MeasureFails, DlgInv, SearchInv
<1>7. SliderInv'
  BY <1>3, <1>4, <1>6 DEF SliderInv, GivenBack, Middle
<1>8. SearchInv' /\ ReadingInv'
  BY <1>3, <1>4 DEF SearchInv, ReadingInv
<1> QED
  BY <1>5, <1>7, <1>8 DEF DlgInv

\* OK, whatever still runs.
LEMMA OkStep ==
  ASSUME DlgInv, Ok
  PROVE  DlgInv'
<1>1. DialogTypes /\ slider[1] \in Pot /\ slider[2] \in Pot /\ -1 \in -1..3
  BY DEF DlgInv, DialogTypes
<1>2. /\ SetTenso(-1, slider[1], slider[2]) /\ stored' = gauge' /\ dlg' = "asking"
      /\ UNCHANGED << group, bridge, mode, slider, enabled, timers, bal, remembered, shown,
                      honest, failed >>
  BY DEF Ok
<1>3. /\ gauge' \in [Gauge -> Potentiometers] /\ fresh' = FALSE
      /\ \A i \in 1..Len(group) : gauge'[group[i]].pot1 = slider[1]
  BY <1>1, <1>2, SetTensoGives
<1>4. DialogTypes'
  BY <1>1, <1>2, <1>3 DEF DialogTypes
<1>5. SliderInv'
  BY <1>2, <1>3 DEF SliderInv, Stands
<1>6. First' = First /\ gauge'[First].pot1 = slider[1]
  BY <1>1, <1>2, <1>3, DialogGiven DEF First
<1>7. SearchInv'
  BY <1>2, <1>6 DEF DlgInv, SearchInv, Position
<1>8. ReadingInv'
  BY <1>2, <1>3 DEF DlgInv, ReadingInv, Readings, Imbalance, Nearest
<1> QED
  BY <1>4, <1>5, <1>7, <1>8 DEF DlgInv

\* The dialog is closed and nothing else changes.
LEMMA DialogLeft ==
  ASSUME DlgInv, dlg' # "open",
         UNCHANGED << group, bridge, gauge, stored, mode, slider, enabled, timers, bal,
                      remembered, shown, fresh, honest, failed >>
  PROVE  DlgInv'
<1>1. DialogTypes'
  BY DEF DlgInv, DialogTypes
<1>2. SliderInv'
  BY DEF DlgInv, SliderInv, Stands, AsStored, GivenBack, First
<1>3. SearchInv' /\ ReadingInv'
  BY DEF DlgInv, SearchInv, ReadingInv, Readings, Position, First, Imbalance, Nearest
<1> QED
  BY <1>1, <1>2, <1>3 DEF DlgInv

----------------------------------------------------------------------------
\* The steps of a search.

\* What no step of a search changes.
SearchFrame == UNCHANGED << group, bridge, stored, mode, remembered, shown, dlg, failed >>

\* What every step of a search may rely on.
LEMMA SearchStepGiven ==
  ASSUME DlgInv, BalanceStep
  PROVE  /\ SearchFrame /\ 2 \in timers /\ 3 \notin timers /\ honest' \in BOOLEAN
         /\ bal \in Search /\ bal.start \in Pot /\ bal.end \in Pot /\ bal.pot2 \in Pot
         /\ bal.stage \in 1..3 /\ Position \in Pot /\ Pot \subseteq Nat
         /\ First' = First /\ CurMean \in Reading /\ NaN \notin Int
         /\ gauge[First].pot1 = Position
         /\ honest' => /\ honest /\ fresh /\ gauge[LastGauge].pot2 = bal.pot2
                       /\ Len(group) = 1 => CurMean \in {NaN, Imbalance(Position, bal.pot2)}
<1>1. /\ UNCHANGED << group, bridge, stored, mode, remembered, shown, dlg, failed >>
      /\ 2 \in timers /\ honest' = (honest /\ fresh /\ gauge[LastGauge].pot2 = bal.pot2)
  BY DEF BalanceStep
<1>2. DialogTypes /\ 3 \notin timers /\ bal.stage # 0 /\ Position \in Pot
      /\ gauge[First].pot1 = Position
  BY <1>1 DEF DlgInv, SearchInv
<1>3. /\ bal \in Search /\ bal.start \in Pot /\ bal.end \in Pot /\ bal.pot2 \in Pot
      /\ bal.stage \in 1..3
  BY <1>2 DEF DialogTypes, Search
<1>4. Pot \subseteq Nat /\ CurMean \in Reading /\ NaN \notin Int
  BY <1>2, DialogGiven
<1>5. honest' => honest /\ fresh /\ gauge[LastGauge].pot2 = bal.pot2
  BY <1>1
<1>6. honest' /\ Len(group) = 1 => CurMean \in {NaN, Imbalance(Position, bal.pot2)}
  BY <1>1, <1>5, FreshReading
<1>7. honest' \in BOOLEAN
  BY <1>1
<1>8. First' = First
  BY <1>1 DEF First
<1> QED
  BY <1>1, <1>2, <1>3, <1>4, <1>5, <1>6, <1>7, <1>8 DEF SearchFrame

\* A search ends, where it is or after a last move.
LEMMA SearchEnds ==
  ASSUME DlgInv, BalanceStep, BalanceOver, bal' \in Search,
         \/ UNCHANGED << gauge, fresh, slider >>
         \/ \E p, q \in Pot : MovePot1(p, q)
  PROVE  DlgInv'
<1>1. /\ timers' = timers \ {2} /\ SearchFrame /\ 3 \notin timers /\ 2 \in timers
      /\ honest' \in BOOLEAN /\ DialogTypes /\ First' = First
  BY SearchStepGiven DEF BalanceOver, DlgInv
<1>2. timers' \cap {2, 3} = {} /\ timers' \subseteq 1..3 /\ (1 \in timers => 1 \in timers')
  BY <1>1 DEF DialogTypes
<1>3. SearchInv'
  BY <1>2 DEF SearchInv
<1>4. CASE UNCHANGED << gauge, fresh, slider >>
  <2>1. DialogTypes'
    BY <1>1, <1>2, <1>4 DEF DialogTypes, SearchFrame
  <2>2. SliderInv'
    BY <1>1, <1>2, <1>4
       DEF DlgInv, SliderInv, SearchFrame, Stands, AsStored, GivenBack, First
  <2>3. ReadingInv'
    BY <1>1, <1>2, <1>4 DEF DlgInv, ReadingInv, SearchFrame, Imbalance
  <2> QED BY <1>3, <2>1, <2>2, <2>3 DEF DlgInv
<1>5. CASE \E p, q \in Pot : MovePot1(p, q)
  <2>1. PICK p \in Pot, q \in Pot : MovePot1(p, q)
    BY <1>5
  <2>2. /\ gauge' \in [Gauge -> Potentiometers] /\ fresh' = FALSE
        /\ slider' \in Pot \X Pot /\ Stands'
    BY <1>1, <2>1, Moved DEF SearchFrame
  <2>3. DialogTypes'
    BY <1>1, <1>2, <2>2 DEF DialogTypes, SearchFrame
  <2>4. SliderInv'
    BY <2>2 DEF SliderInv
  <2>5. ReadingInv'
    BY <1>2, <2>2 DEF ReadingInv
  <2> QED BY <1>3, <2>3, <2>4, <2>5 DEF DlgInv
<1> QED
  BY <1>4, <1>5

\* A search goes on from the position it has moved to.
LEMMA SearchGoesOn ==
  ASSUME DlgInv, BalanceStep, UNCHANGED << timers, enabled >>, bal' \in Search,
         NEW STATE p, p \in Pot, NEW STATE q, q \in Pot, MovePot1(p, q),
         bal'.stage # 0, Position' = p,
         bal'.stage # 3 => bal'.start = 0 /\ bal'.end = Top,
         honest' /\ Len(group) = 1 => Readings'
  PROVE  DlgInv'
<1>1. SearchFrame /\ honest' \in BOOLEAN /\ DialogTypes /\ First' = First
      /\ 3 \notin timers
  BY SearchStepGiven DEF DlgInv
<1>2. /\ gauge' \in [Gauge -> Potentiometers] /\ fresh' = FALSE
      /\ slider' \in Pot \X Pot /\ slider'[1] = p
      /\ Stands' /\ gauge'[First].pot1 = p
  BY <1>1, Moved DEF SearchFrame
<1>3. DialogTypes'
  BY <1>1, <1>2 DEF DialogTypes, SearchFrame
<1>4. SliderInv'
  BY <1>2 DEF SliderInv
<1>5. Position' \in Pot /\ slider'[1] = Position' /\ (gauge[First].pot1)' = Position'
  BY <1>1, <1>2
<1>6. SearchInv'
  <2> HIDE DEF Position
  <2> QED BY <1>1, <1>5 DEF DlgInv, SearchInv
<1>7. ReadingInv'
  BY <1>1, <1>2 DEF ReadingInv, Readings, SearchFrame
<1> QED
  BY <1>3, <1>4, <1>6, <1>7 DEF DlgInv

\* The reading at the first position.
LEMMA ReadStartStep ==
  ASSUME DlgInv, BalanceStep, ReadStart
  PROVE  DlgInv'
<1> DEFINE p == bal.end
           q == bal.pot2
<1>1. /\ bal.stage = 1 /\ UNCHANGED << timers, enabled >>
      /\ MovePot1(p, q)
      /\ bal' = [bal EXCEPT !.stage = 2, !.fs = CurMean]
  BY DEF ReadStart
<1>2. /\ bal \in Search /\ p \in Pot /\ q \in Pot /\ 2 \in timers /\ CurMean \in Reading
      /\ honest' /\ Len(group) = 1 => CurMean \in {NaN, Imbalance(Position, bal.pot2)}
  BY SearchStepGiven
<1>3. bal' \in Search /\ bal'.stage = 2 /\ bal'.start = bal.start /\ bal'.end = p
      /\ bal'.pot2 = bal.pot2 /\ bal'.fs = CurMean
  <2>1. bal \in Search /\ CurMean \in Reading /\ 2 \in 0..3
    BY <1>2
  <2>2. bal' \in Search
    BY <1>1, <2>1 DEF Search
  <2> QED BY <1>1, <2>1, <2>2 DEF Search
<1>4. bal.start = 0 /\ bal.end = Top /\ Position = bal.start
  BY <1>1, <1>2 DEF DlgInv, SearchInv, Position
<1>5. Position' = p
  BY <1>3 DEF Position
<1>6. honest' /\ Len(group) = 1 => Readings'
  BY <1>2, <1>3, <1>4, SearchStepGiven DEF Readings, SearchFrame, Imbalance
<1> HIDE DEF p, q
<1>7. bal'.start = 0 /\ bal'.end = Top
  BY <1>3, <1>4 DEF p
<1> QED
  BY <1>1, <1>2, <1>3, <1>5, <1>6, <1>7, SearchGoesOn

\* The reading at the last position, with its three outcomes.
LEMMA ReadEndStep ==
  ASSUME DlgInv, BalanceStep, ReadEnd
  PROVE  DlgInv'
<1> DEFINE now == [bal EXCEPT !.fe = CurMean, !.larger = Larger(bal.fs, CurMean)]
           same == (Neg(now.fs) /\ Neg(now.fe)) \/ (Pos(now.fs) /\ Pos(now.fe))
           root == Root(now.fs, now.fe, now.start, now.end)
           q == bal.pot2
<1>1. /\ bal.stage = 2
      /\ \/ /\ same
            /\ IF mode = Quarter
               THEN MovePot1(IF Neg(now.fs) THEN now.end ELSE now.start, now.pot2)
               ELSE UNCHANGED << gauge, fresh, slider >>
            /\ bal' = [now EXCEPT !.stage = 0]
            /\ BalanceOver
         \/ /\ ~same /\ root \in now.start..now.end
            /\ MovePot1(root, now.pot2)
            /\ bal' = [now EXCEPT !.stage = 3, !.cur = root]
            /\ UNCHANGED << timers, enabled >>
         \/ /\ ~same /\ root \notin now.start..now.end
            /\ bal' = [now EXCEPT !.stage = 0, !.cur = root]
            /\ BalanceOver
            /\ UNCHANGED << gauge, fresh, slider >>
  BY DEF ReadEnd
<1>2. /\ bal \in Search /\ bal.start \in Pot /\ bal.end \in Pot /\ q \in Pot /\ 2 \in timers
      /\ bal.fs \in Reading /\ CurMean \in Reading /\ Pot \subseteq Nat /\ Pot = 0..Top
      /\ honest' /\ Len(group) = 1 => CurMean \in {NaN, Imbalance(Position, bal.pot2)}
  BY SearchStepGiven DEF Search, Pot
<1>3. /\ now \in Search /\ now.stage = 2 /\ now.start = bal.start /\ now.end = bal.end
      /\ now.pot2 = q /\ now.fs = bal.fs /\ now.fe = CurMean
  BY <1>1, <1>2 DEF Search, Larger
<1> HIDE DEF now, same
<1>4. /\ root \in Int
      /\ root \in now.start..now.end => now.fs \in Int /\ now.fe \in Int /\ now.fs # now.fe
  BY <1>2, <1>3, RootGiven
<1> HIDE DEF root, q
<1>5. CASE same /\ bal' = [now EXCEPT !.stage = 0] /\ BalanceOver
  <2>1. bal' \in Search
    <3>1. now \in Search /\ 0 \in 0..3
      BY <1>3
    <3> QED BY <1>5, <3>1 DEF Search
  <2>2. UNCHANGED << gauge, fresh, slider >> \/ \E x, y \in Pot : MovePot1(x, y)
    BY <1>1, <1>2, <1>3, <1>5
  <2> QED BY <1>5, <2>1, <2>2, SearchEnds
<1>6. CASE /\ ~same /\ root \in now.start..now.end
           /\ MovePot1(root, now.pot2)
           /\ bal' = [now EXCEPT !.stage = 3, !.cur = root]
           /\ UNCHANGED << timers, enabled >>
  <2>1. root \in Pot
    BY <1>2, <1>3, <1>4, <1>6, TensoAssumption
  <2>2. /\ bal' \in Search /\ bal'.stage = 3 /\ bal'.start = bal.start /\ bal'.end = bal.end
        /\ bal'.pot2 = q /\ bal'.fs = bal.fs /\ bal'.fe = CurMean /\ bal'.cur = root
    <3>1. now \in Search /\ root \in Int /\ 3 \in 0..3
      BY <1>3, <1>4
    <3>2. bal' \in Search
      BY <1>6, <3>1 DEF Search
    <3> QED BY <1>3, <1>6, <3>1, <3>2 DEF Search
  <2>3. Position' = root
    BY <2>2 DEF Position
  <2>4. ASSUME honest', Len(group) = 1 PROVE Readings'
    <3>1. honest /\ Position = bal.end
      BY <1>1, <2>4, SearchStepGiven DEF Position
    <3>2. bal.fs \in {NaN, Imbalance(bal.start, q)} /\ CurMean \in {NaN, Imbalance(bal.end, q)}
      BY <1>1, <1>2, <2>4, <3>1 DEF DlgInv, ReadingInv, Readings, q
    <3>3. /\ bal.fs = Imbalance(bal.start, q) /\ CurMean = Imbalance(bal.end, q)
          /\ bal.fs # CurMean
      BY <1>3, <1>4, <1>6, <3>2, TensoAssumption
    <3>4. root = Nearest(q)
      BY <1>2, <1>3, <3>3, RootIsNearest DEF root, DlgInv
    <3>5. bridge' = bridge
      BY SearchStepGiven DEF SearchFrame
    <3> QED BY <2>2, <3>3, <3>4, <3>5 DEF Readings, Imbalance, Nearest
  <2>5. MovePot1(root, q) /\ UNCHANGED << timers, enabled >>
    BY <1>3, <1>6
  <2> QED BY <1>2, <2>1, <2>2, <2>3, <2>4, <2>5, SearchGoesOn
<1>7. CASE /\ bal' = [now EXCEPT !.stage = 0, !.cur = root] /\ BalanceOver
           /\ UNCHANGED << gauge, fresh, slider >>
  <2>1. bal' \in Search
    <3>1. now \in Search /\ root \in Int /\ 0 \in 0..3
      BY <1>3, <1>4
    <3> QED BY <1>7, <3>1 DEF Search
  <2> QED BY <1>7, <2>1, SearchEnds
<1> QED
  BY <1>1, <1>5, <1>6, <1>7

\* The bracket after a reading, and the next position of the search.
LEMMA NarrowedGiven ==
  ASSUME DlgInv, BalanceStep, bal.stage = 3
  PROVE  LET root == Root(Narrowed.fs, Narrowed.fe, Narrowed.start, Narrowed.end)
         IN  /\ Narrowed \in Search /\ Narrowed.stage = 3 /\ Narrowed.pot2 = bal.pot2
             /\ root \in Int
             /\ root \in Narrowed.start..Narrowed.end => root \in Pot
             /\ root \in Narrowed.start..Narrowed.end /\ honest' /\ Len(group) = 1
                  => /\ Narrowed.fs = Imbalance(Narrowed.start, bal.pot2)
                     /\ Narrowed.fe = Imbalance(Narrowed.end, bal.pot2)
                     /\ Narrowed.fs # Narrowed.fe
                     /\ root = Nearest(bal.pot2)
<1> DEFINE now == Narrowed
           root == Root(now.fs, now.fe, now.start, now.end)
           q == bal.pot2
           x == bal.cur
<1>1. /\ bal \in Search /\ bal.start \in Pot /\ bal.end \in Pot /\ q \in Pot
      /\ Position \in Pot /\ CurMean \in Reading
      /\ honest' => honest /\ 2 \in timers
      /\ honest' /\ Len(group) = 1 => CurMean \in {NaN, Imbalance(Position, bal.pot2)}
  BY SearchStepGiven
<1>2. Position = x
  BY DEF Position
<1> HIDE DEF q, x
<1>3. x \in Pot
  BY <1>1, <1>2
<1>4. \/ now = [bal EXCEPT !.fe = CurMean, !.end = x]
      \/ now = [bal EXCEPT !.fs = CurMean, !.start = x]
  BY DEF Narrowed, x
<1> HIDE DEF now
<1>5. now \in Search
  BY <1>1, <1>3, <1>4 DEF Search
<1>6. /\ now.stage = 3 /\ now.pot2 = q /\ now.start \in Pot /\ now.end \in Pot
      /\ now.fs \in Reading /\ now.fe \in Reading
      /\ \/ /\ now.fe = CurMean /\ now.end = x /\ now.fs = bal.fs /\ now.start = bal.start
         \/ /\ now.fs = CurMean /\ now.start = x /\ now.fe = bal.fe /\ now.end = bal.end
  BY <1>1, <1>4, <1>5 DEF Search, q
<1>7. /\ root \in Int
      /\ root \in now.start..now.end => now.fs \in Int /\ now.fe \in Int /\ now.fs # now.fe
  BY <1>6, RootGiven
<1>8. ASSUME root \in now.start..now.end PROVE root \in Pot
  <2> HIDE DEF root
  <2> QED BY <1>6, <1>7, <1>8, TensoAssumption DEF Pot
<1>9. ASSUME root \in now.start..now.end, honest', Len(group) = 1
      PROVE  /\ now.fs = Imbalance(now.start, q)
             /\ now.fe = Imbalance(now.end, q)
             /\ now.fs # now.fe
             /\ root = Nearest(q)
  <2>1. bal.fs = Imbalance(bal.start, q) /\ bal.fe = Imbalance(bal.end, q)
    BY <1>1, <1>9 DEF DlgInv, ReadingInv, Readings, q
  <2>2. CurMean \in {NaN, Imbalance(x, q)}
    BY <1>1, <1>2, <1>9 DEF q
  <2>3. now.fs \in Int /\ now.fe \in Int /\ now.fs # now.fe /\ NaN \notin Int
    BY <1>7, <1>9, TensoAssumption
  <2>4. now.fs = Imbalance(now.start, q) /\ now.fe = Imbalance(now.end, q)
    <3> HIDE DEF root
    <3> QED BY <1>6, <2>1, <2>2, <2>3
  <2>5. root = Nearest(q)
    BY <1>1, <1>6, <2>3, <2>4, RootIsNearest DEF DlgInv
  <2> QED BY <2>3, <2>4, <2>5
<1> HIDE DEF root
<1>10. /\ now \in Search /\ now.stage = 3 /\ now.pot2 = q
       /\ root \in Int
       /\ root \in now.start..now.end => root \in Pot
       /\ root \in now.start..now.end /\ honest' /\ Len(group) = 1
            => /\ now.fs = Imbalance(now.start, q)
               /\ now.fe = Imbalance(now.end, q)
               /\ now.fs # now.fe
               /\ root = Nearest(q)
  BY <1>5, <1>6, <1>7, <1>8, <1>9
<1> QED
  BY <1>10 DEF root, now, q

\* A further reading; where the search ends, it ends at the nearest position.
LEMMA NextRootStep ==
  ASSUME DlgInv, BalanceStep, NextRoot
  PROVE  /\ DlgInv'
         /\ honest' /\ Len(group) = 1
              => gauge'[First].pot1 = Nearest(bal.pot2) /\ gauge'[First].pot2 = bal.pot2
<1> DEFINE now == Narrowed
           root == Root(now.fs, now.fe, now.start, now.end)
           q == bal.pot2
<1>1. /\ bal.stage = 3 /\ root \in now.start..now.end
      /\ MovePot1(root, now.pot2)
      /\ IF SearchOn(now, root)
         THEN bal' = [now EXCEPT !.cur = root] /\ UNCHANGED << timers, enabled >>
         ELSE bal' = [now EXCEPT !.cur = root, !.stage = 0] /\ BalanceOver
  BY DEF NextRoot
<1>2. /\ now \in Search /\ now.stage = 3 /\ now.pot2 = q
      /\ root \in Pot /\ root \in Int
      /\ honest' /\ Len(group) = 1 => /\ now.fs = Imbalance(now.start, q)
                                      /\ now.fe = Imbalance(now.end, q)
                                      /\ now.fs # now.fe
                                      /\ root = Nearest(q)
  BY <1>1, NarrowedGiven
<1>3. q \in Pot /\ DialogTypes /\ SearchFrame /\ First' = First
  BY SearchStepGiven DEF DlgInv
<1> HIDE DEF now, root, q
<1>4. MovePot1(root, q)
  BY <1>1, <1>2
<1>5. gauge'[First].pot1 = root /\ gauge'[First].pot2 = q
  <2>1. group' = group
    BY <1>3 DEF SearchFrame
  <2> QED BY <1>2, <1>3, <1>4, <2>1, Moved
<1>6. CASE bal' = [now EXCEPT !.cur = root] /\ UNCHANGED << timers, enabled >>
  <2>1. bal' \in Search
    BY <1>2, <1>6 DEF Search
  <2>2. /\ bal'.stage = 3 /\ bal'.cur = root /\ bal'.start = now.start /\ bal'.end = now.end
        /\ bal'.fs = now.fs /\ bal'.fe = now.fe /\ bal'.pot2 = q
    BY <1>2, <1>6 DEF Search
  <2>3. Position' = root
    BY <2>2 DEF Position
  <2>4. honest' /\ Len(group) = 1 => Readings'
    BY <1>2, <1>3, <2>2 DEF Readings, SearchFrame, Imbalance, Nearest
  <2>5. DlgInv'
    BY <1>2, <1>3, <1>4, <1>6, <2>1, <2>2, <2>3, <2>4, SearchGoesOn
  <2> QED BY <1>2, <1>5, <2>5 DEF q
<1>7. CASE bal' = [now EXCEPT !.cur = root, !.stage = 0] /\ BalanceOver
  <2>1. bal' \in Search
    <3>1. now \in Search /\ root \in Int /\ 0 \in 0..3
      BY <1>2
    <3> QED BY <1>7, <3>1 DEF Search
  <2>2. DlgInv'
    BY <1>2, <1>3, <1>4, <1>7, <2>1, SearchEnds
  <2> QED BY <1>2, <1>5, <2>2 DEF q
<1> QED
  BY <1>1, <1>6, <1>7

\* A further reading that gives no position: the last one stays, the nearest.
LEMMA NextRootFailsStep ==
  ASSUME DlgInv, BalanceStep, NextRootFails
  PROVE  /\ DlgInv'
         /\ honest' /\ Len(group) = 1
              => gauge'[First].pot1 = Nearest(bal.pot2) /\ gauge'[First].pot2 = bal.pot2
<1> DEFINE now == Narrowed
           root == Root(now.fs, now.fe, now.start, now.end)
<1>1. /\ bal.stage = 3 /\ BalanceOver /\ UNCHANGED << gauge, fresh, slider >>
      /\ bal' = [now EXCEPT !.cur = root, !.stage = 0]
  BY DEF NextRootFails
<1>2. now \in Search /\ root \in Int
  BY <1>1, NarrowedGiven
<1> HIDE DEF now, root
<1>3. bal' \in Search
  <2>1. bal' = [now EXCEPT !.cur = root, !.stage = 0] /\ 0 \in 0..3
    BY <1>1
  <2> QED BY <1>2, <2>1 DEF Search
<1>4. DlgInv'
  BY <1>1, <1>3, SearchEnds
<1>5. ASSUME honest', Len(group) = 1
      PROVE  gauge'[First].pot1 = Nearest(bal.pot2) /\ gauge'[First].pot2 = bal.pot2
  <2>1. /\ honest /\ 2 \in timers /\ gauge[LastGauge].pot2 = bal.pot2
        /\ gauge[First].pot1 = Position
    BY <1>5, SearchStepGiven
  <2>2. Position = bal.cur
    BY <1>1 DEF Position
  <2>3. bal.cur = Nearest(bal.pot2)
    BY <1>1, <1>5, <2>1 DEF DlgInv, ReadingInv, Readings
  <2>4. LastGauge = First
    BY <1>5, DialogGiven DEF DlgInv
  <2> QED BY <1>1, <2>1, <2>2, <2>3, <2>4
<1> QED
  BY <1>4, <1>5

\* Every step keeps to the invariant.
LEMMA DialogStep == DlgInv /\ [TensoNext]_tensoVars => DlgInv'
<1> SUFFICES ASSUME DlgInv, [TensoNext]_tensoVars PROVE DlgInv'
  OBVIOUS
<1>1. CASE BalanceStep
  BY <1>1, ReadStartStep, ReadEndStep, NextRootStep, NextRootFailsStep DEF BalanceStep
<1>2. CASE Answer
  BY <1>2, DialogLeft DEF Answer
<1>3. CASE Cancel
  BY <1>3, DialogLeft DEF Cancel
<1>4. CASE UNCHANGED tensoVars
  BY <1>4 DEF tensoVars, DlgInv, DialogTypes, SliderInv, SearchInv, ReadingInv, Readings,
              Stands, AsStored, GivenBack, Position, First, Imbalance, Nearest
<1> QED
  BY <1>1, <1>2, <1>3, <1>4, MeasuredStep, BalanceBegins, FollowSlidersStep, MeasureStep,
     MeasureFailsStep, OkStep, SelectModeStep, MoveSliderStep, ApplyStep
  DEF TensoNext

\* The invariant holds throughout.
LEMMA DialogAlways == TensoSpec => []DlgInv
<1>1. TensoInit => DlgInv
  BY InitDialog
<1>2. DlgInv /\ [TensoNext]_tensoVars => DlgInv'
  BY DialogStep
<1> QED
  BY <1>1, <1>2, PTL DEF TensoSpec

\* Whatever the user, the timers and the readings do, a dialog at rest shows the
\* position of pot1 that every gauge it is for has; or every gauge has the
\* position it was opened or saved with, or after a failed measurement the one
\* from before it (tenso_dlg.cpp:902-916).
THEOREM SliderIsBelieved == TensoSpec => []SliderTellsBalance
<1>1. DlgInv => SliderTellsBalance
  BY DEF DlgInv, SliderInv, SliderTellsBalance, Stands, AsStored, GivenBack
<1> QED
  BY <1>1, DialogAlways, PTL

\* A search of one gauge with readings in good time ends at the position with
\* the least imbalance, whatever the bridge: the line through any two readings
\* crosses zero at the same place, and rounding finds its nearest position.
THEOREM BalanceIsBest == TensoSpec => BalancedIsBest
<1>1. ASSUME DlgInv, [TensoNext]_tensoVars,
             bal.stage = 3, bal'.stage = 0, honest', Len(group) = 1
      PROVE  BalanceStep
  <2>1. bal' # bal
    BY <1>1
  <2>2. ~ Balance /\ ~ Measure
    <3>1. Balance => bal' = bal \/ bal'.stage = 1
      BY DEF Balance, BeginBalance
    <3>2. Measure => bal'.stage = 1
      BY DEF Measure
    <3> QED BY <1>1, <2>1, <3>1, <3>2
  <2>3. /\ ~ Measured /\ ~ FollowSliders /\ ~ MeasureFails /\ ~ Ok /\ ~ Answer /\ ~ Cancel
        /\ ~ UNCHANGED tensoVars
    BY <2>1 DEF Measured, FollowSliders, MeasureFails, Ok, Answer, Cancel, tensoVars
  <2>4. /\ \A m \in {Half, Quarter} : ~ SelectMode(m)
        /\ \A i \in {1, 2}, p \in Pot : ~ MoveSlider(i, p)
        /\ \A r \in Typed : ~ Apply(r)
    BY <2>1 DEF SelectMode, MoveSlider, Apply
  <2>5. TensoNext
    BY <1>1, <2>3
  <2> QED BY <2>2, <2>3, <2>4, <2>5 DEF TensoNext
<1>2. ASSUME DlgInv, [TensoNext]_tensoVars,
             bal.stage = 3, bal'.stage = 0, honest', Len(group) = 1
      PROVE  \A p \in Pot : Abs(Imbalance(gauge'[First].pot1, gauge'[First].pot2))
                            <= Abs(Imbalance(p, gauge'[First].pot2))
  <2>1. BalanceStep
    BY <1>1, <1>2
  <2>2. gauge'[First].pot1 = Nearest(bal.pot2) /\ gauge'[First].pot2 = bal.pot2
    <3>1. NextRoot \/ NextRootFails
      BY <1>2, <2>1 DEF BalanceStep, ReadStart, ReadEnd
    <3> QED BY <1>2, <2>1, <3>1, NextRootStep, NextRootFailsStep
  <2>3. bal.pot2 \in Pot /\ DialogTypes
    BY <1>2, <2>1, SearchStepGiven DEF DlgInv
  <2> QED BY <2>2, <2>3, NearestIsBest
<1>3. DlgInv /\ [TensoNext]_tensoVars
        => [bal.stage = 3 /\ bal'.stage = 0 /\ honest' /\ Len(group) = 1 /\ shown # NaN
              => LET pot2 == gauge'[First].pot2
                 IN  \A p \in Pot :
                       Abs(Imbalance(gauge'[First].pot1, pot2)) <= Abs(Imbalance(p, pot2))
           ]_tensoVars
  BY <1>2
<1> QED
  BY <1>3, DialogAlways, PTL DEF TensoSpec, BalancedIsBest
=============================================================================
