----------------------------- MODULE Registrator -----------------------------
(***************************************************************************)
(* The page of a recorder's memory card: the GUI thread lists, formats,    *)
(* deletes and writes files, a copy thread downloads them, another thread  *)
(* tests the clock of the recorder.  Everything needs exclusive access to  *)
(* the card, which the driver grants once, and stops the data of the       *)
(* server for as long as it takes.                                         *)
(*                                                                         *)
(* What a thread still has to do is a sequence of tasks; the first one may *)
(* need several attempts to get access.  The thread that waits for a       *)
(* window sends to it, which works only while the GUI thread takes         *)
(* messages: at rest or in a modal dialog.                                 *)
(***************************************************************************)
EXTENDS Naturals, SequencesExt

CONSTANTS
  CardFile,      \* the files a recorder may have written
  Cfg,           \* DEVICES.CFG
  Tries,         \* further attempts to get access (10 in the code)
  MaxClicks      \* bound on what the user does

ASSUME RegistratorAssumption == Cfg \in CardFile /\ Tries \in Nat

VARIABLES
  card,          \* the directory of the card, a sequence of files
  excl,          \* who has exclusive access
  blockSD,       \* _blockSD
  todo,          \* todo[t]: the tasks of thread t
  at,            \* at[t]: where t is in the first of them
  tries,         \* tries[t]: attempts so far, -1 before the first
  listed,        \* m_listFlashFiles
  dirSD,         \* _dirSD
  sel,           \* the lines still selected for the download
  hidden, disabled,  \* the buttons out of reach
  gate,          \* m_bCanChangeTab: may the user leave the page
  serving,       \* does the server deliver data
  testing,       \* m_bTestRtc
  rtc,           \* the clock thread: "off", "begins", "runs", "ends"
  posted,        \* messages posted to the window
  fetched,       \* the lines downloaded, with the sizes that were used
  clicks

regVars == << card, excl, blockSD, todo, at, tries, listed, dirSD, sel, hidden,
              disabled, gate, serving, testing, rtc, posted, fetched, clicks >>

Worker == {"gui", "copy"}
Free == "nobody"

\* Tasks that need exclusive access and those that take none.
CardTask == {"list", "format", "delete", "dac", "read", "write", "copy"}

\* The page is shown for the first time and reads the directory (Activate).
RegInit ==
  /\ card \in {SetToSeq(S) : S \in SUBSET CardFile}
  /\ excl = Free /\ blockSD = 0
  /\ todo = [t \in Worker |-> IF t = "gui" THEN << "list", "check" >> ELSE << >>]
  /\ at = [t \in Worker |-> "try"]
  /\ tries = [t \in Worker |-> 0]
  /\ listed = << >> /\ dirSD = << >> /\ sel = {}
  /\ hidden = {} /\ disabled = {} /\ gate = TRUE /\ serving = TRUE
  /\ testing = FALSE /\ rtc = "off" /\ posted = << >>
  /\ fetched = {} /\ clicks = 0

Task(t) == IF todo[t] = << >> THEN "none" ELSE Head(todo[t])

\* Does the GUI thread take messages?
Pumping == Task("gui") = "none" \/ Task("gui") = "modal"

\* The thread t goes on with the tasks rest.
GoesOn(t, rest) ==
  /\ todo' = [todo EXCEPT ![t] = rest]
  /\ at' = [at EXCEPT ![t] = "try"] /\ tries' = [tries EXCEPT ![t] = 0]

Stays(t, place) ==
  /\ at' = [at EXCEPT ![t] = place] /\ UNCHANGED << todo, tries >>

----------------------------------------------------------------------------
\* Exclusive access.

\* Files are written with a single attempt, everything else with one attempt
\* and then up to Tries + 1 further ones, a second apart.
LastTry(t) == IF Task(t) = "write" THEN 1 ELSE Tries + 2

\* What is left to do when the first task of t got no access.
WithoutAccess(t) ==
  CASE Task(t) = "dac" -> Tail(Tail(todo[t]))   \* nothing deleted: no new list
    [] Task(t) = "copy" -> << "serve" >>
    [] OTHER -> Tail(todo[t])

\* readSdState, formatSd and deleteFilesFromSd that gave up; initSdState shows
\* an empty list and clears the block.
GivesUp(t) ==
  /\ GoesOn(t, WithoutAccess(t))
  /\ IF Task(t) = "list" THEN listed' = << >> /\ sel' = {} /\ blockSD' = 0
     ELSE UNCHANGED << listed, sel, blockSD >>

\* The driver refuses: somebody has access, or it has other reasons.
Refused(t) ==
  /\ Task(t) \in CardTask /\ at[t] = "try"
  /\ IF tries[t] + 1 = LastTry(t) THEN GivesUp(t)
     ELSE /\ tries' = [tries EXCEPT ![t] = @ + 1]
          /\ UNCHANGED << todo, at, listed, sel, blockSD >>
  /\ UNCHANGED << card, excl, dirSD, hidden, disabled, gate, serving, testing, rtc, posted,
                  fetched, clicks >>

\* Access is granted.  On the last attempt but one the count has reached its
\* limit, and the code takes the success for a failure.  A download that was
\* refused at first begins again, with a first attempt of its own.
Granted(t) ==
  /\ Task(t) \in CardTask /\ at[t] = "try" /\ excl = Free
  /\ excl' = t
  /\ IF tries[t] = Tries + 1 THEN GivesUp(t)
     ELSE /\ IF Task(t) = "copy" /\ tries[t] > 0
             THEN tries' = [tries EXCEPT ![t] = 0] /\ UNCHANGED << todo, at >>
             ELSE IF Task(t) = "copy"
             THEN GoesOn(t, << "enable", "shut", "config", "files", "close", "list",
                               "open", "disable", "serve" >>)
             ELSE Stays(t, "in")
          /\ UNCHANGED << listed, sel, blockSD >>
  /\ UNCHANGED << card, dirSD, hidden, disabled, gate, serving, testing, rtc, posted, fetched,
                  clicks >>

\* The driver takes the access back from whoever has it.
Released == excl' = Free

----------------------------------------------------------------------------
\* The card.

\* initSdState with the answer of the card: the list is emptied first, the
\* vector of the entries is not.
ShowList(ok) ==
  /\ listed' = IF ok THEN card ELSE << >>
  /\ dirSD' = IF ok THEN dirSD \o card ELSE dirSD
  /\ sel' = {} /\ blockSD' = 0

\* readSdState and initSdState; the lines of the list belong to the GUI thread.
List(t, ok) ==
  /\ Task(t) = "list" /\ at[t] = "in" /\ (t = "copy" => Pumping)
  /\ ShowList(ok) /\ Released /\ GoesOn(t, Tail(todo[t]))
  /\ UNCHANGED << card, hidden, disabled, gate, serving, testing, rtc, posted, fetched, clicks >>

\* formatSd, deleteFilesFromSd: the commands work or the access is given back.
Erase(t, gone) ==
  /\ Task(t) \in {"format", "delete", "dac"} /\ at[t] = "in"
  /\ card' = SelectSeq(card, LAMBDA f : f \notin gone)
  /\ Task(t) = "dac" => gone = {}
  /\ Task(t) = "delete" => Cfg \notin gone
  /\ Task(t) = "format" => gone \in {{}, CardFile}
  /\ Released /\ GoesOn(t, Tail(todo[t]))
  /\ UNCHANGED << blockSD, listed, dirSD, sel, hidden, disabled, gate, serving, testing, rtc,
                  posted, fetched, clicks >>

\* writeSdFileToPc in the GUI thread waits until the block is cleared, without
\* taking messages; the file is read and the access given back.
Read ==
  /\ Task("gui") = "read" /\ at["gui"] = "in" /\ blockSD = 0
  /\ Released /\ GoesOn("gui", Tail(todo["gui"]))
  /\ UNCHANGED << card, blockSD, listed, dirSD, sel, hidden, disabled, gate, serving, testing,
                  rtc, posted, fetched, clicks >>

\* WriteFileToSD lists the card without giving the access back, unless the
\* card does not answer, and then gives it back.
Write(ok) ==
  /\ Task("gui") = "write"
  /\ \/ at["gui"] = "in" /\ ShowList(ok) /\ Stays("gui", "end")
        /\ excl' = IF ok THEN excl ELSE Free
     \/ ok /\ at["gui"] = "end" /\ Released /\ GoesOn("gui", Tail(todo["gui"]))
        /\ UNCHANGED << listed, dirSD, sel, blockSD >>
  /\ UNCHANGED << card, hidden, disabled, gate, serving, testing, rtc, posted, fetched, clicks >>

----------------------------------------------------------------------------
\* What the user does.

Button == {"settings", "remove", "download", "format", "update", "rtc"}

Click(b) ==
  /\ clicks < MaxClicks /\ clicks' = clicks + 1
  /\ Task("gui") = "none" /\ b \notin hidden \cup disabled
  /\ UNCHANGED << card, excl, blockSD, listed, dirSD, rtc, posted, fetched >>

Starts(t, tasks) ==
  /\ todo' = [todo EXCEPT ![t] = tasks]
  /\ UNCHANGED << at, tries, hidden, disabled, gate, testing >>

\* After the first list: without a configuration on the card the one in the
\* recorder's memory is saved there, with or without access.
CheckCfg ==
  /\ Task("gui") = "check"
  /\ IF Cfg \in Range(listed)
     THEN GoesOn("gui", Tail(todo["gui"])) /\ UNCHANGED << card, excl, gate, dirSD >>
     ELSE /\ card' \in {card, IF Cfg \in Range(card) THEN card ELSE Append(card, Cfg)}
          /\ Released /\ gate' = TRUE /\ dirSD' = << >>
          /\ GoesOn("gui", << "list" >>)
  /\ UNCHANGED << blockSD, listed, sel, hidden, disabled, serving, testing, rtc,
                  posted, fetched, clicks >>

ClickUpdate ==
  /\ Click("update") /\ Starts("gui", << "list" >>)
  /\ UNCHANGED << serving, sel >>

\* The user is asked after the data were stopped.
ClickFormat ==
  /\ Click("format") /\ serving' = FALSE
  /\ \/ Starts("gui", << "format", "list", "serve" >>)
     \/ Starts("gui", << "serve" >>)
  /\ UNCHANGED sel

ClickRemove ==
  /\ Click("remove") /\ listed # << >>
  /\ Starts("gui", << "delete", "list" >>) /\ UNCHANGED << serving, sel >>

\* The parameters of the registration: read, edited in a modal dialog, written.
ClickSettings ==
  /\ Click("settings")
  /\ Starts("gui", << "read", "dac", "list", "modal", "write", "list", "write", "list" >>)
  /\ UNCHANGED << serving, sel >>

\* OnBnClickedButtonGoToDownload.  The code does not look whether a copy thread
\* runs: its button is hidden only once the thread has been granted access, so
\* a click before that starts a second one.  Here there is one at a time.
ClickDownload ==
  /\ Click("download") /\ Task("copy") = "none"
  /\ sel' \in {s \in SUBSET DOMAIN listed : s # {}}
  /\ Starts("copy", << "begin" >>) /\ UNCHANGED serving

\* The dialog of the parameters ends.
EndModal ==
  /\ Task("gui") = "modal" /\ GoesOn("gui", Tail(todo["gui"]))
  /\ UNCHANGED << card, excl, blockSD, listed, dirSD, sel, hidden, disabled, gate, serving,
                  testing, rtc, posted, fetched, clicks >>

\* _server.Start at the end of a handler or of the copy thread.
Serve(t) ==
  /\ Task(t) = "serve" /\ serving' = TRUE /\ GoesOn(t, Tail(todo[t]))
  /\ UNCHANGED << card, excl, blockSD, listed, dirSD, sel, hidden, disabled, gate, testing, rtc,
                  posted, fetched, clicks >>

----------------------------------------------------------------------------
\* CopySdToPc.

CopyBegins ==
  /\ Task("copy") = "begin" /\ serving' = FALSE /\ GoesOn("copy", << "copy" >>)
  /\ UNCHANGED << card, excl, blockSD, listed, dirSD, sel, hidden, disabled, gate, testing, rtc,
                  posted, fetched, clicks >>

\* Mutant: the parameters of the registration stay within reach.
EnableKeepsSettings == {"remove", "download"}

\* The buttons a copying page hides; three more are disabled.
EnableCopyIndicators == {"settings", "remove", "download"}

CopyDisables == {"format", "update", "rtc"}

\* Messages to the page and to the tabs, each of which waits for the GUI thread.
CopySends ==
  /\ Task("copy") \in {"enable", "shut", "open"} /\ Pumping
  /\ IF Task("copy") = "enable"
     THEN hidden' = EnableCopyIndicators /\ disabled' = disabled \cup CopyDisables
     ELSE UNCHANGED << hidden, disabled >>
  /\ gate' = CASE Task("copy") = "shut" -> FALSE
               [] Task("copy") = "open" -> TRUE
               [] OTHER -> gate
  /\ GoesOn("copy", Tail(todo["copy"]))
  /\ UNCHANGED << card, excl, blockSD, listed, dirSD, sel, serving, testing, rtc, posted,
                  fetched, clicks >>

\* Mutant: a cancelled download leaves the tabs locked.
CancelledLocked == << "serve", "disable", "list" >>

\* What is left of a download that was cancelled for want of a configuration.
Cancelled == << "serve", "open", "disable", "list" >>

\* The configuration is fetched from the card, or from the recorder's memory if
\* the two differ; without one the user may cancel.
FetchConfig ==
  /\ Task("copy") = "config" /\ blockSD = 0 /\ Pumping
  /\ \/ GoesOn("copy", Tail(todo["copy"])) /\ UNCHANGED excl
     \/ Released /\ GoesOn("copy", Cancelled)
  /\ UNCHANGED << card, blockSD, listed, dirSD, sel, hidden, disabled, gate, serving, testing,
                  rtc, posted, fetched, clicks >>

\* The selected lines after the first one.
Later == {j \in sel : \E i \in sel : i < j}

SdListFileSize(i) == IF i \in DOMAIN dirSD THEN dirSD[i] ELSE Free

\* The next selected line; SmartwriteSdFileToPc sets the block and takes the
\* size from the vector.
FetchBegins ==
  /\ Task("copy") = "files" /\ at["copy"] \in {"try", "second"} /\ blockSD = 0
  /\ sel # {} /\ blockSD' = 1
  /\ Stays("copy", IF at["copy"] = "try" THEN "in" ELSE "in second")
  /\ LET i == CHOOSE i \in sel : \A j \in sel : i <= j
     IN  fetched' = fetched \cup {<< listed[i], SdListFileSize(i) >>}
  /\ UNCHANGED << card, excl, listed, dirSD, sel, hidden, disabled, gate, serving,
                  testing, rtc, posted, clicks >>

\* Every part that arrives is reported to the page; in the end the block is
\* cleared.  After a failure the user may break the download off, leave the file
\* or have it fetched again: for either the access is given up first.
FetchEnds ==
  /\ Task("copy") = "files" /\ at["copy"] \in {"in", "in second"} /\ Pumping
  /\ blockSD' = 0
  /\ \/ sel' = Later /\ Stays("copy", "try") /\ UNCHANGED excl
     \/ /\ at["copy"] = "in"
        /\ \/ sel' = {} /\ Stays("copy", "try") /\ UNCHANGED excl
           \/ sel' = Later /\ Released /\ Stays("copy", "leave")
           \/ sel' = sel /\ Released /\ Stays("copy", "again")
  /\ UNCHANGED << card, listed, dirSD, hidden, disabled, gate, serving, testing, rtc,
                  posted, fetched, clicks >>

\* The access is granted again at some attempt, or at none of them; the next
\* file is fetched in either case.
Reopen ==
  /\ Task("copy") = "files" /\ at["copy"] \in {"leave", "again"}
  /\ \/ /\ excl = Free /\ excl' = "copy"
        /\ Stays("copy", IF at["copy"] = "again" THEN "second" ELSE "try")
        /\ UNCHANGED sel
     \/ /\ sel' = IF at["copy"] = "again" THEN Later ELSE sel
        /\ Stays("copy", "try") /\ UNCHANGED excl
  /\ UNCHANGED << card, blockSD, listed, dirSD, hidden, disabled, gate, serving,
                  testing, rtc, posted, fetched, clicks >>

\* A list that was emptied meanwhile has no selected lines any more.
FetchedAll ==
  /\ Task("copy") = "files" /\ at["copy"] \in {"try", "second"} /\ sel = {}
  /\ GoesOn("copy", Tail(todo["copy"]))
  /\ UNCHANGED << card, excl, blockSD, listed, dirSD, sel, hidden, disabled, gate, serving,
                  testing, rtc, posted, fetched, clicks >>

CopyCloses ==
  /\ Task("copy") = "close" /\ Released /\ GoesOn("copy", Tail(todo["copy"]))
  /\ UNCHANGED << card, blockSD, listed, dirSD, sel, hidden, disabled, gate, serving, testing,
                  rtc, posted, fetched, clicks >>

Disable ==
  /\ Task("copy") = "disable" /\ posted' = Append(posted, "copied")
  /\ GoesOn("copy", Tail(todo["copy"]))
  /\ UNCHANGED << card, excl, blockSD, listed, dirSD, sel, hidden, disabled, gate, serving,
                  testing, rtc, fetched, clicks >>

----------------------------------------------------------------------------
\* The test of the clock.

\* One click starts the test, the next one ends it and joins the thread, which
\* waits for nobody.
ClickTestRtc ==
  /\ clicks < MaxClicks /\ clicks' = clicks + 1
  /\ Task("gui") = "none" /\ "rtc" \notin hidden \cup disabled
  /\ testing' = ~testing
  /\ IF testing THEN todo' = [todo EXCEPT !["gui"] = << "join" >>] /\ UNCHANGED rtc
     ELSE rtc = "off" /\ rtc' = "begins" /\ UNCHANGED todo
  /\ UNCHANGED << card, excl, blockSD, at, tries, listed, dirSD, sel, hidden, disabled,
                  gate, serving, posted, fetched >>

Joined ==
  /\ Task("gui") = "join" /\ rtc = "off" /\ GoesOn("gui", << >>)
  /\ UNCHANGED << card, excl, blockSD, listed, dirSD, sel, hidden, disabled, gate,
                  serving, testing, rtc, posted, fetched, clicks >>

\* testRtc: the tabs are locked and the buttons disabled by messages; the test
\* ends when the user, its time or the recorder says so.
TestRtc ==
  /\ \/ rtc = "begins" /\ rtc' = "runs" /\ serving' = FALSE
        /\ posted' = posted \o << "test", "shut" >> /\ UNCHANGED testing
     \/ rtc = "runs" /\ rtc' = "ends" /\ testing' = FALSE
        /\ posted' = posted \o << "tested", "open" >> /\ UNCHANGED serving
     \/ rtc = "ends" /\ rtc' = "off" /\ serving' = TRUE /\ UNCHANGED << posted, testing >>
  /\ UNCHANGED << card, excl, blockSD, todo, at, tries, listed, dirSD, sel, hidden,
                  disabled, gate, fetched, clicks >>

Take(message) ==
  /\ Pumping /\ posted # << >> /\ Head(posted) \in message /\ posted' = Tail(posted)
  /\ UNCHANGED << card, excl, blockSD, todo, at, tries, listed, dirSD, sel, serving,
                  testing, rtc, fetched, clicks >>

\* disableCopyIndicators
TakeCopied ==
  /\ Take({"copied"}) /\ hidden' = {} /\ disabled' = disabled \ CopyDisables
  /\ UNCHANGED gate

\* onTestRtc
TakeTest ==
  /\ Take({"test", "tested"})
  /\ disabled' = IF Head(posted) = "test" THEN disabled \cup (Button \ {"rtc"})
                 ELSE disabled \cap {"rtc"}
  /\ UNCHANGED << hidden, gate >>

\* OnUserRegistrator of the tabs.
TakeGate ==
  /\ Take({"shut", "open"}) /\ gate' = (Head(posted) = "open")
  /\ UNCHANGED << hidden, disabled >>

----------------------------------------------------------------------------
RegNext ==
  \/ \E t \in Worker :
       \/ Refused(t) \/ Granted(t) \/ Serve(t)
       \/ \E ok \in BOOLEAN : List(t, ok)
       \/ \E gone \in SUBSET CardFile : Erase(t, gone)
  \/ Read \/ CheckCfg \/ EndModal \/ Joined
  \/ \E ok \in BOOLEAN : Write(ok)
  \/ ClickUpdate \/ ClickFormat \/ ClickRemove \/ ClickSettings
  \/ ClickDownload \/ ClickTestRtc
  \/ CopyBegins \/ CopySends \/ FetchConfig \/ Reopen \/ FetchedAll \/ CopyCloses
  \/ Disable \/ TestRtc \/ TakeCopied \/ TakeTest \/ TakeGate
  \/ FetchBegins \/ FetchEnds

RegSpec == RegInit /\ [][RegNext]_regVars

----------------------------------------------------------------------------
\* The GUI thread never waits for the copy thread's block while the copy thread
\* waits for the GUI thread to take a message (registrator_zet048_tab.cpp:750,
\* 672): nothing would end that.
NoStandOff ==
  ~(/\ Task("gui") = "read" /\ at["gui"] = "in"
    /\ Task("copy") = "files" /\ at["copy"] \in {"in", "in second"}
    /\ blockSD = 1)

\* Once all threads are done and all messages taken the page is as before: the
\* tabs can be changed, every button is back and the server delivers data.
RestedIsRestored ==
  (\A t \in Worker : Task(t) = "none") /\ rtc = "off" /\ posted = << >>
    => gate /\ serving /\ hidden = {} /\ disabled = {}

=============================================================================
